----------------------------- MODULE FramingProofs -----------------------------
(***************************************************************************)
(* Theorems about Framing, for any sizes of packets, buffers, chunks and   *)
(* receptions, and whatever bytes without a length field read as.          *)
(***************************************************************************)
EXTENDS MCFraming, SequenceTheorems, TLAPS

Byte == [pkt : Nat, at : Nat]

FramingTypes ==
  /\ sendBuf \in [Peers -> Seq(Byte)] /\ sendSize \in [Peers -> Nat] /\ sent \in [Peers -> Nat]
  /\ recvBuf \in [Peers -> Seq(Byte)] /\ readPos \in [Peers -> Nat] /\ recvSize \in [Peers -> Nat]
  /\ kernel \in [Peers -> Seq(Byte)] /\ msg \in [Peers -> Seq(Byte)]
  /\ left \in [Peers -> Nat] /\ taken \in [Peers -> Nat]
  /\ pc \in [Peers -> {"wait", "send", "parse", "removed", "thrown"}]

\* Outside send, no part of a message has been taken.
NothingTaken == \A p \in Peers : pc[p] # "send" => taken[p] = 0

FramingInv == FramingTypes /\ BuffersInside /\ NothingTaken

\* getChunkSize rounds up.
LEMMA ChunkFits ==
  ASSUME NEW n \in Nat
  PROVE  getChunkSize(n) \in Nat /\ n <= getChunkSize(n)
<1> DEFINE m == n + CHUNK - 1
           q == m \div CHUNK
<1>1. CHUNK \in Nat \ {0} /\ m \in Nat
  BY FramingAssumption
<1>2. q \in Nat /\ m < q * CHUNK + CHUNK /\ q * CHUNK \in Nat
  <2> HIDE DEF m
  <2>1. QED
    BY <1>1
<1>3. getChunkSize(n) = q * CHUNK
  BY DEF getChunkSize
<1> HIDE DEF q
<1>4. QED
  BY <1>1, <1>2, <1>3

\* A part of a sequence.
LEMMA PartOf ==
  ASSUME NEW s \in Seq(Byte), NEW m \in Nat \ {0}, NEW n \in 0..Len(s), m <= n + 1
  PROVE  SubSeq(s, m, n) \in Seq(Byte) /\ Len(SubSeq(s, m, n)) = n - m + 1
<1>1. \A i \in m..n : s[i] \in Byte
  OBVIOUS
<1>2. QED
  BY <1>1, SubSeqProperties

\* Packets are sequences of bytes.
LEMMA PacketBytes ==
  ASSUME NEW n \in Nat
  PROVE  PacketSize \in Nat \ {0} /\ Packet(n) \in Seq(Byte) /\ Len(Packet(n)) = PacketSize
<1>1. PacketSize \in Nat \ {0}
  BY FramingAssumption DEF PacketSize
<1>2. \A i \in 1..PacketSize : [pkt |-> n, at |-> i - 1] \in Byte
  BY <1>1 DEF Byte
<1>3. QED
  BY <1>1, <1>2 DEF Packet

\* A complete packet lies within what has been received.
LEMMA CompleteInside ==
  ASSUME FramingTypes, NEW p \in Peers, NEW len \in CompletePacketLen(p) \cap 0..MAX_PACKET_LEN - 1
  PROVE  len \in Nat /\ HEAD_LEN + len \in 0..Len(recvBuf[p]) /\ len < MAX_PACKET_LEN
<1>1. HEAD_LEN \in Nat /\ MAX_PACKET_LEN \in Nat /\ len \in Nat /\ len < MAX_PACKET_LEN
  BY FramingAssumption
<1>2. Len(recvBuf[p]) \in Nat
  BY DEF FramingTypes
<1>3. ~(Len(recvBuf[p]) < HEAD_LEN)
  BY <1>1 DEF CompletePacketLen
<1>4. PICK n \in Lengths(p) : len = IF n >= MAX_PACKET_LEN THEN MAX_PACKET_LEN
                                    ELSE IF Len(recvBuf[p]) < n + HEAD_LEN THEN -1 ELSE n
  BY <1>3 DEF CompletePacketLen
<1>5. n \in Nat
  BY <1>4, FramingAssumption DEF Lengths
<1>6. len = n /\ ~(Len(recvBuf[p]) < n + HEAD_LEN)
  BY <1>1, <1>4, <1>5
<1>7. QED
  BY <1>1, <1>2, <1>5, <1>6

\* Writing a packet keeps a send buffer within its size.
LEMMA SendFits ==
  ASSUME FramingInv, NEW p \in Peers, SendData(p)
  PROVE  /\ sendBuf' \in [Peers -> Seq(Byte)] /\ sendSize' \in [Peers -> Nat]
         /\ sent' \in [Peers -> Nat]
         /\ \A q \in Peers : Len(sendBuf'[q]) <= sendSize'[q]
<1> DEFINE remain == sendSize[p] - Len(sendBuf[p])
           grown == sendSize[p] + PacketSize - remain
<1>1. sent[p] + 1 \in Nat /\ sendBuf[p] \in Seq(Byte) /\ sendSize[p] \in Nat
      /\ Len(sendBuf[p]) \in Nat /\ Len(sendBuf[p]) <= sendSize[p]
  BY DEF FramingInv, FramingTypes, BuffersInside
<1>2. PacketSize \in Nat \ {0} /\ Packet(sent[p] + 1) \in Seq(Byte)
      /\ Len(Packet(sent[p] + 1)) = PacketSize
  BY <1>1, PacketBytes
<1>3. sendBuf[p] \o Packet(sent[p] + 1) \in Seq(Byte)
      /\ Len(sendBuf[p] \o Packet(sent[p] + 1)) = Len(sendBuf[p]) + PacketSize
  BY <1>1, <1>2, ConcatProperties
<1>4. sendBuf' = [sendBuf EXCEPT ![p] = sendBuf[p] \o Packet(sent[p] + 1)]
      /\ sent' = [sent EXCEPT ![p] = sent[p] + 1]
      /\ sendSize' = IF remain < PacketSize THEN [sendSize EXCEPT ![p] = getChunkSize(grown)]
                     ELSE sendSize
  BY DEF SendData
<1>5. grown \in Nat /\ grown = Len(sendBuf[p]) + PacketSize
  BY <1>1, <1>2
<1>6. getChunkSize(grown) \in Nat /\ grown <= getChunkSize(grown)
  <2> HIDE DEF grown
  <2>1. QED
    BY <1>5, ChunkFits
<1>7. sendSize'[p] \in Nat /\ Len(sendBuf'[p]) <= sendSize'[p]
  <2>1. sendBuf'[p] = sendBuf[p] \o Packet(sent[p] + 1)
    BY <1>4 DEF FramingInv, FramingTypes
  <2>2. CASE remain < PacketSize
    <3>1. sendSize'[p] = getChunkSize(grown)
      BY <1>4, <2>2 DEF FramingInv, FramingTypes
    <3> HIDE DEF grown
    <3>2. QED
      BY <1>1, <1>2, <1>3, <1>5, <1>6, <2>1, <3>1
  <2>3. CASE ~(remain < PacketSize)
    <3>1. sendSize'[p] = sendSize[p]
      BY <1>4, <2>3
    <3>2. Len(sendBuf[p]) + PacketSize <= sendSize[p]
      BY <1>1, <1>2, <2>3
    <3>3. QED
      BY <1>1, <1>3, <2>1, <3>1, <3>2
  <2>4. QED
    BY <2>2, <2>3
<1>8. ASSUME NEW q \in Peers, q # p
      PROVE  sendSize'[q] = sendSize[q] /\ sendBuf'[q] = sendBuf[q] /\ Len(sendBuf[q]) <= sendSize[q]
  <2> HIDE DEF grown, remain
  <2>1. QED
    BY <1>4, <1>8 DEF FramingInv, FramingTypes, BuffersInside
<1>9. sendSize' \in [Peers -> Nat]
  <2> HIDE DEF grown, remain
  <2>1. QED
    BY <1>4, <1>6 DEF FramingInv, FramingTypes
<1>10. QED
  BY <1>1, <1>3, <1>4, <1>7, <1>8, <1>9 DEF FramingInv, FramingTypes

\* The rest of the state is inside its bounds when none of it changes.
LEMMA SendDataInductive ==
  ASSUME FramingInv, NEW p \in Peers, SendData(p),
         recvBuf' \in [Peers -> Seq(Byte)], readPos' \in [Peers -> Nat], recvSize' = recvSize,
         pc' \in [Peers -> {"wait", "send", "parse", "removed", "thrown"}],
         \A q \in Peers : WritePos(q)' = WritePos(q),
         \A q \in Peers : pc'[q] # "send" => pc[q] # "send",
         UNCHANGED <<sending, kernel>>
  PROVE  FramingInv'
<1>1. /\ sendBuf' \in [Peers -> Seq(Byte)] /\ sendSize' \in [Peers -> Nat]
      /\ sent' \in [Peers -> Nat] /\ \A q \in Peers : Len(sendBuf'[q]) <= sendSize'[q]
  BY SendFits
<1>2. FramingTypes'
  BY <1>1 DEF FramingInv, FramingTypes, sending
<1>3. BuffersInside'
  <2> SUFFICES ASSUME NEW q \in Peers
               PROVE  /\ WritePos(q)' <= recvSize'[q]
                      /\ Len(sendBuf'[q]) <= sendSize'[q]
                      /\ taken'[q] <= left'[q] /\ left'[q] <= Len(msg'[q])
    BY DEF BuffersInside
  <2>1. QED
    BY <1>1 DEF FramingInv, BuffersInside, sending
<1>4. NothingTaken'
  BY DEF FramingInv, NothingTaken, sending
<1>5. QED
  BY <1>2, <1>3, <1>4 DEF FramingInv

\* The same when no packet is written.
LEMMA ReceivingInductive ==
  ASSUME FramingInv,
         recvBuf' \in [Peers -> Seq(Byte)], readPos' \in [Peers -> Nat], recvSize' = recvSize,
         pc' \in [Peers -> {"wait", "send", "parse", "removed", "thrown"}],
         \A q \in Peers : WritePos(q)' = WritePos(q),
         \A q \in Peers : pc'[q] # "send" => pc[q] # "send",
         UNCHANGED <<ends, sending, kernel>>
  PROVE  FramingInv'
<1>1. FramingTypes'
  BY DEF FramingInv, FramingTypes, ends, sending
<1>2. BuffersInside'
  <2> SUFFICES ASSUME NEW q \in Peers
               PROVE  /\ WritePos(q)' <= recvSize'[q]
                      /\ Len(sendBuf'[q]) <= sendSize'[q]
                      /\ taken'[q] <= left'[q] /\ left'[q] <= Len(msg'[q])
    BY DEF BuffersInside
  <2>1. QED
    BY DEF FramingInv, BuffersInside, ends, sending
<1>3. NothingTaken'
  BY DEF FramingInv, NothingTaken, sending
<1>4. QED
  BY <1>1, <1>2, <1>3 DEF FramingInv

\* The buffers are empty and have their size at first.
LEMMA FramingInitial == Init => FramingInv
<1> SUFFICES ASSUME Init PROVE FramingInv
  OBVIOUS
<1>1. CHUNK \in Nat \ {0} /\ <<>> \in Seq(Byte) /\ Len(<<>>) = 0
  BY FramingAssumption
<1>2. FramingTypes
  BY <1>1 DEF Init, FramingTypes
<1>3. BuffersInside
  BY <1>1 DEF Init, BuffersInside, WritePos
<1>4. NothingTaken
  BY DEF Init, NothingTaken
<1>5. QED
  BY <1>2, <1>3, <1>4 DEF FramingInv

\* What the kernel takes, and what is left after an alarm, stays within the message.
LEMMA SendingInductive ==
  ASSUME FramingInv, NEW p \in Peers, SyncSendBuf(p) \/ Send(p) \/ SendInterrupted(p)
  PROVE  FramingInv'
<1>1. CASE SyncSendBuf(p)
  <2>1. /\ pc[p] = "wait" /\ msg' = [msg EXCEPT ![p] = sendBuf[p]]
        /\ left' = [left EXCEPT ![p] = Len(sendBuf[p])]
        /\ sendBuf' = [sendBuf EXCEPT ![p] = <<>>] /\ pc' = [pc EXCEPT ![p] = "send"]
        /\ UNCHANGED <<sendSize, sent, recvBuf, readPos, recvSize, taken, kernel>>
    BY <1>1 DEF SyncSendBuf, receiving
  <2>2. FramingTypes'
    BY SMTT(40), <2>1 DEF FramingInv, FramingTypes
  <2>3. taken[p] = 0
    BY <2>1 DEF FramingInv, NothingTaken
  <2>4. BuffersInside'
    <3> SUFFICES ASSUME NEW q \in Peers
                 PROVE  /\ WritePos(q)' <= recvSize'[q]
                        /\ Len(sendBuf'[q]) <= sendSize'[q]
                        /\ taken'[q] <= left'[q] /\ left'[q] <= Len(msg'[q])
      BY DEF BuffersInside
    <3>1. WritePos(q)' = WritePos(q)
      BY <2>1 DEF WritePos
    <3>2. CASE q = p
      BY <2>1, <2>3, <3>1, <3>2 DEF FramingInv, FramingTypes, BuffersInside
    <3>3. CASE q # p
      BY <2>1, <3>1, <3>3 DEF FramingInv, FramingTypes, BuffersInside
    <3>4. QED
      BY <3>2, <3>3
  <2>5. NothingTaken'
    BY <2>1 DEF FramingInv, FramingTypes, NothingTaken
  <2>6. QED
    BY <2>2, <2>4, <2>5 DEF FramingInv
<1>2. CASE Send(p)
  <2> DEFINE n == Least(left[p] - taken[p], Capacity - Len(kernel[p]))
             done == taken[p] + n = left[p]
  <2>1. /\ pc[p] = "send" /\ n > 0
        /\ kernel' = [kernel EXCEPT ![p] = @ \o SubSeq(msg[p], taken[p] + 1, taken[p] + n)]
        /\ taken' = [taken EXCEPT ![p] = IF done THEN 0 ELSE @ + n]
        /\ left' = [left EXCEPT ![p] = IF done THEN 0 ELSE @]
        /\ msg' = [msg EXCEPT ![p] = IF done THEN <<>> ELSE @]
        /\ pc' = [pc EXCEPT ![p] = IF done THEN "wait" ELSE "send"]
        /\ UNCHANGED <<sendBuf, sendSize, sent, recvBuf, readPos, recvSize>>
    BY <1>2 DEF Send, ends, receiving
  <2>2. /\ taken[p] \in Nat /\ left[p] \in Nat /\ msg[p] \in Seq(Byte) /\ kernel[p] \in Seq(Byte)
        /\ Len(kernel[p]) \in Nat /\ Len(msg[p]) \in Nat /\ Capacity \in Nat
        /\ taken[p] <= left[p] /\ left[p] <= Len(msg[p])
    BY SMTT(40), FramingAssumption DEF FramingInv, FramingTypes, BuffersInside
  <2>3. n \in Nat \ {0} /\ taken[p] + n <= left[p]
    <3>1. n > 0
      BY <2>1
    <3>2. n \in Int /\ n <= left[p] - taken[p]
      BY <2>2 DEF Least
    <3> HIDE DEF n
    <3>3. QED
      BY <2>2, <3>1, <3>2
  <2> HIDE DEF n, done
  <2>4. SubSeq(msg[p], taken[p] + 1, taken[p] + n) \in Seq(Byte)
    BY <2>2, <2>3, PartOf
  <2>5. kernel' \in [Peers -> Seq(Byte)]
    BY <2>1, <2>2, <2>4, ConcatProperties DEF FramingInv, FramingTypes
  <2>6. FramingTypes'
    <3>1. <<>> \in Seq(Byte) /\ taken[p] + n \in Nat
      BY <2>2, <2>3
    <3>2. taken' \in [Peers -> Nat] /\ left' \in [Peers -> Nat] /\ msg' \in [Peers -> Seq(Byte)]
      BY <2>1, <2>2, <3>1 DEF FramingInv, FramingTypes
    <3>3. QED
      BY <2>1, <2>5, <3>2 DEF FramingInv, FramingTypes
  <2>7. BuffersInside'
    <3> SUFFICES ASSUME NEW q \in Peers
                 PROVE  /\ WritePos(q)' <= recvSize'[q]
                        /\ Len(sendBuf'[q]) <= sendSize'[q]
                        /\ taken'[q] <= left'[q] /\ left'[q] <= Len(msg'[q])
      BY DEF BuffersInside
    <3>1. WritePos(q)' = WritePos(q)
      BY <2>1 DEF WritePos
    <3>2. CASE q = p
      BY <2>1, <2>2, <2>3, <3>1, <3>2 DEF FramingInv, FramingTypes, BuffersInside, done
    <3>3. CASE q # p
      BY <2>1, <3>1, <3>3 DEF FramingInv, FramingTypes, BuffersInside
    <3>4. QED
      BY <3>2, <3>3
  <2>8. NothingTaken'
    BY <2>1 DEF FramingInv, FramingTypes, NothingTaken
  <2>9. QED
    BY <2>6, <2>7, <2>8 DEF FramingInv
<1>3. CASE SendInterrupted(p)
  <2>1. /\ pc[p] = "send"
        /\ left' = [left EXCEPT ![p] = @ - taken[p]] /\ taken' = [taken EXCEPT ![p] = 0]
        /\ UNCHANGED <<sendBuf, sendSize, sent, recvBuf, readPos, recvSize, msg, kernel, pc>>
    BY <1>3 DEF SendInterrupted, ends, receiving
  <2>2. /\ taken[p] \in Nat /\ left[p] \in Nat /\ Len(msg[p]) \in Nat
        /\ taken[p] <= left[p] /\ left[p] <= Len(msg[p])
    BY DEF FramingInv, FramingTypes, BuffersInside
  <2>3. FramingTypes'
    BY SMTT(40), <2>1, <2>2 DEF FramingInv, FramingTypes
  <2>4. BuffersInside'
    <3> SUFFICES ASSUME NEW q \in Peers
                 PROVE  /\ WritePos(q)' <= recvSize'[q]
                        /\ Len(sendBuf'[q]) <= sendSize'[q]
                        /\ taken'[q] <= left'[q] /\ left'[q] <= Len(msg'[q])
      BY DEF BuffersInside
    <3>1. WritePos(q)' = WritePos(q)
      BY <2>1 DEF WritePos
    <3>2. QED
      BY <2>1, <2>2, <3>1 DEF FramingInv, FramingTypes, BuffersInside
  <2>5. NothingTaken'
    BY <2>1 DEF FramingInv, FramingTypes, NothingTaken
  <2>6. QED
    BY <2>3, <2>4, <2>5 DEF FramingInv
<1>4. QED
  BY <1>1, <1>2, <1>3

\* Received bytes fit behind the ones kept, also when these are moved and the buffer grows.
LEMMA RcvBufferInductive ==
  ASSUME FramingInv, NEW p \in Peers, RcvBuffer(p)
  PROVE  FramingInv'
<1> DEFINE o == Other(p)
           remain == recvSize[p] - WritePos(p)
<1>1. o \in Peers
  BY DEF Peers, Other
<1>2. PICK len \in 1..Least(RecvMax, Len(kernel[o])) :
        /\ IF remain < len
           THEN /\ readPos' = [readPos EXCEPT ![p] = 0]
                /\ recvSize' = [recvSize EXCEPT ![p] = getChunkSize(@ + len - remain)]
           ELSE UNCHANGED <<readPos, recvSize>>
        /\ recvBuf' = [recvBuf EXCEPT ![p] = @ \o SubSeq(kernel[o], 1, len)]
        /\ kernel' = [kernel EXCEPT ![o] = SubSeq(@, len + 1, Len(@))]
  BY DEF RcvBuffer
<1>3. /\ pc[p] = "wait" /\ pc' = [pc EXCEPT ![p] = "parse"]
      /\ UNCHANGED <<sendBuf, sendSize, sent, msg, left, taken>>
  BY DEF RcvBuffer, ends, sending
<1> HIDE DEF o
<1>4. /\ recvBuf[p] \in Seq(Byte) /\ kernel[o] \in Seq(Byte) /\ readPos[p] \in Nat
      /\ recvSize[p] \in Nat /\ Len(recvBuf[p]) \in Nat /\ Len(kernel[o]) \in Nat
      /\ readPos[p] + Len(recvBuf[p]) <= recvSize[p]
      /\ remain = recvSize[p] - (readPos[p] + Len(recvBuf[p]))
  <2>1. recvBuf[p] \in Seq(Byte) /\ kernel[o] \in Seq(Byte) /\ readPos[p] \in Nat /\ recvSize[p] \in Nat
    BY <1>1 DEF FramingInv, FramingTypes
  <2>2. Len(recvBuf[p]) \in Nat /\ Len(kernel[o]) \in Nat
    BY <2>1
  <2>3. WritePos(p) <= recvSize[p] /\ WritePos(p) = readPos[p] + Len(recvBuf[p])
    BY DEF FramingInv, BuffersInside, WritePos
  <2>4. QED
    BY <2>1, <2>2, <2>3
<1>5. len \in Nat \ {0} /\ len <= Len(kernel[o])
  <2>1. RecvMax \in Nat
    BY FramingAssumption
  <2>2. Least(RecvMax, Len(kernel[o])) \in Nat /\ Least(RecvMax, Len(kernel[o])) <= Len(kernel[o])
    BY <1>4, <2>1 DEF Least
  <2>3. QED
    BY <2>2, <1>4
<1> HIDE DEF remain
<1>6. /\ SubSeq(kernel[o], 1, len) \in Seq(Byte) /\ Len(SubSeq(kernel[o], 1, len)) = len
      /\ SubSeq(kernel[o], len + 1, Len(kernel[o])) \in Seq(Byte)
  <2>1. SubSeq(kernel[o], 1, len) \in Seq(Byte) /\ Len(SubSeq(kernel[o], 1, len)) = len - 1 + 1
    BY <1>4, <1>5, PartOf
  <2>2. SubSeq(kernel[o], len + 1, Len(kernel[o])) \in Seq(Byte)
    BY <1>4, <1>5, PartOf
  <2>3. QED
    BY <2>1, <2>2, <1>5
<1>7. /\ recvBuf[p] \o SubSeq(kernel[o], 1, len) \in Seq(Byte)
      /\ Len(recvBuf[p] \o SubSeq(kernel[o], 1, len)) = Len(recvBuf[p]) + len
  BY <1>4, <1>6, ConcatProperties
<1>8. /\ recvBuf' \in [Peers -> Seq(Byte)] /\ kernel' \in [Peers -> Seq(Byte)]
      /\ Len(recvBuf'[p]) = Len(recvBuf[p]) + len
  BY <1>1, <1>2, <1>6, <1>7 DEF FramingInv, FramingTypes
<1>9. /\ readPos' \in [Peers -> Nat] /\ recvSize' \in [Peers -> Nat]
      /\ readPos'[p] + Len(recvBuf'[p]) <= recvSize'[p]
  <2>1. CASE remain < len
    <3> DEFINE grown == recvSize[p] + len - remain
    <3>1. grown = readPos[p] + Len(recvBuf[p]) + len /\ grown \in Nat
      BY SMTT(40), <1>4, <1>5
    <3>2. readPos' = [readPos EXCEPT ![p] = 0]
          /\ recvSize' = [recvSize EXCEPT ![p] = getChunkSize(grown)]
      BY <1>2, <2>1
    <3> HIDE DEF grown
    <3>3. getChunkSize(grown) \in Nat /\ grown <= getChunkSize(grown)
      BY <3>1, ChunkFits
    <3>4. readPos'[p] = 0 /\ recvSize'[p] = getChunkSize(grown)
      BY <3>2 DEF FramingInv, FramingTypes
    <3>5. readPos' \in [Peers -> Nat] /\ recvSize' \in [Peers -> Nat]
      BY <3>2, <3>3 DEF FramingInv, FramingTypes
    <3>6. readPos'[p] + Len(recvBuf'[p]) <= recvSize'[p]
      <4>1. Len(recvBuf'[p]) = Len(recvBuf[p]) + len
        BY <1>8
      <4>2. Len(recvBuf[p]) + len <= grown
        BY <1>4, <1>5, <3>1
      <4>3. QED
        BY <1>4, <1>5, <3>1, <3>3, <3>4, <4>1, <4>2
    <3>7. QED
      BY <3>5, <3>6
  <2>2. CASE ~(remain < len)
    <3>1. readPos' = readPos /\ recvSize' = recvSize
      BY <1>2, <2>2
    <3>2. readPos[p] + Len(recvBuf[p]) + len <= recvSize[p]
      BY <1>4, <1>5, <2>2
    <3>3. readPos' \in [Peers -> Nat] /\ recvSize' \in [Peers -> Nat]
      BY <3>1 DEF FramingInv, FramingTypes
    <3>4. readPos'[p] = readPos[p] /\ recvSize'[p] = recvSize[p]
      BY <3>1
    <3>5. Len(recvBuf'[p]) = Len(recvBuf[p]) + len
      BY <1>8
    <3>6. readPos'[p] + Len(recvBuf'[p]) <= recvSize'[p]
      BY <1>4, <1>5, <3>2, <3>4, <3>5
    <3>7. QED
      BY <3>3, <3>6
  <2>3. QED
    BY <2>1, <2>2
<1>10. FramingTypes'
  BY <1>3, <1>8, <1>9 DEF FramingInv, FramingTypes
<1>11. BuffersInside'
  <2> SUFFICES ASSUME NEW q \in Peers
               PROVE  /\ WritePos(q)' <= recvSize'[q]
                      /\ Len(sendBuf'[q]) <= sendSize'[q]
                      /\ taken'[q] <= left'[q] /\ left'[q] <= Len(msg'[q])
    BY DEF BuffersInside
  <2>1. Len(sendBuf'[q]) <= sendSize'[q] /\ taken'[q] <= left'[q] /\ left'[q] <= Len(msg'[q])
    BY <1>3 DEF FramingInv, BuffersInside
  <2>2. WritePos(q)' <= recvSize'[q]
    <3>1. CASE q = p
      BY <1>9, <3>1 DEF WritePos
    <3>2. CASE q # p
      <4>1. readPos'[q] = readPos[q] /\ recvSize'[q] = recvSize[q] /\ recvBuf'[q] = recvBuf[q]
        BY <1>2, <3>2 DEF FramingInv, FramingTypes
      <4>2. QED
        BY <4>1 DEF FramingInv, BuffersInside, WritePos
    <3>3. QED
      BY <3>1, <3>2
  <2>3. QED
    BY <2>1, <2>2
<1>12. NothingTaken'
  BY <1>3 DEF FramingInv, FramingTypes, NothingTaken
<1>13. QED
  BY <1>10, <1>11, <1>12 DEF FramingInv

\* Taking a packet moves readPos and leaves writePos where it is.
LEMMA TakePacket ==
  ASSUME FramingInv, NEW p \in Peers, NEW len \in CompletePacketLen(p) \cap 0..MAX_PACKET_LEN - 1,
         recvBuf' = [recvBuf EXCEPT ![p] = SubSeq(@, HEAD_LEN + len + 1, Len(@))],
         readPos' = [readPos EXCEPT ![p] = @ + HEAD_LEN + len]
  PROVE  /\ recvBuf' \in [Peers -> Seq(Byte)] /\ readPos' \in [Peers -> Nat]
         /\ \A q \in Peers : WritePos(q)' = WritePos(q)
<1>1. len \in Nat /\ HEAD_LEN + len \in 0..Len(recvBuf[p])
  BY CompleteInside DEF FramingInv
<1>2. HEAD_LEN \in Nat /\ recvBuf[p] \in Seq(Byte) /\ Len(recvBuf[p]) \in Nat /\ readPos[p] \in Nat
  BY FramingAssumption DEF FramingInv, FramingTypes
<1> DEFINE h == HEAD_LEN + len
           rest == SubSeq(recvBuf[p], h + 1, Len(recvBuf[p]))
<1>3. h \in Nat /\ h <= Len(recvBuf[p])
  BY <1>1, <1>2
<1>4. recvBuf' = [recvBuf EXCEPT ![p] = rest] /\ readPos' = [readPos EXCEPT ![p] = readPos[p] + h]
  <2>1. recvBuf' = [recvBuf EXCEPT ![p] = rest]
    OBVIOUS
  <2>2. readPos[p] + HEAD_LEN + len = readPos[p] + h
    BY <1>1, <1>2
  <2>3. readPos' = [readPos EXCEPT ![p] = readPos[p] + HEAD_LEN + len]
    OBVIOUS
  <2>4. QED
    BY <2>1, <2>2, <2>3
<1> HIDE DEF h
<1>5. rest \in Seq(Byte) /\ Len(rest) = Len(recvBuf[p]) - h
  <2>1. rest \in Seq(Byte) /\ Len(rest) = Len(recvBuf[p]) - (h + 1) + 1
    BY <1>2, <1>3, PartOf
  <2>2. QED
    BY <1>2, <1>3, <2>1
<1> HIDE DEF rest
<1>6. recvBuf' \in [Peers -> Seq(Byte)] /\ readPos' \in [Peers -> Nat]
  <2>1. recvBuf' \in [Peers -> Seq(Byte)]
    BY <1>4, <1>5 DEF FramingInv, FramingTypes
  <2>2. readPos[p] + h \in Nat
    BY <1>2, <1>3
  <2>3. readPos' \in [Peers -> Nat]
    BY <1>4, <2>2 DEF FramingInv, FramingTypes
  <2>4. QED
    BY <2>1, <2>3
<1>7. ASSUME NEW q \in Peers PROVE WritePos(q)' = WritePos(q)
  <2>1. CASE q = p
    <3>1. recvBuf'[p] = rest /\ readPos'[p] = readPos[p] + h
      BY <1>4 DEF FramingInv, FramingTypes
    <3>2. readPos'[p] + Len(recvBuf'[p]) = readPos[p] + Len(recvBuf[p])
      <4>1. Len(recvBuf'[p]) = Len(recvBuf[p]) - h /\ readPos'[p] = readPos[p] + h
        BY <1>5, <3>1
      <4>2. (readPos[p] + h) + (Len(recvBuf[p]) - h) = readPos[p] + Len(recvBuf[p])
        BY <1>2, <1>3
      <4>3. QED
        BY <4>1, <4>2
    <3>3. QED
      BY <2>1, <3>2 DEF WritePos
  <2>2. CASE q # p
    BY <1>4, <2>2 DEF WritePos, FramingInv, FramingTypes
  <2>3. QED
    BY <2>1, <2>2
<1>8. QED
  BY <1>6, <1>7

\* The rest of the state is inside its bounds when a packet is taken, or none.
LEMMA ParsingInductive ==
  ASSUME FramingInv, NEW p \in Peers, ReadBuffer(p) \/ NoPacket(p) \/ BadPacket(p)
  PROVE  FramingInv'
<1>1. CASE ReadBuffer(p)
  <2>1. PICK len \in CompletePacketLen(p) \cap 1..MAX_PACKET_LEN - 1 :
          /\ recvBuf' = [recvBuf EXCEPT ![p] = SubSeq(@, HEAD_LEN + len + 1, Len(@))]
          /\ readPos' = [readPos EXCEPT ![p] = @ + HEAD_LEN + len]
    BY <1>1 DEF ReadBuffer
  <2>2. SendData(p) \/ UNCHANGED ends
    BY <1>1 DEF ReadBuffer
  <2>3. UNCHANGED <<recvSize, sending, kernel, pc>>
    BY <1>1 DEF ReadBuffer
  <2>4. len \in CompletePacketLen(p) \cap 0..MAX_PACKET_LEN - 1
    BY <2>1, FramingAssumption
  <2>5. /\ recvBuf' \in [Peers -> Seq(Byte)] /\ readPos' \in [Peers -> Nat]
        /\ \A q \in Peers : WritePos(q)' = WritePos(q)
    BY <2>1, <2>4, TakePacket
  <2>6. pc' \in [Peers -> {"wait", "send", "parse", "removed", "thrown"}]
    BY <2>3 DEF FramingInv, FramingTypes
  <2>7. CASE SendData(p)
    BY <2>3, <2>5, <2>6, <2>7, SendDataInductive
  <2>8. CASE UNCHANGED ends
    BY <2>3, <2>5, <2>6, <2>8, ReceivingInductive
  <2>9. QED
    BY <2>2, <2>7, <2>8
<1>2. CASE NoPacket(p)
  <2>1. /\ pc[p] = "parse" /\ pc' = [pc EXCEPT ![p] = "wait"]
        /\ UNCHANGED <<ends, recvSize, sending, kernel>>
    BY <1>2 DEF NoPacket
  <2>2. /\ recvBuf' \in [Peers -> Seq(Byte)] /\ readPos' \in [Peers -> Nat]
        /\ \A q \in Peers : WritePos(q)' = WritePos(q)
    <3>1. CASE UNCHANGED <<recvBuf, readPos>>
      BY <3>1 DEF FramingInv, FramingTypes, WritePos
    <3>2. CASE /\ 0 \in CompletePacketLen(p)
               /\ recvBuf' = [recvBuf EXCEPT ![p] = SubSeq(@, HEAD_LEN + 1, Len(@))]
               /\ readPos' = [readPos EXCEPT ![p] = @ + HEAD_LEN]
      <4>1. 0 \in CompletePacketLen(p) \cap 0..MAX_PACKET_LEN - 1
        BY <3>2, FramingAssumption
      <4>2. HEAD_LEN \in Nat /\ readPos[p] \in Nat
        BY FramingAssumption DEF FramingInv, FramingTypes
      <4>3. /\ recvBuf' = [recvBuf EXCEPT ![p] = SubSeq(@, HEAD_LEN + 0 + 1, Len(@))]
            /\ readPos' = [readPos EXCEPT ![p] = @ + HEAD_LEN + 0]
        <5>1. HEAD_LEN + 0 = HEAD_LEN /\ readPos[p] + HEAD_LEN + 0 = readPos[p] + HEAD_LEN
          BY <4>2
        <5>2. QED
          BY <3>2, <5>1, Zenon
      <4>4. QED
        BY <4>1, <4>3, TakePacket
    <3>3. QED
      BY <1>2, <3>1, <3>2 DEF NoPacket
  <2>3. /\ pc' \in [Peers -> {"wait", "send", "parse", "removed", "thrown"}]
        /\ \A q \in Peers : pc'[q] # "send" => pc[q] # "send"
    BY <2>1 DEF FramingInv, FramingTypes
  <2>4. QED
    BY <2>1, <2>2, <2>3, ReceivingInductive
<1>3. CASE BadPacket(p)
  <2>1. /\ pc[p] = "parse" /\ pc' = [pc EXCEPT ![p] = IF p = "server" THEN "removed" ELSE "thrown"]
        /\ UNCHANGED <<ends, recvBuf, readPos, recvSize, sending, kernel>>
    BY <1>3 DEF BadPacket, receiving
  <2>2. /\ recvBuf' \in [Peers -> Seq(Byte)] /\ readPos' \in [Peers -> Nat]
        /\ \A q \in Peers : WritePos(q)' = WritePos(q)
    BY <2>1 DEF FramingInv, FramingTypes, WritePos
  <2>3. /\ pc' \in [Peers -> {"wait", "send", "parse", "removed", "thrown"}]
        /\ \A q \in Peers : pc'[q] # "send" => pc[q] # "send"
    BY <2>1 DEF FramingInv, FramingTypes
  <2>4. QED
    BY <2>1, <2>2, <2>3, ReceivingInductive
<1>4. QED
  BY <1>1, <1>2, <1>3

\* Every step keeps the invariant.
LEMMA FramingInductive == FramingInv /\ [Next]_vars => FramingInv'
<1> SUFFICES ASSUME FramingInv, [Next]_vars PROVE FramingInv'
  OBVIOUS
<1>1. CASE UNCHANGED vars
  BY <1>1 DEF vars, ends, receiving, sending, FramingInv, FramingTypes, BuffersInside, WritePos,
              NothingTaken
<1>2. CASE Submit
  <2>1. SendData("client") /\ UNCHANGED <<recvBuf, readPos, recvSize, sending, kernel, pc>>
    BY <1>2 DEF Submit, receiving
  <2>2. "client" \in Peers
    BY DEF Peers
  <2>3. /\ recvBuf' \in [Peers -> Seq(Byte)] /\ readPos' \in [Peers -> Nat]
        /\ \A q \in Peers : WritePos(q)' = WritePos(q)
        /\ pc' \in [Peers -> {"wait", "send", "parse", "removed", "thrown"}]
    BY <2>1 DEF FramingInv, FramingTypes, WritePos
  <2>4. QED
    BY <2>1, <2>2, <2>3, SendDataInductive
<1>3. ASSUME NEW p \in Peers, Io(p) \/ SendInterrupted(p) PROVE FramingInv'
  BY <1>3, SendingInductive, RcvBufferInductive, ParsingInductive DEF Io
<1>4. QED
  BY <1>1, <1>2, <1>3 DEF Next

\* Whatever the sizes, and wherever receptions cut packets: nothing is written or sent
\* outside the buffers, though they grow by a length computed before their bytes move.
THEOREM BuffersNeverOverrun == Spec => []BuffersInside
<1>1. FramingInv => BuffersInside
  BY DEF FramingInv
<1>2. QED
  BY FramingInitial, FramingInductive, <1>1, PTL DEF Spec
-----------------------------------------------------------------------------
(***************************************************************************)
(* The stream.  The bytes of a direction are numbered through all of its   *)
(* packets; the buffers it goes through hold consecutive bytes.            *)
(***************************************************************************)
Place(b) == PacketSize * b.pkt + b.at

\* s holds the bytes from number k on.
Runs(s, k) == \A i \in 1..Len(s) : s[i].at < PacketSize /\ Place(s[i]) = k + i - 1

\* The number of a byte tells its packet and its place in it.
LEMMA SamePlace ==
  ASSUME NEW b \in Byte, NEW d \in Nat, NEW i \in 1..PacketSize,
         b.at < PacketSize, Place(b) = PacketSize * d + i - 1
  PROVE  b = [pkt |-> d, at |-> i - 1]
<1> DEFINE q == PacketSize
<1>1. q \in Nat \ {0} /\ b.pkt \in Nat /\ b.at \in Nat /\ i \in Nat \ {0} /\ i <= q /\ b.at < q
  BY PacketBytes DEF Byte
<1>2. q * b.pkt + b.at = q * d + i - 1
  BY DEF Place
<1> HIDE DEF q
<1>3. ASSUME NEW x \in Nat, NEW y \in Nat, x < y PROVE q * y >= q * x + q
  <2>1. PICK z \in Nat : y = x + 1 + z
    <3>1. y - x - 1 \in Nat /\ y = x + 1 + (y - x - 1)
      BY <1>3
    <3>2. QED
      BY <3>1
  <2>2. q * y = q * x + q + q * z /\ q * z \in Nat /\ q * x \in Nat
    BY <1>1, <2>1
  <2>3. QED
    BY <1>1, <2>2
<1>4. q * b.pkt \in Nat /\ q * d \in Nat
  BY <1>1
<1>5. ~(b.pkt < d) /\ ~(d < b.pkt)
  BY <1>1, <1>2, <1>3, <1>4
<1>6. b.pkt = d /\ b.at = i - 1
  <2>1. b.pkt = d
    BY <1>1, <1>5
  <2>2. QED
    BY <1>1, <1>2, <1>4, <2>1
<1>7. QED
  BY <1>6 DEF Byte

\* The bytes of a packet are consecutive.
LEMMA PacketRuns ==
  ASSUME NEW n \in Nat
  PROVE  Runs(Packet(n), PacketSize * n)
<1>1. PacketSize \in Nat \ {0} /\ Len(Packet(n)) = PacketSize /\ PacketSize * n \in Nat
  BY PacketBytes
<1>2. \A i \in 1..PacketSize : Packet(n)[i].pkt = n /\ Packet(n)[i].at = i - 1
  BY <1>1 DEF Packet
<1>3. \A i \in 1..PacketSize : Place(Packet(n)[i]) = PacketSize * n + (i - 1)
  BY <1>2 DEF Place
<1>4. QED
  BY <1>1, <1>2, <1>3 DEF Runs

\* What continues a part of the stream.
LEMMA RunsAppended ==
  ASSUME NEW s \in Seq(Byte), NEW t \in Seq(Byte), NEW k \in Int, Runs(s, k), Runs(t, k + Len(s))
  PROVE  /\ s \o t \in Seq(Byte) /\ Len(s \o t) = Len(s) + Len(t)
         /\ Runs(s \o t, k)
<1>1. /\ s \o t \in Seq(Byte) /\ Len(s \o t) = Len(s) + Len(t)
      /\ \A i \in 1..Len(s) + Len(t) : (s \o t)[i] = IF i <= Len(s) THEN s[i] ELSE t[i - Len(s)]
  BY ConcatProperties
<1>2. PICK n \in Nat, m \in Nat : n = Len(s) /\ m = Len(t)
  BY LenProperties
<1>3. ASSUME NEW i \in 1..(n + m)
      PROVE  (s \o t)[i].at < PacketSize /\ Place((s \o t)[i]) = k + i - 1
  <2>1. CASE i <= n
    <3>1. (s \o t)[i] = s[i] /\ i \in 1..n
      BY <1>1, <1>2, <2>1
    <3>2. QED
      BY <1>2, <3>1 DEF Runs
  <2>2. CASE i > n
    <3>1. (s \o t)[i] = t[i - n] /\ i - n \in 1..m
      BY <1>1, <1>2, <2>2
    <3>2. t[i - n].at < PacketSize /\ Place(t[i - n]) = k + n + (i - n) - 1
      BY <1>2, <3>1 DEF Runs
    <3>3. k + n + (i - n) - 1 = k + i - 1
      BY <1>2
    <3>4. QED
      BY <3>1, <3>2, <3>3
  <2>3. QED
    BY <1>2, <2>1, <2>2
<1>4. QED
  BY <1>1, <1>2, <1>3 DEF Runs

\* A part of a part.
LEMMA RunsPart ==
  ASSUME NEW s \in Seq(Byte), NEW k \in Int, Runs(s, k),
         NEW m \in Nat \ {0}, NEW n \in 0..Len(s), m <= n + 1
  PROVE  Runs(SubSeq(s, m, n), k + m - 1)
<1>1. Len(SubSeq(s, m, n)) = n - m + 1 /\ Len(s) \in Nat
  BY PartOf
<1>2. \A i \in 1..(n - m + 1) : SubSeq(s, m, n)[i] = s[m + i - 1] /\ m + i - 1 \in 1..Len(s)
  OBVIOUS
<1>3. \A i \in 1..(n - m + 1) : s[m + i - 1].at < PacketSize /\ Place(s[m + i - 1]) = k + (m + i - 1) - 1
  BY <1>2 DEF Runs
<1>4. ASSUME NEW i \in 1..(n - m + 1)
      PROVE  /\ SubSeq(s, m, n)[i].at < PacketSize
             /\ Place(SubSeq(s, m, n)[i]) = k + m - 1 + i - 1
  <2>1. k + (m + i - 1) - 1 = k + m - 1 + i - 1
    OBVIOUS
  <2>2. QED
    BY <1>2, <1>3, <2>1
<1>5. QED
  BY <1>1, <1>4 DEF Runs

\* What starts where a packet starts begins with the bytes of that packet.
LEMMA RunsPacket ==
  ASSUME NEW s \in Seq(Byte), NEW d \in Nat, Runs(s, PacketSize * d),
         NEW i \in 1..PacketSize, i <= Len(s)
  PROVE  s[i] = [pkt |-> d, at |-> i - 1] /\ s[i] = Packet(d)[i]
<1>1. i \in 1..Len(s) /\ s[i] \in Byte
  BY PacketBytes
<1>2. s[i].at < PacketSize /\ Place(s[i]) = PacketSize * d + i - 1
  BY <1>1 DEF Runs
<1>3. s[i] = [pkt |-> d, at |-> i - 1]
  BY <1>1, <1>2, SamePlace
<1>4. QED
  BY <1>3 DEF Packet

\* Such bytes are read as the packet they are.
LEMMA OrderRead ==
  ASSUME NEW s \in Seq(Byte), NEW d \in Nat, Runs(s, PacketSize * d), Len(s) >= PacketSize
  PROVE  Order(SubSeq(s, HEAD_LEN + 1, HEAD_LEN + OrderSize)) = d
<1> DEFINE b == SubSeq(s, HEAD_LEN + 1, HEAD_LEN + OrderSize)
           c == SubSeq(Packet(d), HEAD_LEN + 1, PacketSize)
<1>1. HEAD_LEN \in Nat \ {0} /\ OrderSize \in Nat \ {0} /\ PacketSize = HEAD_LEN + OrderSize
  BY FramingAssumption DEF PacketSize
<1>2. Packet(d) \in Seq(Byte) /\ Len(Packet(d)) = PacketSize
  BY PacketBytes
<1>3. /\ b \in Seq(Byte) /\ Len(b) = OrderSize
      /\ \A i \in 1..OrderSize : b[i] = s[HEAD_LEN + i]
  <2>1. \A i \in (HEAD_LEN + 1)..(HEAD_LEN + OrderSize) : s[i] \in Byte
    BY <1>1
  <2>2. /\ b \in Seq(Byte)
        /\ Len(b) = IF HEAD_LEN + 1 <= HEAD_LEN + OrderSize
                    THEN HEAD_LEN + OrderSize - (HEAD_LEN + 1) + 1 ELSE 0
        /\ \A i \in 1..(HEAD_LEN + OrderSize - (HEAD_LEN + 1) + 1) : b[i] = s[HEAD_LEN + 1 + i - 1]
    BY <1>1, <2>1, SubSeqProperties
  <2> HIDE DEF b
  <2>3. \A i \in 1..OrderSize : HEAD_LEN + 1 + i - 1 = HEAD_LEN + i
    BY <1>1
  <2>4. HEAD_LEN + OrderSize - (HEAD_LEN + 1) + 1 = OrderSize
    BY <1>1
  <2>5. Len(b) = OrderSize /\ \A i \in 1..OrderSize : b[i] = s[HEAD_LEN + 1 + i - 1]
    BY <1>1, <2>2, <2>4
  <2>6. QED
    BY <2>2, <2>3, <2>5
<1>4. /\ c \in Seq(Byte) /\ Len(c) = OrderSize
      /\ \A i \in 1..OrderSize : c[i] = Packet(d)[HEAD_LEN + i]
  <2>1. \A i \in (HEAD_LEN + 1)..PacketSize : Packet(d)[i] \in Byte
    BY <1>1, <1>2
  <2>2. /\ c \in Seq(Byte)
        /\ Len(c) = IF HEAD_LEN + 1 <= PacketSize THEN PacketSize - (HEAD_LEN + 1) + 1 ELSE 0
        /\ \A i \in 1..(PacketSize - (HEAD_LEN + 1) + 1) : c[i] = Packet(d)[HEAD_LEN + 1 + i - 1]
    BY <1>1, <2>1, SubSeqProperties
  <2> HIDE DEF c
  <2>3. \A i \in 1..OrderSize : HEAD_LEN + 1 + i - 1 = HEAD_LEN + i
    BY <1>1
  <2>4. PacketSize - (HEAD_LEN + 1) + 1 = OrderSize
    BY <1>1
  <2>5. Len(c) = OrderSize /\ \A i \in 1..OrderSize : c[i] = Packet(d)[HEAD_LEN + 1 + i - 1]
    BY <1>1, <2>2, <2>4
  <2>6. QED
    BY <2>2, <2>3, <2>5
<1>5. ASSUME NEW i \in 1..OrderSize
      PROVE  s[HEAD_LEN + i] = Packet(d)[HEAD_LEN + i] /\ s[HEAD_LEN + i].pkt = d
  <2>1. HEAD_LEN + i \in 1..PacketSize /\ HEAD_LEN + i <= Len(s)
    BY <1>1
  <2>2. QED
    <3>1. PICK j \in 1..PacketSize : j = HEAD_LEN + i
      BY <2>1
    <3>2. s[j] = [pkt |-> d, at |-> j - 1] /\ s[j] = Packet(d)[j]
      BY <2>1, <3>1, RunsPacket
    <3>3. QED
      BY <3>1, <3>2
<1> HIDE DEF b, c
<1>6. b = c
  BY <1>3, <1>4, <1>5, SeqEqual
<1>7. b # <<>> /\ b[1].pkt = d
  <2>1. 1 \in 1..OrderSize
    BY <1>1
  <2>2. b[1] = s[HEAD_LEN + 1] /\ s[HEAD_LEN + 1].pkt = d
    BY <1>3, <1>5, <2>1
  <2>3. Len(<<>>) = 0
    OBVIOUS
  <2>4. QED
    BY <1>1, <1>3, <2>2, <2>3
<1>8. Order(b) = d
  BY <1>6, <1>7 DEF Order, c
<1>9. QED
  BY <1>8 DEF b

\* A direction between two numbers of bytes: what was received and not read, what the kernel
\* holds, the message of which t bytes are taken, and what is to be sent follow one another.
Flow(r, k, m, l, t, s, from, to) ==
  /\ l = Len(m)
  /\ Runs(r, from)
  /\ Runs(k, from + Len(r))
  /\ Runs(m, from + Len(r) + Len(k) - t)
  /\ Runs(s, from + Len(r) + Len(k) + l - t)
  /\ from + Len(r) + Len(k) + l - t + Len(s) = to

\* The message is a copy of the send buffer.
LEMMA FlowCopied ==
  ASSUME NEW r \in Seq(Byte), NEW k \in Seq(Byte), NEW m \in Seq(Byte), NEW s \in Seq(Byte),
         NEW from \in Nat, NEW to \in Nat, Flow(r, k, m, 0, 0, s, from, to)
  PROVE  Flow(r, k, s, Len(s), 0, <<>>, from, to)
<1>1. PICK x \in Nat : x = from + Len(r) + Len(k)
  BY LenProperties
<1>2. Len(s) \in Nat /\ Len(<<>>) = 0
  BY LenProperties
<1>3. Runs(s, x) /\ x + Len(s) = to
  <2>1. x + 0 - 0 = x
    OBVIOUS
  <2>2. QED
    BY <1>1, <2>1 DEF Flow
<1>4. Runs(<<>>, x + Len(s) - 0)
  BY <1>2 DEF Runs
<1>5. x - 0 = x /\ x + Len(s) - 0 + 0 = to
  BY <1>2, <1>3
<1>6. QED
  BY <1>1, <1>2, <1>3, <1>4, <1>5 DEF Flow

\* The kernel takes a part of the message.
LEMMA FlowTaken ==
  ASSUME NEW r \in Seq(Byte), NEW k \in Seq(Byte), NEW m \in Seq(Byte), NEW s \in Seq(Byte),
         NEW l \in Nat, NEW t \in Nat, NEW from \in Nat, NEW to \in Nat,
         Flow(r, k, m, l, t, s, from, to), NEW j \in Nat, t + j <= l
  PROVE  LET kk == k \o SubSeq(m, t + 1, t + j)
         IN  /\ Flow(r, kk, m, l, t + j, s, from, to)
             /\ t + j = l => Flow(r, kk, <<>>, 0, 0, s, from, to)
<1> DEFINE b == SubSeq(m, t + 1, t + j)
           kk == k \o b
<1>1. PICK x \in Nat, y \in Nat : x = from + Len(r) /\ y = Len(k)
  BY LenProperties
<1>2. l = Len(m) /\ Runs(r, from) /\ Runs(k, x) /\ Runs(m, x + y - t) /\ Runs(s, x + y + l - t)
      /\ x + y + l - t + Len(s) = to /\ Len(s) \in Nat /\ Len(<<>>) = 0
  BY <1>1, LenProperties DEF Flow
<1>3. t + 1 \in Nat \ {0} /\ t + j \in 0..Len(m) /\ t + 1 <= t + j + 1 /\ x + y - t \in Int
  BY <1>2
<1>4. b \in Seq(Byte) /\ Len(b) = j
  <2>1. b \in Seq(Byte) /\ Len(b) = t + j - (t + 1) + 1
    BY <1>3, PartOf
  <2> HIDE DEF b
  <2>2. QED
    BY <2>1
<1>5. Runs(b, x + y)
  <2>1. Runs(b, x + y - t + (t + 1) - 1)
    BY <1>2, <1>3, RunsPart
  <2>2. x + y - t + (t + 1) - 1 = x + y
    OBVIOUS
  <2>3. QED
    BY <2>1, <2>2
<1> HIDE DEF b
<1>6. kk \in Seq(Byte) /\ Len(kk) = y + j /\ Runs(kk, x)
  <2>1. x \in Int /\ Runs(b, x + Len(k))
    BY <1>1, <1>5
  <2>2. kk \in Seq(Byte) /\ Len(kk) = Len(k) + Len(b) /\ Runs(kk, x)
    BY <1>2, <1>4, <2>1, RunsAppended
  <2>3. QED
    BY <1>1, <1>4, <2>2
<1> HIDE DEF kk
<1>7. x + (y + j) - (t + j) = x + y - t /\ x + (y + j) + l - (t + j) = x + y + l - t
  BY <1>2
<1>8. Flow(r, kk, m, l, t + j, s, from, to)
  BY <1>1, <1>2, <1>6, <1>7 DEF Flow
<1>9. ASSUME t + j = l PROVE Flow(r, kk, <<>>, 0, 0, s, from, to)
  <2>1. x + (y + j) + 0 - 0 = x + y + l - t
    BY <1>9
  <2>2. Runs(<<>>, x + (y + j) - 0)
    BY <1>2 DEF Runs
  <2>3. QED
    BY <1>1, <1>2, <1>6, <2>1, <2>2 DEF Flow
<1>10. QED
  BY <1>8, <1>9 DEF kk, b

\* The other end receives a part of what the kernel holds.
LEMMA FlowReceived ==
  ASSUME NEW r \in Seq(Byte), NEW k \in Seq(Byte), NEW m \in Seq(Byte), NEW s \in Seq(Byte),
         NEW l \in Nat, NEW t \in Nat, NEW from \in Nat, NEW to \in Nat,
         Flow(r, k, m, l, t, s, from, to), NEW j \in 0..Len(k)
  PROVE  Flow(r \o SubSeq(k, 1, j), SubSeq(k, j + 1, Len(k)), m, l, t, s, from, to)
<1> DEFINE b == SubSeq(k, 1, j)
           c == SubSeq(k, j + 1, Len(k))
           rb == r \o b
<1>1. PICK x \in Nat, y \in Nat : x = Len(r) /\ y = Len(k)
  BY LenProperties
<1>2. l = Len(m) /\ Runs(r, from) /\ Runs(k, from + x) /\ Runs(m, from + x + y - t)
      /\ Runs(s, from + x + y + l - t) /\ from + x + y + l - t + Len(s) = to /\ Len(s) \in Nat
  BY <1>1, LenProperties DEF Flow
<1>3. /\ b \in Seq(Byte) /\ Len(b) = j /\ Runs(b, from + x)
      /\ c \in Seq(Byte) /\ Len(c) = y - j /\ Runs(c, from + x + j)
  <2>1. 1 \in Nat \ {0} /\ j \in Nat /\ j + 1 \in Nat \ {0} /\ Len(k) \in 0..Len(k) /\ from + x \in Int
        /\ 1 <= j + 1 /\ j + 1 <= Len(k) + 1
    BY <1>1
  <2>2. b \in Seq(Byte) /\ Len(b) = j - 1 + 1 /\ c \in Seq(Byte) /\ Len(c) = Len(k) - (j + 1) + 1
    BY <2>1, PartOf
  <2>3. Runs(b, from + x + 1 - 1) /\ Runs(c, from + x + (j + 1) - 1)
    BY <1>2, <2>1, RunsPart
  <2>4. j - 1 + 1 = j /\ Len(k) - (j + 1) + 1 = y - j /\ from + x + 1 - 1 = from + x
        /\ from + x + (j + 1) - 1 = from + x + j
    BY <1>1
  <2>5. QED
    BY <2>2, <2>3, <2>4
<1> HIDE DEF b, c
<1>4. rb \in Seq(Byte) /\ Len(rb) = x + j /\ Runs(rb, from)
  <2>1. from \in Int /\ Runs(b, from + Len(r))
    BY <1>1, <1>3
  <2>2. rb \in Seq(Byte) /\ Len(rb) = Len(r) + Len(b) /\ Runs(rb, from)
    BY <1>2, <1>3, <2>1, RunsAppended
  <2>3. QED
    BY <1>1, <1>3, <2>2
<1> HIDE DEF rb
<1>5. /\ from + (x + j) = from + x + j
      /\ from + (x + j) + (y - j) - t = from + x + y - t
      /\ from + (x + j) + (y - j) + l - t = from + x + y + l - t
  BY <1>1
<1>6. Flow(rb, c, m, l, t, s, from, to)
  BY <1>2, <1>3, <1>4, <1>5 DEF Flow
<1>7. QED
  BY <1>6 DEF rb, b, c

\* Bytes are read from what was received.
LEMMA FlowRead ==
  ASSUME NEW r \in Seq(Byte), NEW k \in Seq(Byte), NEW m \in Seq(Byte), NEW s \in Seq(Byte),
         NEW l \in Nat, NEW t \in Nat, NEW from \in Nat, NEW to \in Nat,
         Flow(r, k, m, l, t, s, from, to), NEW h \in 0..Len(r)
  PROVE  Flow(SubSeq(r, h + 1, Len(r)), k, m, l, t, s, from + h, to)
<1> DEFINE c == SubSeq(r, h + 1, Len(r))
<1>1. PICK x \in Nat, y \in Nat : x = Len(r) /\ y = Len(k)
  BY LenProperties
<1>2. l = Len(m) /\ Runs(r, from) /\ Runs(k, from + x) /\ Runs(m, from + x + y - t)
      /\ Runs(s, from + x + y + l - t) /\ from + x + y + l - t + Len(s) = to /\ Len(s) \in Nat
  BY <1>1, LenProperties DEF Flow
<1>3. Len(c) = x - h /\ Runs(c, from + h)
  <2>1. h + 1 \in Nat \ {0} /\ Len(r) \in 0..Len(r) /\ h + 1 <= Len(r) + 1 /\ from \in Int
    BY <1>1
  <2>2. Len(c) = Len(r) - (h + 1) + 1
    BY <2>1, PartOf
  <2>3. Runs(c, from + (h + 1) - 1)
    BY <1>2, <2>1, RunsPart
  <2>4. Len(r) - (h + 1) + 1 = x - h /\ from + (h + 1) - 1 = from + h
    BY <1>1
  <2>5. QED
    BY <2>2, <2>3, <2>4
<1> HIDE DEF c
<1>4. /\ from + h + (x - h) = from + x
      /\ from + h + (x - h) + y - t = from + x + y - t
      /\ from + h + (x - h) + y + l - t = from + x + y + l - t
  BY <1>1
<1>5. Flow(c, k, m, l, t, s, from + h, to)
  BY <1>1, <1>2, <1>3, <1>4 DEF Flow
<1>6. QED
  BY <1>5 DEF c

\* A packet is written into the send buffer.
LEMMA FlowWritten ==
  ASSUME NEW r \in Seq(Byte), NEW k \in Seq(Byte), NEW m \in Seq(Byte), NEW s \in Seq(Byte),
         NEW l \in Nat, NEW t \in Nat, NEW from \in Nat, NEW n \in Nat,
         Flow(r, k, m, l, t, s, from, PacketSize * n)
  PROVE  Flow(r, k, m, l, t, s \o Packet(n), from, PacketSize * (n + 1))
<1> DEFINE q == PacketSize
           ss == s \o Packet(n)
<1>1. /\ q \in Nat /\ Packet(n) \in Seq(Byte) /\ Len(Packet(n)) = q /\ Runs(Packet(n), q * n)
      /\ q * n \in Nat /\ q * (n + 1) = q * n + q
  <2>1. q \in Nat /\ Packet(n) \in Seq(Byte) /\ Len(Packet(n)) = q /\ Runs(Packet(n), q * n)
    BY PacketBytes, PacketRuns
  <2> HIDE DEF q
  <2>2. QED
    BY <2>1
<1>2. PICK x \in Int, y \in Nat : x = from + Len(r) + Len(k) + l - t /\ y = Len(s)
  <2>1. Len(r) \in Nat /\ Len(k) \in Nat /\ Len(s) \in Nat
    BY LenProperties
  <2>2. from + Len(r) + Len(k) + l - t \in Int
    BY <2>1
  <2>3. QED
    BY <2>1, <2>2
<1>3. l = Len(m) /\ Runs(r, from) /\ Runs(k, from + Len(r)) /\ Runs(m, from + Len(r) + Len(k) - t)
      /\ Runs(s, x) /\ x + y = q * n
  BY <1>2 DEF Flow
<1>4. Len(ss) = y + q /\ Runs(ss, x)
  <2>1. Runs(Packet(n), x + Len(s)) /\ Runs(s, x)
    BY <1>1, <1>2, <1>3
  <2>2. Len(ss) = Len(s) + Len(Packet(n)) /\ Runs(ss, x)
    BY <1>1, <1>2, <2>1, RunsAppended
  <2>3. QED
    BY <1>1, <1>2, <2>2
<1> HIDE DEF ss, q
<1>5. x + (y + q) = q * (n + 1)
  <2> DEFINE z == q * n
             w == q * (n + 1)
  <2>1. z \in Nat /\ w = z + q /\ x + y = z /\ q \in Nat
    BY <1>1, <1>3
  <2> HIDE DEF z, w
  <2>2. x + (y + q) = w
    <3>1. \A a \in Int, b, c \in Nat : a + (b + c) = (a + b) + c
      OBVIOUS
    <3>2. x + (y + q) = (x + y) + q
      BY <2>1, <3>1
    <3>3. QED
      BY <2>1, <3>2
  <2>3. QED
    BY <2>2 DEF w
<1>6. Flow(r, k, m, l, t, ss, from, q * (n + 1))
  BY <1>2, <1>3, <1>4, <1>5 DEF Flow
<1>7. QED
  BY <1>6 DEF ss, q

\* No byte is of a packet that was never sent.
Within(s, n) == \A i \in 1..Len(s) : s[i].pkt <= n

LEMMA WithinParts ==
  ASSUME NEW s \in Seq(Byte), NEW t \in Seq(Byte), NEW n \in Nat, Within(s, n), Within(t, n)
  PROVE  /\ Within(s \o t, n)
         /\ Within(s, n + 1)
         /\ \A a \in Nat \ {0}, b \in 0..Len(s) : a <= b + 1 => Within(SubSeq(s, a, b), n)
<1>1. Within(s \o t, n)
  <2>1. /\ Len(s \o t) = Len(s) + Len(t) /\ Len(s) \in Nat /\ Len(t) \in Nat
        /\ \A i \in 1..Len(s) + Len(t) : (s \o t)[i] = IF i <= Len(s) THEN s[i] ELSE t[i - Len(s)]
    BY ConcatProperties
  <2>2. ASSUME NEW i \in 1..(Len(s) + Len(t)) PROVE (s \o t)[i].pkt <= n
    <3>1. CASE i <= Len(s)
      BY <2>1, <3>1 DEF Within
    <3>2. CASE i > Len(s)
      BY <2>1, <3>2 DEF Within
    <3>3. QED
      BY <2>1, <3>1, <3>2
  <2>3. QED
    BY <2>1, <2>2 DEF Within
<1>2. Within(s, n + 1)
  <2>1. \A i \in 1..Len(s) : s[i] \in Byte
    OBVIOUS
  <2>2. \A i \in 1..Len(s) : s[i].pkt \in Nat
    BY <2>1 DEF Byte
  <2>3. QED
    BY <2>2 DEF Within
<1>3. ASSUME NEW a \in Nat \ {0}, NEW b \in 0..Len(s), a <= b + 1
      PROVE  Within(SubSeq(s, a, b), n)
  <2>1. Len(SubSeq(s, a, b)) = b - a + 1 /\ Len(s) \in Nat
    BY <1>3, PartOf
  <2>2. \A i \in 1..(b - a + 1) : SubSeq(s, a, b)[i] = s[a + i - 1] /\ a + i - 1 \in 1..Len(s)
    BY <1>3
  <2>3. QED
    BY <2>1, <2>2 DEF Within
<1>4. QED
  BY <1>1, <1>2, <1>3

\* A direction: where its sender p is, the ends one of whose sends was interrupted, the parts
\* of Flow, the packets read and the packets written.
Direction(at, p, broken, r, k, m, l, t, s, d, n) ==
  /\ IF at = "send" THEN t < l ELSE l = 0
  /\ p \notin broken => Flow(r, k, m, l, t, s, PacketSize * (d + 1), PacketSize * (n + 1))
  /\ Within(r, n) /\ Within(k, n) /\ Within(m, n) /\ Within(s, n)
  /\ Len(k) + (l - t) + Len(s) <= PacketSize * n

LEMMA Products ==
  ASSUME NEW n \in Nat
  PROVE  /\ PacketSize \in Nat \ {0} /\ PacketSize * n \in Nat
         /\ PacketSize * (n + 1) \in Nat /\ PacketSize * (n + 1) = PacketSize * n + PacketSize
<1> DEFINE q == PacketSize
<1>1. q \in Nat \ {0}
  BY PacketBytes
<1> HIDE DEF q
<1>2. q * n \in Nat /\ q * (n + 1) \in Nat /\ q * (n + 1) = q * n + q
  BY <1>1
<1>3. QED
  BY <1>1, <1>2 DEF q

LEMMA DirectionCopied ==
  ASSUME NEW p, NEW broken, NEW r \in Seq(Byte), NEW k \in Seq(Byte), NEW m \in Seq(Byte),
         NEW s \in Seq(Byte), NEW d \in Nat, NEW n \in Nat,
         Direction("wait", p, broken, r, k, m, 0, 0, s, d, n), s # <<>>
  PROVE  Direction("send", p, broken, r, k, s, Len(s), 0, <<>>, d, n)
<1>1. Len(s) \in Nat /\ 0 < Len(s) /\ Len(<<>>) = 0 /\ Len(k) \in Nat
  BY LenProperties, EmptySeq
<1>2. p \notin broken => Flow(r, k, s, Len(s), 0, <<>>, PacketSize * (d + 1), PacketSize * (n + 1))
  BY Products, FlowCopied DEF Direction
<1>3. Within(<<>>, n)
  BY <1>1 DEF Within
<1>4. Len(k) + (Len(s) - 0) + 0 <= PacketSize * n
  <2>1. Len(k) + (0 - 0) + Len(s) <= PacketSize * n
    BY DEF Direction
  <2>2. QED
    BY <1>1, <2>1
<1>5. QED
  BY <1>1, <1>2, <1>3, <1>4 DEF Direction

LEMMA DirectionTaken ==
  ASSUME NEW p, NEW broken, NEW r \in Seq(Byte), NEW k \in Seq(Byte), NEW m \in Seq(Byte),
         NEW s \in Seq(Byte), NEW l \in Nat, NEW t \in Nat, NEW d \in Nat, NEW n \in Nat,
         Direction("send", p, broken, r, k, m, l, t, s, d, n), l <= Len(m),
         NEW j \in Nat, t + j <= l
  PROVE  LET kk == k \o SubSeq(m, t + 1, t + j)
         IN  /\ kk \in Seq(Byte)
             /\ t + j < l => Direction("send", p, broken, r, kk, m, l, t + j, s, d, n)
             /\ t + j = l => Direction("wait", p, broken, r, kk, <<>>, 0, 0, s, d, n)
<1> DEFINE b == SubSeq(m, t + 1, t + j)
           kk == k \o b
           from == PacketSize * (d + 1)
           to == PacketSize * (n + 1)
<1>1. Len(s) \in Nat /\ Len(k) \in Nat /\ Len(m) \in Nat /\ Len(<<>>) = 0
  BY LenProperties
<1>2. t + 1 \in Nat \ {0} /\ t + j \in 0..Len(m) /\ t + 1 <= t + j + 1
  BY <1>1
<1>3. b \in Seq(Byte) /\ Len(b) = j
  <2>1. b \in Seq(Byte) /\ Len(b) = t + j - (t + 1) + 1
    BY <1>2, PartOf
  <2> HIDE DEF b
  <2>2. QED
    BY <2>1
<1>4. kk \in Seq(Byte) /\ Len(kk) = Len(k) + j
  BY <1>3, ConcatProperties
<1>5. from \in Nat /\ to \in Nat /\ PacketSize * n \in Nat
  BY Products
<1>6. Within(kk, n) /\ Within(<<>>, n)
  <2>1. Within(b, n)
    BY <1>2, WithinParts DEF Direction
  <2>2. Within(kk, n)
    BY <1>3, <2>1, WithinParts DEF Direction
  <2>3. Within(<<>>, n)
    BY <1>1 DEF Within
  <2>4. QED
    BY <2>2, <2>3
<1>7. p \notin broken => Flow(r, kk, m, l, t + j, s, from, to)
               /\ (t + j = l => Flow(r, kk, <<>>, 0, 0, s, from, to))
  <2>1. ASSUME p \notin broken PROVE Flow(r, k, m, l, t, s, from, to)
    BY <2>1 DEF Direction
  <2> HIDE DEF from, to
  <2>2. QED
    BY <1>5, <2>1, FlowTaken
<1>8. Len(k) + (l - t) + Len(s) <= PacketSize * n
  BY DEF Direction
<1>9. Len(kk) + (l - (t + j)) + Len(s) = Len(k) + (l - t) + Len(s)
      /\ (t + j = l => Len(kk) + (0 - 0) + Len(s) = Len(k) + (l - t) + Len(s))
  <2>1. PICK x \in Nat, y \in Nat, z \in Nat : x = Len(k) /\ y = Len(s) /\ z = Len(kk)
    BY <1>1, <1>4
  <2>2. z = x + j
    BY <1>4, <2>1
  <2>3. z + (l - (t + j)) + y = x + (l - t) + y /\ (t + j = l => z + (0 - 0) + y = x + (l - t) + y)
    BY <2>2
  <2>4. QED
    BY <2>1, <2>3
<1> HIDE DEF kk
<1>10. Within(r, n) /\ Within(m, n) /\ Within(s, n)
  BY DEF Direction
<1>11. t + j < l => Direction("send", p, broken, r, kk, m, l, t + j, s, d, n)
  BY <1>6, <1>7, <1>8, <1>9, <1>10 DEF Direction
<1>12. t + j = l => Direction("wait", p, broken, r, kk, <<>>, 0, 0, s, d, n)
  BY <1>6, <1>7, <1>8, <1>9, <1>10 DEF Direction
<1>13. QED
  BY <1>4, <1>11, <1>12 DEF kk

LEMMA DirectionInterrupted ==
  ASSUME NEW p, NEW broken, NEW r \in Seq(Byte), NEW k \in Seq(Byte), NEW m \in Seq(Byte),
         NEW s \in Seq(Byte), NEW l \in Nat, NEW t \in Nat, NEW d \in Nat, NEW n \in Nat,
         Direction("send", p, broken, r, k, m, l, t, s, d, n)
  PROVE  Direction("send", p, broken \cup {p}, r, k, m, l - t, 0, s, d, n)
<1>1. t < l /\ Len(k) + (l - t) + Len(s) <= PacketSize * n
      /\ Within(r, n) /\ Within(k, n) /\ Within(m, n) /\ Within(s, n)
  BY DEF Direction
<1>2. 0 < l - t /\ l - t - 0 = l - t
  BY <1>1
<1>3. QED
  BY <1>1, <1>2 DEF Direction

LEMMA DirectionReceived ==
  ASSUME NEW at, NEW p, NEW broken, NEW r \in Seq(Byte), NEW k \in Seq(Byte),
         NEW m \in Seq(Byte), NEW s \in Seq(Byte), NEW l \in Nat, NEW t \in Nat, NEW d \in Nat,
         NEW n \in Nat, Direction(at, p, broken, r, k, m, l, t, s, d, n), NEW j \in 0..Len(k)
  PROVE  Direction(at, p, broken, r \o SubSeq(k, 1, j), SubSeq(k, j + 1, Len(k)), m, l, t, s, d, n)
<1> DEFINE b == SubSeq(k, 1, j)
           c == SubSeq(k, j + 1, Len(k))
           from == PacketSize * (d + 1)
           to == PacketSize * (n + 1)
<1>1. PICK x \in Nat, y \in Nat : x = Len(k) /\ y = Len(s)
  BY LenProperties
<1>2. 1 \in Nat \ {0} /\ j \in 0..Len(k) /\ 1 <= j + 1 /\ j \in Nat
      /\ j + 1 \in Nat \ {0} /\ Len(k) \in 0..Len(k) /\ j + 1 <= Len(k) + 1
  BY <1>1
<1>3. b \in Seq(Byte) /\ Len(c) = x - j
  <2>1. b \in Seq(Byte) /\ Len(c) = Len(k) - (j + 1) + 1
    BY <1>2, PartOf
  <2> HIDE DEF c
  <2>2. QED
    BY <1>1, <2>1
<1>4. from \in Nat /\ to \in Nat
  BY Products
<1>5. Within(r \o b, n) /\ Within(c, n)
  <2>1. Within(b, n) /\ Within(c, n)
    BY <1>2, WithinParts DEF Direction
  <2>2. QED
    BY <1>3, <2>1, WithinParts DEF Direction
<1>6. p \notin broken => Flow(r \o b, c, m, l, t, s, from, to)
  <2>1. ASSUME p \notin broken PROVE Flow(r, k, m, l, t, s, from, to)
    BY <2>1 DEF Direction
  <2> HIDE DEF from, to
  <2>2. QED
    BY <1>4, <2>1, FlowReceived
<1>7. Len(c) + (l - t) + Len(s) <= PacketSize * n
  <2>1. PacketSize * n \in Nat /\ x + (l - t) + y <= PacketSize * n
    BY <1>1, Products DEF Direction
  <2>2. PICK z \in Nat : z = PacketSize * n
    BY <2>1
  <2>3. (x - j) + (l - t) + y <= z
    BY <1>2, <2>1, <2>2
  <2> HIDE DEF c
  <2>4. QED
    BY <1>1, <1>3, <2>2, <2>3
<1> HIDE DEF b, c
<1>8. Direction(at, p, broken, r \o b, c, m, l, t, s, d, n)
  BY <1>5, <1>6, <1>7 DEF Direction
<1>9. QED
  BY <1>8 DEF b, c

\* Taking h bytes: a packet of a whole stream, or anything of one that was interrupted.
LEMMA DirectionRead ==
  ASSUME NEW at, NEW p, NEW broken, NEW r \in Seq(Byte), NEW k \in Seq(Byte),
         NEW m \in Seq(Byte), NEW s \in Seq(Byte), NEW l \in Nat, NEW t \in Nat, NEW d \in Nat,
         NEW n \in Nat, Direction(at, p, broken, r, k, m, l, t, s, d, n),
         NEW h \in 0..Len(r), NEW e \in Nat, p \notin broken => h = PacketSize /\ e = d + 1
  PROVE  Direction(at, p, broken, SubSeq(r, h + 1, Len(r)), k, m, l, t, s, e, n)
<1> DEFINE c == SubSeq(r, h + 1, Len(r))
<1>1. Len(r) \in Nat /\ h + 1 \in Nat \ {0} /\ Len(r) \in 0..Len(r) /\ h + 1 <= Len(r) + 1
  BY LenProperties
<1>2. Within(c, n)
  BY <1>1, WithinParts DEF Direction
<1>3. ASSUME p \notin broken PROVE Flow(c, k, m, l, t, s, PacketSize * (e + 1), PacketSize * (n + 1))
  <2> DEFINE from == PacketSize * (d + 1)
             to == PacketSize * (n + 1)
  <2>1. from \in Nat /\ to \in Nat
    BY Products
  <2>2. Flow(r, k, m, l, t, s, from, to)
    BY <1>3 DEF Direction
  <2>3. from + h = PacketSize * (e + 1)
    <3>1. d + 1 \in Nat /\ PacketSize * (d + 1 + 1) = PacketSize * (d + 1) + PacketSize
      BY Products
    <3>2. QED
      BY <1>3, <3>1
  <2>4. Flow(c, k, m, l, t, s, from + h, to)
    <3> HIDE DEF from, to
    <3>1. QED
      BY <2>1, <2>2, FlowRead
  <2>5. QED
    BY <2>3, <2>4
<1> HIDE DEF c
<1>4. Direction(at, p, broken, c, k, m, l, t, s, e, n)
  BY <1>2, <1>3 DEF Direction
<1>5. QED
  BY <1>4 DEF c

LEMMA DirectionWritten ==
  ASSUME NEW at, NEW p, NEW broken, NEW r \in Seq(Byte), NEW k \in Seq(Byte),
         NEW m \in Seq(Byte), NEW s \in Seq(Byte), NEW l \in Nat, NEW t \in Nat, NEW d \in Nat,
         NEW n \in Nat, Direction(at, p, broken, r, k, m, l, t, s, d, n)
  PROVE  Direction(at, p, broken, r, k, m, l, t, s \o Packet(n + 1), d, n + 1)
<1> DEFINE ss == s \o Packet(n + 1)
<1>1. n + 1 \in Nat /\ Packet(n + 1) \in Seq(Byte) /\ Len(Packet(n + 1)) = PacketSize
      /\ PacketSize * (d + 1) \in Nat
  BY PacketBytes, Products
<1>2. Within(r, n + 1) /\ Within(k, n + 1) /\ Within(m, n + 1) /\ Within(s, n + 1)
  BY WithinParts DEF Direction
<1>3. Within(Packet(n + 1), n + 1)
  <2>1. \A i \in 1..PacketSize : Packet(n + 1)[i].pkt = n + 1
    BY DEF Packet
  <2>2. n + 1 <= n + 1 /\ \A i \in 1..PacketSize : Packet(n + 1)[i].pkt <= n + 1
    BY <2>1
  <2>3. QED
    BY <1>1, <2>2 DEF Within
<1>4. Within(ss, n + 1)
  BY <1>1, <1>2, <1>3, WithinParts
<1>5. ASSUME p \notin broken PROVE Flow(r, k, m, l, t, ss, PacketSize * (d + 1), PacketSize * (n + 1 + 1))
  <2>1. Flow(r, k, m, l, t, s, PacketSize * (d + 1), PacketSize * (n + 1))
    BY <1>5 DEF Direction
  <2>2. QED
    BY <1>1, <2>1, FlowWritten
<1>6. Len(k) + (l - t) + Len(ss) <= PacketSize * (n + 1)
  <2>1. PICK x \in Nat, y \in Nat : x = Len(k) /\ y = Len(s)
    BY LenProperties
  <2>2. Len(ss) = y + PacketSize
    BY <1>1, <2>1, ConcatProperties
  <2>3. PICK q \in Nat, z \in Nat : q = PacketSize /\ z = PacketSize * n
    BY Products
  <2>4. x + (l - t) + y <= z /\ PacketSize * (n + 1) = z + q
    BY <2>1, <2>3, Products DEF Direction
  <2>5. x + (l - t) + (y + q) <= z + q
    BY <2>4
  <2>6. QED
    BY <2>1, <2>2, <2>3, <2>4, <2>5
<1> HIDE DEF ss
<1>7. Direction(at, p, broken, r, k, m, l, t, ss, d, n + 1)
  BY <1>2, <1>4, <1>5, <1>6 DEF Direction
<1>8. QED
  BY <1>7 DEF ss
-----------------------------------------------------------------------------
DirectionOf(p) ==
  Direction(pc[p], p, cut, recvBuf[Other(p)], kernel[p], msg[p], left[p], taken[p], sendBuf[p],
            Len(delivered[p]), sent[p])

\* Only the server's sends meet alarms, and the server answers only what it has read: its
\* answers are never more than the packets read from the client.
StreamInv ==
  /\ FramingInv
  /\ delivered \in [Peers -> Seq(Nat)] /\ cut \subseteq {"server"}
  /\ sent["server"] <= Len(delivered["client"])
  /\ \A p \in Peers : DirectionOf(p)

LEMMA StreamTypes ==
  ASSUME StreamInv, NEW p \in Peers
  PROVE  /\ recvBuf[p] \in Seq(Byte) /\ recvBuf[Other(p)] \in Seq(Byte) /\ kernel[p] \in Seq(Byte)
         /\ msg[p] \in Seq(Byte) /\ sendBuf[p] \in Seq(Byte)
         /\ left[p] \in Nat /\ taken[p] \in Nat /\ sent[p] \in Nat
         /\ taken[p] <= left[p] /\ left[p] <= Len(msg[p])
         /\ delivered[p] \in Seq(Nat) /\ Len(delivered[p]) \in Nat
         /\ Other(p) \in Peers /\ Other(p) # p /\ Other(Other(p)) = p
         /\ \A q \in Peers : q # p => Other(p) = q /\ Other(q) = p
<1>1. Other(p) \in Peers /\ Other(p) # p /\ Other(Other(p)) = p
      /\ \A q \in Peers : q # p => Other(p) = q /\ Other(q) = p
  BY DEF Peers, Other
<1>2. delivered[p] \in Seq(Nat)
  BY DEF StreamInv
<1>3. Len(delivered[p]) \in Nat
  BY <1>2, LenProperties
<1>4. QED
  BY <1>1, <1>2, <1>3 DEF StreamInv, FramingInv, FramingTypes, BuffersInside

\* A direction none of whose parts changes, its sender staying in send or out of it.
LEMMA DirectionKept ==
  ASSUME StreamInv, NEW q \in Peers,
         recvBuf'[Other(q)] = recvBuf[Other(q)], kernel'[q] = kernel[q], msg'[q] = msg[q],
         left'[q] = left[q], taken'[q] = taken[q], sendBuf'[q] = sendBuf[q], sent'[q] = sent[q],
         delivered'[q] = delivered[q], cut \subseteq cut', pc'[q] = "send" <=> pc[q] = "send"
  PROVE  DirectionOf(q)'
<1>1. DirectionOf(q)
  BY DEF StreamInv
<1>2. q \notin cut' => q \notin cut
  OBVIOUS
<1>3. Direction(pc'[q], q, cut', recvBuf'[Other(q)], kernel'[q], msg'[q], left'[q], taken'[q],
                sendBuf'[q], Len(delivered'[q]), sent'[q])
  BY <1>1, <1>2 DEF DirectionOf, Direction
<1>4. QED
  BY <1>3 DEF DirectionOf

LEMMA StreamCopied ==
  ASSUME StreamInv, NEW p \in Peers, SyncSendBuf(p)
  PROVE  StreamInv'
<1>1. FramingInv'
  BY SendingInductive DEF StreamInv
<1>2. /\ pc[p] = "wait" /\ sendBuf[p] # <<>> /\ msg' = [msg EXCEPT ![p] = sendBuf[p]]
      /\ left' = [left EXCEPT ![p] = Len(sendBuf[p])]
      /\ sendBuf' = [sendBuf EXCEPT ![p] = <<>>] /\ pc' = [pc EXCEPT ![p] = "send"]
      /\ UNCHANGED <<sent, recvBuf, taken, kernel, cut, delivered>>
  BY DEF SyncSendBuf, receiving
<1>3. /\ pc'[p] = "send" /\ msg'[p] = sendBuf[p] /\ left'[p] = Len(sendBuf[p]) /\ sendBuf'[p] = <<>>
      /\ taken[p] = 0 /\ left[p] = 0
  <2>1. taken[p] = 0 /\ DirectionOf(p)
    BY <1>2 DEF StreamInv, FramingInv, NothingTaken
  <2>2. left[p] = 0
    BY <1>2, <2>1 DEF DirectionOf, Direction
  <2>3. QED
    BY <1>2, <2>1, <2>2 DEF StreamInv, FramingInv, FramingTypes
<1>4. Direction("send", p, cut, recvBuf[Other(p)], kernel[p], sendBuf[p], Len(sendBuf[p]), 0, <<>>,
                Len(delivered[p]), sent[p])
  <2>1. Direction("wait", p, cut, recvBuf[Other(p)], kernel[p], msg[p], 0, 0, sendBuf[p],
                  Len(delivered[p]), sent[p])
    BY <1>2, <1>3 DEF StreamInv, DirectionOf
  <2>2. QED
    BY <1>2, <2>1, StreamTypes, DirectionCopied
<1>5. DirectionOf(p)'
  BY <1>2, <1>3, <1>4 DEF DirectionOf
<1>6. ASSUME NEW q \in Peers, q # p PROVE DirectionOf(q)'
  <2>1. /\ msg'[q] = msg[q] /\ left'[q] = left[q] /\ sendBuf'[q] = sendBuf[q] /\ pc'[q] = pc[q]
    BY <1>2, <1>6 DEF StreamInv, FramingInv, FramingTypes
  <2>2. QED
    BY <1>1, <1>2, <2>1, DirectionKept
<1>7. QED
  BY <1>1, <1>2, <1>5, <1>6 DEF StreamInv

LEMMA StreamSent ==
  ASSUME StreamInv, NEW p \in Peers, Send(p)
  PROVE  StreamInv'
<1> DEFINE n == Least(left[p] - taken[p], Capacity - Len(kernel[p]))
           done == taken[p] + n = left[p]
           kk == kernel[p] \o SubSeq(msg[p], taken[p] + 1, taken[p] + n)
<1>1. FramingInv'
  BY SendingInductive DEF StreamInv
<1>2. /\ pc[p] = "send" /\ n > 0
      /\ kernel' = [kernel EXCEPT ![p] = kk]
      /\ taken' = [taken EXCEPT ![p] = IF done THEN 0 ELSE @ + n]
      /\ left' = [left EXCEPT ![p] = IF done THEN 0 ELSE @]
      /\ msg' = [msg EXCEPT ![p] = IF done THEN <<>> ELSE @]
      /\ pc' = [pc EXCEPT ![p] = IF done THEN "wait" ELSE "send"]
      /\ UNCHANGED <<sendBuf, sent, recvBuf, cut, delivered>>
  BY DEF Send, ends, receiving
<1>3. n \in Nat /\ taken[p] + n <= left[p]
  <2>1. left[p] - taken[p] \in Int /\ Capacity - Len(kernel[p]) \in Int
    BY SMTT(40), StreamTypes, LenProperties, FramingAssumption
  <2>2. n \in Int /\ n <= left[p] - taken[p]
    BY <2>1 DEF Least
  <2> HIDE DEF n
  <2>3. QED
    BY <1>2, <2>2, StreamTypes
<1> HIDE DEF n
<1>4. Direction("send", p, cut, recvBuf[Other(p)], kernel[p], msg[p], left[p], taken[p], sendBuf[p],
                Len(delivered[p]), sent[p])
  BY <1>2 DEF StreamInv, DirectionOf
<1>5. /\ taken[p] + n < left[p] =>
           Direction("send", p, cut, recvBuf[Other(p)], kk, msg[p], left[p], taken[p] + n, sendBuf[p],
                     Len(delivered[p]), sent[p])
      /\ taken[p] + n = left[p] =>
           Direction("wait", p, cut, recvBuf[Other(p)], kk, <<>>, 0, 0, sendBuf[p],
                     Len(delivered[p]), sent[p])
  BY <1>3, <1>4, StreamTypes, DirectionTaken
<1> HIDE DEF kk
<1>6. /\ kernel'[p] = kk /\ taken'[p] = IF done THEN 0 ELSE taken[p] + n
      /\ left'[p] = IF done THEN 0 ELSE left[p]
      /\ msg'[p] = IF done THEN <<>> ELSE msg[p]
      /\ pc'[p] = IF done THEN "wait" ELSE "send"
  <2> HIDE DEF done
  <2>1. QED
    BY <1>2 DEF StreamInv, FramingInv, FramingTypes
<1>7. DirectionOf(p)'
  <2>1. CASE done
    BY <1>2, <1>5, <1>6, <2>1 DEF DirectionOf
  <2>2. CASE ~done
    <3>1. taken[p] + n < left[p]
      <4>1. taken[p] \in Nat /\ left[p] \in Nat
        BY StreamTypes
      <4>2. QED
        BY <1>3, <2>2, <4>1
    <3>2. QED
      BY <1>2, <1>5, <1>6, <2>2, <3>1 DEF DirectionOf
  <2>3. QED
    BY <2>1, <2>2
<1>8. ASSUME NEW q \in Peers, q # p PROVE DirectionOf(q)'
  <2>1. /\ kernel'[q] = kernel[q] /\ taken'[q] = taken[q] /\ msg'[q] = msg[q] /\ left'[q] = left[q]
        /\ pc'[q] = pc[q]
    <3> HIDE DEF done
    <3>1. QED
      BY <1>2, <1>8 DEF StreamInv, FramingInv, FramingTypes
  <2>2. QED
    BY <1>1, <1>2, <2>1, DirectionKept
<1>9. QED
  BY <1>1, <1>2, <1>7, <1>8 DEF StreamInv

LEMMA StreamInterrupted ==
  ASSUME StreamInv, NEW p \in Peers, SendInterrupted(p)
  PROVE  StreamInv'
<1>1. FramingInv'
  BY SendingInductive DEF StreamInv
<1>2. /\ p = "server" /\ pc[p] = "send" /\ left' = [left EXCEPT ![p] = @ - taken[p]]
      /\ taken' = [taken EXCEPT ![p] = 0] /\ cut' = cut \cup {p}
      /\ UNCHANGED <<sendBuf, sent, recvBuf, kernel, msg, pc, delivered>>
  BY DEF SendInterrupted, ends, receiving
<1>3. taken'[p] = 0 /\ left'[p] = left[p] - taken[p]
  BY <1>2 DEF StreamInv, FramingInv, FramingTypes
<1>4. Direction("send", p, cut, recvBuf[Other(p)], kernel[p], msg[p], left[p], taken[p], sendBuf[p],
                Len(delivered[p]), sent[p])
  BY <1>2 DEF StreamInv, DirectionOf
<1>5. Direction("send", p, cut \cup {p}, recvBuf[Other(p)], kernel[p], msg[p], left[p] - taken[p], 0,
                sendBuf[p], Len(delivered[p]), sent[p])
  BY <1>4, StreamTypes, DirectionInterrupted
<1>6. DirectionOf(p)'
  BY <1>2, <1>3, <1>5 DEF DirectionOf
<1>7. ASSUME NEW q \in Peers, q # p PROVE DirectionOf(q)'
  <2>1. taken'[q] = taken[q] /\ left'[q] = left[q]
    BY <1>2, <1>7 DEF StreamInv, FramingInv, FramingTypes
  <2>2. QED
    BY <1>1, <1>2, <2>1, DirectionKept
<1>8. QED
  BY <1>1, <1>2, <1>6, <1>7 DEF StreamInv

LEMMA StreamReceived ==
  ASSUME StreamInv, NEW p \in Peers, RcvBuffer(p)
  PROVE  StreamInv'
<1>1. FramingInv'
  BY RcvBufferInductive DEF StreamInv
<1>2. PICK o \in Peers : o = Other(p) /\ o # p /\ Other(o) = p
  BY StreamTypes
<1>3. PICK j \in 1..Least(RecvMax, Len(kernel[o])) :
        /\ recvBuf' = [recvBuf EXCEPT ![p] = @ \o SubSeq(kernel[o], 1, j)]
        /\ kernel' = [kernel EXCEPT ![o] = SubSeq(@, j + 1, Len(@))]
  BY <1>2 DEF RcvBuffer
<1>4. /\ pc[p] = "wait" /\ pc' = [pc EXCEPT ![p] = "parse"]
      /\ UNCHANGED <<sendBuf, sent, msg, left, taken, cut, delivered>>
  BY DEF RcvBuffer, ends, sending
<1>5. j \in 0..Len(kernel[o])
  <2>1. RecvMax \in Nat /\ Len(kernel[o]) \in Nat
    BY FramingAssumption, StreamTypes, LenProperties
  <2>2. QED
    BY <2>1 DEF Least
<1>6. /\ recvBuf'[p] = recvBuf[p] \o SubSeq(kernel[o], 1, j)
      /\ kernel'[o] = SubSeq(kernel[o], j + 1, Len(kernel[o]))
      /\ pc'[o] = pc[o] /\ pc'[p] = "parse"
      /\ recvBuf'[o] = recvBuf[o] /\ kernel'[p] = kernel[p]
  BY <1>2, <1>3, <1>4 DEF StreamInv, FramingInv, FramingTypes
<1>7. DirectionOf(o)'
  <2>1. Direction(pc[o], o, cut, recvBuf[p], kernel[o], msg[o], left[o], taken[o], sendBuf[o],
                  Len(delivered[o]), sent[o])
    BY <1>2 DEF StreamInv, DirectionOf
  <2>2. Direction(pc[o], o, cut, recvBuf[p] \o SubSeq(kernel[o], 1, j),
                  SubSeq(kernel[o], j + 1, Len(kernel[o])), msg[o], left[o], taken[o], sendBuf[o],
                  Len(delivered[o]), sent[o])
    BY <1>5, <2>1, StreamTypes, DirectionReceived
  <2>3. QED
    BY <1>2, <1>4, <1>6, <2>2 DEF DirectionOf
<1>8. DirectionOf(p)'
  BY <1>1, <1>2, <1>4, <1>6, DirectionKept
<1>9. ASSUME NEW q \in Peers PROVE q = p \/ q = o
  BY <1>2, StreamTypes
<1>10. QED
  BY <1>1, <1>4, <1>7, <1>8, <1>9 DEF StreamInv

\* A stream that no alarm has met is parsed where its packets begin.
LEMMA WholeParsed ==
  ASSUME StreamInv, NEW p \in Peers, Other(p) \notin cut, NEW len \in CompletePacketLen(p), len # -1
  PROVE  /\ len = OrderSize /\ Len(recvBuf[p]) >= PacketSize
         /\ Order(SubSeq(recvBuf[p], HEAD_LEN + 1, HEAD_LEN + len)) = Len(delivered[Other(p)]) + 1
         /\ Len(delivered[Other(p)]) < sent[Other(p)]
<1> DEFINE r == recvBuf[p]
           d == Len(delivered[Other(p)])
           n == sent[Other(p)]
           q == PacketSize
<1>1. /\ HEAD_LEN \in Nat \ {0} /\ OrderSize \in Nat \ {0} /\ q = HEAD_LEN + OrderSize
      /\ MAX_PACKET_LEN \in Nat /\ OrderSize < MAX_PACKET_LEN
  BY FramingAssumption DEF PacketSize
<1>2. r \in Seq(Byte) /\ Len(r) \in Nat /\ d \in Nat /\ n \in Nat /\ Other(Other(p)) = p
      /\ Other(p) \in Peers
  BY StreamTypes, LenProperties
<1>3. Flow(r, kernel[Other(p)], msg[Other(p)], left[Other(p)], taken[Other(p)], sendBuf[Other(p)],
           q * (d + 1), q * (n + 1))
  BY <1>2 DEF StreamInv, DirectionOf, Direction
<1>4. Runs(r, q * (d + 1))
  BY <1>3 DEF Flow
<1>5. ~(Len(r) < HEAD_LEN)
  BY DEF CompletePacketLen
<1>6. Lengths(p) = {OrderSize}
  <2>1. ASSUME NEW i \in 1..HEAD_LEN PROVE r[i].at = i - 1
    <3>1. i \in 1..q /\ i <= Len(r) /\ d + 1 \in Nat
      BY <1>1, <1>2, <1>5
    <3>2. r[i] = [pkt |-> d + 1, at |-> i - 1]
      BY <1>2, <1>4, <3>1, RunsPacket
    <3>3. QED
      BY <3>2
  <2>2. QED
    BY <2>1 DEF Lengths
<1>7. len = OrderSize /\ Len(r) >= q
  <2>1. len = IF OrderSize >= MAX_PACKET_LEN THEN MAX_PACKET_LEN
              ELSE IF Len(r) < OrderSize + HEAD_LEN THEN -1 ELSE OrderSize
    BY <1>5, <1>6 DEF CompletePacketLen
  <2> HIDE DEF q, r
  <2>2. QED
    BY <1>1, <1>2, <2>1
<1>8. Order(SubSeq(r, HEAD_LEN + 1, HEAD_LEN + len)) = d + 1
  <2>1. d + 1 \in Nat
    BY <1>2
  <2>2. QED
    BY <1>2, <1>4, <1>7, <2>1, OrderRead
<1>9. d < n
  <2>1. PICK x \in Nat, k \in Nat, s \in Nat, l \in Nat, t \in Nat :
          /\ x = Len(r) /\ k = Len(kernel[Other(p)]) /\ s = Len(sendBuf[Other(p)])
          /\ l = left[Other(p)] /\ t = taken[Other(p)] /\ t <= l
    BY <1>2, StreamTypes, LenProperties
  <2>2. q * (d + 1) + x + k + l - t + s = q * (n + 1)
    BY <1>3, <2>1 DEF Flow
  <2>3. q * (d + 1) \in Nat /\ q * (n + 1) \in Nat /\ q \in Nat \ {0}
    BY <1>2, Products
  <2>4. q * (d + 1) + q <= q * (n + 1)
    <3> DEFINE y == q * (d + 1)
               z == q * (n + 1)
    <3>1. y \in Nat /\ z \in Nat /\ y + x + k + l - t + s = z /\ x >= q /\ q \in Nat /\ t <= l
      BY <1>7, <2>1, <2>2, <2>3
    <3> HIDE DEF y, z, q
    <3>2. y + q <= z
      BY <3>1
    <3>3. QED
      BY <3>2 DEF y, z
  <2>5. ASSUME n <= d PROVE FALSE
    <3>1. PICK e \in Nat : d = n + e
      <4>1. d - n \in Nat /\ d = n + (d - n)
        BY <1>2, <2>5
      <4>2. QED
        BY <4>1
    <3>2. q * (d + 1) = q * (n + 1) + q * e /\ q * e \in Nat
      <4> HIDE DEF q, n, d
      <4>1. QED
        BY <1>2, <2>3, <3>1
    <3> DEFINE y == q * (d + 1)
               z == q * (n + 1)
               w == q * e
    <3>3. y \in Nat /\ z \in Nat /\ w \in Nat /\ y = z + w /\ y + q <= z /\ q \in Nat \ {0}
      BY <2>3, <2>4, <3>2
    <3> HIDE DEF y, z, w, q
    <3>4. QED
      BY <3>3
  <2>6. QED
    BY <1>2, <2>5
<1>10. QED
  BY <1>7, <1>8, <1>9

\* What a received packet is read as is the number of one that was sent, or 0.
LEMMA OrderKnown ==
  ASSUME NEW r \in Seq(Byte), NEW n \in Nat, Within(r, n), NEW h \in Nat, h <= Len(r), h >= HEAD_LEN
  PROVE  Order(SubSeq(r, HEAD_LEN + 1, h)) \in 0..n
<1> DEFINE b == SubSeq(r, HEAD_LEN + 1, h)
<1>1. HEAD_LEN + 1 \in Nat \ {0} /\ h \in 0..Len(r) /\ HEAD_LEN + 1 <= h + 1 /\ Len(r) \in Nat
  BY FramingAssumption, LenProperties
<1>2. b \in Seq(Byte) /\ Within(b, n)
  BY <1>1, PartOf, WithinParts
<1> HIDE DEF b
<1>3. ASSUME b # <<>> PROVE b[1].pkt \in 0..n
  <2>1. 1 \in 1..Len(b)
    BY <1>2, <1>3, EmptySeq
  <2>2. b[1] \in Byte /\ b[1].pkt <= n
    BY <1>2, <2>1, ElementOfSeq DEF Within
  <2>3. QED
    BY <2>2 DEF Byte
<1>4. Order(b) \in 0..n
  BY <1>3 DEF Order
<1>5. QED
  BY <1>4 DEF b

\* Writing a packet, by the client or as an answer.
LEMMA DirectionSent ==
  ASSUME StreamInv, NEW p \in Peers, SendData(p),
         recvBuf'[Other(p)] = recvBuf[Other(p)], UNCHANGED <<sending, kernel, pc>>,
         delivered'[p] = delivered[p]
  PROVE  DirectionOf(p)'
<1>1. sendBuf' = [sendBuf EXCEPT ![p] = @ \o Packet(sent[p] + 1)] /\ sent' = [sent EXCEPT ![p] = @ + 1]
  BY DEF SendData
<1>2. sendBuf'[p] = sendBuf[p] \o Packet(sent[p] + 1) /\ sent'[p] = sent[p] + 1
  BY <1>1 DEF StreamInv, FramingInv, FramingTypes
<1>3. Direction(pc[p], p, cut, recvBuf[Other(p)], kernel[p], msg[p], left[p], taken[p], sendBuf[p],
                Len(delivered[p]), sent[p])
  BY DEF StreamInv, DirectionOf
<1>4. Direction(pc[p], p, cut, recvBuf[Other(p)], kernel[p], msg[p], left[p], taken[p],
                sendBuf[p] \o Packet(sent[p] + 1), Len(delivered[p]), sent[p] + 1)
  BY <1>3, StreamTypes, DirectionWritten
<1>5. QED
  BY <1>2, <1>4 DEF DirectionOf, sending

\* The bytes a reception gives away, with the direction they came in.
LEMMA DirectionParsed ==
  ASSUME StreamInv, NEW p \in Peers, NEW o \in Peers, o = Other(p), NEW h \in 0..Len(recvBuf[p]),
         recvBuf' = [recvBuf EXCEPT ![p] = SubSeq(@, h + 1, Len(@))],
         sent'[o] = sent[o], sendBuf'[o] = sendBuf[o], pc'[o] = pc[o], UNCHANGED <<sending, kernel>>,
         delivered'[o] \in Seq(Nat),
         o \notin cut => h = PacketSize /\ Len(delivered'[o]) = Len(delivered[o]) + 1
  PROVE  DirectionOf(o)'
<1>1. Other(o) = p /\ recvBuf'[p] = SubSeq(recvBuf[p], h + 1, Len(recvBuf[p]))
  BY StreamTypes DEF StreamInv, FramingInv, FramingTypes
<1>2. Direction(pc[o], o, cut, recvBuf[p], kernel[o], msg[o], left[o], taken[o], sendBuf[o],
                Len(delivered[o]), sent[o])
  BY <1>1 DEF StreamInv, DirectionOf
<1>3. PICK d \in Nat, e \in Nat : d = Len(delivered[o]) /\ e = Len(delivered'[o])
  BY StreamTypes, LenProperties
<1>4. Direction(pc[o], o, cut, SubSeq(recvBuf[p], h + 1, Len(recvBuf[p])), kernel[o], msg[o], left[o],
                taken[o], sendBuf[o], e, sent[o])
  <2>1. o \notin cut => h = PacketSize /\ e = d + 1
    BY <1>3
  <2>2. Direction(pc[o], o, cut, recvBuf[p], kernel[o], msg[o], left[o], taken[o], sendBuf[o], d, sent[o])
    BY <1>2, <1>3
  <2>3. /\ recvBuf[p] \in Seq(Byte) /\ kernel[o] \in Seq(Byte) /\ msg[o] \in Seq(Byte)
        /\ sendBuf[o] \in Seq(Byte) /\ left[o] \in Nat /\ taken[o] \in Nat /\ sent[o] \in Nat
    BY StreamTypes
  <2>4. QED
    BY <2>1, <2>2, <2>3, DirectionRead
<1>5. QED
  BY <1>1, <1>3, <1>4 DEF DirectionOf, sending

LEMMA StreamRead ==
  ASSUME StreamInv, NEW p \in Peers, ReadBuffer(p)
  PROVE  /\ StreamInv'
         /\ Stream!StreamNext
<1> DEFINE order(len) == Order(SubSeq(recvBuf[p], HEAD_LEN + 1, HEAD_LEN + len))
<1>1. FramingInv'
  BY ParsingInductive DEF StreamInv
<1>2. PICK o \in Peers : o = Other(p) /\ o # p /\ Other(o) = p
  BY StreamTypes
<1>3. PICK len \in CompletePacketLen(p) \cap 1..MAX_PACKET_LEN - 1 :
        /\ delivered' = [delivered EXCEPT ![o] = Append(@, order(len))]
        /\ recvBuf' = [recvBuf EXCEPT ![p] = SubSeq(@, HEAD_LEN + len + 1, Len(@))]
  BY <1>2 DEF ReadBuffer
<1>4. (p = "server" /\ SendData(p)) \/ UNCHANGED ends
  BY DEF ReadBuffer
<1>5. UNCHANGED <<sending, kernel, pc>> /\ UNCHANGED <<msg, left, taken, cut>>
  BY DEF ReadBuffer, sending
<1>6. len \in Nat /\ HEAD_LEN + len \in 0..Len(recvBuf[p]) /\ len # -1 /\ HEAD_LEN \in Nat
  <2>1. len \in CompletePacketLen(p) \cap 0..MAX_PACKET_LEN - 1 /\ len # -1
    BY <1>3, FramingAssumption
  <2>2. QED
    BY <2>1, CompleteInside, FramingAssumption DEF StreamInv, FramingInv
<1>7. order(len) \in 0..sent[o]
  <2>1. Within(recvBuf[p], sent[o])
    BY <1>2 DEF StreamInv, DirectionOf, Direction
  <2>2. HEAD_LEN + len \in Nat /\ HEAD_LEN + len <= Len(recvBuf[p]) /\ HEAD_LEN + len >= HEAD_LEN
    BY <1>6, StreamTypes, LenProperties
  <2>3. QED
    BY <2>1, <2>2, StreamTypes, OrderKnown
<1>8. o \notin cut => /\ len = OrderSize /\ order(len) = Len(delivered[o]) + 1
                      /\ Len(delivered[o]) < sent[o]
  BY <1>2, <1>3, <1>6, WholeParsed
<1>9. o \notin cut => HEAD_LEN + len = PacketSize
  BY <1>8 DEF PacketSize
<1> HIDE DEF order
<1>10. /\ delivered'[o] = Append(delivered[o], order(len)) /\ delivered'[o] \in Seq(Nat)
       /\ Len(delivered'[o]) = Len(delivered[o]) + 1
       /\ delivered' \in [Peers -> Seq(Nat)] /\ delivered'[p] = delivered[p]
       /\ recvBuf'[o] = recvBuf[o]
  <2>1. order(len) \in Nat /\ delivered[o] \in Seq(Nat)
    BY <1>7, StreamTypes
  <2>2. Append(delivered[o], order(len)) \in Seq(Nat)
        /\ Len(Append(delivered[o], order(len))) = Len(delivered[o]) + 1
    BY <2>1
  <2>3. QED
    BY <1>2, <1>3, <2>2 DEF StreamInv, FramingInv, FramingTypes
<1>11. sent'[o] = sent[o] /\ sendBuf'[o] = sendBuf[o] /\ pc'[o] = pc[o]
  <2>1. CASE SendData(p)
    BY <1>2, <1>5, <2>1 DEF SendData, StreamInv, FramingInv, FramingTypes
  <2>2. CASE UNCHANGED ends
    BY <1>5, <2>2 DEF ends
  <2>3. QED
    BY <1>4, <2>1, <2>2
<1>12. DirectionOf(o)'
  <2>1. PICK h \in 0..Len(recvBuf[p]) : h = HEAD_LEN + len
    BY <1>6
  <2>2. recvBuf' = [recvBuf EXCEPT ![p] = SubSeq(@, h + 1, Len(@))]
    BY <1>3, <2>1
  <2>3. o \notin cut => h = PacketSize /\ Len(delivered'[o]) = Len(delivered[o]) + 1
    BY <1>9, <1>10, <2>1
  <2>4. QED
    BY <1>2, <1>5, <1>10, <1>11, <2>2, <2>3, DirectionParsed
<1>13. DirectionOf(p)'
  <2>1. CASE SendData(p)
    BY <1>2, <1>5, <1>10, <2>1, DirectionSent
  <2>2. CASE UNCHANGED ends
    BY <1>1, <1>2, <1>5, <1>10, <2>2, DirectionKept DEF ends
  <2>3. QED
    BY <1>4, <2>1, <2>2
<1>14. sent'["server"] <= Len(delivered'["client"])
  <2>1. "server" \in Peers /\ "client" \in Peers /\ sent["server"] <= Len(delivered["client"])
        /\ Len(delivered["client"]) \in Nat /\ sent["server"] \in Nat
    BY StreamTypes DEF StreamInv, Peers
  <2>2. CASE p = "server"
    <3>1. o = "client"
      BY <1>2, <2>2 DEF Other
    <3>2. sent'[p] <= sent[p] + 1
      <4>1. CASE SendData(p)
        <5>1. sent'[p] = sent[p] + 1
          BY <4>1 DEF SendData, StreamInv, FramingInv, FramingTypes
        <5>2. QED
          BY <2>1, <2>2, <5>1
      <4>2. CASE UNCHANGED ends
        BY <2>1, <2>2, <4>2 DEF ends
      <4>3. QED
        BY <1>4, <4>1, <4>2
    <3>3. sent'[p] \in Nat
      BY <1>1 DEF FramingInv, FramingTypes
    <3>4. QED
      BY <1>10, <2>1, <2>2, <3>1, <3>2, <3>3
  <2>3. CASE p = "client"
    <3>1. o = "server"
      BY <1>2, <2>3 DEF Other
    <3>2. QED
      BY <1>10, <1>11, <2>1, <2>3, <3>1
  <2>4. QED
    BY <2>2, <2>3 DEF Peers
<1>15. ASSUME NEW q \in Peers PROVE q = p \/ q = o
  BY <1>2, StreamTypes
<1>16. StreamInv'
  BY <1>1, <1>5, <1>10, <1>12, <1>13, <1>14, <1>15 DEF StreamInv
<1>17. Stream!Read(o) \/ Stream!ReadGarbled(o)
  <2>1. CASE o \notin cut
    BY <1>3, <1>8, <2>1 DEF Stream!Read
  <2>2. CASE o \in cut
    BY <1>3, <1>7, <2>2 DEF Stream!ReadGarbled
  <2>3. QED
    BY <2>1, <2>2
<1>18. UNCHANGED sent \/ Stream!Write(p)
  BY <1>4 DEF ends, SendData, Stream!Write
<1>19. p \in Peers \ {o}
  BY <1>2
<1>20. Stream!StreamNext
  BY <1>5, <1>17, <1>18, <1>19 DEF Stream!StreamNext
<1>21. QED
  BY <1>16, <1>20

\* A length of zero is read only from a stream that an alarm has met.
LEMMA StreamNotRead ==
  ASSUME StreamInv, NEW p \in Peers, NoPacket(p) \/ BadPacket(p)
  PROVE  StreamInv'
<1>1. FramingInv'
  BY ParsingInductive DEF StreamInv
<1>2. PICK o \in Peers : o = Other(p) /\ o # p /\ Other(o) = p
  BY StreamTypes
<1>3. /\ pc[p] = "parse" /\ UNCHANGED <<ends, sending, kernel, delivered>>
      /\ UNCHANGED <<sendBuf, sent, msg, left, taken, cut>>
      /\ pc' \in {[pc EXCEPT ![p] = "wait"], [pc EXCEPT ![p] = "removed"], [pc EXCEPT ![p] = "thrown"]}
  BY DEF NoPacket, BadPacket, ends, sending
<1>4. pc'[o] = pc[o] /\ pc'[p] # "send"
  BY <1>2, <1>3 DEF StreamInv, FramingInv, FramingTypes
<1>5. \/ UNCHANGED recvBuf
      \/ 0 \in CompletePacketLen(p) /\ recvBuf' = [recvBuf EXCEPT ![p] = SubSeq(@, HEAD_LEN + 1, Len(@))]
  BY DEF NoPacket, BadPacket, receiving
<1>6. DirectionOf(o)' /\ recvBuf'[o] = recvBuf[o]
  <2>1. CASE UNCHANGED recvBuf
    BY <1>1, <1>2, <1>3, <1>4, <2>1, DirectionKept
  <2>2. CASE 0 \in CompletePacketLen(p) /\ recvBuf' = [recvBuf EXCEPT ![p] = SubSeq(@, HEAD_LEN + 1, Len(@))]
    <3>1. o \in cut
      BY <1>2, <2>2, WholeParsed, FramingAssumption
    <3>2. 0 \in CompletePacketLen(p) \cap 0..MAX_PACKET_LEN - 1
      BY <2>2, FramingAssumption
    <3>3. HEAD_LEN + 0 \in 0..Len(recvBuf[p]) /\ HEAD_LEN + 0 = HEAD_LEN
      <4>1. HEAD_LEN + 0 \in 0..Len(recvBuf[p])
        BY <3>2, CompleteInside DEF StreamInv, FramingInv
      <4>2. HEAD_LEN + 0 = HEAD_LEN
        BY FramingAssumption
      <4>3. QED
        BY <4>1, <4>2
    <3>4. PICK h \in 0..Len(recvBuf[p]) : h = HEAD_LEN
      BY <3>3
    <3>5. recvBuf' = [recvBuf EXCEPT ![p] = SubSeq(@, h + 1, Len(@))]
      BY <2>2, <3>4
    <3>6. delivered'[o] \in Seq(Nat)
      BY <1>3, StreamTypes
    <3>7. DirectionOf(o)'
      BY <1>2, <1>3, <1>4, <3>1, <3>5, <3>6, DirectionParsed
    <3>8. recvBuf'[o] = recvBuf[o]
      BY <1>2, <2>2 DEF StreamInv, FramingInv, FramingTypes
    <3>9. QED
      BY <3>7, <3>8
  <2>3. QED
    BY <1>5, <2>1, <2>2
<1>7. DirectionOf(p)'
  BY <1>1, <1>2, <1>3, <1>4, <1>6, DirectionKept
<1>8. ASSUME NEW q \in Peers PROVE q = p \/ q = o
  BY <1>2, StreamTypes
<1>9. QED
  BY <1>1, <1>3, <1>6, <1>7, <1>8 DEF StreamInv

LEMMA StreamSubmitted ==
  ASSUME StreamInv, Submit
  PROVE  /\ StreamInv'
         /\ Stream!StreamNext
<1>1. FramingInv'
  BY FramingInductive DEF StreamInv, Next
<1>2. /\ SendData("client") /\ UNCHANGED <<sending, kernel, pc, delivered>> /\ UNCHANGED <<recvBuf, cut>>
      /\ UNCHANGED <<msg, left, taken>>
  BY DEF Submit, receiving, sending
<1>3. "client" \in Peers /\ "server" \in Peers
  BY DEF Peers
<1>4. DirectionOf("client")'
  BY <1>2, <1>3, DirectionSent
<1>5. sent'["server"] = sent["server"] /\ sendBuf'["server"] = sendBuf["server"]
  BY <1>2, <1>3 DEF SendData, StreamInv, FramingInv, FramingTypes
<1>6. DirectionOf("server")'
  BY <1>1, <1>2, <1>3, <1>5, DirectionKept
<1>7. StreamInv'
  BY <1>1, <1>2, <1>4, <1>5, <1>6 DEF StreamInv, Peers
<1>8. Stream!Write("client") /\ UNCHANGED <<delivered, cut>>
  BY <1>2 DEF SendData, Stream!Write
<1>9. QED
  BY <1>3, <1>7, <1>8 DEF Stream!StreamNext

\* Every step keeps the streams, and is a step of PacketStream or none.
LEMMA StreamStep ==
  ASSUME StreamInv, [Next]_vars
  PROVE  StreamInv' /\ [Stream!StreamNext]_(Stream!streamvars)
<1>1. CASE UNCHANGED vars
  <2>1. FramingInv' /\ UNCHANGED <<recvBuf, kernel, msg, left, taken, sendBuf, sent, delivered, cut, pc>>
    BY <1>1, FramingInductive DEF StreamInv, vars, ends, receiving, sending
  <2>2. \A q \in Peers : DirectionOf(q)'
    BY <2>1, DirectionKept
  <2>3. QED
    BY <2>1, <2>2 DEF StreamInv, Stream!streamvars
<1>2. CASE Submit
  BY <1>2, StreamSubmitted
<1>3. ASSUME NEW p \in Peers, Io(p) \/ SendInterrupted(p)
      PROVE  StreamInv' /\ [Stream!StreamNext]_(Stream!streamvars)
  <2>1. CASE SyncSendBuf(p)
    BY <2>1, StreamCopied DEF SyncSendBuf, Stream!streamvars
  <2>2. CASE Send(p)
    BY <2>2, StreamSent DEF Send, ends, Stream!streamvars
  <2>3. CASE RcvBuffer(p)
    BY <2>3, StreamReceived DEF RcvBuffer, ends, sending, Stream!streamvars
  <2>4. CASE ReadBuffer(p)
    BY <2>4, StreamRead
  <2>5. CASE NoPacket(p) \/ BadPacket(p)
    BY <2>5, StreamNotRead DEF NoPacket, BadPacket, ends, sending, Stream!streamvars
  <2>6. CASE SendInterrupted(p)
    <3>1. Stream!Garble(p)
      BY <2>6 DEF SendInterrupted, ends, Stream!Garble
    <3>2. Stream!StreamNext
      BY <3>1 DEF Stream!StreamNext
    <3>3. QED
      BY <2>6, <3>2, StreamInterrupted
  <2>7. QED
    BY <1>3, <2>1, <2>2, <2>3, <2>4, <2>5, <2>6 DEF Io
<1>4. QED
  BY <1>1, <1>2, <1>3 DEF Next

LEMMA StreamInitial == Init => StreamInv /\ Stream!StreamInit
<1> SUFFICES ASSUME Init PROVE StreamInv /\ Stream!StreamInit
  OBVIOUS
<1>1. FramingInv
  BY FramingInitial
<1>2. /\ \A p \in Peers : /\ recvBuf[p] = <<>> /\ kernel[p] = <<>> /\ msg[p] = <<>> /\ sendBuf[p] = <<>>
                          /\ left[p] = 0 /\ taken[p] = 0 /\ sent[p] = 0 /\ delivered[p] = <<>>
                          /\ pc[p] = "wait"
      /\ cut = {} /\ delivered = [p \in Peers |-> <<>>] /\ sent = [p \in Peers |-> 0]
      /\ \A p \in Peers : Other(p) \in Peers
  BY DEF Init, Peers, Other
<1>3. Len(<<>>) = 0 /\ <<>> \in Seq(Byte) /\ <<>> \in Seq(Nat) /\ "server" \in Peers /\ "client" \in Peers
  BY DEF Peers
<1>4. delivered \in [Peers -> Seq(Nat)] /\ sent["server"] <= Len(delivered["client"])
  BY <1>2, <1>3
<1>5. Direction("wait", "none", {}, <<>>, <<>>, <<>>, 0, 0, <<>>, 0, 0)
  <2> DEFINE x == PacketSize * (0 + 1)
  <2>1. x \in Nat /\ PacketSize * 0 \in Nat
    BY Products
  <2> HIDE DEF x
  <2>2. Flow(<<>>, <<>>, <<>>, 0, 0, <<>>, x, x)
    BY <1>3, <2>1 DEF Flow, Runs
  <2>3. Within(<<>>, 0) /\ 0 + (0 - 0) + 0 <= PacketSize * 0
    BY <1>3, <2>1 DEF Within
  <2>4. QED
    BY <1>3, <2>2, <2>3 DEF Direction, x
<1>6. ASSUME NEW p \in Peers PROVE DirectionOf(p)
  BY <1>2, <1>3, <1>5 DEF DirectionOf, Direction
<1>7. StreamInv
  BY <1>1, <1>2, <1>4, <1>6 DEF StreamInv
<1>8. QED
  BY <1>2, <1>7 DEF Stream!StreamInit

\* Through buffers that grow and move, partial sends, the kernel and receptions that cut
\* packets anywhere, each packet arrives whole, once and in order, until an alarm meets a
\* partial send of its sender: for all sizes, the model implements PacketStream.
THEOREM StreamImplemented == Spec => ImplementsStream
<1>1. Init => StreamInv /\ Stream!StreamInit
  BY StreamInitial
<1>2. StreamInv /\ [Next]_vars => StreamInv' /\ [Stream!StreamNext]_(Stream!streamvars)
  BY StreamStep
<1>3. QED
  BY <1>1, <1>2, PTL DEF Spec, ImplementsStream, Stream!StreamSpec

\* Both ends sit in a send that the kernel takes nothing of only when the client has sent
\* more bytes than the kernel holds of both directions.
THEOREM HangsNeedBacklog == Spec => []HangNeedsBacklog
<1>1. Init => StreamInv
  BY StreamInitial
<1>2. StreamInv /\ [Next]_vars => StreamInv'
  BY StreamStep
<1>3. StreamInv => HangNeedsBacklog
  <2> SUFFICES ASSUME StreamInv, BothBlocked PROVE PacketSize * sent["client"] > 2 * Capacity
    BY DEF HangNeedsBacklog
  <2> DEFINE c == "client"
             v == "server"
  <2>1. /\ c \in Peers /\ v \in Peers /\ Other(c) = v /\ c \notin cut
        /\ pc[c] = "send" /\ Len(kernel[c]) >= Capacity /\ pc[v] = "send" /\ Len(kernel[v]) >= Capacity
        /\ sent[v] <= Len(delivered[c]) /\ Capacity \in Nat
    BY FramingAssumption DEF StreamInv, Peers, Other, BothBlocked
  <2> DEFINE q == PacketSize
             d == Len(delivered[c])
             n == sent[c]
             m == sent[v]
  <2>2. PICK x \in Nat, k \in Nat, s \in Nat, l \in Nat, t \in Nat :
          /\ x = Len(recvBuf[v]) /\ k = Len(kernel[c]) /\ s = Len(sendBuf[c])
          /\ l = left[c] /\ t = taken[c]
    BY <2>1, StreamTypes, LenProperties
  <2>3. q * (d + 1) + x + k + l - t + s = q * (n + 1) /\ t < l
    BY <2>1, <2>2 DEF StreamInv, DirectionOf, Direction, Flow
  <2>4. PICK kv \in Nat, sv \in Nat, lv \in Nat, tv \in Nat :
          /\ kv = Len(kernel[v]) /\ sv = Len(sendBuf[v]) /\ lv = left[v] /\ tv = taken[v]
    BY <2>1, StreamTypes, LenProperties
  <2>5. kv + (lv - tv) + sv <= q * m /\ tv < lv
    BY <2>1, <2>4 DEF StreamInv, DirectionOf, Direction
  <2>6. d \in Nat /\ n \in Nat /\ m \in Nat /\ q \in Nat /\ m <= d
    BY <2>1, StreamTypes, PacketBytes
  <2>7. PICK a \in Nat, b \in Nat, e \in Nat : a = q * d /\ b = q * n /\ e = q * m
    BY <2>6, Products
  <2>8. q * (d + 1) = a + q /\ q * (n + 1) = b + q
    BY <2>6, <2>7, Products
  <2>9. e <= a
    <3> HIDE DEF q, d, m
    <3>1. PICK z \in Nat : d = m + z
      <4>1. d - m \in Nat /\ d = m + (d - m)
        BY <2>6
      <4>2. QED
        BY <4>1
    <3>2. q * d = q * m + q * z /\ q * z \in Nat
      BY <2>6, <3>1
    <3>3. QED
      BY <2>7, <3>2
  <2>10. k >= Capacity /\ kv >= Capacity
    BY <2>1, <2>2, <2>4
  <2>11. q \in Nat /\ Capacity \in Nat /\ a + q + x + k + l - t + s = b + q /\ kv + (lv - tv) + sv <= e
    BY <2>1, <2>3, <2>5, <2>6, <2>7, <2>8
  <2>12. t < l /\ tv < lv
    BY <2>3, <2>5
  <2> HIDE DEF q
  <2>13. b > 2 * Capacity
    BY <2>9, <2>10, <2>11, <2>12
  <2>14. QED
    BY <2>7, <2>13 DEF q
<1>4. QED
  BY <1>1, <1>2, <1>3, PTL DEF Spec
=============================================================================
