-------------------------------- MODULE Framing --------------------------------
(***************************************************************************)
(* base/MySocket.h, base/MySocket.cpp and the io threads that use them     *)
(* (MyIoThread::run, MyClientIoThread::run): packets of a length field and *)
(* an order go through a send buffer, a blocking send, the kernel and a    *)
(* receive buffer, in both directions of one connection.                   *)
(*                                                                         *)
(* A byte knows its packet and its place in it, so a length field can be   *)
(* cut anywhere.  A length read from other bytes is any of JunkLengths.    *)
(* All packets have one size, as both ends send sizeof(ORDER_CS) bytes.    *)
(***************************************************************************)
EXTENDS Integers, Sequences

CONSTANTS
  HEAD_LEN, CHUNK, MAX_PACKET_LEN,
  OrderSize,    \* sizeof(ORDER_CS)
  Capacity,     \* bytes the kernel holds of one direction
  RecvMax,      \* bytes rcvBuffer takes at once
  JunkLengths,  \* what bytes that are no length field may read as
  MaxOrders,    \* orders the client sends
  MaxSignals    \* alarms that meet a blocked send of the server

ASSUME FramingAssumption ==
  /\ {HEAD_LEN, CHUNK, OrderSize, Capacity, RecvMax} \subseteq Nat \ {0}
  /\ MAX_PACKET_LEN \in Nat /\ OrderSize < MAX_PACKET_LEN
  /\ JunkLengths \subseteq Nat
  /\ MaxOrders \in Nat /\ MaxSignals \in Nat

Peers == {"client", "server"}
Other(p) == IF p = "client" THEN "server" ELSE "client"
PacketSize == HEAD_LEN + OrderSize

VARIABLES
  sendBuf,    \* per peer: the bytes of its SendBuffer, whose readPos is always 0
  sendSize,   \* its mBuffer.size()
  recvBuf,    \* the bytes of its RecvBuffer from readPos to writePos
  readPos,    \* readPos of the RecvBuffer
  recvSize,   \* its mBuffer.size()
  kernel,     \* the bytes it sent that the other end has not received
  pc,         \* where its io thread is
  msg,        \* the copy of the send buffer in syncSendBuf
  left,       \* l of syncSendBuf
  taken,      \* bytes the kernel took in the current call of send
  sent,       \* packets written, a history of sendDataWithBuffer
  delivered,  \* per sender, the packets its peer read; 0 is none of them (history)
  signals,    \* alarms so far
  cut         \* the peers that repeated a part of msg (history)

ends == <<sendBuf, sendSize, sent>>
receiving == <<recvBuf, readPos, recvSize>>
sending == <<msg, left, taken, signals, cut>>
vars == <<ends, receiving, sending, kernel, pc, delivered>>

Packet(n) == [i \in 1..PacketSize |-> [pkt |-> n, at |-> i - 1]]
WritePos(p) == readPos[p] + Len(recvBuf[p])
Least(a, b) == IF a < b THEN a ELSE b
getChunkSize(size) == ((size + CHUNK - 1) \div CHUNK) * CHUNK
-----------------------------------------------------------------------------
\* sendDataWithBuffer: SendBuffer::writeBuffer appends the length field and the order,
\* growing the buffer by what is missing.
SendData(p) ==
  LET remainLen == sendSize[p] - Len(sendBuf[p])
  IN  /\ sendBuf' = [sendBuf EXCEPT ![p] = @ \o Packet(sent[p] + 1)]
      /\ sendSize' = IF remainLen < PacketSize
                     THEN [sendSize EXCEPT ![p] = getChunkSize(@ + PacketSize - remainLen)]
                     ELSE sendSize
      /\ sent' = [sent EXCEPT ![p] = @ + 1]

\* testSend, in the client's main thread.
Submit ==
  /\ pc["client"] # "thrown" /\ sent["client"] < MaxOrders
  /\ SendData("client")
  /\ UNCHANGED <<receiving, sending, kernel, pc, delivered>>

\* Mutant: readBuffer leaves the data in the send buffer.
SyncSendBufKept(p) ==
  /\ pc[p] = "wait" /\ sendBuf[p] # <<>>
  /\ msg' = [msg EXCEPT ![p] = sendBuf[p]]
  /\ left' = [left EXCEPT ![p] = Len(sendBuf[p])]
  /\ pc' = [pc EXCEPT ![p] = "send"]
  /\ UNCHANGED <<ends, receiving, taken, signals, cut, kernel, delivered>>

\* An io thread that saw its socket writable and not readable copies the send buffer.
\* Either may have changed since epoll_wait...
SyncSendBuf(p) ==
  /\ pc[p] = "wait" /\ sendBuf[p] # <<>>
  /\ msg' = [msg EXCEPT ![p] = sendBuf[p]]
  /\ left' = [left EXCEPT ![p] = Len(sendBuf[p])]
  /\ sendBuf' = [sendBuf EXCEPT ![p] = <<>>]
  /\ pc' = [pc EXCEPT ![p] = "send"]
  /\ UNCHANGED <<sendSize, sent, receiving, taken, signals, cut, kernel, delivered>>

\* ...and stays in send until the kernel has taken all of it.
Send(p) ==
  LET n == Least(left[p] - taken[p], Capacity - Len(kernel[p]))
      done == taken[p] + n = left[p]
  IN  /\ pc[p] = "send" /\ n > 0
      /\ kernel' = [kernel EXCEPT ![p] = @ \o SubSeq(msg[p], taken[p] + 1, taken[p] + n)]
      /\ taken' = [taken EXCEPT ![p] = IF done THEN 0 ELSE @ + n]
      /\ left' = [left EXCEPT ![p] = IF done THEN 0 ELSE @]
      /\ msg' = [msg EXCEPT ![p] = IF done THEN <<>> ELSE @]
      /\ pc' = [pc EXCEPT ![p] = IF done THEN "wait" ELSE "send"]
      /\ UNCHANGED <<ends, receiving, signals, cut, delivered>>

\* An alarm ends a blocked call with what the kernel took; the loop sends the rest of
\* the length, again from the start of msg.
SendInterrupted(p) ==
  /\ p = "server" /\ signals < MaxSignals
  /\ pc[p] = "send" /\ Len(kernel[p]) >= Capacity /\ taken[p] > 0
  /\ left' = [left EXCEPT ![p] = @ - taken[p]]
  /\ taken' = [taken EXCEPT ![p] = 0]
  /\ signals' = signals + 1
  /\ cut' = cut \cup {p}
  /\ UNCHANGED <<ends, receiving, msg, kernel, pc, delivered>>
-----------------------------------------------------------------------------
\* Mutant: the data is moved to the front and the buffer does not grow.
RcvBufferNoGrowth(p) ==
  /\ pc[p] = "wait"
  /\ \E len \in 1..Least(RecvMax, Len(kernel[Other(p)])) :
       /\ readPos' = [readPos EXCEPT ![p] = IF recvSize[p] - WritePos(p) < len THEN 0 ELSE @]
       /\ recvBuf' = [recvBuf EXCEPT ![p] = @ \o SubSeq(kernel[Other(p)], 1, len)]
       /\ kernel' = [kernel EXCEPT ![Other(p)] = SubSeq(@, len + 1, Len(@))]
  /\ pc' = [pc EXCEPT ![p] = "parse"]
  /\ UNCHANGED <<ends, recvSize, sending, delivered>>

\* rcvBuffer: what has arrived goes behind the bytes kept. When it does not fit, they
\* are moved to the front, and the buffer grows by what was missing before the move.
RcvBuffer(p) ==
  /\ pc[p] = "wait"
  /\ \E len \in 1..Least(RecvMax, Len(kernel[Other(p)])) :
       LET remainLen == recvSize[p] - WritePos(p)
       IN  /\ IF remainLen < len
              THEN /\ readPos' = [readPos EXCEPT ![p] = 0]
                   /\ recvSize' = [recvSize EXCEPT ![p] = getChunkSize(@ + len - remainLen)]
              ELSE UNCHANGED <<readPos, recvSize>>
           /\ recvBuf' = [recvBuf EXCEPT ![p] = @ \o SubSeq(kernel[Other(p)], 1, len)]
           /\ kernel' = [kernel EXCEPT ![Other(p)] = SubSeq(@, len + 1, Len(@))]
  /\ pc' = [pc EXCEPT ![p] = "parse"]
  /\ UNCHANGED <<ends, sending, delivered>>

\* The length field at readPos.
Lengths(p) ==
  IF \A i \in 1..HEAD_LEN : recvBuf[p][i].at = i - 1 THEN {OrderSize} ELSE JunkLengths

\* completePacketlen: -1 as long as the packet is not complete.
CompletePacketLen(p) ==
  IF Len(recvBuf[p]) < HEAD_LEN THEN {-1}
  ELSE {IF len >= MAX_PACKET_LEN THEN MAX_PACKET_LEN
        ELSE IF Len(recvBuf[p]) < len + HEAD_LEN THEN -1 ELSE len : len \in Lengths(p)}

\* The packet whose order these bytes are, if they are one.
Order(bytes) ==
  IF bytes # <<>> /\ bytes = SubSeq(Packet(bytes[1].pkt), HEAD_LEN + 1, PacketSize)
  THEN bytes[1].pkt ELSE 0

\* Mutants: readBuffer leaves the packet where it is; getMsg stops after one packet.
ReadBufferKept(p) ==
  /\ pc[p] = "parse"
  /\ \E len \in CompletePacketLen(p) \cap 1..MAX_PACKET_LEN - 1 :
       delivered' = [delivered EXCEPT ![Other(p)] =
                       Append(@, Order(SubSeq(recvBuf[p], HEAD_LEN + 1, HEAD_LEN + len)))]
  /\ pc' = [pc EXCEPT ![p] = "wait"]
  /\ \/ p = "server" /\ SendData(p)
     \/ UNCHANGED ends
  /\ UNCHANGED <<receiving, sending, kernel>>

ReadBufferOnce(p) ==
  /\ pc[p] = "parse"
  /\ \E len \in CompletePacketLen(p) \cap 1..MAX_PACKET_LEN - 1 :
       /\ delivered' = [delivered EXCEPT ![Other(p)] =
                          Append(@, Order(SubSeq(recvBuf[p], HEAD_LEN + 1, HEAD_LEN + len)))]
       /\ recvBuf' = [recvBuf EXCEPT ![p] = SubSeq(@, HEAD_LEN + len + 1, Len(@))]
       /\ readPos' = [readPos EXCEPT ![p] = @ + HEAD_LEN + len]
  /\ pc' = [pc EXCEPT ![p] = "wait"]
  /\ UNCHANGED <<ends, recvSize, sending, kernel>>

\* readBuffer takes a complete packet; the server may answer with one (getMsg).
ReadBuffer(p) ==
  /\ pc[p] = "parse"
  /\ \E len \in CompletePacketLen(p) \cap 1..MAX_PACKET_LEN - 1 :
       /\ delivered' = [delivered EXCEPT ![Other(p)] =
                          Append(@, Order(SubSeq(recvBuf[p], HEAD_LEN + 1, HEAD_LEN + len)))]
       /\ recvBuf' = [recvBuf EXCEPT ![p] = SubSeq(@, HEAD_LEN + len + 1, Len(@))]
       /\ readPos' = [readPos EXCEPT ![p] = @ + HEAD_LEN + len]
  /\ \/ p = "server" /\ SendData(p)
     \/ UNCHANGED ends
  /\ UNCHANGED <<recvSize, sending, kernel, pc>>

\* Nothing complete, or a length of zero, which is taken and ends the loop as well.
NoPacket(p) ==
  /\ pc[p] = "parse"
  /\ \/ /\ -1 \in CompletePacketLen(p)
        /\ UNCHANGED <<recvBuf, readPos>>
     \/ /\ 0 \in CompletePacketLen(p)
        /\ recvBuf' = [recvBuf EXCEPT ![p] = SubSeq(@, HEAD_LEN + 1, Len(@))]
        /\ readPos' = [readPos EXCEPT ![p] = @ + HEAD_LEN]
  /\ pc' = [pc EXCEPT ![p] = "wait"]
  /\ UNCHANGED <<ends, recvSize, sending, kernel, delivered>>

\* A length over the limit: the server gives the task up; the client's getMsg, which
\* ends only for 0, makes a string of -1 bytes of it, and the exception ends the process.
BadPacket(p) ==
  /\ pc[p] = "parse" /\ MAX_PACKET_LEN \in CompletePacketLen(p)
  /\ pc' = [pc EXCEPT ![p] = IF p = "server" THEN "removed" ELSE "thrown"]
  /\ UNCHANGED <<ends, receiving, sending, kernel, delivered>>
-----------------------------------------------------------------------------
Init ==
  /\ sendBuf = [p \in Peers |-> <<>>] /\ sendSize = [p \in Peers |-> CHUNK]
  /\ recvBuf = [p \in Peers |-> <<>>] /\ recvSize = [p \in Peers |-> CHUNK]
  /\ readPos = [p \in Peers |-> 0]
  /\ kernel = [p \in Peers |-> <<>>]
  /\ pc = [p \in Peers |-> "wait"]
  /\ msg = [p \in Peers |-> <<>>]
  /\ left = [p \in Peers |-> 0] /\ taken = [p \in Peers |-> 0]
  /\ sent = [p \in Peers |-> 0] /\ delivered = [p \in Peers |-> <<>>]
  /\ signals = 0 /\ cut = {}

\* An io thread in its round.
Io(p) ==
  \/ SyncSendBuf(p) \/ Send(p)
  \/ RcvBuffer(p) \/ ReadBuffer(p) \/ NoPacket(p) \/ BadPacket(p)

Next == Submit \/ \E p \in Peers : Io(p) \/ SendInterrupted(p)

Spec == Init /\ [][Next]_vars /\ \A p \in Peers : WF_vars(Io(p))
-----------------------------------------------------------------------------
\* What is written stays inside the buffers, although both grow by a length computed
\* before their bytes are moved (MySocket.h:46, MySocket.h:145), and what syncSendBuf
\* sends stays inside the message, although it counts the parts that were interrupted.
BuffersInside ==
  \A p \in Peers : /\ WritePos(p) <= recvSize[p]
                   /\ Len(sendBuf[p]) <= sendSize[p]
                   /\ taken[p] <= left[p] /\ left[p] <= Len(msg[p])

\* Both io threads sit in send, and neither reads what would let the other go on.
BothBlocked == \A p \in Peers : pc[p] = "send" /\ Len(kernel[p]) >= Capacity

\* The two ends can wait for each other only when the client has sent more than the
\* kernel holds of both directions together; below that, no send blocks for ever.
HangNeedsBacklog == BothBlocked => PacketSize * sent["client"] > 2 * Capacity

\* Everything sent is read in the end, unless the two ends wait for each other or the
\* server repeated the front of a partial send.
Delivered ==
  \A p \in Peers : <>[](Len(delivered[p]) = sent[p] \/ BothBlocked \/ cut # {})
=============================================================================
