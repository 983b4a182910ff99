--------------------------- MODULE MessagesProofs ---------------------------
(***************************************************************************)
(* What Marshal writes, Unmarshal reads: for every message of every class  *)
(* with fields of a fixed size, and for a PaxosMsg with any address.       *)
(***************************************************************************)
EXTENDS Messages, TLAPS

(***************************************************************************)
(* ntohl undoes htonl, for every int (the memcpy pairs of Messages.cpp).   *)
(***************************************************************************)
LEMMA BytesOfInt ==
  ASSUME NEW n \in Int32
  PROVE  /\ \A k \in 1 .. 4 : NetBytes(n)[k] \in Byte
         /\ Word(NetBytes(n)[1], NetBytes(n)[2], NetBytes(n)[3], NetBytes(n)[4]) = n
<1> DEFINE q3 == n \div 256
           q2 == q3 \div 256
           q1 == q2 \div 256
<1>1. n \in Int /\ q3 \in Int /\ q2 \in Int /\ q1 \in Int
  BY SMT DEF Int32
<1>2. n = 256 * q3 + (n % 256) /\ n % 256 \in Byte
  BY <1>1, SMT DEF Byte
<1>3. q3 = 256 * q2 + (q3 % 256) /\ q3 % 256 \in Byte
  BY <1>1, SMT DEF Byte
<1>4. q2 = 256 * q1 + (q2 % 256) /\ q2 % 256 \in Byte
  BY <1>1, SMT DEF Byte
<1>5. q1 \in -128 .. 127
  BY <1>1, <1>2, <1>3, <1>4, SMT DEF Int32, Byte
<1>6. q1 % 256 = (IF q1 < 0 THEN q1 + 256 ELSE q1) /\ q1 % 256 \in Byte
  <2> HIDE DEF q1
  <2> QED  BY <1>5, SMT DEF Byte
<1>7. NetBytes(n) = <<q1 % 256, q2 % 256, q3 % 256, n % 256>>
  BY DEF NetBytes
<1>8. Word(q1 % 256, q2 % 256, q3 % 256, n % 256) = n
  <2>1. (IF q1 % 256 < 128 THEN q1 % 256 ELSE (q1 % 256) - 256) = q1
    BY <1>5, <1>6
  <2> HIDE DEF q1, q2, q3
  <2> QED  BY <1>1, <1>2, <1>3, <1>4, <2>1 DEF Word
<1> HIDE DEF q1, q2, q3
<1> QED  BY <1>2, <1>3, <1>4, <1>6, <1>7, <1>8

LEMMA IntsAreBytes ==
  ASSUME NEW ints \in Seq(Int32)
  PROVE  /\ NetInts(ints) \in Seq(Byte)
         /\ Len(NetInts(ints)) = 4 * Len(ints)
<1>1. ASSUME NEW i \in 1 .. 4 * Len(ints)
      PROVE  NetInts(ints)[i] \in Byte
  <2>1. (i + 3) \div 4 \in 1 .. Len(ints) /\ ((i + 3) % 4) + 1 \in 1 .. 4
    OBVIOUS
  <2>2. ints[(i + 3) \div 4] \in Int32
    BY <2>1
  <2> QED  BY <2>1, <2>2, BytesOfInt DEF NetInts
<1>2. NetInts(ints) = [i \in 1 .. 4 * Len(ints) |-> NetInts(ints)[i]]
  BY DEF NetInts
<1> QED  BY <1>1, <1>2

(***************************************************************************)
(* The k-th int is read at offset 4 * (k - 1).                             *)
(***************************************************************************)
LEMMA IntAt ==
  ASSUME NEW ints \in Seq(Int32), NEW k \in 1 .. Len(ints)
  PROVE  NetInt(NetInts(ints), 4 * (k - 1)) = ints[k]
<1>1. \A j \in 1 .. 4 :
        /\ 4 * (k - 1) + j \in 1 .. 4 * Len(ints)
        /\ (4 * (k - 1) + j + 3) \div 4 = k
        /\ ((4 * (k - 1) + j + 3) % 4) + 1 = j
  OBVIOUS
<1>2. \A j \in 1 .. 4 : NetInts(ints)[4 * (k - 1) + j] = NetBytes(ints[k])[j]
  BY <1>1 DEF NetInts
<1>3. ints[k] \in Int32
  OBVIOUS
<1> QED  BY <1>2, <1>3, BytesOfInt DEF NetInt

(***************************************************************************)
(* What is read of a buffer that is written in two parts, p and then q.    *)
(***************************************************************************)
LEMMA IntBefore ==
  ASSUME NEW p \in Seq(Byte), NEW q \in Seq(Byte), NEW o \in Nat, o + 4 <= Len(p)
  PROVE  NetInt(p \o q, o) = NetInt(p, o)
<1>1. \A j \in {1, 2, 3, 4} : (p \o q)[o + j] = p[o + j]
  OBVIOUS
<1> QED  BY <1>1 DEF NetInt

LEMMA IntAfter ==
  ASSUME NEW p \in Seq(Byte), NEW q \in Seq(Byte), NEW o \in Nat, o + 4 <= Len(q)
  PROVE  NetInt(p \o q, Len(p) + o) = NetInt(q, o)
<1>1. \A j \in {1, 2, 3, 4} : (p \o q)[Len(p) + o + j] = q[o + j]
  OBVIOUS
<1> QED  BY <1>1, SMTT(30) DEF NetInt

LEMMA CharsAfter ==
  ASSUME NEW p \in Seq(Byte), NEW q \in Seq(Byte)
  PROVE  Chars(p \o q, Len(p), Len(q)) = q
  BY DEF Chars

LEMMA CharsBefore ==
  ASSUME NEW p \in Seq(Byte), NEW q \in Seq(Byte), NEW o \in Nat, NEW n \in Nat,
         o + n <= Len(p)
  PROVE  Chars(p \o q, o, n) = Chars(p, o, n)
  BY DEF Chars

(***************************************************************************)
(* The classes with fields of a fixed size: Marshal fills Size() bytes, of *)
(* which Unmarshal makes the message again.                                *)
(***************************************************************************)
THEOREM RequestRoundTrip ==
  ASSUME NEW m \in CustomerRequest
  PROVE  /\ MarshalRequest(m) \in Seq(Byte) /\ Len(MarshalRequest(m)) = RequestSize
         /\ UnmarshalRequest(MarshalRequest(m)) = m
<1> DEFINE ints == <<m.customer_id, m.order_number, m.request_type>>
<1>1. ints \in Seq(Int32)
  BY DEF CustomerRequest
<1>2. Len(ints) = 3 /\ 1 \in 1 .. 3 /\ 2 \in 1 .. 3 /\ 3 \in 1 .. 3
  OBVIOUS
<1>3. NetInts(ints) \in Seq(Byte) /\ Len(NetInts(ints)) = 4 * Len(ints)
  <2> HIDE DEF ints
  <2> QED  BY <1>1, IntsAreBytes
<1>4. /\ NetInt(NetInts(ints), 4 * (1 - 1)) = ints[1]
      /\ NetInt(NetInts(ints), 4 * (2 - 1)) = ints[2]
      /\ NetInt(NetInts(ints), 4 * (3 - 1)) = ints[3]
  <2> HIDE DEF ints
  <2> QED  BY <1>1, <1>2, IntAt
<1>5. UnmarshalRequest(NetInts(ints)) = m
  BY <1>4 DEF UnmarshalRequest, CustomerRequest
<1>6. Len(NetInts(ints)) = 12
  BY <1>2, <1>3
<1> QED  BY <1>3, <1>5, <1>6 DEF MarshalRequest, RequestSize

\* CustomerRecord, the answer to a read: Marshal fills 8 bytes, of which Unmarshal
\* makes the record again.
THEOREM RecordRoundTrip ==
  ASSUME NEW m \in CustomerRecord
  PROVE  /\ MarshalRecord(m) \in Seq(Byte) /\ Len(MarshalRecord(m)) = RecordSize
         /\ UnmarshalRecord(MarshalRecord(m)) = m
<1> DEFINE ints == <<m.customer_id, m.last_order>>
<1>1. ints \in Seq(Int32)
  BY DEF CustomerRecord
<1>2. Len(ints) = 2 /\ 1 \in 1 .. 2 /\ 2 \in 1 .. 2
  OBVIOUS
<1>3. NetInts(ints) \in Seq(Byte) /\ Len(NetInts(ints)) = 4 * Len(ints)
  <2> HIDE DEF ints
  <2> QED  BY <1>1, IntsAreBytes
<1>4. /\ NetInt(NetInts(ints), 4 * (1 - 1)) = ints[1]
      /\ NetInt(NetInts(ints), 4 * (2 - 1)) = ints[2]
  <2> HIDE DEF ints
  <2> QED  BY <1>1, <1>2, IntAt
<1>5. UnmarshalRecord(NetInts(ints)) = m
  BY <1>4 DEF UnmarshalRecord, CustomerRecord
<1>6. Len(NetInts(ints)) = 8
  BY <1>2, <1>3
<1> QED  BY <1>3, <1>5, <1>6 DEF MarshalRecord, RecordSize

\* LaptopInfo, the answer to an order: five ints in 20 bytes, none over another.
THEOREM LaptopRoundTrip ==
  ASSUME NEW m \in LaptopInfo
  PROVE  /\ MarshalLaptop(m) \in Seq(Byte) /\ Len(MarshalLaptop(m)) = LaptopSize
         /\ UnmarshalLaptop(MarshalLaptop(m)) = m
<1> DEFINE ints == <<m.customer_id, m.order_number, m.request_type, m.engineer_id,
                     m.admin_id>>
<1>1. ints \in Seq(Int32)
  BY DEF LaptopInfo
<1>2. Len(ints) = 5 /\ \A k \in {1, 2, 3, 4, 5} : k \in 1 .. 5
  OBVIOUS
<1>3. NetInts(ints) \in Seq(Byte) /\ Len(NetInts(ints)) = 4 * Len(ints)
  <2> HIDE DEF ints
  <2> QED  BY <1>1, IntsAreBytes
<1>4. /\ NetInt(NetInts(ints), 4 * (1 - 1)) = ints[1]
      /\ NetInt(NetInts(ints), 4 * (2 - 1)) = ints[2]
      /\ NetInt(NetInts(ints), 4 * (3 - 1)) = ints[3]
      /\ NetInt(NetInts(ints), 4 * (4 - 1)) = ints[4]
      /\ NetInt(NetInts(ints), 4 * (5 - 1)) = ints[5]
  <2> HIDE DEF ints
  <2> QED  BY <1>1, <1>2, IntAt
<1>5. UnmarshalLaptop(NetInts(ints)) = m
  BY <1>4 DEF UnmarshalLaptop, LaptopInfo
<1>6. Len(NetInts(ints)) = 20
  BY <1>2, <1>3
<1> QED  BY <1>3, <1>5, <1>6 DEF MarshalLaptop, LaptopSize

\* MapOp: 12 bytes and the same operation again.
THEOREM MapOpRoundTrip ==
  ASSUME NEW m \in MapOp
  PROVE  /\ MarshalMapOp(m) \in Seq(Byte) /\ Len(MarshalMapOp(m)) = 12
         /\ UnmarshalMapOp(MarshalMapOp(m)) = m
<1> DEFINE ints == <<m.opcode, m.arg1, m.arg2>>
<1>1. ints \in Seq(Int32)
  BY DEF MapOp
<1>2. Len(ints) = 3 /\ 1 \in 1 .. 3 /\ 2 \in 1 .. 3 /\ 3 \in 1 .. 3
  OBVIOUS
<1>3. NetInts(ints) \in Seq(Byte) /\ Len(NetInts(ints)) = 4 * Len(ints)
  <2> HIDE DEF ints
  <2> QED  BY <1>1, IntsAreBytes
<1>4. /\ NetInt(NetInts(ints), 4 * (1 - 1)) = ints[1]
      /\ NetInt(NetInts(ints), 4 * (2 - 1)) = ints[2]
      /\ NetInt(NetInts(ints), 4 * (3 - 1)) = ints[3]
  <2> HIDE DEF ints
  <2> QED  BY <1>1, <1>2, IntAt
<1>5. UnmarshalMapOp(NetInts(ints)) = m
  BY <1>4 DEF UnmarshalMapOp, MapOp
<1>6. Len(NetInts(ints)) = 12
  BY <1>2, <1>3
<1> QED  BY <1>3, <1>5, <1>6 DEF MarshalMapOp

(***************************************************************************)
(* A LogRequest holds a MapOp, which its own Marshal appends.              *)
(***************************************************************************)
THEOREM LogRequestRoundTrip ==
  ASSUME NEW m \in LogRequest
  PROVE  /\ MarshalLogRequest(m) \in Seq(Byte) /\ Len(MarshalLogRequest(m)) = LogRequestSize
         /\ UnmarshalLogRequest(MarshalLogRequest(m)) = m
<1> DEFINE ints == <<m.factory_id, m.committed_index, m.last_index>>
           head == NetInts(ints)
           tail == MarshalMapOp(m.op)
<1>1. ints \in Seq(Int32)
  BY DEF LogRequest
<1>2. Len(ints) = 3 /\ 1 \in 1 .. 3 /\ 2 \in 1 .. 3 /\ 3 \in 1 .. 3
  OBVIOUS
<1>3. head \in Seq(Byte) /\ Len(head) = 4 * Len(ints)
  <2> HIDE DEF ints
  <2> QED  BY <1>1, IntsAreBytes
<1>4. /\ NetInt(head, 4 * (1 - 1)) = ints[1]
      /\ NetInt(head, 4 * (2 - 1)) = ints[2]
      /\ NetInt(head, 4 * (3 - 1)) = ints[3]
  <2> HIDE DEF ints
  <2> QED  BY <1>1, <1>2, IntAt
<1>5. /\ NetInt(head, 0) = m.factory_id
      /\ NetInt(head, 4) = m.committed_index
      /\ NetInt(head, 8) = m.last_index
  BY <1>4
<1>6. tail \in Seq(Byte) /\ UnmarshalMapOp(tail) = m.op
  BY MapOpRoundTrip DEF LogRequest
<1>7. Len(tail) = 12
  BY MapOpRoundTrip DEF LogRequest
<1>8. MarshalLogRequest(m) = head \o tail
  BY DEF MarshalLogRequest
<1>9. Len(head) = 12
  BY <1>2, <1>3
<1> HIDE DEF head, tail, ints
<1>10. /\ NetInt(head \o tail, 0) = m.factory_id
       /\ NetInt(head \o tail, 4) = m.committed_index
       /\ NetInt(head \o tail, 8) = m.last_index
  <2>1. 0 + 4 <= Len(head) /\ 4 + 4 <= Len(head) /\ 8 + 4 <= Len(head)
    BY <1>9
  <2> QED  BY <2>1, <1>3, <1>5, <1>6, IntBefore
<1>11. Chars(head \o tail, Len(head), Len(tail)) = tail
  BY <1>3, <1>6, CharsAfter
<1>12. UnmarshalLogRequest(head \o tail) = m
  BY <1>6, <1>7, <1>9, <1>10, <1>11 DEF UnmarshalLogRequest, LogRequest
<1>13. head \o tail \in Seq(Byte) /\ Len(head \o tail) = Len(head) + Len(tail)
  BY <1>3, <1>6
<1>14. Len(head \o tail) = 24
  BY <1>7, <1>9, <1>13
<1> QED  BY <1>8, <1>12, <1>13, <1>14 DEF LogRequestSize

\* LogResponse: 4 bytes and the same factory_id again.
THEOREM LogResponseRoundTrip ==
  ASSUME NEW m \in LogResponse
  PROVE  /\ MarshalLogResponse(m) \in Seq(Byte) /\ Len(MarshalLogResponse(m)) = LogResponseSize
         /\ UnmarshalLogResponse(MarshalLogResponse(m)) = m
<1> DEFINE ints == <<m.factory_id>>
<1>1. ints \in Seq(Int32)
  BY DEF LogResponse
<1>2. Len(ints) = 1 /\ 1 \in 1 .. 1
  OBVIOUS
<1>3. NetInts(ints) \in Seq(Byte) /\ Len(NetInts(ints)) = 4 * Len(ints)
  <2> HIDE DEF ints
  <2> QED  BY <1>1, IntsAreBytes
<1>4. /\ NetInt(NetInts(ints), 4 * (1 - 1)) = ints[1]
  <2> HIDE DEF ints
  <2> QED  BY <1>1, <1>2, IntAt
<1>5. UnmarshalLogResponse(NetInts(ints)) = m
  BY <1>4 DEF UnmarshalLogResponse, LogResponse
<1>6. Len(NetInts(ints)) = 4
  BY <1>2, <1>3
<1> QED  BY <1>3, <1>5, <1>6 DEF MarshalLogResponse, LogResponseSize

(***************************************************************************)
(* A PaxosMsg, with an address of any length: size() bytes, of which       *)
(* Unmarshal makes the message again.  The address lies between the ints.  *)
(***************************************************************************)
THEOREM PaxosMsgRoundTrip ==
  ASSUME NEW m \in PaxosMsg, Len(m.clientIp) \in Int32
  PROVE  /\ MarshalPaxosMsg(m) \in Seq(Byte)
         /\ Len(MarshalPaxosMsg(m)) = PaxosMsgSize(m)
         /\ UnmarshalPaxosMsg(MarshalPaxosMsg(m)) = m
<1> DEFINE ints == <<m.phase, m.agree, m.proposeNumber, m.acceptedProposal,
                     m.slotNumber, m.commandId, Len(m.clientIp)>>
           ids == <<m.customerId, m.orderId>>
           head == NetInts(ints)
           tail == NetInts(ids)
           ip == m.clientIp
           b == (head \o ip) \o tail
<1>1. ints \in Seq(Int32) /\ ids \in Seq(Int32)
  BY DEF PaxosMsg
<1>2. /\ Len(ints) = 7 /\ Len(ids) = 2
      /\ \A k \in {1, 2, 3, 4, 5, 6, 7} : k \in 1 .. 7
      /\ 1 \in 1 .. 2 /\ 2 \in 1 .. 2
  OBVIOUS
<1>3. /\ head \in Seq(Byte) /\ Len(head) = 4 * Len(ints)
      /\ tail \in Seq(Byte) /\ Len(tail) = 4 * Len(ids)
  <2> HIDE DEF ints, ids
  <2> QED  BY <1>1, IntsAreBytes
<1>4. /\ NetInt(head, 4 * (1 - 1)) = ints[1]
      /\ NetInt(head, 4 * (2 - 1)) = ints[2]
      /\ NetInt(head, 4 * (3 - 1)) = ints[3]
      /\ NetInt(head, 4 * (4 - 1)) = ints[4]
      /\ NetInt(head, 4 * (5 - 1)) = ints[5]
      /\ NetInt(head, 4 * (6 - 1)) = ints[6]
      /\ NetInt(head, 4 * (7 - 1)) = ints[7]
      /\ NetInt(tail, 4 * (1 - 1)) = ids[1]
      /\ NetInt(tail, 4 * (2 - 1)) = ids[2]
  <2> HIDE DEF ints, ids
  <2> QED  BY <1>1, <1>2, IntAt
<1>5. /\ NetInt(head, 0) = m.phase
      /\ NetInt(head, 4) = m.agree
      /\ NetInt(head, 8) = m.proposeNumber
      /\ NetInt(head, 12) = m.acceptedProposal
      /\ NetInt(head, 16) = m.slotNumber
      /\ NetInt(head, 20) = m.commandId
      /\ NetInt(head, 24) = Len(ip)
      /\ NetInt(tail, 0) = m.customerId
      /\ NetInt(tail, 4) = m.orderId
  BY <1>4
<1>6. ip \in Seq(Byte) /\ Len(ip) \in Nat
  BY DEF PaxosMsg, Character, Byte
<1>7. MarshalPaxosMsg(m) = b
  BY DEF MarshalPaxosMsg
<1>8. Len(head) = 28 /\ Len(tail) = 8
  BY <1>2, <1>3
<1> HIDE DEF head, tail, ints, ids, ip
<1>9. head \o ip \in Seq(Byte) /\ Len(head \o ip) = Len(head) + Len(ip)
  <2>1. head \in Seq(Byte) /\ ip \in Seq(Byte)
    BY <1>3, <1>6
  <2> QED  BY ONLY <2>1
<1>10. b \in Seq(Byte) /\ Len(b) = Len(head \o ip) + Len(tail)
  <2>1. head \o ip \in Seq(Byte) /\ tail \in Seq(Byte)
    BY <1>3, <1>9
  <2> QED  BY ONLY <2>1 DEF b
<1>11. \A o \in {0, 4, 8, 12, 16, 20, 24} : NetInt(b, o) = NetInt(head, o)
  <2>1. \A o \in {0, 4, 8, 12, 16, 20, 24} :
          o \in Nat /\ o + 4 <= Len(head) /\ o + 4 <= Len(head \o ip)
    BY <1>6, <1>8, <1>9
  <2>2. \A o \in {0, 4, 8, 12, 16, 20, 24} : NetInt(head \o ip, o) = NetInt(head, o)
    BY <2>1, <1>3, <1>6, IntBefore
  <2>3. \A o \in {0, 4, 8, 12, 16, 20, 24} : NetInt(b, o) = NetInt(head \o ip, o)
    BY <2>1, <1>3, <1>9, IntBefore
  <2> QED  BY <2>2, <2>3
<1>12. Chars(b, Len(head), Len(ip)) = ip
  <2>1. Chars(b, Len(head), Len(ip)) = Chars(head \o ip, Len(head), Len(ip))
    <3>1. Len(head) \in Nat /\ Len(head) + Len(ip) <= Len(head \o ip)
      BY <1>3, <1>6, <1>9
    <3>2. head \o ip \in Seq(Byte) /\ tail \in Seq(Byte) /\ Len(ip) \in Nat
      BY <1>3, <1>6, <1>9
    <3> QED  BY ONLY <3>1, <3>2, CharsBefore
  <2> QED  BY <2>1, <1>3, <1>6, CharsAfter
<1>13. /\ NetInt(b, Len(head \o ip) + 0) = NetInt(tail, 0)
       /\ NetInt(b, Len(head \o ip) + 4) = NetInt(tail, 4)
  <2>1. 0 + 4 <= Len(tail) /\ 4 + 4 <= Len(tail)
    BY <1>8
  <2> QED  BY <2>1, <1>3, <1>9, IntAfter
<1>14. /\ NetInt(b, 28 + Len(ip)) = m.customerId
       /\ NetInt(b, 32 + Len(ip)) = m.orderId
  BY <1>5, <1>6, <1>8, <1>9, <1>13
<1>15. UnmarshalPaxosMsg(b) = m
  <2>1. NetInt(b, 24) = Len(ip) /\ Chars(b, 28, Len(ip)) = m.clientIp
    BY <1>5, <1>8, <1>11, <1>12 DEF ip
  <2> HIDE DEF b
  <2> QED  BY <2>1, <1>5, <1>11, <1>14 DEF UnmarshalPaxosMsg, PaxosMsg
<1>16. Len(b) = PaxosMsgSize(m)
  BY <1>6, <1>8, <1>9, <1>10 DEF PaxosMsgSize, ip
<1> QED  BY <1>7, <1>10, <1>15, <1>16

(***************************************************************************)
(* "A marshalled PaxosMsg should not exceed 51 bytes" (ClientStub.cpp):    *)
(* with the address that every command has, it is 51 bytes, the size that  *)
(* the receiver of a PaxosMsg asks for.                                    *)
(***************************************************************************)
THEOREM PaxosMsgIs51Bytes ==
  ASSUME NEW m \in PaxosMsg, m.clientIp = DefaultIp
  PROVE  /\ PaxosMsgSize(m) = 51
         /\ PaxosMsgSize(m) = PaxosMsgSize(NoPaxosMsg)
  BY DEF PaxosMsgSize, DefaultIp, NoPaxosMsg
=============================================================================
