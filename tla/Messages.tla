------------------------------- MODULE Messages -------------------------------
(***************************************************************************)
(* The messages of LaptopFactory (Messages.h, Messages.cpp) as bytes: what *)
(* Marshal writes to a buffer, what Unmarshal reads from it, and what Size *)
(* says of it.  An int has 4 bytes.  Fields in network order have the most *)
(* significant byte first; the length and the port of a ServerInfo are     *)
(* copied as they lie in memory, least significant byte first (the program *)
(* is built for little-endian machines).                                   *)
(*                                                                         *)
(* Buffers are sequences, so offset o of the code is index o + 1 here.     *)
(***************************************************************************)
EXTENDS Integers, Sequences, SequencesExt

Byte == 0 .. 255
Character == 1 .. 255
Int32 == {n \in Int : ((n \div 256) \div 256) \div 256 \in -128 .. 127}

\* memcpy of htonl(n), and of n.
NetBytes(n) ==
  LET high == (n \div 256) \div 256
  IN  <<(high \div 256) % 256, high % 256, (n \div 256) % 256, n % 256>>
HostBytes(n) == Reverse(NetBytes(n))

\* Ints written one after the other, offset += 4.
NetInts(ints) ==
  [i \in 1 .. 4 * Len(ints) |-> NetBytes(ints[(i + 3) \div 4])[((i + 3) % 4) + 1]]

\* The int whose bytes, most significant first, are these.
Word(b1, b2, b3, b4) ==
  (((IF b1 < 128 THEN b1 ELSE b1 - 256) * 256 + b2) * 256 + b3) * 256 + b4

\* ntohl of the 4 bytes at offset o, and the same without ntohl.
NetInt(b, o) == Word(b[o + 1], b[o + 2], b[o + 3], b[o + 4])
HostInt(b, o) == Word(b[o + 4], b[o + 3], b[o + 2], b[o + 1])

\* The n bytes at offset o, as an address: its characters are not 0, which would end
\* the std::string that Unmarshal makes.
Chars(b, o, n) == SubSeq(b, o + 1, o + n)
-----------------------------------------------------------------------------
CustomerRequest == [customer_id : Int32, order_number : Int32, request_type : Int32]
NoRequest == [customer_id |-> -1, order_number |-> -1, request_type |-> -1]
RequestSize == 12
MarshalRequest(m) == NetInts(<<m.customer_id, m.order_number, m.request_type>>)
UnmarshalRequest(b) ==
  [customer_id |-> NetInt(b, 0), order_number |-> NetInt(b, 4),
   request_type |-> NetInt(b, 8)]

CustomerRecord == [customer_id : Int32, last_order : Int32]
NoRecord == [customer_id |-> -1, last_order |-> -1]
RecordSize == 8
MarshalRecord(m) == NetInts(<<m.customer_id, m.last_order>>)
UnmarshalRecord(b) == [customer_id |-> NetInt(b, 0), last_order |-> NetInt(b, 4)]

LaptopInfo == [customer_id : Int32, order_number : Int32, request_type : Int32,
               engineer_id : Int32, admin_id : Int32]
NoLaptop == [customer_id |-> -1, order_number |-> -1, request_type |-> -1,
             engineer_id |-> -1, admin_id |-> -1]
LaptopSize == 20

\* Faulty variant: admin_id is written over engineer_id, an offset is not advanced.
MarshalLaptopShort(m) ==
  NetInts(<<m.customer_id, m.order_number, m.request_type, m.admin_id, m.admin_id>>)

MarshalLaptop(m) ==
  NetInts(<<m.customer_id, m.order_number, m.request_type, m.engineer_id, m.admin_id>>)
UnmarshalLaptop(b) ==
  [customer_id |-> NetInt(b, 0), order_number |-> NetInt(b, 4),
   request_type |-> NetInt(b, 8), engineer_id |-> NetInt(b, 12),
   admin_id |-> NetInt(b, 16)]

MapOp == [opcode : Int32, arg1 : Int32, arg2 : Int32]
MarshalMapOp(m) == NetInts(<<m.opcode, m.arg1, m.arg2>>)
UnmarshalMapOp(b) ==
  [opcode |-> NetInt(b, 0), arg1 |-> NetInt(b, 4), arg2 |-> NetInt(b, 8)]

LogRequest == [factory_id : Int32, committed_index : Int32, last_index : Int32, op : MapOp]
NoLogRequest == [factory_id |-> -1, committed_index |-> -1, last_index |-> -1,
                 op |-> [opcode |-> -1, arg1 |-> -1, arg2 |-> -1]]
LogRequestSize == 24
MarshalLogRequest(m) ==
  NetInts(<<m.factory_id, m.committed_index, m.last_index>>) \o MarshalMapOp(m.op)
UnmarshalLogRequest(b) ==
  [factory_id |-> NetInt(b, 0), committed_index |-> NetInt(b, 4),
   last_index |-> NetInt(b, 8), op |-> UnmarshalMapOp(Chars(b, 12, 12))]

LogResponse == [factory_id : Int32]
NoLogResponse == [factory_id |-> -1]
LogResponseSize == 4
MarshalLogResponse(m) == NetInts(<<m.factory_id>>)
UnmarshalLogResponse(b) == [factory_id |-> NetInt(b, 0)]
-----------------------------------------------------------------------------
\* Faulty variant: room for an IPv6 address.
LongIp == [i \in 1 .. 39 |-> 48]

\* "000.000.000.000", the clientIp of every Command and PaxosMsg: nobody sets it.
DefaultIp == <<48, 48, 48, 46, 48, 48, 48, 46, 48, 48, 48, 46, 48, 48, 48>>

PaxosMsg == [phase : Int32, agree : Int32, proposeNumber : Int32,
             acceptedProposal : Int32, slotNumber : Int32, commandId : Int32,
             clientIp : Seq(Character), customerId : Int32, orderId : Int32]
NoPaxosMsg == [phase |-> -1, agree |-> 0, proposeNumber |-> -1,
               acceptedProposal |-> -1, slotNumber |-> -1, commandId |-> -1,
               clientIp |-> DefaultIp, customerId |-> -1, orderId |-> -1]
PaxosMsgSize(m) == 28 + Len(m.clientIp) + 8
MarshalPaxosMsg(m) ==
  NetInts(<<m.phase, m.agree, m.proposeNumber, m.acceptedProposal, m.slotNumber,
            m.commandId, Len(m.clientIp)>>)
  \o m.clientIp \o NetInts(<<m.customerId, m.orderId>>)
UnmarshalPaxosMsg(b) ==
  LET ipLength == NetInt(b, 24)
  IN  [phase |-> NetInt(b, 0), agree |-> NetInt(b, 4), proposeNumber |-> NetInt(b, 8),
       acceptedProposal |-> NetInt(b, 12), slotNumber |-> NetInt(b, 16),
       commandId |-> NetInt(b, 20), clientIp |-> Chars(b, 28, ipLength),
       customerId |-> NetInt(b, 28 + ipLength), orderId |-> NetInt(b, 32 + ipLength)]
-----------------------------------------------------------------------------
\* ServerConfig: a map from the ids of the servers to address and port.
NoConfig == <<>>

\* AddAcceptor gives setServer an id and a ServerInfo; insert keeps an old entry.
SetServer(config, id, info) ==
  [k \in DOMAIN config \cup {id} |-> IF k \in DOMAIN config THEN config[k] ELSE info]

InfoSize(info) == 4 + Len(info.ip) + 4
MarshalInfo(info) == HostBytes(Len(info.ip)) \o info.ip \o HostBytes(info.port)

\* The entries are written in the order of the keys of the std::map.
Keys(config) == SetToSortSeq(DOMAIN config, LAMBDA x, y : x < y)
ConfigSize(config) ==
  FoldLeft(LAMBDA size, id : size + 4 + InfoSize(config[id]), 4, Keys(config))
MarshalConfig(config) ==
  FoldLeft(LAMBDA b, id : b \o NetBytes(id) \o MarshalInfo(config[id]),
           NetBytes(Len(Keys(config))), Keys(config))

\* One turn of Unmarshal's loop: at is where its buffer pointer stands.
ReadEntry(b, sofar) ==
  LET n == HostInt(b, sofar.at + 4)
      info == [ip |-> Chars(b, sofar.at + 8, n), port |-> HostInt(b, sofar.at + 8 + n)]
      id == NetInt(b, sofar.at)
  IN  [at |-> sofar.at + 4 + InfoSize(info),
       servers |-> [k \in DOMAIN sofar.servers \cup {id} |->
                      IF k = id THEN info ELSE sofar.servers[k]]]
UnmarshalConfig(b) ==
  FoldLeft(LAMBDA sofar, i : ReadEntry(b, sofar), [at |-> 4, servers |-> NoConfig],
           [i \in 1 .. NetInt(b, 0) |-> i]).servers
-----------------------------------------------------------------------------
\* generateCommandID: the last eight digits of the clock's microseconds and the
\* id of the server.
generateCommandID(serverID, microseconds) ==
  (10 + serverID) * 10000000 + (microseconds % 100000000)
=============================================================================
