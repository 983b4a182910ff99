------------------------------ MODULE WireProofs ------------------------------
(***************************************************************************)
(* Theorems about one connection, for any numbers, pieces, window and      *)
(* number of requests, and for any serverConfig that its Unmarshal reads   *)
(* back: the ends agree on what comes next, the bytes on the way are those *)
(* of the messages sent and not yet received, and every answer is the one  *)
(* to the question before it.                                              *)
(***************************************************************************)
EXTENDS Wire, MessagesProofs

Kinds == {"identity", "header", "config", "request", "laptop", "record", "log",
          "response", "paxos"}

\* What a message of each kind says, on a connection to a server with config c.
BodySet(c, kind) ==
  CASE kind \in {"identity", "header"} -> Int32
    [] kind = "config" -> {c}
    [] kind = "request" -> CustomerRequest
    [] kind = "laptop" -> LaptopInfo
    [] kind = "record" -> CustomerRecord
    [] kind = "log" -> LogRequest
    [] kind = "response" -> LogResponse
    [] OTHER -> {m \in PaxosMsg : m.clientIp = DefaultIp}

Width(c, kind) ==
  CASE kind \in {"identity", "header", "response"} -> 4
    [] kind = "config" -> ConfigSize(c)
    [] kind = "request" -> 12
    [] kind = "laptop" -> 20
    [] kind = "record" -> 8
    [] kind = "log" -> 24
    [] OTHER -> 51

\* Every message there is: those that are sent and the default ones.
Body == Int32 \cup Configs \cup {NoConfig} \cup CustomerRequest \cup LaptopInfo
          \cup CustomerRecord \cup LogRequest \cup LogResponse \cup PaxosMsg
Msg == [kind : Kinds, body : Body]
-----------------------------------------------------------------------------
(***************************************************************************)
(* The calls of a connection.  Before its n-th call each end has been      *)
(* given, or has sent, Asked messages of the stub and Said ones of the     *)
(* engineer; the n-th call moves one message of the end whose Turn it is.  *)
(***************************************************************************)
Turn(i, n) ==
  IF n = 1 \/ i = 3 \/ (n > Prologue(i) /\ n % 2 = 0) THEN "stub" ELSE "engineer"

Asked(i, n) ==
  IF n = 1 THEN 0
  ELSE IF i = 3 THEN n - 1
  ELSE IF i = 0 THEN (IF n = 2 THEN 1 ELSE (n - 1) \div 2)
  ELSE (n + 1) \div 2
Said(i, n) == n - 1 - Asked(i, n)
Before(i, e, n) == IF e = "stub" THEN Asked(i, n) ELSE Said(i, n)

\* The kind of the k-th message of each end.
KindOf(s, e, k) ==
  IF e = "stub" THEN IF k = 1 THEN "identity" ELSE Question(Identity(s))
  ELSE CASE s \in {"orders", "records"} /\ k = 1 -> "header"
         [] s \in {"orders", "records"} /\ k = 2 -> "config"
         [] s = "orders" /\ k > 2 -> "laptop"
         [] s = "records" /\ k > 2 -> "record"
         [] s = "backup" -> "response"
         [] OTHER -> "paxos"

KindAt(s, n) ==
  LET i == Identity(s)
  IN  KindOf(s, Turn(i, n), Before(i, Turn(i, n), n) + 1)

AllSessions == {"orders", "records", "backup", "scout", "commander"}

(***************************************************************************)
(* A call moves one message of the end whose turn it is and none of the    *)
(* other.                                                                  *)
(***************************************************************************)
LEMMA Turns ==
  ASSUME NEW i \in 0 .. 3, NEW n \in Nat \ {0}
  PROVE  /\ Turn(i, n) \in End
         /\ \A e \in End : /\ Before(i, e, n) \in Nat
                           /\ Before(i, e, n + 1) =
                                Before(i, e, n) + (IF Turn(i, n) = e THEN 1 ELSE 0)
<1>1. Turn(i, n) \in End
  BY DEF Turn, End
<1>2. /\ Asked(i, n) \in Nat
      /\ Asked(i, n + 1) = Asked(i, n) + (IF Turn(i, n) = "stub" THEN 1 ELSE 0)
      /\ Asked(i, n) <= n - 1
  <2>1. CASE i = 0
    BY <2>1 DEF Asked, Turn, Prologue
  <2>2. CASE i \in {1, 2}
    BY <2>2 DEF Asked, Turn, Prologue
  <2>3. CASE i = 3
    BY <2>3 DEF Asked, Turn, Prologue
  <2> QED
    BY <2>1, <2>2, <2>3
<1>3. /\ Said(i, n) \in Nat
      /\ Said(i, n + 1) = Said(i, n) + (IF Turn(i, n) = "engineer" THEN 1 ELSE 0)
  BY <1>1, <1>2 DEF Said, End
<1> QED
  BY <1>1, <1>2, <1>3 DEF Before, End

(***************************************************************************)
(* The kind of the n-th call, as StubCall and EngineerCall name it.        *)
(***************************************************************************)
LEMMA KindsAt ==
  ASSUME NEW s \in AllSessions, NEW n \in Nat \ {0}
  PROVE  /\ Identity(s) \in 0 .. 3
         /\ KindAt(s, n) \in Kinds
         /\ n = 1 => KindAt(s, n) = "identity" /\ Turn(Identity(s), n) = "stub"
         /\ n \in 2 .. Prologue(Identity(s)) =>
              /\ Identity(s) = 0 /\ Turn(Identity(s), n) = "engineer"
              /\ KindAt(s, n) = <<"header", "config">>[n - 1]
         /\ n > Prologue(Identity(s)) /\ (Identity(s) = 3 \/ n % 2 = 0) =>
              /\ Turn(Identity(s), n) = "stub" /\ KindAt(s, n) = Question(Identity(s))
         /\ n > Prologue(Identity(s)) /\ ~(Identity(s) = 3 \/ n % 2 = 0) =>
              /\ n > 1 => Turn(Identity(s), n) = "engineer" /\ Asked(Identity(s), n) >= 2
              /\ n > 1 => KindAt(s, n) = CASE s = "orders" -> "laptop"
                                           [] s = "records" -> "record"
                                           [] s = "backup" -> "response"
                                           [] OTHER -> "paxos"
<1>1. CASE s = "orders"
  BY <1>1 DEF Identity, Prologue, KindAt, KindOf, Turn, Before, Asked, Said, Question, Kinds
<1>2. CASE s = "records"
  BY <1>2 DEF Identity, Prologue, KindAt, KindOf, Turn, Before, Asked, Said, Question, Kinds
<1>3. CASE s = "backup"
  BY <1>3 DEF Identity, Prologue, KindAt, KindOf, Turn, Before, Asked, Said, Question, Kinds
<1>4. CASE s = "scout"
  BY <1>4 DEF Identity, Prologue, KindAt, KindOf, Turn, Before, Asked, Said, Question, Kinds
<1>5. CASE s = "commander"
  BY <1>5 DEF Identity, Prologue, KindAt, KindOf, Turn, Before, Asked, Said, Question, Kinds
<1> QED
  BY <1>1, <1>2, <1>3, <1>4, <1>5 DEF AllSessions

(***************************************************************************)
(* Every message has bytes, as many as its receiver asks for, from which   *)
(* its receiver reads it back; no buffer of a stub is smaller.             *)
(***************************************************************************)
LEMMA Legible ==
  ASSUME NEW c \in Configs, NEW kind \in Kinds, NEW b \in BodySet(c, kind)
  PROVE  /\ Marshalled(kind, b) \in Seq(Byte)
         /\ Len(Marshalled(kind, b)) = Width(c, kind)
         /\ Unmarshalled(kind, Marshalled(kind, b)) = b
<1>1. CASE kind \in {"identity", "header"}
  <2>1. b \in Int32
    BY <1>1 DEF BodySet
  <2>2. /\ NetBytes(b) \in Seq(Byte) /\ Len(NetBytes(b)) = 4
    <3> DEFINE w == NetBytes(b)
    <3>1. /\ w = <<w[1], w[2], w[3], w[4]>>
          /\ \A k \in 1 .. 4 : w[k] \in Byte
      BY <2>1, BytesOfInt DEF NetBytes
    <3>2. w[1] \in Byte /\ w[2] \in Byte /\ w[3] \in Byte /\ w[4] \in Byte
      BY <3>1
    <3>3. \A b1, b2, b3, b4 \in Byte : /\ <<b1, b2, b3, b4>> \in Seq(Byte)
                                      /\ Len(<<b1, b2, b3, b4>>) = 4
      OBVIOUS
    <3> HIDE DEF w
    <3>4. w \in Seq(Byte) /\ Len(w) = 4
      BY <3>1, <3>2, <3>3, ZenonT(60)
    <3> QED
      BY <3>4 DEF w
  <2>3. NetInt(NetBytes(b), 0) = b
    BY <2>1, BytesOfInt DEF NetInt
  <2> QED
    BY <1>1, <2>2, <2>3 DEF Marshalled, Unmarshalled, Width
<1>2. CASE kind = "config"
  BY <1>2, ConfigsAssumption DEF BodySet, Marshalled, Unmarshalled, Width
<1>3. CASE kind = "request"
  BY <1>3, RequestRoundTrip DEF BodySet, Marshalled, Unmarshalled, Width, RequestSize
<1>4. CASE kind = "laptop"
  BY <1>4, LaptopRoundTrip DEF BodySet, Marshalled, Unmarshalled, Width, LaptopSize
<1>5. CASE kind = "record"
  BY <1>5, RecordRoundTrip DEF BodySet, Marshalled, Unmarshalled, Width, RecordSize
<1>6. CASE kind = "log"
  BY <1>6, LogRequestRoundTrip DEF BodySet, Marshalled, Unmarshalled, Width, LogRequestSize
<1>7. CASE kind = "response"
  BY <1>7, LogResponseRoundTrip DEF BodySet, Marshalled, Unmarshalled, Width, LogResponseSize
<1>8. CASE kind = "paxos"
  <2>1. b \in PaxosMsg /\ b.clientIp = DefaultIp
    BY <1>8 DEF BodySet
  <2>2. Len(b.clientIp) \in Int32
    BY <2>1 DEF DefaultIp, Int32
  <2> QED
    BY <1>8, <2>1, <2>2, PaxosMsgRoundTrip, PaxosMsgIs51Bytes DEF Marshalled, Unmarshalled, Width
<1> QED
  BY <1>1, <1>2, <1>3, <1>4, <1>5, <1>6, <1>7, <1>8 DEF Kinds

(***************************************************************************)
(* A message fits the buffer of its stub, and is not empty.                *)
(***************************************************************************)
LEMMA Widths ==
  ASSUME config \in Configs, NEW kind \in Kinds
  PROVE  /\ Width(config, kind) \in Nat \ {0}
         /\ Width(config, kind) <= Buffer(kind)
<1>1. ConfigSize(config) \in Nat \ {0}
  BY ConfigsAssumption DEF Int32
<1> QED
  BY <1>1 DEF Width, Buffer, Kinds

(***************************************************************************)
(* The bodies of messages, and of default ones, are among those named.     *)
(***************************************************************************)
LEMMA DefaultBodies ==
  /\ NoRequest \in CustomerRequest /\ NoLaptop \in LaptopInfo
  /\ NoRecord \in CustomerRecord /\ NoLogRequest \in LogRequest
  /\ NoLogResponse \in LogResponse /\ NoPaxosMsg \in PaxosMsg
  /\ NoPaxosMsg.clientIp = DefaultIp
  /\ -1 \in Int32
<1>1. -1 \in Int32 /\ 0 \in Int32
  BY DEF Int32
<1>2. DefaultIp \in Seq(Character)
  BY DEF DefaultIp, Character
<1> HIDE DEF DefaultIp
<1>3. NoPaxosMsg \in PaxosMsg /\ NoPaxosMsg.clientIp = DefaultIp
  BY <1>1, <1>2 DEF NoPaxosMsg, PaxosMsg
<1> QED
  BY <1>1, <1>3 DEF NoRequest, CustomerRequest, NoLaptop, LaptopInfo, NoRecord, CustomerRecord,
     NoLogRequest, LogRequest, MapOp, NoLogResponse, LogResponse

LEMMA BodiesNamed ==
  ASSUME NEW c \in Configs, NEW kind \in Kinds
  PROVE  /\ \A b \in BodySet(c, kind) : [kind |-> kind, body |-> b] \in Msg
         /\ [kind |-> kind, body |-> DefaultOf(kind)] \in Msg \cap Defaults
<1>1. BodySet(c, kind) \subseteq Body
  BY DEF BodySet, Body, Kinds
<1>2. DefaultOf(kind) \in Body
  BY DefaultBodies DEF DefaultOf, Body, Kinds
<1>3. [kind |-> kind, body |-> DefaultOf(kind)] \in Defaults
  BY DEF Defaults, Kinds
<1> QED
  BY <1>1, <1>2, <1>3 DEF Msg
-----------------------------------------------------------------------------
(***************************************************************************)
(* The bytes on the way.  off[k] is the place in the whole stream of an    *)
(* end at which its k-th message begins; b holds what comes after the      *)
(* first g messages, or a part of it.                                      *)
(***************************************************************************)
Bytes(m) == Marshalled(m.kind, m.body)

Offsets(off, ms) ==
  /\ off \in Seq(Nat) /\ Len(off) = Len(ms) + 1
  /\ off[1] = 0
  /\ \A k \in 1 .. Len(ms) : /\ Bytes(ms[k]) \in Seq(Byte)
                             /\ off[k + 1] = off[k] + Len(Bytes(ms[k]))
  /\ \A j, k \in 1 .. Len(ms) + 1 : j <= k => off[j] <= off[k]

Carries(b, off, ms, g) ==
  /\ Len(b) <= off[Len(ms) + 1] - off[g + 1]
  /\ \A k \in (g + 1) .. Len(ms) : \A i \in 1 .. Len(Bytes(ms[k])) :
       off[k] - off[g + 1] + i <= Len(b) =>
         b[off[k] - off[g + 1] + i] = Bytes(ms[k])[i]

CarriesAll(b, off, ms, g) ==
  Carries(b, off, ms, g) /\ Len(b) = off[Len(ms) + 1] - off[g + 1]

LEMMA SameBytes ==
  ASSUME NEW s \in Seq(Byte), NEW t \in Seq(Byte), Len(s) = Len(t),
         \A i \in 1 .. Len(t) : s[i] = t[i]
  PROVE  s = t
  OBVIOUS

LEMMA OffsetFacts ==
  ASSUME NEW ms \in Seq(Msg), NEW off, Offsets(off, ms)
  PROVE  /\ Len(ms) \in Nat
         /\ off \in Seq(Nat) /\ Len(off) = Len(ms) + 1 /\ off[1] = 0
         /\ \A k \in 1 .. Len(ms) + 1 : off[k] \in Nat
         /\ \A k \in 1 .. Len(ms) : /\ Bytes(ms[k]) \in Seq(Byte)
                                    /\ Len(Bytes(ms[k])) \in Nat
                                    /\ off[k + 1] = off[k] + Len(Bytes(ms[k]))
         /\ \A j, k \in 1 .. Len(ms) + 1 : j <= k => off[j] <= off[k]
  BY DEF Offsets

(***************************************************************************)
(* A beginning of what carries messages carries them.                      *)
(***************************************************************************)
LEMMA BeginningCarries ==
  ASSUME NEW b \in Seq(Byte), NEW t \in Seq(Byte), NEW ms \in Seq(Msg), NEW off,
         NEW g \in 0 .. Len(ms), Offsets(off, ms), Carries(b, off, ms, g),
         Len(t) <= Len(b), \A i \in 1 .. Len(t) : t[i] = b[i]
  PROVE  Carries(t, off, ms, g)
<1>1. /\ Len(ms) \in Nat /\ Len(b) \in Nat /\ Len(t) \in Nat /\ g \in Nat /\ g <= Len(ms)
      /\ off[g + 1] \in Nat /\ off[Len(ms) + 1] \in Nat
      /\ \A k \in (g + 1) .. Len(ms) :
           off[k] \in Nat /\ off[g + 1] <= off[k] /\ Len(Bytes(ms[k])) \in Nat
  <2>1. /\ Len(ms) \in Nat /\ Len(b) \in Nat /\ Len(t) \in Nat /\ g \in Nat /\ g <= Len(ms)
        /\ g + 1 \in 1 .. Len(ms) + 1 /\ Len(ms) + 1 \in 1 .. Len(ms) + 1
    OBVIOUS
  <2>2. \A k \in (g + 1) .. Len(ms) :
          k \in 1 .. Len(ms) /\ k \in 1 .. Len(ms) + 1 /\ g + 1 <= k
    BY <2>1
  <2> QED
    BY <2>1, <2>2, OffsetFacts
<1>2. Len(t) <= off[Len(ms) + 1] - off[g + 1]
  BY <1>1 DEF Carries
<1>3. ASSUME NEW k \in (g + 1) .. Len(ms), NEW i \in 1 .. Len(Bytes(ms[k])),
             off[k] - off[g + 1] + i <= Len(t)
      PROVE  t[off[k] - off[g + 1] + i] = Bytes(ms[k])[i]
  <2>1. off[k] - off[g + 1] + i \in 1 .. Len(t)
    BY <1>1, <1>3, SMTT(30)
  <2>2. b[off[k] - off[g + 1] + i] = Bytes(ms[k])[i]
    BY <1>1, <1>3, SMTT(30) DEF Carries
  <2> QED
    BY <2>1, <2>2
<1> QED
  BY <1>2, <1>3 DEF Carries

(***************************************************************************)
(* A message that is sent extends the stream, or is lost behind it.        *)
(***************************************************************************)
LEMMA SendingCarries ==
  ASSUME NEW b \in Seq(Byte), NEW ms \in Seq(Msg), NEW off, NEW m \in Msg,
         NEW g \in 0 .. Len(ms), Offsets(off, ms), Carries(b, off, ms, g),
         Bytes(m) \in Seq(Byte)
  PROVE  LET new == Append(off, off[Len(ms) + 1] + Len(Bytes(m)))
         IN  /\ Offsets(new, Append(ms, m))
             /\ Carries(b, new, Append(ms, m), g)
             /\ CarriesAll(b, off, ms, g) =>
                  CarriesAll(b \o Bytes(m), new, Append(ms, m), g)
<1> DEFINE new == Append(off, off[Len(ms) + 1] + Len(Bytes(m)))
           all == Append(ms, m)
           n == Len(ms)
           c == Bytes(m)
<1>1. /\ n \in Nat /\ n + 1 \in 1 .. n + 1 /\ n + 1 \in Nat
      /\ off \in Seq(Nat) /\ Len(off) = n + 1 /\ off[1] = 0
      /\ \A k \in 1 .. n + 1 : off[k] \in Nat
      /\ \A j, k \in 1 .. n + 1 : j <= k => off[j] <= off[k]
      /\ \A k \in 1 .. n : /\ Bytes(ms[k]) \in Seq(Byte) /\ Len(Bytes(ms[k])) \in Nat
                           /\ off[k + 1] = off[k] + Len(Bytes(ms[k]))
  <2>1. n \in Nat /\ n + 1 \in 1 .. n + 1 /\ n + 1 \in Nat
    OBVIOUS
  <2> QED
    BY <2>1, OffsetFacts
<1>2. /\ all \in Seq(Msg) /\ Len(all) = n + 1 /\ all[n + 1] = m
      /\ \A k \in 1 .. n : all[k] = ms[k]
  OBVIOUS
<1>3. Len(b) \in Nat /\ g \in Nat /\ g <= n /\ g + 1 \in 1 .. n + 1
  OBVIOUS
<1>4. c \in Seq(Byte) /\ Len(c) \in Nat
  <2> HIDE DEF c
  <2>1. c \in Seq(Byte)
    BY DEF c
  <2> QED
    BY <2>1
<1>5. /\ new \in Seq(Nat) /\ Len(new) = n + 2
      /\ \A k \in 1 .. n + 1 : new[k] = off[k]
      /\ new[n + 2] = off[n + 1] + Len(c)
  <2> DEFINE end == off[n + 1] + Len(c)
  <2>1. end \in Nat
    BY <1>1, <1>4
  <2>2. new = Append(off, end)
    OBVIOUS
  <2> HIDE DEF new, end, n
  <2>3. /\ Append(off, end) \in Seq(Nat) /\ Len(Append(off, end)) = n + 2
        /\ \A k \in 1 .. n + 1 : Append(off, end)[k] = off[k]
        /\ Append(off, end)[n + 2] = end
    BY <2>1, <1>1
  <2> QED
    BY <2>2, <2>3 DEF end
<1>6. /\ Len(b) <= off[n + 1] - off[g + 1]
      /\ \A k \in (g + 1) .. n : \A i \in 1 .. Len(Bytes(ms[k])) :
           off[k] - off[g + 1] + i <= Len(b) =>
             b[off[k] - off[g + 1] + i] = Bytes(ms[k])[i]
  BY DEF Carries
<1> HIDE DEF new, all, n, c
<1>7. Offsets(new, all)
  <2>1. ASSUME NEW k \in 1 .. n + 1
        PROVE  Bytes(all[k]) \in Seq(Byte) /\ new[k + 1] = new[k] + Len(Bytes(all[k]))
    <3>1. CASE k = n + 1
      <4>1. Bytes(all[k]) = c /\ new[k + 1] = new[n + 2] /\ new[k] = off[n + 1]
        BY <3>1, <1>1, <1>2, <1>5 DEF c
      <4> QED
        BY <4>1, <1>4, <1>5
    <3>2. CASE k # n + 1
      <4>1. k \in 1 .. n /\ k + 1 \in 1 .. n + 1
        BY <3>2, <1>1
      <4>2. all[k] = ms[k] /\ new[k] = off[k] /\ new[k + 1] = off[k + 1]
        BY <4>1, <1>2, <1>5
      <4> QED
        BY <4>1, <4>2, <1>1
    <3> QED
      BY <3>1, <3>2
  <2>2. ASSUME NEW j \in 1 .. n + 2, NEW k \in 1 .. n + 2, j <= k
        PROVE  new[j] <= new[k]
    <3>1. CASE k # n + 2
      <4>1. j \in 1 .. n + 1 /\ k \in 1 .. n + 1
        BY <3>1, <2>2, <1>1
      <4> QED
        BY <4>1, <2>2, <1>1, <1>5
    <3>2. CASE k = n + 2 /\ j # n + 2
      <4>1. j \in 1 .. n + 1 /\ j <= n + 1
        BY <3>2, <1>1
      <4>2. new[j] = off[j] /\ off[j] <= off[n + 1] /\ off[j] \in Nat /\ off[n + 1] \in Nat
        BY <4>1, <1>1, <1>5
      <4> QED
        BY <4>2, <3>2, <1>4, <1>5, SMTT(30)
    <3>3. CASE k = n + 2 /\ j = n + 2
      <4>1. new[n + 2] \in Nat
        BY <1>1, <1>4, <1>5
      <4> QED
        BY <3>3, <4>1
    <3> QED
      BY <3>1, <3>2, <3>3
  <2>3. new[1] = 0
    BY <1>1, <1>5
  <2>4. Len(new) = Len(all) + 1 /\ 1 .. Len(all) = 1 .. n + 1 /\ 1 .. Len(all) + 1 = 1 .. n + 2
    BY <1>1, <1>2, <1>5
  <2> QED
    BY <2>1, <2>2, <2>3, <2>4, <1>5 DEF Offsets
<1>8. /\ new[g + 1] = off[g + 1] /\ off[g + 1] \in Nat /\ off[g + 1] <= off[n + 1]
      /\ off[n + 1] \in Nat /\ new[n + 1] = off[n + 1]
      /\ new[Len(all) + 1] = off[n + 1] + Len(c)
  <2>1. Len(all) + 1 = n + 2
    BY <1>1, <1>2
  <2> QED
    BY <2>1, <1>1, <1>3, <1>5, SMTT(30)
<1>9. ASSUME NEW k \in (g + 1) .. n
      PROVE  /\ k \in 1 .. n /\ new[k] = off[k] /\ all[k] = ms[k] /\ off[k] \in Nat
             /\ off[g + 1] <= off[k] /\ off[k] + Len(Bytes(ms[k])) <= off[n + 1]
             /\ Len(Bytes(ms[k])) \in Nat
  <2>1. k \in 1 .. n /\ k \in 1 .. n + 1 /\ k + 1 \in 1 .. n + 1 /\ g + 1 <= k /\ k + 1 <= n + 1
    BY <1>1, <1>3
  <2> QED
    BY <2>1, <1>1, <1>2, <1>3, <1>5
<1>10. Carries(b, new, all, g)
  <2>1. ASSUME NEW k \in (g + 1) .. n + 1, NEW i \in 1 .. Len(Bytes(all[k])),
               new[k] - new[g + 1] + i <= Len(b)
        PROVE  b[new[k] - new[g + 1] + i] = Bytes(all[k])[i]
    <3>1. CASE k = n + 1
      <4>1. i \in Nat \ {0}
        BY <3>1, <1>2, <1>4 DEF c
      <4> QED
        BY <4>1, <3>1, <2>1, <1>3, <1>6, <1>8, SMTT(30)
    <3>2. CASE k # n + 1
      <4>1. k \in (g + 1) .. n
        BY <3>2, <1>1, <1>3
      <4> QED
        BY <4>1, <2>1, <1>6, <1>8, <1>9
    <3> QED
      BY <3>1, <3>2
  <2>2. Len(b) <= new[Len(all) + 1] - new[g + 1]
    BY <1>3, <1>4, <1>6, <1>8
  <2> QED
    BY <2>1, <2>2, <1>2 DEF Carries
<1>11. ASSUME CarriesAll(b, off, ms, g)
       PROVE  CarriesAll(b \o c, new, all, g)
  <2> DEFINE d == b \o c
  <2>1. Len(b) = off[n + 1] - off[g + 1]
    BY <1>11 DEF CarriesAll, n
  <2>2. /\ Len(d) = Len(b) + Len(c)
        /\ \A i \in 1 .. Len(b) : d[i] = b[i]
        /\ \A i \in 1 .. Len(c) : d[Len(b) + i] = c[i]
    BY <1>4
  <2> HIDE DEF d
  <2>3. ASSUME NEW k \in (g + 1) .. n + 1, NEW i \in 1 .. Len(Bytes(all[k]))
        PROVE  d[new[k] - new[g + 1] + i] = Bytes(all[k])[i]
    <3>1. CASE k = n + 1
      <4>1. Bytes(all[k]) = c /\ new[k] - new[g + 1] = Len(b)
        BY <3>1, <2>1, <1>2, <1>8 DEF c
      <4> QED
        BY <4>1, <2>2
    <3>2. CASE k # n + 1
      <4>1. k \in (g + 1) .. n
        BY <3>2, <1>1, <1>3
      <4>2. /\ Bytes(all[k]) = Bytes(ms[k]) /\ i \in 1 .. Len(Bytes(ms[k]))
            /\ new[k] - new[g + 1] = off[k] - off[g + 1]
        BY <4>1, <1>8, <1>9
      <4>3. off[k] - off[g + 1] + i \in 1 .. Len(b) /\ off[k] - off[g + 1] + i <= Len(b)
        <5> DEFINE w == Len(Bytes(ms[k]))
        <5>1. /\ off[k] \in Nat /\ off[g + 1] \in Nat /\ off[g + 1] <= off[k] /\ w \in Nat
              /\ off[k] + w <= off[n + 1] /\ off[n + 1] \in Nat /\ i \in 1 .. w
          BY <4>1, <4>2, <1>8, <1>9
        <5>2. \A x, y, z, v \in Nat : \A j \in 1 .. v :
                y <= x /\ x + v <= z => x - y + j \in 1 .. (z - y) /\ x - y + j <= z - y
          OBVIOUS
        <5> HIDE DEF w
        <5> QED
          BY <5>1, <5>2, <2>1
      <4>4. b[off[k] - off[g + 1] + i] = Bytes(ms[k])[i]
        BY <4>1, <4>2, <4>3, <1>6
      <4> QED
        BY <4>2, <4>3, <4>4, <2>2
    <3> QED
      BY <3>1, <3>2
  <2>4. /\ Len(d) = new[Len(all) + 1] - new[g + 1]
        /\ Len(d) <= new[Len(all) + 1] - new[g + 1]
    BY <2>1, <2>2, <1>3, <1>4, <1>8, SMTT(30)
  <2>5. Carries(d, new, all, g)
    BY <2>3, <2>4, <1>2 DEF Carries
  <2> QED
    BY <2>4, <2>5 DEF CarriesAll, d
<1> QED
  BY <1>7, <1>10, <1>11 DEF new, all, c

(***************************************************************************)
(* The first message has arrived when as many bytes have as it is long.    *)
(***************************************************************************)
LEMMA DeliveringCarries ==
  ASSUME NEW b \in Seq(Byte), NEW r \in Seq(Byte), NEW ms \in Seq(Msg), NEW off,
         NEW g \in 0 .. Len(ms), Offsets(off, ms), Carries(b \o r, off, ms, g),
         Len(b) > 0, g < Len(ms) => Len(b) = Len(Bytes(ms[g + 1]))
  PROVE  /\ g + 1 \in 1 .. Len(ms)
         /\ b = Bytes(ms[g + 1])
         /\ Carries(r, off, ms, g + 1)
         /\ CarriesAll(b \o r, off, ms, g) => CarriesAll(r, off, ms, g + 1)
<1> DEFINE n == Len(ms)
           d == b \o r
<1>1. /\ n \in Nat /\ n + 1 \in 1 .. n + 1 /\ g \in Nat /\ g <= n
      /\ \A k \in 1 .. n + 1 : off[k] \in Nat
      /\ \A j, k \in 1 .. n + 1 : j <= k => off[j] <= off[k]
      /\ \A k \in 1 .. n : /\ Bytes(ms[k]) \in Seq(Byte) /\ Len(Bytes(ms[k])) \in Nat
                           /\ off[k + 1] = off[k] + Len(Bytes(ms[k]))
  <2>1. n \in Nat /\ n + 1 \in 1 .. n + 1 /\ g \in Nat /\ g <= n
    OBVIOUS
  <2> QED
    BY <2>1, OffsetFacts
<1>2. /\ Len(b) \in Nat /\ Len(r) \in Nat /\ Len(d) = Len(b) + Len(r)
      /\ \A i \in 1 .. Len(b) : d[i] = b[i]
      /\ \A i \in 1 .. Len(r) : d[Len(b) + i] = r[i]
  OBVIOUS
<1>3. /\ Len(d) <= off[n + 1] - off[g + 1]
      /\ \A k \in (g + 1) .. n : \A i \in 1 .. Len(Bytes(ms[k])) :
           off[k] - off[g + 1] + i <= Len(d) =>
             d[off[k] - off[g + 1] + i] = Bytes(ms[k])[i]
  BY DEF Carries
<1> HIDE DEF n, d
<1>4. g < n
  <2> SUFFICES ASSUME g = n PROVE FALSE
    BY <1>1
  <2>1. Len(d) <= 0
    BY <1>1, <1>3
  <2> QED
    BY <2>1, <1>2
<1>5. /\ g + 1 \in 1 .. n /\ g + 1 \in (g + 1) .. n /\ g + 1 \in 1 .. n + 1
      /\ g + 2 \in 1 .. n + 1 /\ (g + 1) + 1 = g + 2
  BY <1>1, <1>4
<1> DEFINE c == Bytes(ms[g + 1])
<1>6. /\ c \in Seq(Byte) /\ Len(b) = Len(c) /\ off[g + 1] \in Nat /\ off[g + 2] \in Nat
      /\ off[g + 2] = off[g + 1] + Len(b) /\ off[n + 1] \in Nat
  <2>1. Len(b) = Len(c)
    BY <1>4 DEF n
  <2> QED
    BY <2>1, <1>1, <1>5
<1>7. b = c
  <2>1. ASSUME NEW i \in 1 .. Len(c) PROVE b[i] = c[i]
    <3>1. off[g + 1] - off[g + 1] + i = i /\ i <= Len(d) /\ i \in 1 .. Len(b)
      BY <1>2, <1>6, SMTT(30)
    <3> QED
      BY <3>1, <1>2, <1>3, <1>5
  <2> HIDE DEF c
  <2> QED
    BY <2>1, <1>6, SameBytes
<1>8. Carries(r, off, ms, g + 1)
  <2>1. ASSUME NEW k \in (g + 2) .. n, NEW i \in 1 .. Len(Bytes(ms[k])),
               off[k] - off[g + 2] + i <= Len(r)
        PROVE  r[off[k] - off[g + 2] + i] = Bytes(ms[k])[i]
    <3>1. k \in (g + 1) .. n /\ k \in 1 .. n /\ k \in 1 .. n + 1 /\ g + 2 <= k
      BY <1>1
    <3>2. off[k] \in Nat /\ off[g + 2] <= off[k] /\ Len(Bytes(ms[k])) \in Nat
      BY <3>1, <1>1, <1>5
    <3>3. i \in Nat /\ i >= 1
      BY <3>2
    <3> DEFINE at == off[k] - off[g + 2] + i
    <3>4. /\ at \in 1 .. Len(r) /\ off[k] - off[g + 1] + i = Len(b) + at
          /\ Len(b) + at <= Len(d)
      <4> DEFINE x == off[k]
                 y == off[g + 2]
                 z == off[g + 1]
                 v == Len(b)
                 l == Len(r)
      <4>1. /\ x \in Nat /\ y \in Nat /\ z \in Nat /\ y = z + v /\ y <= x
            /\ i \in Nat /\ i >= 1 /\ x - y + i <= l
        BY <2>1, <3>2, <3>3, <1>6
      <4>2. v \in Nat /\ l \in Nat /\ Len(d) = v + l
        BY <1>2
      <4> HIDE DEF x, y, z, v, l
      <4>3. x - y + i \in 1 .. l
        BY <4>1, <4>2
      <4>4. x - z + i = v + (x - y + i)
        BY <4>1, <4>2
      <4>5. v + (x - y + i) <= v + l
        BY <4>1, <4>2
      <4> QED
        BY <4>2, <4>3, <4>4, <4>5 DEF x, y, z, v, l
    <3>5. d[Len(b) + at] = Bytes(ms[k])[i]
      BY <3>1, <3>4, <1>3
    <3> QED
      BY <3>4, <3>5, <1>2
  <2>2. Len(r) <= off[n + 1] - off[g + 2]
    BY <1>2, <1>3, <1>6, SMTT(30)
  <2> QED
    BY <2>1, <2>2, <1>5 DEF Carries, n
<1>9. ASSUME CarriesAll(d, off, ms, g) PROVE CarriesAll(r, off, ms, g + 1)
  <2>1. Len(d) = off[n + 1] - off[g + 1]
    BY <1>9 DEF CarriesAll, n
  <2>2. Len(r) = off[n + 1] - off[g + 2]
    BY <2>1, <1>2, <1>6, SMTT(30)
  <2> QED
    BY <2>2, <1>5, <1>8 DEF CarriesAll, n
<1> QED
  BY <1>5, <1>7, <1>8, <1>9 DEF n, d
-----------------------------------------------------------------------------
(***************************************************************************)
(* The invariant.  The ends' calls, buffers and histories, by the number   *)
(* of the call in which each end is.                                       *)
(***************************************************************************)
LastCall == Prologue(Identity(session)) + 2 * Exchanges + 1

WireTypes ==
  /\ session \in Sessions /\ config \in Configs
  /\ pc \in [End -> Nat]
  /\ out \in [End -> Seq(Byte)] /\ in \in [End -> Seq(Byte)] /\ pipe \in [End -> Seq(Byte)]
  /\ open \in [End -> BOOLEAN]
  /\ sent \in [End -> Seq(Msg)] /\ got \in [End -> Seq(Msg)]
  /\ \A e \in End : Len(pipe[e]) <= Window

\* e is in a call in which it sends, or in which it receives.
Speaks(e) == /\ pc[e] # Stopped /\ (e = "stub" => ~Finished)
             /\ Turn(Identity(session), pc[e]) = e
Listens(e) == /\ pc[e] # Stopped /\ (e = "stub" => ~Finished)
              /\ Turn(Identity(session), pc[e]) = Peer(e)

CountsOK(e) ==
  pc[e] # Stopped =>
    /\ Len(sent[e]) = Before(Identity(session), e, pc[e]) + (IF out[e] = <<>> THEN 0 ELSE 1)
    /\ Len(got[e]) = Before(Identity(session), Peer(e), pc[e])

BufferOK(e) ==
  LET width == Width(config, KindAt(session, pc[e]))
  IN  /\ pc[e] = Stopped => out[e] = <<>> /\ in[e] = <<>> /\ ~open[e]
      /\ out[e] # <<>> => Speaks(e) /\ Len(out[e]) <= width
      /\ in[e] # <<>> => Listens(e) /\ open[e] /\ Len(in[e]) < width

StubOK ==
  /\ pc["stub"] <= LastCall
  /\ Len(sent["stub"]) <= Asked(Identity(session), LastCall)

\* What e's k-th message says, as far as later calls depend on it.
Says(e, k, b) ==
  IF e = "stub"
  THEN /\ k = 1 => b = Identity(session)
       /\ k > 1 => /\ session = "orders" => b.request_type = 1
                   /\ session = "records" => b.request_type = 2
                   /\ session = "backup" => b.op.opcode = 1
                   /\ session = "scout" => b.phase \in {1, 3}
  ELSE Identity(session) = 0 /\ k = 1 => b = ConfigSize(config)

SaidOK(e) ==
  \A k \in 1 .. Len(sent[e]) :
    LET m == sent[e][k]
    IN  /\ m.kind = KindOf(session, e, k)
        /\ m.body \in BodySet(config, m.kind)
        /\ Says(e, k, m.body)

\* Until the receiver gives the connection up it has received what was sent.
HeardOK(e) ==
  open[e] \/ (e = "engineer" /\ pc[e] # Stopped) =>
    /\ Len(got[e]) <= Len(sent[Peer(e)])
    /\ \A k \in 1 .. Len(got[e]) : got[e][k] = sent[Peer(e)][k]

\* The bytes from e that its peer has not made a message of.
Stream(e) == (in[Peer(e)] \o pipe[e]) \o (IF open[e] THEN out[e] ELSE <<>>)

StreamOK(e) ==
  open[Peer(e)] =>
    \E off : /\ Offsets(off, sent[e])
             /\ Carries(Stream(e), off, sent[e], Len(got[Peer(e)]))
             /\ open[e] => CarriesAll(Stream(e), off, sent[e], Len(got[Peer(e)]))

AnswersOK ==
  LET first == Prologue(Identity(session))
      answers == sent["engineer"]
  IN  /\ \A k \in 1 .. Len(got["stub"]) :
           \/ got["stub"][k] \in Defaults
           \/ k <= Len(answers) /\ got["stub"][k] = answers[k]
      /\ session # "commander" =>
           \A k \in first .. Len(answers) :
             /\ k - first + 2 \in 1 .. Len(sent["stub"])
             /\ answers[k] \in Defaults \/ IsAnswer(sent["stub"][k - first + 2], answers[k])

EndOK(e) == CountsOK(e) /\ BufferOK(e) /\ SaidOK(e) /\ HeardOK(e) /\ StreamOK(e)

WireInv == WireTypes /\ StubOK /\ AnswersOK /\ \A e \in End : EndOK(e)
-----------------------------------------------------------------------------
LEMMA Ends ==
  \A e \in End : /\ Peer(e) \in End /\ Peer(e) # e /\ Peer(Peer(e)) = e
                 /\ \A b \in End : b = e \/ b = Peer(e)
  BY DEF End, Peer

LEMMA SessionFacts ==
  ASSUME WireTypes
  PROVE  /\ session \in AllSessions
         /\ Identity(session) \in 0 .. 3 /\ Prologue(Identity(session)) \in {1, 3}
         /\ LastCall \in Nat \ {0, 1} /\ LastCall <= 2 * Exchanges + 4
<1>1. session \in AllSessions
  BY SessionsAssumption DEF WireTypes, AllSessions
<1>2. Identity(session) \in 0 .. 3
  BY <1>1, KindsAt
<1>3. Prologue(Identity(session)) \in {1, 3}
  BY <1>2 DEF Prologue
<1>4. Exchanges \in Nat
  BY ExchangesAssumption
<1> QED
  BY <1>1, <1>2, <1>3, <1>4 DEF LastCall

(***************************************************************************)
(* What an end still hears of the other.                                   *)
(***************************************************************************)
LEMMA HeardIdentity ==
  ASSUME WireInv, pc["engineer"] # Stopped, pc["engineer"] # 1
  PROVE  /\ Len(got["engineer"]) \in Nat \ {0}
         /\ got["engineer"][1].body = Identity(session)
<1> DEFINE n == pc["engineer"]
           i == Identity(session)
<1>1. n \in Nat \ {0, 1} /\ i \in 0 .. 3 /\ session \in AllSessions
  BY SessionFacts DEF WireInv, WireTypes, End, Stopped
<1>2. Len(got["engineer"]) = Asked(i, n)
  BY <1>1 DEF WireInv, EndOK, CountsOK, End, Peer, Before
<1>3. Asked(i, n) \in Nat \ {0}
  BY <1>1 DEF Asked
<1>4. /\ Len(got["engineer"]) <= Len(sent["stub"])
      /\ got["engineer"][1] = sent["stub"][1]
      /\ Len(sent["stub"]) \in Nat
  BY <1>2, <1>3 DEF WireInv, WireTypes, EndOK, HeardOK, End, Peer
<1>5. 1 \in 1 .. Len(sent["stub"])
  BY <1>2, <1>3, <1>4
<1> QED
  BY <1>2, <1>3, <1>4, <1>5 DEF WireInv, EndOK, SaidOK, Says, End

AnswerKind ==
  CASE session = "orders" -> "laptop"
    [] session = "records" -> "record"
    [] session = "backup" -> "response"
    [] OTHER -> "paxos"

\* The n-th call is one in which the engineer answers.
Answering(n) ==
  LET i == Identity(session)
  IN  n > Prologue(i) /\ ~(i = 3 \/ n % 2 = 0)

(***************************************************************************)
(* The last request, as either end knows it when the engineer answers.     *)
(***************************************************************************)
LEMMA LastRequest ==
  ASSUME WireInv, NEW e \in End, pc[e] # Stopped, Answering(pc[e])
  PROVE  LET k == Asked(Identity(session), pc[e])
             request == IF e = "stub" THEN Last(sent["stub"]) ELSE Last(got["engineer"])
         IN  /\ session # "commander"
             /\ k \in 2 .. Len(sent["stub"])
             /\ request = sent["stub"][k]
             /\ request.kind = Question(Identity(session))
             /\ request.body \in BodySet(config, request.kind)
             /\ Says("stub", k, request.body)
             /\ Answer(Identity(session), request.body) = AnswerKind
             /\ e = "engineer" => k = Len(got["engineer"])
<1> DEFINE n == pc[e]
           i == Identity(session)
           k == Asked(i, n)
           request == IF e = "stub" THEN Last(sent["stub"]) ELSE Last(got["engineer"])
<1>1. n \in Nat \ {0} /\ i \in 0 .. 3 /\ session \in AllSessions /\ Prologue(i) \in {1, 3}
  BY SessionFacts DEF WireInv, WireTypes, End, Stopped
<1>2. n > 1 /\ Turn(i, n) = "engineer" /\ Asked(i, n) >= 2
  BY <1>1, KindsAt DEF Answering
<1>3. session # "commander"
  BY DEF Answering, Identity
<1>4. k \in Nat /\ 2 <= k
  BY <1>1, <1>2, Turns DEF Before, End
<1>5. /\ sent["stub"] \in Seq(Msg) /\ Len(sent["stub"]) \in Nat
      /\ got["engineer"] \in Seq(Msg) /\ Len(got["engineer"]) \in Nat
  BY DEF WireInv, WireTypes, End
<1>6. k <= Len(sent["stub"]) /\ request = sent["stub"][k]
  <2>1. CASE e = "stub"
    <3>1. out["stub"] = <<>>
      BY <2>1, <1>2 DEF WireInv, EndOK, BufferOK, Speaks
    <3>2. Len(sent["stub"]) = k
      BY <2>1, <3>1, <1>4 DEF WireInv, EndOK, CountsOK, Before
    <3> QED
      BY <2>1, <3>2, <1>4 DEF Last
  <2>2. CASE e = "engineer"
    <3>1. Len(got["engineer"]) = k
      BY <2>2, <1>4 DEF WireInv, EndOK, CountsOK, Before, Peer
    <3>2. /\ Len(got["engineer"]) <= Len(sent["stub"])
          /\ \A j \in 1 .. Len(got["engineer"]) : got["engineer"][j] = sent["stub"][j]
      BY <2>2 DEF WireInv, EndOK, HeardOK, Peer
    <3> QED
      BY <2>2, <3>1, <3>2, <1>4, <1>5 DEF Last
  <2> QED
    BY <2>1, <2>2 DEF End
<1>7. k \in 1 .. Len(sent["stub"]) /\ k \in 2 .. Len(sent["stub"])
  BY <1>4, <1>5, <1>6
<1>8. /\ sent["stub"][k].kind = KindOf(session, "stub", k)
      /\ sent["stub"][k].body \in BodySet(config, sent["stub"][k].kind)
      /\ Says("stub", k, sent["stub"][k].body)
  BY <1>7 DEF WireInv, EndOK, SaidOK, End
<1>9. KindOf(session, "stub", k) = Question(i)
  BY <1>4 DEF KindOf
<1>10. Answer(i, sent["stub"][k].body) = AnswerKind
  BY <1>1, <1>3, <1>4, <1>8 DEF Answer, AnswerKind, Says, Identity, AllSessions
<1>11. e = "engineer" => k = Len(got["engineer"])
  BY <1>4 DEF WireInv, EndOK, CountsOK, Before, Peer
<1> QED
  BY <1>3, <1>6, <1>7, <1>8, <1>9, <1>10, <1>11

(***************************************************************************)
(* Both ends go by the same plan: Turn says who sends, KindAt what.        *)
(***************************************************************************)
LEMMA CallFacts ==
  ASSUME WireInv, NEW e \in End, pc[e] # Stopped
  PROVE  Call(e) = [do |-> IF Turn(Identity(session), pc[e]) = e THEN "send" ELSE "recv",
                    kind |-> KindAt(session, pc[e])]
<1> DEFINE n == pc[e]
           i == Identity(session)
           P == Prologue(i)
<1>1. n \in Nat \ {0} /\ i \in 0 .. 3 /\ session \in AllSessions /\ P \in {1, 3}
  BY SessionFacts DEF WireInv, WireTypes, End, Stopped
<1>2. CASE n = 1
  <2>1. KindAt(session, n) = "identity" /\ Turn(i, n) = "stub"
    BY <1>1, <1>2, KindsAt
  <2>2. ~(n \in 2 .. P) /\ ~(n > P) /\ ~(n > 1)
    BY <1>1, <1>2
  <2>3. StubCall(n) = Snd("identity")
    BY <1>2, <2>2 DEF StubCall
  <2>4. EngineerCall(n) = Rcv("identity")
    <3>1. Prologue(got["engineer"][1].body) \in {1, 3}
      BY DEF Prologue
    <3>2. ~(n > Prologue(got["engineer"][1].body))
      BY <1>2, <3>1
    <3> QED
      BY <1>2, <2>2, <3>2 DEF EngineerCall
  <2> QED
    BY <2>1, <2>3, <2>4 DEF Call, Snd, Rcv, End
<1>3. CASE n # 1
  <2>1. e = "engineer" => got["engineer"][1].body = i
    BY <1>3, HeardIdentity
  <2>2. CASE n \in 2 .. P
    <3>1. /\ i = 0 /\ Turn(i, n) = "engineer"
          /\ KindAt(session, n) = <<"header", "config">>[n - 1]
      BY <2>2, <1>1, KindsAt
    <3>2. n > 1 /\ n <= P
      BY <2>2, <1>1
    <3>3. ~(n > P)
      BY <3>2, <1>1
    <3>4. StubCall(n) = Rcv(<<"header", "config">>[n - 1])
      BY <1>3, <2>2, <3>3 DEF StubCall
    <3>5. e = "engineer" => EngineerCall(n) = Snd(<<"header", "config">>[n - 1])
      BY <1>3, <2>1, <3>2, <3>3 DEF EngineerCall
    <3> QED
      BY <3>1, <3>4, <3>5 DEF Call, Snd, Rcv, End
  <2>3. CASE n > P /\ (i = 3 \/ n % 2 = 0)
    <3>1. Turn(i, n) = "stub" /\ KindAt(session, n) = Question(i)
      BY <2>3, <1>1, KindsAt
    <3>2. ~(n \in 2 .. P) /\ ~(n <= P)
      BY <2>3, <1>1
    <3> QED
      BY <1>3, <2>1, <2>3, <3>1, <3>2 DEF Call, StubCall, EngineerCall, Snd, Rcv, End
  <2>4. CASE Answering(n)
    <3>1. n > P /\ ~(i = 3 \/ n % 2 = 0) /\ n > 1
      BY <2>4, <1>1 DEF Answering
    <3>2. ~(n \in 2 .. P) /\ ~(n <= P)
      BY <3>1, <1>1
    <3>3. Turn(i, n) = "engineer" /\ KindAt(session, n) = AnswerKind
      BY <3>1, <1>1, KindsAt DEF AnswerKind
    <3>4. CASE e = "stub"
      <4>1. Answer(i, Last(sent["stub"]).body) = AnswerKind
        BY <3>4, <2>4, LastRequest
      <4>2. StubCall(n) = Rcv(Answer(i, Last(sent["stub"]).body))
        BY <1>3, <3>1, <3>2 DEF StubCall
      <4> QED
        BY <3>3, <3>4, <4>1, <4>2 DEF Call, Rcv
    <3>5. CASE e = "engineer"
      <4>1. Answer(i, Last(got["engineer"]).body) = AnswerKind
        BY <3>5, <2>4, LastRequest
      <4>2. EngineerCall(n) = Snd(Answer(i, Last(got["engineer"]).body))
        BY <1>3, <2>1, <3>1, <3>2, <3>5 DEF EngineerCall
      <4> QED
        BY <3>3, <3>5, <4>1, <4>2 DEF Call, Snd
    <3> QED
      BY <3>4, <3>5 DEF End
  <2> QED
    BY <2>2, <2>3, <2>4, <1>1, <1>3 DEF Answering
<1> QED
  BY <1>2, <1>3

(***************************************************************************)
(* So Sending and Receiving are Speaks and Listens; what is received, and  *)
(* what is sent, is the next message of its end.                           *)
(***************************************************************************)
LEMMA TurnFacts ==
  ASSUME WireInv, NEW e \in End
  PROVE  /\ Sending(e) <=> Speaks(e)
         /\ Receiving(e) <=> Listens(e)
         /\ Speaks(e) \/ Listens(e) => /\ Call(e).kind = KindAt(session, pc[e])
                                       /\ KindAt(session, pc[e]) \in Kinds
         /\ Speaks(e) => in[e] = <<>>
         /\ Speaks(e) /\ out[e] = <<>> =>
              KindAt(session, pc[e]) = KindOf(session, e, Len(sent[e]) + 1)
         /\ Speaks(e) /\ out[e] # <<>> =>
              /\ Len(sent[e]) > 0
              /\ KindAt(session, pc[e]) = KindOf(session, e, Len(sent[e]))
         /\ Listens(e) => /\ out[e] = <<>>
                          /\ KindAt(session, pc[e]) =
                               KindOf(session, Peer(e), Len(got[e]) + 1)
<1> DEFINE n == pc[e]
           i == Identity(session)
<1>1. n \in Nat /\ i \in 0 .. 3 /\ session \in AllSessions
  BY SessionFacts DEF WireInv, WireTypes
<1>2. CASE n = Stopped
  BY <1>2 DEF Sending, Receiving, Speaks, Listens
<1>3. CASE n # Stopped
  <2>1. n \in Nat \ {0}
    BY <1>1, <1>3 DEF Stopped
  <2>2. /\ Call(e).do = IF Turn(i, n) = e THEN "send" ELSE "recv"
        /\ Call(e).kind = KindAt(session, n)
    BY <1>3, CallFacts
  <2>3. Turn(i, n) = e \/ Turn(i, n) = Peer(e)
    BY <1>1, <2>1, Turns, Ends
  <2>4. (Sending(e) <=> Speaks(e)) /\ (Receiving(e) <=> Listens(e))
    BY <1>3, <2>2, <2>3, Ends DEF Sending, Receiving, Speaks, Listens
  <2>5. KindAt(session, n) \in Kinds
    BY <1>1, <2>1, KindsAt
  <2>6. /\ Speaks(e) => in[e] = <<>>
        /\ Listens(e) => out[e] = <<>>
    BY Ends DEF WireInv, EndOK, BufferOK, Speaks, Listens
  <2>7. KindAt(session, n) = KindOf(session, Turn(i, n), Before(i, Turn(i, n), n) + 1)
    BY DEF KindAt
  <2>8. /\ Len(sent[e]) = Before(i, e, n) + (IF out[e] = <<>> THEN 0 ELSE 1)
        /\ Len(got[e]) = Before(i, Peer(e), n)
        /\ Before(i, e, n) \in Nat
    BY <1>1, <1>3, <2>1, Turns DEF WireInv, EndOK, CountsOK
  <2>9. Speaks(e) => Turn(i, n) = e
    BY DEF Speaks
  <2>10. Listens(e) => Turn(i, n) = Peer(e)
    BY DEF Listens
  <2> QED
    BY <2>2, <2>4, <2>5, <2>6, <2>7, <2>8, <2>9, <2>10
<1> QED
  BY <1>2, <1>3

(***************************************************************************)
(* The receiver asks for as many bytes as the message has: of a config, as *)
(* many as the header said that came before it.                            *)
(***************************************************************************)
LEMMA SizeIs ==
  ASSUME WireInv, NEW e \in End, Listens(e), open[e]
  PROVE  Size(e) = Width(config, KindAt(session, pc[e]))
<1> DEFINE K == KindAt(session, pc[e])
<1>1. Call(e).kind = K /\ K \in Kinds /\ K = KindOf(session, Peer(e), Len(got[e]) + 1)
  BY TurnFacts
<1>2. PaxosMsgSize(NoPaxosMsg) = 51
  BY DefaultBodies, PaxosMsgIs51Bytes
<1>3. CASE K # "config"
  BY <1>1, <1>2, <1>3 DEF Size, Width, Kinds, RequestSize, LaptopSize, RecordSize, LogRequestSize
<1>4. CASE K = "config"
  <2>1. Peer(e) = "engineer"
    <3> SUFFICES ASSUME Peer(e) = "stub" PROVE FALSE
      BY Ends DEF End
    <3> QED
      BY <1>1, <1>4 DEF KindOf, Question
  <2>2. e = "stub"
    BY <2>1 DEF Peer, End
  <2>3. got["stub"] \in Seq(Msg) /\ sent["engineer"] \in Seq(Msg)
    BY DEF WireInv, WireTypes, End
  <2>4. session \in {"orders", "records"} /\ Len(got["stub"]) + 1 = 2
    <3>1. session \in AllSessions
      BY SessionFacts DEF WireInv
    <3> DEFINE k == Len(got["stub"]) + 1
    <3>2. k \in Nat \ {0} /\ KindOf(session, "engineer", k) = "config"
      BY <1>1, <1>4, <2>1, <2>2, <2>3
    <3> HIDE DEF k
    <3>3. session \in {"orders", "records"} /\ k = 2
      <4>1. CASE session = "orders"
        BY <4>1, <3>2 DEF KindOf
      <4>2. CASE session = "records"
        BY <4>2, <3>2 DEF KindOf
      <4>3. CASE session \notin {"orders", "records"}
        BY <4>3, <3>1, <3>2 DEF KindOf, AllSessions
      <4> QED
        BY <4>1, <4>2, <4>3
    <3> QED
      BY <3>3 DEF k
  <2>5. Len(got["stub"]) = 1 /\ Identity(session) = 0
    <3>1. Identity(session) = 0
      BY <2>4 DEF Identity
    <3>2. Len(got["stub"]) \in Nat
      BY <2>3
    <3> DEFINE k == Len(got["stub"])
    <3>3. k \in Nat /\ k + 1 = 2
      BY <2>4, <3>2
    <3> HIDE DEF k
    <3>4. k = 1
      BY <3>3
    <3> QED
      BY <3>1, <3>4 DEF k
  <2>6. /\ 1 <= Len(sent["engineer"]) /\ got["stub"][1] = sent["engineer"][1]
    BY <2>2, <2>5 DEF WireInv, EndOK, HeardOK, Peer
  <2>7. Says("engineer", 1, sent["engineer"][1].body)
    BY <2>3, <2>6 DEF WireInv, EndOK, SaidOK, End
  <2>8. Last(got[e]).body = ConfigSize(config)
    BY <2>2, <2>5, <2>6, <2>7 DEF Last, Says
  <2> QED
    BY <1>1, <1>4, <2>8 DEF Size, Width
<1> QED
  BY <1>3, <1>4

(***************************************************************************)
(* Whatever a message says is an int of 32 bits.                           *)
(***************************************************************************)
LEMMA SmallInts ==
  /\ {-5, -1, 0, 1, 2, 3, 4, 5} \subseteq Int32
  /\ \A n \in Nat : n <= Exchanges => n \in Int32
  /\ \A n \in Int32 : generateCommandID(1, n) \in Int32
<1>1. {-5, -1, 0, 1, 2, 3, 4, 5} \subseteq Int32
  BY DEF Int32
<1>2. ASSUME NEW n \in Nat, n <= Exchanges PROVE n \in Int32
  BY <1>2, ExchangesAssumption DEF Int32
<1>3. ASSUME NEW n \in Int32 PROVE generateCommandID(1, n) \in Int32
  <2> DEFINE id == generateCommandID(1, n)
  <2>1. n \in Int
    BY DEF Int32
  <2>2. id \in Int /\ id >= 0 /\ id < 210000000
    BY <2>1, SMT DEF generateCommandID
  <2> HIDE DEF id
  <2>3. id \in Int32
    BY <2>2, SMT DEF Int32
  <2> QED
    BY <2>3 DEF id
<1> QED
  BY <1>1, <1>2, <1>3

LEMMA CustomerBodies ==
  ASSUME NEW r \in CustomerRequest
  PROVE  /\ \A m \in Laptops(r) : /\ m \in LaptopInfo
                                  /\ m.customer_id = r.customer_id
                                  /\ m.order_number = r.order_number
                                  /\ m.request_type = r.request_type
         /\ \A m \in Records(r) : /\ m \in CustomerRecord
                                  /\ m = NoRecord \/ m.customer_id = r.customer_id
<1>1. /\ r.customer_id \in Int32 /\ r.order_number \in Int32 /\ r.request_type \in Int32
  BY DEF CustomerRequest
<1>2. /\ NoLaptop \in LaptopInfo /\ NoRecord \in CustomerRecord
      /\ 0 \in Int32 /\ 1 \in Int32 /\ -5 \in Int32
  BY DefaultBodies, SmallInts
<1>3. CopyCustomer(r) \in LaptopInfo
  BY <1>1, <1>2 DEF CopyCustomer, LaptopInfo
<1>4. /\ CopyOrder(r) \in LaptopInfo
      /\ CopyOrder(r).customer_id = r.customer_id
      /\ CopyOrder(r).order_number = r.order_number
      /\ CopyOrder(r).request_type = r.request_type
  BY <1>1, <1>3 DEF CopyOrder, CopyCustomer, LaptopInfo, NoLaptop
<1>5. ASSUME NEW m \in Laptops(r)
      PROVE  /\ m \in LaptopInfo
             /\ m.customer_id = r.customer_id
             /\ m.order_number = r.order_number
             /\ m.request_type = r.request_type
  <2>1. PICK a \in {1, -5} : m = [CopyOrder(r) EXCEPT !.engineer_id = 0, !.admin_id = a]
    BY DEF Laptops
  <2> QED
    BY <2>1, <1>2, <1>4 DEF LaptopInfo
<1>6. ASSUME NEW m \in Records(r)
      PROVE  /\ m \in CustomerRecord
             /\ m = NoRecord \/ m.customer_id = r.customer_id
  BY <1>1, <1>2, NumbersAssumption DEF Records, CustomerRecord
<1> QED
  BY <1>5, <1>6

LEMMA PaxosBodies ==
  /\ \A m \in Questions : /\ m \in PaxosMsg /\ m.clientIp = DefaultIp
                          /\ session # "commander" => m.phase \in {1, 3}
  /\ \A q \in PaxosMsg : q.phase \in {1, 3} =>
       \A m \in Answers(q) : /\ m \in PaxosMsg /\ m.clientIp = DefaultIp
                             /\ m.phase = q.phase + 1
<1> DEFINE Good == {m \in PaxosMsg : m.clientIp = DefaultIp}
<1>1. /\ 0 \in Int32 /\ 1 \in Int32 /\ 2 \in Int32 /\ 3 \in Int32 /\ 4 \in Int32 /\ 5 \in Int32
      /\ \A n \in Numbers : n \in Int32 /\ generateCommandID(1, n) \in Int32
  BY SmallInts, NumbersAssumption
<1>2. \A phase \in Int32 : Message(phase) \in Good /\ Message(phase).phase = phase
  BY DefaultBodies DEF Message, PaxosMsg
<1>3. ASSUME NEW m \in Good, NEW n \in Numbers
      PROVE  WithCommand(m, n) \in Good /\ WithCommand(m, n).phase = m.phase
  BY <1>1 DEF WithCommand, PaxosMsg
<1>4. ASSUME NEW m \in Good, NEW n \in Int32
      PROVE  /\ [m EXCEPT !.proposeNumber = n] \in Good
             /\ [m EXCEPT !.proposeNumber = n].phase = m.phase
             /\ [m EXCEPT !.agree = n] \in Good
             /\ [m EXCEPT !.agree = n].phase = m.phase
             /\ [m EXCEPT !.agree = n, !.acceptedProposal = 0] \in Good
             /\ [m EXCEPT !.agree = n, !.acceptedProposal = 0].phase = m.phase
  BY <1>1 DEF PaxosMsg
<1> HIDE DEF Good
<1>5. ASSUME NEW m \in Questions
      PROVE  m \in Good /\ (session # "commander" => m.phase \in {1, 3})
  <2>1. CASE session = "commander"
    BY <2>1, <1>1, <1>2, <1>3 DEF Questions
  <2>2. CASE session # "commander"
    <3>1. ASSUME NEW n \in Numbers, m = [Message(1) EXCEPT !.proposeNumber = n]
          PROVE  m \in Good /\ m.phase \in {1, 3}
      BY <3>1, <1>1, <1>2, <1>4, ZenonT(60)
    <3>2. ASSUME NEW n \in Numbers, m = [WithCommand(Message(3), n) EXCEPT !.proposeNumber = n]
          PROVE  m \in Good /\ m.phase \in {1, 3}
      <4>1. WithCommand(Message(3), n) \in Good /\ WithCommand(Message(3), n).phase = 3
        BY <1>1, <1>2, <1>3
      <4> QED
        BY <3>2, <4>1, <1>1, <1>4, Zenon
    <3> QED
      BY <2>2, <3>1, <3>2 DEF Questions
  <2> QED
    BY <2>1, <2>2
<1>6. ASSUME NEW q \in PaxosMsg, q.phase \in {1, 3}, NEW m \in Answers(q)
      PROVE  m \in Good /\ m.phase = q.phase + 1
  <2>1. q.proposeNumber \in Int32
    BY DEF PaxosMsg
  <2>2. CASE q.phase = 1
    <3>1. CASE m = [Message(2) EXCEPT !.agree = 1]
      <4>1. m \in Good /\ m.phase = 2
        BY <3>1, <1>1, <1>2, <1>4, ZenonT(60)
      <4> QED
        BY <4>1, <2>2
    <3>2. CASE m = [Message(2) EXCEPT !.proposeNumber = q.proposeNumber]
      <4>1. m \in Good /\ m.phase = 2
        BY <3>2, <2>1, <1>1, <1>2, <1>4, ZenonT(60)
      <4> QED
        BY <4>1, <2>2
    <3>3. ASSUME NEW n \in Numbers,
                 m = [WithCommand(Message(2), n) EXCEPT !.agree = 1, !.acceptedProposal = 0]
          PROVE  m \in Good /\ m.phase = q.phase + 1
      <4>1. m \in Good /\ m.phase = 2
        <5>1. WithCommand(Message(2), n) \in Good /\ WithCommand(Message(2), n).phase = 2
          BY <1>1, <1>2, <1>3
        <5> QED
          BY <3>3, <5>1, <1>1, <1>4, Zenon
      <4> QED
        BY <4>1, <2>2
    <3> QED
      BY <2>2, <3>1, <3>2, <3>3, Zenon DEF Answers
  <2>3. CASE q.phase = 3
    <3>1. PICK a \in {0, 1} : m = [Message(4) EXCEPT !.agree = a]
      BY <2>3 DEF Answers
    <3> QED
      <4>1. a \in Int32
        BY <1>1
      <4>2. m \in Good /\ m.phase = 4
        BY <3>1, <4>1, <1>1, <1>2, <1>4, ZenonT(60)
      <4> QED
        BY <4>2, <2>3
  <2> QED
    BY <1>6, <2>2, <2>3
<1> QED
  BY <1>5, <1>6 DEF Good

(***************************************************************************)
(* Where an end stands when it is about to send its k-th message.          *)
(***************************************************************************)
LEMMA NextSent ==
  ASSUME WireInv, NEW e \in End, Speaks(e), out[e] = <<>>
  PROVE  LET n == pc[e]
             i == Identity(session)
             k == Len(sent[e]) + 1
         IN  /\ n \in Nat \ {0} /\ k = Before(i, e, n) + 1 /\ k \in Nat \ {0}
             /\ n = 1 => e = "stub" /\ k = 1
             /\ n \in 2 .. Prologue(i) => e = "engineer" /\ i = 0 /\ k = n - 1
             /\ n > Prologue(i) /\ ~Answering(n) =>
                  /\ e = "stub" /\ k > 1
                  /\ i = 0 => k - 2 \in Nat /\ k - 2 <= Exchanges
             /\ Answering(n) =>
                  /\ e = "engineer" /\ i # 3 /\ k >= Prologue(i)
                  /\ k - Prologue(i) + 2 = Asked(i, n)
<1> DEFINE n == pc[e]
           i == Identity(session)
           k == Len(sent[e]) + 1
           P == Prologue(i)
<1>1. n \in Nat \ {0} /\ i \in 0 .. 3 /\ session \in AllSessions /\ P \in {1, 3}
  BY SessionFacts DEF WireInv, WireTypes, End, Stopped, Speaks
<1>2. Turn(i, n) = e
  BY DEF Speaks
<1>3. Len(sent[e]) = Before(i, e, n) /\ Before(i, e, n) \in Nat
  <2>1. Before(i, e, n) \in Nat
    BY <1>1, Turns
  <2> QED
    BY <2>1, <1>1 DEF WireInv, EndOK, CountsOK, Stopped
<1>4. e = "stub" => n <= LastCall /\ n # LastCall
  BY DEF WireInv, StubOK, Speaks, Finished, LastCall
<1>5. n = 1 => e = "stub" /\ k = 1
  <2> SUFFICES ASSUME n = 1 PROVE e = "stub" /\ k = 1
    OBVIOUS
  <2>1. e = "stub"
    BY <1>2 DEF Turn
  <2> QED
    BY <2>1, <1>3 DEF Before, Asked
<1> HIDE DEF n, i, k
<1>6. ASSUME n \in 2 .. P PROVE e = "engineer" /\ i = 0 /\ k = n - 1
  <2>1. i = 0 /\ P = 3 /\ e = "engineer" /\ n \in {2, 3}
    BY <1>1, <1>2, <1>6 DEF Prologue, Turn
  <2>2. k = Said(i, n) + 1
    BY <2>1, <1>3 DEF Before, k
  <2> QED
    BY <2>1, <2>2 DEF Said, Asked
<1>7. ASSUME n > P, ~Answering(n)
      PROVE  e = "stub" /\ k > 1 /\ (i = 0 => k - 2 \in Nat /\ k - 2 <= Exchanges)
  <2>1. i = 3 \/ n % 2 = 0
    BY <1>7 DEF Answering, i
  <2>2. e = "stub"
    BY <2>1, <1>2, <1>7 DEF Turn
  <2>3. k = Asked(i, n) + 1
    BY <2>2, <1>3 DEF Before, k
  <2>4. k > 1
    BY <2>1, <2>3, <1>1, <1>7 DEF Asked, Prologue
  <2>5. ASSUME i = 0 PROVE k - 2 \in Nat /\ k - 2 <= Exchanges
    <3>1. P = 3 /\ n >= 4
      BY <2>5, <1>1, <1>7 DEF Prologue
    <3>2. n < 2 * Exchanges + 4 /\ Exchanges \in Nat
      BY <2>2, <3>1, <1>1, <1>4, ExchangesAssumption DEF LastCall, i
    <3>3. k = ((n - 1) \div 2) + 1
      BY <2>3, <2>5, <3>1, <1>1 DEF Asked
    <3> QED
      BY <3>1, <3>2, <3>3, <1>1
  <2> QED
    BY <2>2, <2>4, <2>5
<1>8. ASSUME Answering(n)
      PROVE  e = "engineer" /\ i # 3 /\ k >= P /\ k - P + 2 = Asked(i, n)
  <2>1. n > P /\ i # 3 /\ n % 2 # 0
    BY <1>8 DEF Answering, i
  <2>2. e = "engineer"
    BY <2>1, <1>1, <1>2 DEF Turn
  <2>3. k = Said(i, n) + 1
    BY <2>2, <1>3 DEF Before, k
  <2>4. CASE i = 0
    BY <2>1, <2>2, <2>3, <2>4, <1>1 DEF Said, Asked, Prologue
  <2>5. CASE i \in {1, 2}
    BY <2>1, <2>2, <2>3, <2>5, <1>1 DEF Said, Asked, Prologue
  <2> QED
    BY <2>1, <2>2, <2>4, <2>5, <1>1
<1> QED
  BY <1>1, <1>3, <1>5, <1>6, <1>7, <1>8 DEF n, i, k

(***************************************************************************)
(* What an end sends is what its peer expects, and answers what was asked. *)
(***************************************************************************)
LEMMA BodiesSay ==
  ASSUME WireInv, NEW e \in End, Speaks(e), out[e] = <<>>, NEW m \in Bodies(e)
  PROVE  LET K == KindAt(session, pc[e])
             k == Len(sent[e]) + 1
             P == Prologue(Identity(session))
         IN  /\ m \in BodySet(config, K)
             /\ Says(e, k, m)
             /\ e = "engineer" /\ session # "commander" /\ k >= P =>
                  /\ k - P + 2 \in 1 .. Len(sent["stub"])
                  /\ \/ [kind |-> K, body |-> m] \in Defaults
                     \/ IsAnswer(sent["stub"][k - P + 2], [kind |-> K, body |-> m])
<1> DEFINE n == pc[e]
           i == Identity(session)
           K == KindAt(session, n)
           k == Len(sent[e]) + 1
           P == Prologue(i)
           asked == Last(got["engineer"]).body
<1>1. n \in Nat \ {0} /\ i \in 0 .. 3 /\ session \in AllSessions /\ P \in {1, 3}
  BY NextSent, SessionFacts DEF WireInv
<1>2. Call(e).kind = K /\ config \in Configs
  BY TurnFacts DEF WireInv, WireTypes
<1>3. CASE n = 1
  <2>1. K = "identity" /\ e = "stub" /\ k = 1
    BY <1>1, <1>3, KindsAt, NextSent
  <2>2. m = i
    BY <2>1, <1>2 DEF Bodies
  <2>3. i \in Int32
    BY <1>1, SmallInts
  <2> QED
    BY <2>1, <2>2, <2>3 DEF BodySet, Says
<1>4. CASE n \in 2 .. P
  <2>1. K = <<"header", "config">>[n - 1] /\ e = "engineer" /\ k = n - 1 /\ i = 0 /\ P = 3
    <3>1. K = <<"header", "config">>[n - 1] /\ e = "engineer" /\ k = n - 1 /\ i = 0
      BY <1>1, <1>4, KindsAt, NextSent
    <3> QED
      BY <3>1 DEF Prologue
  <2>2. n \in {2, 3}
    BY <2>1, <1>4
  <2>3. CASE n = 2
    <3>1. K = "header" /\ k = 1
      BY <2>1, <2>3
    <3>2. m = ConfigSize(config)
      BY <3>1, <1>2 DEF Bodies
    <3> QED
      BY <2>1, <3>1, <3>2, <1>2, ConfigsAssumption DEF BodySet, Says
  <2>4. CASE n = 3
    <3>1. K = "config" /\ k = 2
      BY <2>1, <2>4
    <3>2. m = config
      BY <3>1, <1>2 DEF Bodies
    <3> QED
      BY <2>1, <3>1, <3>2 DEF BodySet, Says
  <2> QED
    BY <2>2, <2>3, <2>4
<1>5. CASE n > P /\ ~Answering(n)
  <2>1. e = "stub" /\ k > 1 /\ (i = 0 => k - 2 \in Int32) /\ k # 1
    BY <1>5, NextSent, SmallInts
  <2>2. i = 3 \/ n % 2 = 0
    BY <1>5 DEF Answering
  <2>3. K = Question(i)
    BY <2>2, <1>1, <1>5, KindsAt
  <2>4. CASE session \in {"orders", "records"}
    <3>1. i = 0 /\ K = "request"
      BY <2>3, <2>4 DEF Identity, Question
    <3>2. m \in Requests
      BY <3>1, <1>2 DEF Bodies
    <3>3. Len(sent["stub"]) - 1 = k - 2 /\ k - 2 \in Int32
      <4>1. Len(sent["stub"]) \in Nat
        BY DEF WireInv, WireTypes, End
      <4> QED
        BY <2>1, <3>1, <4>1
    <3>4. /\ m \in CustomerRequest
          /\ session = "orders" => m.request_type = 1
          /\ session = "records" => m.request_type = 2
      <4> HIDE DEF k
      <4>1. 1 \in Int32 /\ 2 \in Int32 /\ -1 \in Int32
        BY SmallInts
      <4> QED
        BY <2>4, <3>2, <3>3, <4>1, NumbersAssumption DEF Requests, CustomerRequest
    <3> QED
      BY <2>1, <2>4, <3>1, <3>4 DEF BodySet, Says
  <2>5. CASE session = "backup"
    <3>1. i = 1 /\ K = "log"
      BY <2>3, <2>5 DEF Identity, Question
    <3>2. m \in Backups
      BY <3>1, <1>2 DEF Bodies
    <3>3. m \in LogRequest /\ m.op.opcode = 1
      <4>1. 1 \in Int32 /\ 0 \in Int32 /\ -1 \in Int32
        BY SmallInts
      <4> QED
        BY <3>2, <4>1, NumbersAssumption DEF Backups, LogRequest, MapOp
    <3> QED
      BY <2>1, <2>5, <3>1, <3>3 DEF BodySet, Says
  <2>6. CASE session \in {"scout", "commander"}
    <3>1. i \in {2, 3} /\ K = "paxos"
      BY <2>3, <2>6 DEF Identity, Question
    <3>2. m \in Questions
      BY <2>1, <3>1, <1>2 DEF Bodies
    <3> QED
      BY <2>1, <2>6, <3>1, <3>2, PaxosBodies DEF BodySet, Says
  <2> QED
    BY <2>4, <2>5, <2>6, <1>1 DEF AllSessions
<1>6. CASE Answering(n)
  <2>1. e = "engineer" /\ k >= P /\ k - P + 2 = Asked(i, n)
    BY <1>6, NextSent
  <2>2. K = AnswerKind
    <3>1. n > P /\ ~(i = 3 \/ n % 2 = 0) /\ n > 1
      BY <1>1, <1>6 DEF Answering
    <3> QED
      BY <3>1, <1>1, KindsAt DEF AnswerKind
  <2> DEFINE j == k - P + 2
             q == sent["stub"][j]
  <2>3. /\ session # "commander" /\ j \in 1 .. Len(sent["stub"]) /\ j > 1
        /\ asked = q.body
        /\ q.body \in BodySet(config, Question(i))
        /\ Says("stub", j, q.body)
    <3>1. pc[e] # Stopped
      BY <1>1 DEF Stopped
    <3> QED
      BY <2>1, <3>1, <1>6, LastRequest
  <2> HIDE DEF j
  <2>4. Says(e, k, m)
    <3>1. k \in Nat
      BY NextSent
    <3> HIDE DEF k
    <3>2. i = 0 => k # 1
      BY <2>1, <3>1 DEF Prologue
    <3> QED
      BY <2>1, <3>2 DEF Says
  <2>5. CASE session = "orders"
    <3>1. i = 0 /\ K = "laptop"
      BY <2>2, <2>5 DEF Identity, AnswerKind
    <3>2. q.body \in CustomerRequest
      BY <2>3, <3>1 DEF BodySet, Question
    <3>3. m \in Laptops(q.body)
      BY <2>3, <3>1, <1>2 DEF Bodies
    <3> QED
      <4>1. m \in LaptopInfo /\ IsAnswer(q, [kind |-> K, body |-> m])
        BY <3>1, <3>2, <3>3, CustomerBodies DEF IsAnswer
      <4> QED
        BY <2>3, <2>4, <3>1, <4>1 DEF BodySet, j
  <2>6. CASE session = "records"
    <3>1. i = 0 /\ K = "record"
      BY <2>2, <2>6 DEF Identity, AnswerKind
    <3>2. q.body \in CustomerRequest
      BY <2>3, <3>1 DEF BodySet, Question
    <3>3. m \in Records(q.body)
      BY <2>3, <3>1, <1>2 DEF Bodies
    <3>4. m = NoRecord => [kind |-> K, body |-> m] \in Defaults
      BY <3>1 DEF Defaults, DefaultOf
    <3> QED
      <4>1. m \in CustomerRecord /\ (m = NoRecord \/ m.customer_id = q.body.customer_id)
        BY <3>2, <3>3, CustomerBodies
      <4>2. m.customer_id = q.body.customer_id =>
              IsAnswer(q, [kind |-> K, body |-> m])
        BY <3>1 DEF IsAnswer
      <4>3. m \in BodySet(config, K)
        BY <3>1, <4>1 DEF BodySet
      <4> QED
        BY <2>3, <2>4, <3>4, <4>1, <4>2, <4>3 DEF j
  <2>7. CASE session = "backup"
    <3>1. i = 1 /\ K = "response"
      BY <2>2, <2>7 DEF Identity, AnswerKind
    <3>2. q.body.op.opcode = 1
      BY <2>3, <2>7 DEF Says
    <3>3. m = [factory_id |-> 1]
      BY <3>1, <1>2 DEF Bodies
    <3>4. m \in LogResponse
      BY <3>3, SmallInts DEF LogResponse
    <3> QED
      <4>1. IsAnswer(q, [kind |-> K, body |-> m])
        BY <3>1, <3>2 DEF IsAnswer
      <4>2. m \in BodySet(config, K)
        BY <3>1, <3>4 DEF BodySet
      <4> QED
        BY <2>3, <2>4, <4>1, <4>2 DEF j
  <2>8. CASE session = "scout"
    <3>1. i = 2 /\ K = "paxos"
      BY <2>2, <2>8 DEF Identity, AnswerKind
    <3>2. q.body \in PaxosMsg /\ q.body.phase \in {1, 3}
      BY <2>3, <2>8, <3>1 DEF BodySet, Question, Says
    <3>3. m \in Answers(q.body)
      BY <2>1, <2>3, <3>1, <1>2 DEF Bodies
    <3> QED
      BY <2>3, <2>4, <3>1, <3>2, <3>3, PaxosBodies DEF BodySet, IsAnswer, j
  <2> QED
    BY <2>3, <2>5, <2>6, <2>7, <2>8, <1>1 DEF AllSessions
<1> QED
  BY <1>1, <1>3, <1>4, <1>5, <1>6, SMTT(30) DEF Answering
-----------------------------------------------------------------------------
LEMMA AskedGrows ==
  ASSUME NEW i \in 0 .. 3, NEW m \in Nat \ {0}, NEW n \in Nat \ {0}, m <= n
  PROVE  Asked(i, m) \in Nat /\ Asked(i, n) \in Nat /\ Asked(i, m) <= Asked(i, n)
  BY DEF Asked

LEMMA TypesHere ==
  ASSUME WireInv, NEW e \in End
  PROVE  /\ session \in Sessions /\ config \in Configs
         /\ pc[e] \in Nat /\ open[e] \in BOOLEAN
         /\ out[e] \in Seq(Byte) /\ in[e] \in Seq(Byte) /\ pipe[e] \in Seq(Byte)
         /\ sent[e] \in Seq(Msg) /\ got[e] \in Seq(Msg)
         /\ Len(sent[e]) \in Nat /\ Len(got[e]) \in Nat
         /\ Len(pipe[e]) <= Window /\ Window \in Nat
  BY WindowAssumption DEF WireInv, WireTypes

LEMMA StreamBytes ==
  ASSUME WireInv, NEW e \in End
  PROVE  /\ in[Peer(e)] \o pipe[e] \in Seq(Byte)
         /\ Stream(e) \in Seq(Byte)
         /\ open[e] => Stream(e) = (in[Peer(e)] \o pipe[e]) \o out[e]
         /\ ~open[e] \/ out[e] = <<>> => Stream(e) = in[Peer(e)] \o pipe[e]
<1>1. in[Peer(e)] \in Seq(Byte) /\ pipe[e] \in Seq(Byte) /\ out[e] \in Seq(Byte)
  BY TypesHere, Ends
<1>2. \A s, t, u \in Seq(Byte) : /\ s \o t \in Seq(Byte) /\ (s \o t) \o u \in Seq(Byte)
                                 /\ (s \o t) \o <<>> = s \o t
  OBVIOUS
<1>3. /\ in[Peer(e)] \o pipe[e] \in Seq(Byte)
      /\ (in[Peer(e)] \o pipe[e]) \o out[e] \in Seq(Byte)
      /\ (in[Peer(e)] \o pipe[e]) \o <<>> = in[Peer(e)] \o pipe[e]
  BY <1>1, <1>2
<1> QED
  BY <1>3 DEF Stream

(***************************************************************************)
(* A step that leaves one direction of the connection alone.               *)
(***************************************************************************)
LEMMA SameStream ==
  ASSUME NEW e \in End, StreamOK(e),
         in'[Peer(e)] = in[Peer(e)], pipe'[e] = pipe[e], out'[e] = out[e],
         open'[e] = open[e], open'[Peer(e)] = open[Peer(e)],
         sent'[e] = sent[e], got'[Peer(e)] = got[Peer(e)]
  PROVE  StreamOK(e)'
  BY DEF StreamOK, Stream

(***************************************************************************)
(* BeginSend.                                                              *)
(***************************************************************************)
LEMMA BeginSendKeeps ==
  ASSUME WireInv, NEW e \in End, BeginSend(e)
  PROVE  /\ WireInv'
         /\ \E m \in Msg : sent'[e] = Append(sent[e], m)
<1> DEFINE f == Peer(e)
           n == pc[e]
           i == Identity(session)
           K == KindAt(session, n)
           P == Prologue(i)
           k == Len(sent[e]) + 1
<1>1. PICK b \in Bodies(e) :
        /\ out' = [out EXCEPT ![e] = Marshalled(Call(e).kind, b)]
        /\ sent' = [sent EXCEPT ![e] = Append(@, [kind |-> Call(e).kind, body |-> b])]
  BY DEF BeginSend
<1> DEFINE m == [kind |-> K, body |-> b]
           c == Bytes(m)
<1>2. /\ Speaks(e) /\ out[e] = <<>> /\ in[e] = <<>>
      /\ Call(e).kind = K /\ K \in Kinds /\ K = KindOf(session, e, k)
      /\ UNCHANGED <<session, config, pc, in, pipe, open, got>>
  BY TurnFacts DEF BeginSend
<1>3. /\ f \in End /\ f # e /\ Peer(f) = e /\ \A d \in End : d = e \/ d = f
      /\ n \in Nat \ {0} /\ i \in 0 .. 3 /\ session \in AllSessions /\ config \in Configs
  BY <1>2, Ends, NextSent, SessionFacts DEF WireInv, WireTypes
<1>4. /\ b \in BodySet(config, K)
      /\ Says(e, k, b)
      /\ e = "engineer" /\ session # "commander" /\ k >= P =>
           /\ k - P + 2 \in 1 .. Len(sent["stub"])
           /\ m \in Defaults \/ IsAnswer(sent["stub"][k - P + 2], m)
  BY <1>2, BodiesSay
<1>5. /\ m \in Msg /\ m.kind = K /\ m.body = b
      /\ c \in Seq(Byte) /\ Len(c) = Width(config, K) /\ Len(c) \in Nat \ {0}
      /\ c # <<>>
  <2>1. c = Marshalled(K, b)
    BY DEF Bytes
  <2>2. c \in Seq(Byte) /\ Len(c) = Width(config, K)
    BY <2>1, <1>2, <1>3, <1>4, Legible
  <2>3. Len(c) \in Nat \ {0}
    BY <2>2, <1>2, <1>3, Widths
  <2> HIDE DEF c
  <2>4. c # <<>>
    BY <2>2, <2>3
  <2> QED
    BY <2>2, <2>3, <2>4, <1>2, <1>3, <1>4, BodiesNamed
<1>6. /\ out'[e] = c /\ out'[f] = out[f] /\ out' \in [End -> Seq(Byte)]
      /\ sent'[e] = Append(sent[e], m) /\ sent'[f] = sent[f] /\ sent' \in [End -> Seq(Msg)]
  <2>1. out' = [out EXCEPT ![e] = c] /\ sent' = [sent EXCEPT ![e] = Append(sent[e], m)]
    BY <1>1, <1>2 DEF Bytes
  <2>2. Append(sent[e], m) \in Seq(Msg)
    BY <1>5, TypesHere
  <2> HIDE DEF c, m
  <2> QED
    BY <2>1, <2>2, <1>3, <1>5 DEF WireInv, WireTypes
<1> HIDE DEF m, c, f
<1>7. /\ Len(sent'[e]) = k /\ sent'[e][k] = m /\ Len(sent'[f]) = Len(sent[f])
      /\ k \in Nat /\ k = Len(sent[e]) + 1 /\ Len(sent[e]) \in Nat
      /\ \A j \in 1 .. Len(sent[e]) : sent'[e][j] = sent[e][j]
  <2>1. sent[e] \in Seq(Msg) /\ Len(sent[e]) \in Nat
    BY TypesHere
  <2> QED
    BY <2>1, <1>5, <1>6
<1> HIDE DEF k
<1>8. WireTypes'
  BY <1>2, <1>6 DEF WireInv, WireTypes
<1>9. StubOK'
  <2>1. LastCall' = LastCall /\ pc' = pc /\ LastCall \in Nat \ {0}
    BY <1>2, SessionFacts DEF LastCall, WireInv
  <2>2. CASE e = "stub"
    <3>1. k = Asked(i, n) + 1
      BY <2>2, <1>2, NextSent DEF Before, k
    <3>2. n < LastCall
      BY <2>2, <1>2, <1>3, <2>1 DEF WireInv, StubOK, Speaks, Finished, LastCall
    <3>3. Asked(i, n + 1) = Asked(i, n) + 1
      BY <2>2, <1>2, <1>3, Turns DEF Speaks, Before, End
    <3>4. Asked(i, n + 1) <= Asked(i, LastCall)
      BY <3>2, <2>1, <1>3, AskedGrows
    <3> QED
      BY <2>1, <2>2, <3>1, <3>3, <3>4, <1>2, <1>7 DEF WireInv, StubOK
  <2>3. CASE e # "stub"
    <3>1. f = "stub"
      BY <2>3, <1>3 DEF End
    <3> QED
      BY <2>1, <3>1, <1>2, <1>6 DEF WireInv, StubOK
  <2> QED
    BY <2>2, <2>3
<1>10. AnswersOK'
  <2>1. P \in {1, 3} /\ P' = P /\ got'["stub"] = got["stub"] /\ session' = session
    BY <1>2, SessionFacts DEF WireInv
  <2>2. AnswersOK
    BY DEF WireInv
  <2>3. CASE e = "stub"
    <3>1. f = "engineer" /\ sent'["engineer"] = sent["engineer"]
      BY <2>3, <1>3, <1>6 DEF End
    <3>2. ASSUME session # "commander", NEW j \in P .. Len(sent["engineer"])
          PROVE  /\ j - P + 2 \in 1 .. Len(sent'["stub"])
                 /\ sent'["stub"][j - P + 2] = sent["stub"][j - P + 2]
      <4>1. j - P + 2 \in 1 .. Len(sent["stub"])
        BY <3>2, <2>2 DEF AnswersOK
      <4> QED
        BY <4>1, <2>3, <1>7
    <3> QED
      BY <2>1, <2>2, <3>1, <3>2 DEF AnswersOK
  <2>4. CASE e = "engineer"
    <3>1. f = "stub" /\ sent'["stub"] = sent["stub"]
      BY <2>4, <1>3, <1>6 DEF End
    <3>2. ASSUME NEW j \in 1 .. Len(got["stub"])
          PROVE  \/ got["stub"][j] \in Defaults
                 \/ j <= Len(sent'["engineer"]) /\ got["stub"][j] = sent'["engineer"][j]
      BY <2>2, <2>4, <1>7 DEF AnswersOK
    <3>3. ASSUME session # "commander", NEW j \in P .. Len(sent'["engineer"])
          PROVE  /\ j - P + 2 \in 1 .. Len(sent["stub"])
                 /\ \/ sent'["engineer"][j] \in Defaults
                    \/ IsAnswer(sent["stub"][j - P + 2], sent'["engineer"][j])
      <4>1. CASE j = k
        BY <2>4, <3>3, <4>1, <1>4, <1>7
      <4>2. CASE j # k
        <5>1. j \in P .. Len(sent["engineer"]) /\ j \in 1 .. Len(sent["engineer"])
          BY <2>1, <2>4, <4>2, <1>7
        <5> QED
          BY <2>2, <2>4, <3>3, <5>1, <1>7 DEF AnswersOK
      <4> QED
        BY <4>1, <4>2
    <3> QED
      BY <2>1, <3>1, <3>2, <3>3 DEF AnswersOK
  <2> QED
    BY <2>3, <2>4 DEF End
<1>11. EndOK(e)'
  <2>1. CountsOK(e)'
    <3>1. Len(sent[e]) = Before(i, e, n) /\ Len(got[e]) = Before(i, Peer(e), n)
      <4>1. CountsOK(e) /\ pc[e] # Stopped
        BY <1>2 DEF WireInv, EndOK, Speaks
      <4>2. Before(i, e, n) \in Nat
        BY <1>3, Turns
      <4> QED
        BY <4>1, <4>2, <1>2 DEF CountsOK
    <3> QED
      BY <3>1, <1>2, <1>5, <1>6, <1>7 DEF CountsOK
  <2>2. BufferOK(e)'
    <3>1. Speaks(e)' = Speaks(e)
      BY <1>2 DEF Speaks, Finished
    <3>2. pc[e] # Stopped
      BY <1>2 DEF Speaks
    <3>3. Len(c) <= Width(config, K)
      BY <1>5
    <3> QED
      BY <3>1, <3>2, <3>3, <1>2, <1>6 DEF BufferOK
  <2>3. SaidOK(e)'
    <3>1. \A j \in 1 .. Len(sent[e]) :
            /\ sent[e][j].kind = KindOf(session, e, j)
            /\ sent[e][j].body \in BodySet(config, sent[e][j].kind)
            /\ Says(e, j, sent[e][j].body)
      BY DEF WireInv, EndOK, SaidOK
    <3>2. \A j \in Nat : \A q : Says(e, j, q)' <=> Says(e, j, q)
      BY <1>2 DEF Says
    <3>3. ASSUME NEW j \in 1 .. Len(sent'[e])
          PROVE  /\ sent'[e][j].kind = KindOf(session, e, j)
                 /\ sent'[e][j].body \in BodySet(config, sent'[e][j].kind)
                 /\ Says(e, j, sent'[e][j].body)
      <4>1. CASE j = k
        BY <4>1, <1>2, <1>4, <1>5, <1>7
      <4>2. CASE j # k
        <5>1. j \in 1 .. Len(sent[e])
          BY <4>2, <1>7
        <5> QED
          BY <5>1, <3>1, <1>7
      <4> QED
        BY <4>1, <4>2
    <3> QED
      BY <3>2, <3>3, <1>2, <1>7 DEF SaidOK, Says
  <2>4. HeardOK(e)'
    BY <1>2, <1>6 DEF WireInv, EndOK, HeardOK, f
  <2>5. StreamOK(e)'
    <3> SUFFICES ASSUME open[f]
                 PROVE  \E new : /\ Offsets(new, sent'[e])
                                 /\ Carries(Stream(e)', new, sent'[e], Len(got[f]))
                                 /\ open[e] => CarriesAll(Stream(e)', new, sent'[e], Len(got[f]))
      BY <1>2 DEF StreamOK, f
    <3>1. PICK off : /\ Offsets(off, sent[e])
                     /\ Carries(Stream(e), off, sent[e], Len(got[f]))
                     /\ open[e] => CarriesAll(Stream(e), off, sent[e], Len(got[f]))
      BY DEF WireInv, EndOK, StreamOK, f
    <3>2. /\ Stream(e) \in Seq(Byte) /\ Stream(e) = in[f] \o pipe[e]
          /\ Stream(e)' = IF open[e] THEN Stream(e) \o c ELSE Stream(e)
      <4>1. Stream(e) = in[f] \o pipe[e] /\ Stream(e) \in Seq(Byte)
        BY <1>2, StreamBytes DEF f
      <4>2. Stream(e)' = (in[f] \o pipe[e]) \o (IF open[e] THEN c ELSE <<>>)
        BY <1>2, <1>6 DEF Stream, f
      <4>3. \A s \in Seq(Byte) : s \o <<>> = s
        OBVIOUS
      <4> QED
        BY <4>1, <4>2, <4>3
    <3>3. Len(got[f]) \in 0 .. Len(sent[e])
      <4>1. Len(got[f]) <= Len(sent[e])
        BY <1>3 DEF WireInv, EndOK, HeardOK
      <4> QED
        BY <4>1, <1>3, TypesHere
    <3> DEFINE new == Append(off, off[Len(sent[e]) + 1] + Len(c))
    <3>4. /\ Offsets(new, sent'[e])
          /\ Carries(Stream(e), new, sent'[e], Len(got[f]))
          /\ CarriesAll(Stream(e), off, sent[e], Len(got[f])) =>
               CarriesAll(Stream(e) \o c, new, sent'[e], Len(got[f]))
      <4>1. /\ Offsets(new, Append(sent[e], m))
            /\ Carries(Stream(e), new, Append(sent[e], m), Len(got[f]))
            /\ CarriesAll(Stream(e), off, sent[e], Len(got[f])) =>
                 CarriesAll(Stream(e) \o c, new, Append(sent[e], m), Len(got[f]))
        <5>1. /\ Stream(e) \in Seq(Byte) /\ sent[e] \in Seq(Msg) /\ m \in Msg
              /\ Len(got[f]) \in 0 .. Len(sent[e]) /\ Bytes(m) \in Seq(Byte)
              /\ Offsets(off, sent[e]) /\ Carries(Stream(e), off, sent[e], Len(got[f]))
          BY <3>1, <3>2, <3>3, <1>5, TypesHere DEF c
        <5> QED
          BY <5>1, SendingCarries DEF c
      <4> HIDE DEF new
      <4> QED
        BY <4>1, <1>6
    <3> HIDE DEF new
    <3> QED
      BY <3>1, <3>2, <3>4 DEF CarriesAll
  <2> QED
    BY <2>1, <2>2, <2>3, <2>4, <2>5 DEF EndOK
<1>12. EndOK(f)'
  <2>1. EndOK(f)
    BY <1>3 DEF WireInv
  <2>2. CountsOK(f)' /\ SaidOK(f)' /\ BufferOK(f)'
    BY <2>1, <1>2, <1>6 DEF EndOK, CountsOK, SaidOK, Says, BufferOK, Speaks, Listens, Finished
  <2>3. HeardOK(f)'
    BY <2>1, <1>2, <1>3, <1>6, <1>7 DEF EndOK, HeardOK
  <2>4. StreamOK(f)'
    BY <2>1, <1>2, <1>3, <1>6, SameStream DEF EndOK
  <2> QED
    BY <2>2, <2>3, <2>4 DEF EndOK
<1> QED
  BY <1>3, <1>5, <1>6, <1>8, <1>9, <1>10, <1>11, <1>12 DEF WireInv

(***************************************************************************)
(* What a step of e that neither sends a message of f nor takes anything   *)
(* from f leaves as it was.                                                *)
(***************************************************************************)
LEMMA SameSaid ==
  ASSUME WireInv, NEW e \in End, UNCHANGED <<session, config>>, sent'[e] = sent[e]
  PROVE  SaidOK(e)'
  BY DEF WireInv, EndOK, SaidOK, Says

LEMMA OtherEnd ==
  ASSUME WireInv, NEW e \in End, UNCHANGED <<session, config, sent>>,
         pc'[Peer(e)] = pc[Peer(e)], out'[Peer(e)] = out[Peer(e)],
         in'[Peer(e)] = in[Peer(e)], open'[Peer(e)] = open[Peer(e)],
         got'[Peer(e)] = got[Peer(e)],
         ~open'[e] \/ StreamOK(Peer(e))'
  PROVE  EndOK(Peer(e))'
<1> DEFINE f == Peer(e)
<1>1. f \in End /\ Peer(f) = e /\ EndOK(f)
  BY Ends DEF WireInv
<1>2. SaidOK(f)'
  BY <1>1, SameSaid
<1>3. (Speaks(f)' <=> Speaks(f)) /\ (Listens(f)' <=> Listens(f))
  BY DEF Speaks, Listens, Finished
<1>4. CountsOK(f)' /\ BufferOK(f)' /\ HeardOK(f)'
  BY <1>1, <1>3 DEF EndOK, CountsOK, BufferOK, HeardOK
<1>5. StreamOK(f)'
  <2>1. CASE ~open'[e]
    BY <2>1, <1>1 DEF StreamOK
  <2> QED
    BY <2>1
<1> QED
  BY <1>2, <1>4, <1>5 DEF EndOK

LEMMA SameAnswers ==
  ASSUME WireInv, UNCHANGED <<session, sent>>, got'["stub"] = got["stub"]
  PROVE  AnswersOK'
  BY DEF WireInv, AnswersOK

(***************************************************************************)
(* An end that is through with a call is in the next one.                  *)
(***************************************************************************)
LEMMA NextCall ==
  ASSUME WireInv, NEW e \in End, UNCHANGED <<session, sent>>,
         pc' = [pc EXCEPT ![e] = pc[e] + 1], out'[e] = <<>>,
         \/ Speaks(e) /\ out[e] # <<>> /\ got'[e] = got[e]
         \/ Listens(e) /\ Len(got'[e]) = Len(got[e]) + 1
  PROVE  CountsOK(e)' /\ StubOK' /\ pc'[e] # Stopped
<1> DEFINE n == pc[e]
           i == Identity(session)
<1>1. /\ n \in Nat \ {0} /\ i \in 0 .. 3 /\ pc'[e] = n + 1 /\ n # Stopped
      /\ LastCall' = LastCall /\ LastCall \in Nat
  BY SessionFacts DEF WireInv, WireTypes, Stopped, Speaks, Listens, LastCall
<1>2. /\ Len(sent[e]) = Before(i, e, n) + (IF out[e] = <<>> THEN 0 ELSE 1)
      /\ Len(got[e]) = Before(i, Peer(e), n)
  BY <1>1 DEF WireInv, EndOK, CountsOK
<1>3. /\ Peer(e) \in End /\ Peer(e) # e
      /\ \A d \in End : /\ Before(i, d, n) \in Nat
                        /\ Before(i, d, n + 1) =
                             Before(i, d, n) + (IF Turn(i, n) = d THEN 1 ELSE 0)
  BY <1>1, Turns, Ends
<1>4. /\ Before(i, e, n) \in Nat /\ Before(i, Peer(e), n) \in Nat
      /\ Before(i, e, n + 1) = Before(i, e, n) + (IF Turn(i, n) = e THEN 1 ELSE 0)
      /\ Before(i, Peer(e), n + 1) =
           Before(i, Peer(e), n) + (IF Turn(i, n) = Peer(e) THEN 1 ELSE 0)
  BY <1>3
<1>5. Len(sent'[e]) = Before(i, e, n + 1) /\ Len(got'[e]) = Before(i, Peer(e), n + 1)
  <2>1. CASE Speaks(e) /\ out[e] # <<>> /\ got'[e] = got[e]
    <3>1. Turn(i, n) = e
      BY <2>1 DEF Speaks
    <3> QED
      BY <2>1, <3>1, <1>2, <1>3, <1>4
  <2>2. CASE Listens(e) /\ Len(got'[e]) = Len(got[e]) + 1
    <3>1. Turn(i, n) = Peer(e) /\ out[e] = <<>>
      BY <2>2, TurnFacts DEF Listens
    <3> QED
      BY <2>2, <3>1, <1>2, <1>3, <1>4
  <2> QED
    BY <2>1, <2>2
<1>6. CountsOK(e)'
  BY <1>1, <1>4, <1>5 DEF CountsOK
<1>7. StubOK'
  <2>1. pc["stub"] <= LastCall /\ Len(sent["stub"]) <= Asked(i, LastCall)
    BY DEF WireInv, StubOK
  <2>2. CASE e = "stub"
    <3>1. n # LastCall
      BY <2>2 DEF Speaks, Listens, Finished, LastCall
    <3> QED
      BY <2>1, <2>2, <3>1, <1>1 DEF StubOK
  <2>3. CASE e # "stub"
    <3>1. pc'["stub"] = pc["stub"]
      BY <2>3 DEF WireInv, WireTypes, End
    <3> QED
      BY <2>1, <3>1, <1>1 DEF StubOK
  <2> QED
    BY <2>2, <2>3
<1> QED
  BY <1>1, <1>6, <1>7 DEF Stopped

(***************************************************************************)
(* An end that stops, for whatever reason, leaves its peer what it had.    *)
(***************************************************************************)
LEMMA StreamCut ==
  ASSUME WireInv, NEW e \in End, ~open'[e],
         open'[Peer(e)] = open[Peer(e)], in'[Peer(e)] = in[Peer(e)],
         got'[Peer(e)] = got[Peer(e)], sent'[e] = sent[e],
         NEW j \in 0 .. Len(pipe[e]), pipe'[e] = SubSeq(pipe[e], 1, j)
  PROVE  StreamOK(e)'
<1> DEFINE f == Peer(e)
           b == Stream(e)
           t == in[f] \o SubSeq(pipe[e], 1, j)
           g == Len(got[f])
<1> SUFFICES ASSUME open[f]
             PROVE  \E off : Offsets(off, sent[e]) /\ Carries(Stream(e)', off, sent[e], g)
  BY DEF StreamOK
<1>1. PICK off : Offsets(off, sent[e]) /\ Carries(b, off, sent[e], g)
  BY DEF WireInv, EndOK, StreamOK
<1>2. /\ f \in End /\ in[f] \in Seq(Byte) /\ pipe[e] \in Seq(Byte) /\ out[e] \in Seq(Byte)
      /\ sent[e] \in Seq(Msg) /\ Len(sent[e]) \in Nat
  BY Ends, TypesHere
<1>3. g \in 0 .. Len(sent[e])
  <2>1. g \in Nat /\ g <= Len(sent[e])
    BY <1>2, Ends, TypesHere DEF WireInv, EndOK, HeardOK
  <2> QED
    BY <2>1, <1>2
<1>4. /\ t \in Seq(Byte) /\ t \o <<>> = t /\ b \in Seq(Byte)
      /\ Len(t) <= Len(b) /\ \A u \in 1 .. Len(t) : t[u] = b[u]
  <2>1. /\ t \in Seq(Byte) /\ t \o <<>> = t
        /\ Len(t) <= Len((in[f] \o pipe[e]) \o out[e])
        /\ \A u \in 1 .. Len(t) : t[u] = ((in[f] \o pipe[e]) \o out[e])[u]
        /\ Len(t) <= Len(in[f] \o pipe[e])
        /\ \A u \in 1 .. Len(t) : t[u] = (in[f] \o pipe[e])[u]
    <3> DEFINE s == in[f]
               p == pipe[e]
               o == out[e]
    <3>1. t = s \o SubSeq(p, 1, j) /\ j \in 0 .. Len(p)
      OBVIOUS
    <3>2. s \in Seq(Byte) /\ p \in Seq(Byte) /\ o \in Seq(Byte)
      BY <1>2
    <3> HIDE DEF t, s, p, o
    <3>3. /\ t \in Seq(Byte) /\ t \o <<>> = t
          /\ Len(t) <= Len((s \o p) \o o)
          /\ \A u \in 1 .. Len(t) : t[u] = ((s \o p) \o o)[u]
          /\ Len(t) <= Len(s \o p)
          /\ \A u \in 1 .. Len(t) : t[u] = (s \o p)[u]
      BY <3>1, <3>2, SMTT(30)
    <3> QED
      BY <3>3 DEF s, p, o
  <2>2. b \in Seq(Byte) /\ (b = (in[f] \o pipe[e]) \o out[e] \/ b = in[f] \o pipe[e])
    BY StreamBytes, <1>2 DEF WireInv, WireTypes
  <2> HIDE DEF t, b
  <2> QED
    BY <2>1, <2>2
<1>5. Stream(e)' = t \o <<>>
  BY DEF Stream
<1> HIDE DEF t, b, g
<1>6. Carries(t, off, sent[e], g)
  BY <1>1, <1>2, <1>3, <1>4, BeginningCarries
<1> QED
  BY <1>1, <1>4, <1>5, <1>6

(***************************************************************************)
(* Pieces of a buffer, and how many bytes a call moves.                    *)
(***************************************************************************)
LEMMA Joining ==
  ASSUME NEW s \in Seq(Byte), NEW t \in Seq(Byte)
  PROVE  /\ s \o t \in Seq(Byte) /\ Len(s \o t) = Len(s) + Len(t)
         /\ \A i \in 1 .. Len(s) : (s \o t)[i] = s[i]
         /\ \A i \in 1 .. Len(t) : (s \o t)[Len(s) + i] = t[i]
  OBVIOUS

LEMMA Pieces ==
  ASSUME NEW o \in Seq(Byte), NEW l \in 0 .. Len(o)
  PROVE  /\ SubSeq(o, 1, l) \in Seq(Byte) /\ Len(SubSeq(o, 1, l)) = l
         /\ SubSeq(o, l + 1, Len(o)) \in Seq(Byte)
         /\ Len(SubSeq(o, l + 1, Len(o))) = Len(o) - l
         /\ SubSeq(o, 1, l) \o SubSeq(o, l + 1, Len(o)) = o
<1> DEFINE x == SubSeq(o, 1, l)
           y == SubSeq(o, l + 1, Len(o))
<1>1. x \in Seq(Byte) /\ Len(x) = l /\ \A i \in 1 .. l : x[i] = o[i]
  OBVIOUS
<1>2. /\ y \in Seq(Byte) /\ Len(y) = Len(o) - l
      /\ \A i \in 1 .. (Len(o) - l) : y[i] = o[l + i]
  OBVIOUS
<1>3. l \in Nat /\ Len(o) \in Nat /\ l <= Len(o)
  OBVIOUS
<1> HIDE DEF x, y
<1> DEFINE z == x \o y
<1>4. /\ z \in Seq(Byte) /\ Len(z) = Len(x) + Len(y)
      /\ \A i \in 1 .. Len(x) : z[i] = x[i]
      /\ \A i \in 1 .. Len(y) : z[Len(x) + i] = y[i]
  BY <1>1, <1>2, Joining, Zenon
<1> HIDE DEF z
<1>5. ASSUME NEW i \in 1 .. Len(o) PROVE z[i] = o[i]
  <2>1. CASE i <= l
    BY <2>1, <1>1, <1>3, <1>4
  <2>2. CASE i > l
    <3> DEFINE j == i - l
    <3>1. j \in 1 .. (Len(o) - l) /\ j \in 1 .. Len(y) /\ i = Len(x) + j /\ i = l + j
      BY <2>2, <1>1, <1>2, <1>3
    <3> HIDE DEF j
    <3> QED
      BY <3>1, <1>2, <1>4
  <2> QED
    BY <2>1, <2>2, <1>3
<1>6. z = o
  <2>1. Len(z) = Len(o)
    BY <1>1, <1>2, <1>3, <1>4
  <2> QED
    BY <2>1, <1>4, <1>5, SameBytes
<1> QED
  BY <1>1, <1>2, <1>6 DEF x, y, z

LEMMA Associative ==
  ASSUME NEW s \in Seq(Byte), NEW p \in Seq(Byte), NEW q \in Seq(Byte)
  PROVE  s \o (p \o q) = (s \o p) \o q
<1> DEFINE a == p \o q
           b == s \o p
<1>1. /\ a \in Seq(Byte) /\ Len(a) = Len(p) + Len(q)
      /\ \A i \in 1 .. Len(p) : a[i] = p[i]
      /\ \A i \in 1 .. Len(q) : a[Len(p) + i] = q[i]
  OBVIOUS
<1>2. /\ b \in Seq(Byte) /\ Len(b) = Len(s) + Len(p)
      /\ \A i \in 1 .. Len(s) : b[i] = s[i]
      /\ \A i \in 1 .. Len(p) : b[Len(s) + i] = p[i]
  OBVIOUS
<1>3. Len(s) \in Nat /\ Len(p) \in Nat /\ Len(q) \in Nat
  OBVIOUS
<1> HIDE DEF a, b
<1> DEFINE x == s \o a
           y == b \o q
<1>4. /\ x \in Seq(Byte) /\ Len(x) = Len(s) + Len(a)
      /\ \A i \in 1 .. Len(s) : x[i] = s[i]
      /\ \A i \in 1 .. Len(a) : x[Len(s) + i] = a[i]
  BY <1>1, Joining, Zenon
<1>5. /\ y \in Seq(Byte) /\ Len(y) = Len(b) + Len(q)
      /\ \A i \in 1 .. Len(b) : y[i] = b[i]
      /\ \A i \in 1 .. Len(q) : y[Len(b) + i] = q[i]
  BY <1>2, Joining, Zenon
<1> HIDE DEF x, y
<1>6. ASSUME NEW i \in 1 .. Len(y) PROVE x[i] = y[i]
  <2>1. i \in Nat /\ 1 <= i /\ i <= Len(s) + Len(p) + Len(q)
    BY <1>2, <1>3, <1>5
  <2>2. CASE i <= Len(s)
    <3>1. i \in 1 .. Len(s) /\ i \in 1 .. Len(b)
      BY <2>1, <2>2, <1>2, <1>3
    <3> QED
      BY <3>1, <1>2, <1>4, <1>5
  <2>3. CASE i > Len(s) /\ i <= Len(s) + Len(p)
    <3> DEFINE j == i - Len(s)
    <3>1. /\ j \in 1 .. Len(p) /\ j \in 1 .. Len(a) /\ i = Len(s) + j /\ i \in 1 .. Len(b)
      BY <2>1, <2>3, <1>1, <1>2, <1>3
    <3> HIDE DEF j
    <3> QED
      BY <3>1, <1>1, <1>2, <1>4, <1>5
  <2>4. CASE i > Len(s) + Len(p)
    <3> DEFINE j == i - (Len(s) + Len(p))
    <3>1. /\ j \in 1 .. Len(q) /\ i = Len(b) + j
          /\ Len(p) + j \in 1 .. Len(a) /\ i = Len(s) + (Len(p) + j)
      BY <2>1, <2>4, <1>1, <1>2, <1>3, SMTT(30)
    <3> HIDE DEF j
    <3>2. y[i] = q[j] /\ x[i] = a[Len(p) + j] /\ a[Len(p) + j] = q[j]
      BY <3>1, <1>1, <1>4, <1>5
    <3> QED
      BY <3>2
  <2> QED
    BY <2>1, <2>2, <2>3, <2>4, <1>3
<1>7. Len(x) = Len(y)
  BY <1>1, <1>2, <1>3, <1>4, <1>5
<1>8. x = y
  BY <1>4, <1>5, <1>6, <1>7, SameBytes
<1> QED
  BY <1>8 DEF a, b, x, y

LEMMA LeastOf ==
  ASSUME NEW a \in Nat, NEW x \in Int, NEW y \in Int, Least(a, Least(x, y)) > 0
  PROVE  /\ Least(a, Least(x, y)) \in Nat
         /\ Least(a, Least(x, y)) \in 1 .. x /\ Least(a, Least(x, y)) \in 1 .. y
  BY DEF Least

(***************************************************************************)
(* SendSome: bytes move from the buffer to the kernel.                     *)
(***************************************************************************)
LEMMA SendSomeKeeps ==
  ASSUME WireInv, NEW e \in End, SendSome(e)
  PROVE  WireInv'
<1> DEFINE f == Peer(e)
           o == out[e]
           p == pipe[e]
           n == pc[e]
<1>1. PICK chunk \in Chunks :
        LET l == Least(chunk, Least(Len(o), Window - Len(p)))
            rest == SubSeq(o, l + 1, Len(o))
        IN  /\ l > 0
            /\ pipe' = [pipe EXCEPT ![e] = p \o SubSeq(o, 1, l)]
            /\ out' = [out EXCEPT ![e] = rest]
            /\ pc' = [pc EXCEPT ![e] = IF rest = <<>> THEN n + 1 ELSE n]
  BY DEF SendSome, GotoCall
<1> DEFINE l == Least(chunk, Least(Len(o), Window - Len(p)))
           start == SubSeq(o, 1, l)
           rest == SubSeq(o, l + 1, Len(o))
<1>2. /\ Speaks(e) /\ o # <<>> /\ open[e] /\ in[e] = <<>>
      /\ UNCHANGED <<session, config, in, open, sent, got>>
  BY TurnFacts DEF SendSome
<1>3. /\ f \in End /\ f # e /\ Peer(f) = e /\ \A d \in End : d = e \/ d = f
      /\ n \in Nat /\ o \in Seq(Byte) /\ p \in Seq(Byte) /\ in[f] \in Seq(Byte)
      /\ Window \in Nat /\ Len(p) <= Window
  BY Ends, TypesHere
<1>4. l \in 1 .. Len(o) /\ l \in 1 .. (Window - Len(p))
  <2>1. chunk \in Nat /\ Len(o) \in Int /\ Window - Len(p) \in Int
    BY <1>3, WindowAssumption
  <2> QED
    BY <2>1, <1>1, LeastOf
<1>5. /\ pipe' = [pipe EXCEPT ![e] = p \o start]
      /\ out' = [out EXCEPT ![e] = rest]
      /\ pc' = [pc EXCEPT ![e] = IF rest = <<>> THEN n + 1 ELSE n]
  BY <1>1
<1>6. /\ start \in Seq(Byte) /\ rest \in Seq(Byte) /\ Len(start) = l
      /\ Len(rest) <= Len(o) /\ (p \o start) \in Seq(Byte)
      /\ Len(p \o start) = Len(p) + l
      /\ (in[f] \o (p \o start)) \o rest = (in[f] \o p) \o o
  <2>1. l \in 0 .. Len(o) /\ Len(o) \in Nat
    BY <1>3, <1>4
  <2> HIDE DEF l, o, p
  <2>2. /\ start \in Seq(Byte) /\ rest \in Seq(Byte) /\ Len(start) = l
        /\ Len(rest) = Len(o) - l /\ start \o rest = o
    BY <2>1, <1>3, Pieces
  <2> HIDE DEF start, rest
  <2>3. (p \o start) \in Seq(Byte) /\ Len(p \o start) = Len(p) + Len(start)
    BY <2>2, <1>3, Joining, Zenon
  <2>4. (in[f] \o (p \o start)) \o rest = (in[f] \o p) \o (start \o rest)
    <3> DEFINE s == in[f]
    <3>1. /\ s \in Seq(Byte) /\ p \in Seq(Byte) /\ start \in Seq(Byte)
          /\ rest \in Seq(Byte)
      BY <2>2, <1>3
    <3> HIDE DEF s
    <3>2. s \o (p \o start) = (s \o p) \o start
      BY <3>1, Associative, SMTT(30)
    <3> DEFINE x == s \o p
    <3>3. x \in Seq(Byte)
      BY <3>1, Joining
    <3> HIDE DEF x
    <3>4. x \o (start \o rest) = (x \o start) \o rest
      BY <3>1, <3>3, Associative, SMTT(30)
    <3> QED
      BY <3>2, <3>4 DEF s, x
  <2> QED
    BY <2>1, <2>2, <2>3, <2>4, <1>4
<1> HIDE DEF l, start, rest, f
<1>7. /\ pipe'[e] = p \o start /\ pipe'[f] = pipe[f]
      /\ out'[e] = rest /\ out'[f] = out[f]
      /\ pc'[e] = (IF rest = <<>> THEN n + 1 ELSE n) /\ pc'[f] = pc[f]
  BY <1>3, <1>5 DEF WireInv, WireTypes
<1>8. WireTypes'
  <2>1. Len(p \o start) <= Window
    BY <1>3, <1>4, <1>6
  <2>2. pipe' \in [End -> Seq(Byte)] /\ out' \in [End -> Seq(Byte)]
    <3>1. \A v \in Seq(Byte) : /\ [pipe EXCEPT ![e] = v] \in [End -> Seq(Byte)]
                               /\ [out EXCEPT ![e] = v] \in [End -> Seq(Byte)]
      BY DEF WireInv, WireTypes
    <3> DEFINE v == p \o start
    <3>2. v \in Seq(Byte) /\ pipe' = [pipe EXCEPT ![e] = v]
      BY <1>5, <1>6
    <3> HIDE DEF o, p, n, v
    <3> QED
      BY <3>1, <3>2, <1>5, <1>6
  <2>4. pc' \in [End -> Nat]
    <3>1. (IF rest = <<>> THEN n + 1 ELSE n) \in Nat
      BY <1>3
    <3> HIDE DEF n
    <3> QED
      BY <3>1, <1>5 DEF WireInv, WireTypes
  <2>3. \A d \in End : Len(pipe'[d]) <= Window
    BY <2>1, <1>3, <1>7 DEF WireInv, WireTypes
  <2> QED
    BY <2>2, <2>3, <2>4, <1>2 DEF WireInv, WireTypes
<1>9. AnswersOK'
  BY <1>2, SameAnswers
<1>10. CountsOK(e)' /\ StubOK' /\ pc'[e] # Stopped
  <2>1. CASE rest = <<>>
    BY <2>1, <1>2, <1>5, <1>7, NextCall
  <2>2. CASE rest # <<>>
    <3>1. pc' = pc /\ pc[e] # Stopped
      BY <2>2, <1>2, <1>5 DEF WireInv, WireTypes, Speaks
    <3>2. CountsOK(e)'
      BY <2>2, <3>1, <1>2, <1>7 DEF WireInv, EndOK, CountsOK
    <3> QED
      BY <3>1, <3>2, <1>2 DEF WireInv, StubOK, LastCall
  <2> QED
    BY <2>1, <2>2
<1>11. EndOK(e)'
  <2>1. BufferOK(e)'
    <3>1. in'[e] = <<>>
      BY <1>2
    <3>2. CASE rest = <<>>
      BY <3>1, <3>2, <1>7, <1>10 DEF BufferOK
    <3>3. CASE rest # <<>>
      <4>1. pc' = pc
        BY <3>3, <1>5 DEF WireInv, WireTypes
      <4>2. Speaks(e)' /\ Len(o) <= Width(config, KindAt(session, n))
        BY <4>1, <1>2 DEF Speaks, Finished, WireInv, EndOK, BufferOK
      <4>3. Len(rest) <= Width(config, KindAt(session, n))
        <5>1. /\ Len(o) \in Nat /\ Len(rest) \in Nat
              /\ Width(config, KindAt(session, n)) \in Nat
          BY <1>2, <1>3, <1>6, TypesHere, TurnFacts, Widths
        <5> QED
          BY <4>2, <5>1, <1>6
      <4> QED
        BY <3>1, <4>1, <4>2, <4>3, <1>2, <1>7, <1>10 DEF BufferOK
    <3> QED
      BY <3>2, <3>3
  <2>2. SaidOK(e)'
    BY <1>2, SameSaid
  <2>3. HeardOK(e)'
    BY <1>2 DEF WireInv, EndOK, HeardOK, Speaks
  <2>4. StreamOK(e)'
    <3>1. Stream(e)' = Stream(e)
      BY <1>2, <1>6, <1>7 DEF Stream, f
    <3>2. StreamOK(e)
      BY DEF WireInv, EndOK
    <3> QED
      BY <3>1, <3>2, <1>2 DEF StreamOK
  <2> QED
    BY <2>1, <2>2, <2>3, <2>4, <1>10 DEF EndOK
<1>12. EndOK(f)'
  <2>1. StreamOK(f)'
    <3>1. StreamOK(f)
      BY <1>3 DEF WireInv, EndOK
    <3> QED
      BY <3>1, <1>2, <1>3, <1>7, SameStream
  <2> QED
    BY <2>1, <1>2, <1>7, OtherEnd DEF f
<1> QED
  BY <1>3, <1>8, <1>9, <1>10, <1>11, <1>12 DEF WireInv

(***************************************************************************)
(* An end that stops, or that goes on to its next call with nothing to     *)
(* send.                                                                   *)
(***************************************************************************)
LEMMA ClosingKeeps ==
  ASSUME WireInv, NEW e \in End, UNCHANGED <<session, config, sent>>,
         open' = [open EXCEPT ![e] = FALSE],
         out' \in [End -> Seq(Byte)], out'[e] = <<>>, out'[Peer(e)] = out[Peer(e)],
         in' \in [End -> Seq(Byte)], in'[e] = <<>>, in'[Peer(e)] = in[Peer(e)],
         got' \in [End -> Seq(Msg)], got'[Peer(e)] = got[Peer(e)],
         NEW j \in 0 .. Len(pipe[e]), pipe' = [pipe EXCEPT ![e] = SubSeq(pipe[e], 1, j)],
         \/ pc' = [pc EXCEPT ![e] = Stopped]
         \/ /\ pc' = [pc EXCEPT ![e] = pc[e] + 1]
            /\ \/ Speaks(e) /\ out[e] # <<>> /\ got'[e] = got[e]
               \/ e = "stub" /\ Listens(e) /\ Len(got'[e]) = Len(got[e]) + 1,
         e = "stub" => \A k \in 1 .. Len(got'[e]) :
                         \/ got'[e][k] \in Defaults
                         \/ k <= Len(got[e]) /\ got'[e][k] = got[e][k]
  PROVE  WireInv'
<1> DEFINE f == Peer(e)
           p == SubSeq(pipe[e], 1, j)
<1>1. /\ f \in End /\ f # e /\ Peer(f) = e /\ \A d \in End : d = e \/ d = f
      /\ pc[e] \in Nat /\ pipe[e] \in Seq(Byte) /\ Window \in Nat /\ Len(pipe[e]) <= Window
  BY Ends, TypesHere
<1>2. p \in Seq(Byte) /\ Len(p) <= Len(pipe[e]) /\ Len(p) \in Nat /\ Len(pipe[e]) \in Nat
  BY <1>1
<1> HIDE DEF p, f
<1>3. /\ pipe'[e] = p /\ pipe'[f] = pipe[f] /\ pc'[f] = pc[f]
      /\ open'[e] = FALSE /\ open'[f] = open[f] /\ out'[e] = <<>> /\ out'[f] = out[f]
      /\ in'[e] = <<>> /\ in'[f] = in[f] /\ got'[f] = got[f]
      /\ pc'[e] = Stopped \/ pc'[e] = pc[e] + 1
  BY <1>1 DEF WireInv, WireTypes, f, p
<1>4. WireTypes'
  <2>1. \A d \in End : Len(pipe'[d]) <= Window
    BY <1>1, <1>2, <1>3, TypesHere, SMTT(30)
  <2>2. pipe' \in [End -> Seq(Byte)] /\ open' \in [End -> BOOLEAN]
    BY <1>2 DEF WireInv, WireTypes, p
  <2>3. pc' \in [End -> Nat]
    <3>1. pc[e] + 1 \in Nat /\ Stopped \in Nat
      BY <1>1 DEF Stopped
    <3> QED
      BY <3>1 DEF WireInv, WireTypes
  <2> QED
    BY <2>1, <2>2, <2>3 DEF WireInv, WireTypes
<1>5. AnswersOK'
  <2>1. AnswersOK
    BY DEF WireInv
  <2>2. CASE e = "stub"
    <3>1. \A k \in 1 .. Len(got'["stub"]) :
            \/ got'["stub"][k] \in Defaults
            \/ k <= Len(sent["engineer"]) /\ got'["stub"][k] = sent["engineer"][k]
      <4> TAKE k \in 1 .. Len(got'["stub"])
      <4>1. CASE got'["stub"][k] \in Defaults
        BY <4>1
      <4>2. CASE k <= Len(got["stub"]) /\ got'["stub"][k] = got["stub"][k]
        <5>1. k \in 1 .. Len(got["stub"])
          BY <4>2, <2>2, TypesHere
        <5> QED
          BY <4>2, <5>1, <2>1 DEF AnswersOK
      <4> QED
        BY <4>1, <4>2, <2>2
    <3> QED
      BY <2>1, <3>1 DEF AnswersOK
  <2>3. CASE f = "stub"
    BY <2>3, <1>3, SameAnswers
  <2> QED
    BY <2>2, <2>3, <1>1 DEF End
<1>6. CountsOK(e)' /\ StubOK'
  <2>1. CASE pc' = [pc EXCEPT ![e] = Stopped]
    <3>1. pc'[e] = Stopped
      BY <2>1, <1>1 DEF WireInv, WireTypes
    <3>2. CountsOK(e)'
      BY <3>1 DEF CountsOK
    <3>3. LastCall' = LastCall /\ LastCall \in Nat /\ pc'["stub"] \in {pc["stub"], Stopped}
      BY <2>1, SessionFacts DEF LastCall, WireInv, WireTypes, End
    <3>4. StubOK'
      BY <3>3 DEF WireInv, StubOK, Stopped
    <3> QED
      BY <3>2, <3>4
  <2>2. CASE pc' # [pc EXCEPT ![e] = Stopped]
    BY <2>2, <1>3, NextCall
  <2> QED
    BY <2>1, <2>2
<1>7. EndOK(e)'
  <2>1. BufferOK(e)'
    BY <1>3 DEF BufferOK
  <2>2. SaidOK(e)'
    BY SameSaid
  <2>3. HeardOK(e)'
    <3> SUFFICES ASSUME e = "engineer", pc'[e] # Stopped
                 PROVE  HeardOK(e)'
      BY <1>3 DEF HeardOK
    <3>1. got'[e] = got[e] /\ pc[e] # Stopped
      BY <1>3 DEF Speaks, WireInv, WireTypes
    <3> QED
      BY <3>1, <1>1 DEF WireInv, EndOK, HeardOK
  <2>4. StreamOK(e)'
    BY <1>3, StreamCut DEF p, f
  <2> QED
    BY <2>1, <2>2, <2>3, <2>4, <1>6 DEF EndOK
<1>8. EndOK(f)'
  BY <1>3, OtherEnd DEF f
<1> QED
  BY <1>1, <1>4, <1>5, <1>6, <1>7, <1>8 DEF WireInv

LEMMA SendFailsKeeps ==
  ASSUME WireInv, NEW e \in End, SendFails(e)
  PROVE  WireInv'
<1> DEFINE f == Peer(e)
           j == Len(pipe[e])
<1>1. /\ Speaks(e) /\ in[e] = <<>> /\ out[e] # <<>>
      /\ UNCHANGED <<session, config, in, pipe, sent, got>>
      /\ open' = [open EXCEPT ![e] = FALSE] /\ out' = [out EXCEPT ![e] = <<>>]
      /\ \/ pc' = [pc EXCEPT ![e] = Stopped]
         \/ pc' = [pc EXCEPT ![e] = pc[e] + 1]
  BY TurnFacts DEF SendFails, GotoCall
<1>2. f \in End /\ f # e /\ pipe[e] \in Seq(Byte)
  BY Ends, TypesHere
<1>3. j \in 0 .. Len(pipe[e]) /\ pipe' = [pipe EXCEPT ![e] = SubSeq(pipe[e], 1, j)]
  <2>1. SubSeq(pipe[e], 1, j) = pipe[e] /\ j \in Nat
    BY <1>2
  <2> QED
    BY <2>1, <1>1 DEF WireInv, WireTypes
<1>4. /\ out' \in [End -> Seq(Byte)] /\ in' \in [End -> Seq(Byte)] /\ got' \in [End -> Seq(Msg)]
      /\ out'[e] = <<>> /\ out'[f] = out[f]
  <2>1. <<>> \in Seq(Byte)
    OBVIOUS
  <2> QED
    BY <2>1, <1>1, <1>2 DEF WireInv, WireTypes
<1>5. \A k \in 1 .. Len(got'[e]) : k <= Len(got[e]) /\ got'[e][k] = got[e][k]
  BY <1>1, TypesHere
<1> HIDE DEF j
<1> QED
  BY <1>1, <1>3, <1>4, <1>5, ClosingKeeps DEF f

LEMMA DieKeeps ==
  ASSUME WireInv, NEW e \in End, Die(e)
  PROVE  WireInv'
<1> DEFINE f == Peer(e)
<1>1. PICK n \in Chunks \cup {0} :
        pipe' = [pipe EXCEPT ![e] = SubSeq(pipe[e], 1, Least(n, Len(pipe[e])))]
  BY DEF Die
<1> DEFINE j == Least(n, Len(pipe[e]))
<1>2. /\ UNCHANGED <<session, config, sent, got>>
      /\ open' = [open EXCEPT ![e] = FALSE] /\ out' = [out EXCEPT ![e] = <<>>]
      /\ in' = [in EXCEPT ![e] = <<>>] /\ pc' = [pc EXCEPT ![e] = Stopped]
  BY DEF Die, GotoCall
<1>3. f \in End /\ f # e /\ Len(pipe[e]) \in Nat
  BY Ends, TypesHere
<1>4. j \in 0 .. Len(pipe[e]) /\ pipe' = [pipe EXCEPT ![e] = SubSeq(pipe[e], 1, j)]
  <2>1. n \in Nat
    BY WindowAssumption
  <2> QED
    BY <2>1, <1>1, <1>3 DEF Least
<1>5. /\ out' \in [End -> Seq(Byte)] /\ in' \in [End -> Seq(Byte)] /\ got' \in [End -> Seq(Msg)]
      /\ out'[e] = <<>> /\ out'[f] = out[f] /\ in'[e] = <<>> /\ in'[f] = in[f]
  <2>1. <<>> \in Seq(Byte)
    OBVIOUS
  <2> QED
    BY <2>1, <1>2, <1>3 DEF WireInv, WireTypes
<1>6. \A k \in 1 .. Len(got'[e]) : k <= Len(got[e]) /\ got'[e][k] = got[e][k]
  BY <1>2, TypesHere
<1> HIDE DEF j
<1> QED
  BY <1>2, <1>4, <1>5, <1>6, ClosingKeeps DEF f

LEMMA LeaveKeeps ==
  ASSUME WireInv, Leave
  PROVE  WireInv'
<1> DEFINE e == "stub"
           f == Peer(e)
           j == Len(pipe[e])
<1>1. /\ UNCHANGED <<session, config, out, in, pipe, sent, got>>
      /\ open' = [open EXCEPT ![e] = FALSE] /\ pc' = [pc EXCEPT ![e] = Stopped]
      /\ Finished
  BY DEF Leave, GotoCall
<1>2. e \in End /\ f \in End /\ f # e /\ pipe[e] \in Seq(Byte)
  BY Ends, TypesHere DEF End
<1>3. j \in 0 .. Len(pipe[e]) /\ pipe' = [pipe EXCEPT ![e] = SubSeq(pipe[e], 1, j)]
  <2>1. SubSeq(pipe[e], 1, j) = pipe[e] /\ j \in Nat
    BY <1>2
  <2> QED
    BY <2>1, <1>1 DEF WireInv, WireTypes
<1>4. /\ out' \in [End -> Seq(Byte)] /\ in' \in [End -> Seq(Byte)] /\ got' \in [End -> Seq(Msg)]
      /\ out'[e] = <<>> /\ out'[f] = out[f] /\ in'[e] = <<>> /\ in'[f] = in[f]
  BY <1>1, <1>2 DEF WireInv, WireTypes, EndOK, BufferOK, Speaks, Listens
<1>5. \A k \in 1 .. Len(got'[e]) : k <= Len(got[e]) /\ got'[e][k] = got[e][k]
  BY <1>1, <1>2, TypesHere
<1> HIDE DEF j, e
<1> QED
  BY <1>1, <1>2, <1>3, <1>4, <1>5, ClosingKeeps DEF f

(***************************************************************************)
(* RecvFails gives a default message.                                      *)
(***************************************************************************)
LEMMA RecvFailsKeeps ==
  ASSUME WireInv, NEW e \in End, RecvFails(e)
  PROVE  /\ WireInv'
         /\ \E d \in Defaults : got' = [got EXCEPT ![e] = Append(got[e], d)]
<1> DEFINE f == Peer(e)
           j == Len(pipe[e])
           kind == KindAt(session, pc[e])
           d == [kind |-> kind, body |-> DefaultOf(kind)]
<1>1. /\ Listens(e) /\ out[e] = <<>> /\ kind \in Kinds
      /\ UNCHANGED <<session, config, out, pipe, sent>>
      /\ open' = [open EXCEPT ![e] = FALSE] /\ in' = [in EXCEPT ![e] = <<>>]
      /\ got' = [got EXCEPT ![e] = Append(got[e], d)]
      /\ \/ pc' = [pc EXCEPT ![e] = Stopped]
         \/ e = "stub" /\ pc' = [pc EXCEPT ![e] = pc[e] + 1]
  BY TurnFacts DEF RecvFails, GotoCall
<1>2. f \in End /\ f # e /\ pipe[e] \in Seq(Byte) /\ got[e] \in Seq(Msg) /\ config \in Configs
  BY Ends, TypesHere
<1>3. d \in Msg /\ d \in Defaults
  BY <1>1, <1>2, BodiesNamed
<1> HIDE DEF d
<1>4. j \in 0 .. Len(pipe[e]) /\ pipe' = [pipe EXCEPT ![e] = SubSeq(pipe[e], 1, j)]
  <2>1. SubSeq(pipe[e], 1, j) = pipe[e] /\ j \in Nat
    BY <1>2
  <2> QED
    BY <2>1, <1>1 DEF WireInv, WireTypes
<1> DEFINE g == Append(got[e], d)
<1>5. /\ g \in Seq(Msg) /\ Len(g) = Len(got[e]) + 1 /\ Len(got[e]) \in Nat
      /\ \A k \in 1 .. Len(g) : g[k] \in Defaults \/ (k <= Len(got[e]) /\ g[k] = got[e][k])
  BY <1>2, <1>3
<1> HIDE DEF g
<1>6. /\ got' \in [End -> Seq(Msg)] /\ got'[e] = g /\ got'[f] = got[f]
  <2>1. got' = [got EXCEPT ![e] = g]
    BY <1>1 DEF g
  <2> QED
    BY <2>1, <1>2, <1>5 DEF WireInv, WireTypes
<1>7. /\ out' \in [End -> Seq(Byte)] /\ in' \in [End -> Seq(Byte)]
      /\ out'[e] = <<>> /\ out'[f] = out[f] /\ in'[e] = <<>> /\ in'[f] = in[f]
  <2>1. <<>> \in Seq(Byte)
    OBVIOUS
  <2> QED
    BY <2>1, <1>1, <1>2 DEF WireInv, WireTypes
<1>8. WireInv'
  <2> HIDE DEF j
  <2> QED
    BY <1>1, <1>4, <1>5, <1>6, <1>7, ClosingKeeps DEF f
<1> QED
  BY <1>1, <1>3, <1>8

(***************************************************************************)
(* RecvSome: bytes move from the kernel to the buffer of the receiver; the *)
(* last ones complete the message that was sent next.                      *)
(***************************************************************************)
LEMMA RecvSomeKeeps ==
  ASSUME WireInv, NEW e \in End, RecvSome(e)
  PROVE  /\ WireInv'
         /\ \/ UNCHANGED got
            \/ /\ Len(got[e]) < Len(sent[Peer(e)])
               /\ got' = [got EXCEPT ![e] = Append(got[e], sent[Peer(e)][Len(got[e]) + 1])]
<1> DEFINE f == Peer(e)
           n == pc[e]
           p == pipe[f]
           kind == KindAt(session, n)
           width == Width(config, kind)
           g == Len(got[e])
           ms == sent[f]
<1>1. /\ Listens(e) /\ open[e] /\ Call(e).kind = kind /\ kind \in Kinds /\ Size(e) = width
      /\ out[e] = <<>> /\ kind = KindOf(session, f, g + 1)
      /\ UNCHANGED <<session, config, out, open, sent>>
  BY TurnFacts, SizeIs DEF RecvSome
<1>2. PICK chunk \in Chunks :
        LET l == Least(chunk, Least(width - Len(in[e]), Len(p)))
            buffer == in[e] \o SubSeq(p, 1, l)
        IN  /\ l > 0
            /\ pipe' = [pipe EXCEPT ![f] = SubSeq(p, l + 1, Len(p))]
            /\ IF Len(buffer) < width
               THEN in' = [in EXCEPT ![e] = buffer] /\ UNCHANGED <<pc, got>>
               ELSE /\ in' = [in EXCEPT ![e] = <<>>]
                    /\ got' = [got EXCEPT ![e] =
                         Append(got[e], [kind |-> kind, body |-> Unmarshalled(kind, buffer)])]
                    /\ pc' = [pc EXCEPT ![e] = n + 1]
  BY <1>1 DEF RecvSome, GotoCall
<1> DEFINE l == Least(chunk, Least(width - Len(in[e]), Len(p)))
           start == SubSeq(p, 1, l)
           rest == SubSeq(p, l + 1, Len(p))
           buffer == in[e] \o start
           tail == IF open[f] THEN out[f] ELSE <<>>
           r == rest \o tail
           m == [kind |-> kind, body |-> Unmarshalled(kind, buffer)]
<1>3. /\ l > 0
      /\ pipe' = [pipe EXCEPT ![f] = rest]
      /\ \/ Len(buffer) < width /\ in' = [in EXCEPT ![e] = buffer] /\ UNCHANGED <<pc, got>>
         \/ /\ ~(Len(buffer) < width)
            /\ in' = [in EXCEPT ![e] = <<>>]
            /\ got' = [got EXCEPT ![e] = Append(got[e], m)]
            /\ pc' = [pc EXCEPT ![e] = n + 1]
  BY <1>2
<1>4. /\ f \in End /\ f # e /\ Peer(f) = e /\ \A d \in End : d = e \/ d = f
      /\ n \in Nat /\ p \in Seq(Byte) /\ in[e] \in Seq(Byte) /\ out[f] \in Seq(Byte)
      /\ ms \in Seq(Msg) /\ got[e] \in Seq(Msg) /\ g \in Nat /\ Len(ms) \in Nat
      /\ config \in Configs /\ session \in Sessions /\ Len(p) <= Window /\ Window \in Nat
      /\ Len(in[e]) \in Nat /\ Len(p) \in Nat
  BY Ends, TypesHere
<1>5. width \in Nat \ {0}
  BY <1>1, <1>4, Widths
<1>6. l \in 1 .. (width - Len(in[e])) /\ l \in 1 .. Len(p) /\ l \in 0 .. Len(p)
  <2>1. chunk \in Nat /\ width - Len(in[e]) \in Int /\ Len(p) \in Int
    BY <1>4, <1>5, WindowAssumption
  <2>2. l \in 1 .. (width - Len(in[e])) /\ l \in 1 .. Len(p)
    BY <2>1, <1>3, LeastOf
  <2> HIDE DEF l, p
  <2> QED
    BY <2>2, <1>4
<1> HIDE DEF l, kind, width, p, ms
<1>7. /\ start \in Seq(Byte) /\ rest \in Seq(Byte) /\ Len(start) = l
      /\ Len(rest) = Len(p) - l /\ start \o rest = p
  BY <1>4, <1>6, Pieces
<1> HIDE DEF start, rest
<1>8. /\ buffer \in Seq(Byte) /\ Len(buffer) = Len(in[e]) + Len(start)
  BY <1>4, <1>7, Joining
<1>9. tail \in Seq(Byte)
  <2>1. <<>> \in Seq(Byte)
    OBVIOUS
  <2> QED
    BY <2>1, <1>4
<1> HIDE DEF tail
<1>10. r \in Seq(Byte)
  BY <1>7, <1>9, Joining
<1>11. Stream(f) = buffer \o r /\ Stream(f) = (buffer \o rest) \o tail
  <2> DEFINE s == in[e]
  <2>1. s \in Seq(Byte)
    BY <1>4
  <2>2. Stream(f) = (s \o p) \o tail
    BY <1>4 DEF Stream, tail, p
  <2> HIDE DEF s
  <2>3. s \o (start \o rest) = (s \o start) \o rest
    BY <2>1, <1>7, Associative
  <2>4. buffer = s \o start
    BY DEF s
  <2> HIDE DEF buffer
  <2>5. buffer \o (rest \o tail) = (buffer \o rest) \o tail
    BY <1>7, <1>8, <1>9, Associative
  <2> QED
    BY <2>2, <2>3, <2>4, <2>5, <1>7
<1> HIDE DEF buffer, r, f, g
<1>12. /\ pipe'[f] = rest /\ pipe'[e] = pipe[e]
       /\ pipe' \in [End -> Seq(Byte)] /\ \A d \in End : Len(pipe'[d]) <= Window
  <2>1. pipe'[f] = rest /\ pipe'[e] = pipe[e] /\ pipe' \in [End -> Seq(Byte)]
    BY <1>3, <1>4, <1>7 DEF WireInv, WireTypes
  <2>2. Len(rest) <= Window
    BY <1>4, <1>6, <1>7
  <2> QED
    BY <2>1, <2>2, <1>4, TypesHere
<1>13. StreamOK(f) /\ HeardOK(e) /\ SaidOK(f)
  BY <1>4 DEF WireInv, EndOK
<1>14. PICK off : /\ Offsets(off, ms)
                  /\ Carries(buffer \o r, off, ms, g)
                  /\ open[f] => CarriesAll(buffer \o r, off, ms, g)
  BY <1>1, <1>4, <1>11, <1>13 DEF StreamOK, ms, g
<1>15. g <= Len(ms) /\ g \in 0 .. Len(ms)
  BY <1>1, <1>4, <1>13 DEF HeardOK, g, ms, f
<1>16. CASE Len(buffer) < width
  <2>1. in' = [in EXCEPT ![e] = buffer] /\ UNCHANGED <<pc, got>>
    BY <1>3, <1>16
  <2>2. in'[e] = buffer /\ in'[f] = in[f] /\ in' \in [End -> Seq(Byte)]
    BY <2>1, <1>4, <1>8 DEF WireInv, WireTypes
  <2>3. WireTypes'
    BY <2>1, <2>2, <1>1, <1>12 DEF WireInv, WireTypes
  <2>4. StubOK' /\ AnswersOK'
    BY <2>1, <1>1, SameAnswers DEF WireInv, StubOK, LastCall
  <2>5. EndOK(e)'
    <3>1. CountsOK(e)' /\ HeardOK(e)'
      BY <2>1, <1>1 DEF WireInv, EndOK, CountsOK, HeardOK
    <3>2. BufferOK(e)'
      <4>1. Listens(e)' /\ pc'[e] # Stopped
        BY <2>1, <1>1 DEF Listens, Finished
      <4> QED
        BY <4>1, <2>1, <2>2, <1>1, <1>16 DEF BufferOK, width, kind
    <3>3. SaidOK(e)'
      BY <1>1, SameSaid
    <3>4. StreamOK(e)'
      BY <2>1, <2>2, <1>1, <1>12, <1>4, SameStream DEF WireInv, EndOK, f
    <3> QED
      BY <3>1, <3>2, <3>3, <3>4 DEF EndOK
  <2>6. EndOK(f)'
    <3>1. Stream(f)' = Stream(f)
      BY <2>2, <1>1, <1>4, <1>11, <1>12 DEF Stream, tail
    <3>2. StreamOK(f)'
      BY <3>1, <2>1, <1>1, <1>13 DEF StreamOK
    <3> QED
      BY <3>2, <2>1, <2>2, <1>1, OtherEnd DEF f
  <2> QED
    BY <2>1, <2>3, <2>4, <2>5, <2>6, <1>4 DEF WireInv
<1>17. CASE ~(Len(buffer) < width)
  <2>1. /\ in' = [in EXCEPT ![e] = <<>>] /\ got' = [got EXCEPT ![e] = Append(got[e], m)]
        /\ pc' = [pc EXCEPT ![e] = n + 1]
    BY <1>3, <1>17
  <2>2. Len(buffer) = width /\ Len(buffer) > 0
    BY <1>4, <1>5, <1>6, <1>7, <1>8, <1>17, SMTT(30)
  <2>3. ASSUME g < Len(ms)
        PROVE  /\ ms[g + 1].kind = kind /\ ms[g + 1].body \in BodySet(config, kind)
               /\ Len(Bytes(ms[g + 1])) = width
               /\ Unmarshalled(kind, Bytes(ms[g + 1])) = ms[g + 1].body
    <3>1. g + 1 \in 1 .. Len(ms)
      BY <2>3, <1>4
    <3>2. ms[g + 1].kind = kind /\ ms[g + 1].body \in BodySet(config, kind)
      BY <3>1, <1>1, <1>13 DEF SaidOK, ms
    <3>3. Bytes(ms[g + 1]) = Marshalled(kind, ms[g + 1].body)
      BY <3>2 DEF Bytes
    <3> QED
      BY <3>2, <3>3, <1>1, <1>4, Legible DEF width
  <2>4. /\ g + 1 \in 1 .. Len(ms)
        /\ buffer = Bytes(ms[g + 1])
        /\ Carries(r, off, ms, g + 1)
        /\ CarriesAll(buffer \o r, off, ms, g) => CarriesAll(r, off, ms, g + 1)
    BY <2>2, <2>3, <1>4, <1>8, <1>10, <1>14, <1>15, DeliveringCarries
  <2>5. m = ms[g + 1] /\ g < Len(ms) /\ m \in Msg
    <3>1. g < Len(ms)
      BY <2>4, <1>4
    <3>2. ms[g + 1] \in Msg
      BY <2>4, <1>4
    <3>3. ms[g + 1].kind = kind /\ ms[g + 1].body = Unmarshalled(kind, buffer)
      BY <2>3, <2>4, <3>1
    <3>4. ms[g + 1] = [kind |-> ms[g + 1].kind, body |-> ms[g + 1].body]
      BY <3>2 DEF Msg
    <3> QED
      BY <3>1, <3>2, <3>3, <3>4
  <2> HIDE DEF m, n
  <2>6. /\ in'[e] = <<>> /\ in'[f] = in[f] /\ in' \in [End -> Seq(Byte)]
        /\ got'[e] = Append(got[e], m) /\ got'[f] = got[f] /\ got' \in [End -> Seq(Msg)]
        /\ pc'[e] = n + 1 /\ pc'[f] = pc[f] /\ pc' \in [End -> Nat]
    <3>1. <<>> \in Seq(Byte) /\ Append(got[e], m) \in Seq(Msg) /\ n + 1 \in Nat
      BY <2>5, <1>4
    <3> QED
      BY <3>1, <2>1, <1>4 DEF WireInv, WireTypes
  <2>7. /\ Len(got'[e]) = g + 1 /\ got'[e][g + 1] = m
        /\ \A k \in 1 .. g : got'[e][k] = got[e][k]
    <3> DEFINE q == got[e]
    <3>1. q \in Seq(Msg) /\ g = Len(q) /\ got'[e] = Append(q, m) /\ m \in Msg
      BY <2>5, <2>6, <1>4 DEF g
    <3> HIDE DEF q
    <3>2. \A k \in 1 .. g : got'[e][k] = q[k]
      BY <3>1
    <3>3. Len(got'[e]) = g + 1 /\ got'[e][g + 1] = m
      BY <3>1
    <3> QED
      BY <3>2, <3>3 DEF q
  <2>8. WireTypes'
    BY <2>6, <1>1, <1>12 DEF WireInv, WireTypes
  <2>9. CountsOK(e)' /\ StubOK' /\ pc'[e] # Stopped
    BY <2>1, <2>7, <1>1, NextCall DEF n, g
  <2>10. AnswersOK'
    <3>1. CASE f = "stub"
      BY <3>1, <2>6, <1>1, SameAnswers
    <3>2. CASE e = "stub"
      <4>1. ms = sent["engineer"] /\ AnswersOK
        BY <3>2 DEF ms, f, Peer, WireInv
      <4>2. ASSUME NEW k \in 1 .. Len(got'["stub"])
            PROVE  \/ got'["stub"][k] \in Defaults
                   \/ k <= Len(sent["engineer"]) /\ got'["stub"][k] = sent["engineer"][k]
        <5>1. CASE k = g + 1
          BY <5>1, <4>1, <3>2, <2>4, <2>5, <2>7
        <5>2. CASE k # g + 1
          <6>1. k \in 1 .. g /\ got'["stub"][k] = got["stub"][k]
            BY <5>2, <4>2, <3>2, <2>7, <1>4, SMTT(30)
          <6> QED
            BY <6>1, <4>1, <3>2 DEF AnswersOK, g
        <5> QED
          BY <5>1, <5>2
      <4> QED
        BY <4>1, <4>2, <1>1 DEF AnswersOK
    <3> QED
      BY <3>1, <3>2, <1>4 DEF End
  <2>11. EndOK(e)'
    <3>1. BufferOK(e)'
      BY <2>6, <2>9, <1>1 DEF BufferOK
    <3>2. HeardOK(e)'
      <4>1. \A k \in 1 .. g : got[e][k] = ms[k]
        BY <1>1, <1>13 DEF HeardOK, g, ms, f
      <4>2. ASSUME NEW k \in 1 .. g + 1 PROVE got'[e][k] = ms[k]
        <5>1. CASE k = g + 1
          BY <5>1, <2>5, <2>7
        <5>2. CASE k # g + 1
          <6>1. k \in 1 .. g
            BY <5>2, <1>4
          <6> QED
            BY <6>1, <4>1, <2>7
        <5> QED
          BY <5>1, <5>2
      <4>3. sent'[f] = ms /\ g + 1 <= Len(ms)
        BY <2>5, <1>1, <1>4 DEF ms
      <4> QED
        BY <4>2, <4>3, <2>7 DEF HeardOK, f
    <3>3. SaidOK(e)'
      BY <1>1, SameSaid
    <3>4. StreamOK(e)'
      BY <2>6, <1>1, <1>12, SameStream DEF WireInv, EndOK, f
    <3> QED
      BY <3>1, <3>2, <3>3, <3>4, <2>9 DEF EndOK
  <2>12. EndOK(f)'
    <3>1. Stream(f)' = r
      <4>1. Stream(f)' = (<<>> \o rest) \o tail
        BY <2>6, <1>1, <1>4, <1>12 DEF Stream, tail
      <4>2. <<>> \o rest = rest
        BY <1>7
      <4> QED
        BY <4>1, <4>2 DEF r
    <3>2. sent'[f] = ms /\ open'[f] = open[f]
      BY <1>1 DEF ms
    <3>3. StreamOK(f)'
      BY <3>1, <3>2, <2>4, <2>7, <1>4, <1>14 DEF StreamOK
    <3> QED
      BY <3>3, <2>6, <1>1, OtherEnd DEF f
  <2>13. got' = [got EXCEPT ![e] = Append(got[e], sent[Peer(e)][Len(got[e]) + 1])]
    BY <2>1, <2>5 DEF ms, f, g
  <2> QED
    BY <2>5, <2>8, <2>9, <2>10, <2>11, <2>12, <2>13, <1>4 DEF WireInv, ms, f, g
<1> QED
  BY <1>16, <1>17
-----------------------------------------------------------------------------
(***************************************************************************)
(* The theorems.                                                           *)
(***************************************************************************)
LEMMA WireInit ==
  ASSUME Init
  PROVE  WireInv
<1>1. /\ session \in Sessions /\ config \in Configs
      /\ \A e \in End : /\ pc[e] = 1 /\ out[e] = <<>> /\ in[e] = <<>> /\ pipe[e] = <<>>
                        /\ open[e] = TRUE /\ sent[e] = <<>> /\ got[e] = <<>>
  BY DEF Init
<1>2. WireTypes
  <2>1. <<>> \in Seq(Byte) /\ <<>> \in Seq(Msg) /\ Len(<<>>) = 0 /\ 0 <= Window
    BY WindowAssumption
  <2>2. \A e \in End : Len(pipe[e]) <= Window
    BY <2>1, <1>1
  <2> QED
    BY <2>1, <2>2 DEF Init, WireTypes
<1>3. Identity(session) \in 0 .. 3 /\ LastCall \in Nat \ {0, 1}
  BY <1>2, SessionFacts
<1>4. StubOK
  <2>1. Asked(Identity(session), LastCall) \in Nat
    BY <1>3, AskedGrows
  <2> QED
    BY <2>1, <1>1, <1>3 DEF StubOK, End
<1>5. AnswersOK
  <2>1. Prologue(Identity(session)) \in {1, 3}
    BY DEF Prologue
  <2> QED
    BY <2>1, <1>1 DEF AnswersOK, End
<1>6. ASSUME NEW e \in End PROVE EndOK(e)
  <2>1. Peer(e) \in End
    BY Ends
  <2>2. CountsOK(e)
    <3>1. Before(Identity(session), e, 1) = 0 /\ Before(Identity(session), Peer(e), 1) = 0
      BY DEF Before, Asked, Said
    <3>2. pc[e] = 1 /\ Len(sent[e]) = 0 /\ Len(got[e]) = 0 /\ out[e] = <<>>
      BY <1>1
    <3> QED
      BY <3>1, <3>2 DEF CountsOK
  <2>3. BufferOK(e) /\ SaidOK(e) /\ HeardOK(e)
    BY <2>1, <1>1 DEF BufferOK, SaidOK, HeardOK, Stopped
  <2>4. StreamOK(e)
    <3> DEFINE off == <<0>>
    <3>1. Offsets(off, <<>>)
      BY DEF Offsets
    <3>2. Stream(e) = <<>>
      <4>1. Stream(e) = (<<>> \o <<>>) \o <<>>
        BY <2>1, <1>1 DEF Stream
      <4> QED
        BY <4>1
    <3>3. CarriesAll(<<>>, off, <<>>, 0) /\ Carries(<<>>, off, <<>>, 0)
      BY DEF CarriesAll, Carries
    <3> HIDE DEF off
    <3>4. sent[e] = <<>> /\ Len(got[Peer(e)]) = 0
      BY <2>1, <1>1
    <3> QED
      BY <3>1, <3>2, <3>3, <3>4 DEF StreamOK
  <2> QED
    BY <2>2, <2>3, <2>4 DEF EndOK
<1> QED
  BY <1>2, <1>4, <1>5, <1>6 DEF WireInv

LEMMA WireStutter ==
  ASSUME WireInv, UNCHANGED vars
  PROVE  WireInv'
<1>1. UNCHANGED <<session, config, pc, out, in, pipe, open, sent, got>>
  BY DEF vars
<1>2. WireTypes' /\ StubOK' /\ AnswersOK'
  BY <1>1, SameAnswers DEF WireInv, WireTypes, StubOK, LastCall
<1>3. ASSUME NEW e \in End PROVE EndOK(e)'
  <2>1. EndOK(e) /\ Peer(e) \in End
    BY Ends DEF WireInv
  <2>2. SaidOK(e)'
    BY <1>1, SameSaid
  <2>3. (Speaks(e)' <=> Speaks(e)) /\ (Listens(e)' <=> Listens(e))
    BY <1>1 DEF Speaks, Listens, Finished
  <2>4. CountsOK(e)' /\ BufferOK(e)' /\ HeardOK(e)'
    BY <1>1, <2>1, <2>3 DEF EndOK, CountsOK, BufferOK, HeardOK
  <2>5. StreamOK(e)'
    BY <1>1, <2>1, SameStream DEF EndOK
  <2> QED
    BY <2>2, <2>4, <2>5 DEF EndOK
<1> QED
  BY <1>2, <1>3 DEF WireInv

(***************************************************************************)
(* WireInv holds: the ends agree on what each call moves, and what is on   *)
(* the way is the messages sent and not yet received, in order.            *)
(***************************************************************************)
THEOREM WireInvariant == Spec => []WireInv
<1>1. Init => WireInv
  BY WireInit
<1>2. WireInv /\ [Next]_vars => WireInv'
  <2> SUFFICES ASSUME WireInv, [Next]_vars PROVE WireInv'
    OBVIOUS
  <2>1. ASSUME NEW e \in End, EndStep(e) PROVE WireInv'
    BY <2>1, BeginSendKeeps, SendSomeKeeps, SendFailsKeeps, RecvSomeKeeps, RecvFailsKeeps
       DEF EndStep
  <2>2. ASSUME NEW e \in End, Die(e) PROVE WireInv'
    BY <2>2, DieKeeps
  <2>3. CASE Leave
    BY <2>3, LeaveKeeps
  <2>4. CASE Terminating
    BY <2>4, WireStutter DEF Terminating
  <2>5. CASE UNCHANGED vars
    BY <2>5, WireStutter
  <2> QED
    BY <2>1, <2>2, <2>3, <2>4, <2>5 DEF Next
<1> QED
  BY <1>1, <1>2, PTL DEF Spec

(***************************************************************************)
(* TypeOK: no message, whole or in part, outgrows the buffer of its stub   *)
(* and no end makes more calls than its plan has.                          *)
(***************************************************************************)
THEOREM TypeCorrect == Spec => []TypeOK
<1>1. WireInv => TypeOK
  <2> SUFFICES ASSUME WireInv PROVE TypeOK
    OBVIOUS
  <2>1. /\ Identity(session) \in 0 .. 3 /\ LastCall \in Nat \ {0, 1}
        /\ LastCall <= 2 * Exchanges + 4 /\ Exchanges \in Nat
    BY SessionFacts, ExchangesAssumption DEF WireInv
  <2>2. ASSUME NEW e \in End PROVE pc[e] \in 0 .. 2 * Exchanges + 4
    <3> DEFINE n == pc[e]
               i == Identity(session)
    <3>1. n \in Nat
      BY TypesHere
    <3>2. n <= LastCall
      <4>1. CASE e = "stub"
        BY <4>1 DEF WireInv, StubOK
      <4>2. CASE e = "engineer" /\ n > LastCall
        <5>1. n # Stopped
          BY <4>2, <2>1 DEF Stopped
        <5>2. Len(got["engineer"]) = Asked(i, n)
          BY <4>2, <5>1 DEF WireInv, EndOK, CountsOK, Before, Peer, End
        <5>3. Len(got["engineer"]) <= Len(sent["stub"])
          BY <4>2, <5>1 DEF WireInv, EndOK, HeardOK, Peer, End
        <5>4. Len(sent["stub"]) <= Asked(i, LastCall)
          BY DEF WireInv, StubOK
        <5>5. Len(sent["stub"]) \in Nat /\ Len(got["engineer"]) \in Nat
          BY TypesHere DEF End
        <5>6. Asked(i, LastCall + 1) = Asked(i, LastCall) + 1 /\ Asked(i, LastCall) \in Nat
          <6>1. Turn(i, LastCall) = "stub"
            <7>1. Prologue(i) \in {1, 3} /\ LastCall = Prologue(i) + 2 * Exchanges + 1
              BY DEF Prologue, LastCall
            <7>2. LastCall > Prologue(i) /\ LastCall % 2 = 0
              BY <7>1, <2>1
            <7> QED
              BY <7>2 DEF Turn
          <6> QED
            BY <6>1, <2>1, Turns DEF Before, End
        <5>7. Asked(i, LastCall + 1) <= Asked(i, n) /\ Asked(i, n) \in Nat
          BY <4>2, <3>1, <2>1, AskedGrows
        <5> QED
          BY <5>2, <5>3, <5>4, <5>5, <5>6, <5>7
      <4> QED
        BY <4>1, <4>2, <3>1, <2>1 DEF End
    <3> HIDE DEF n
    <3>3. n \in 0 .. 2 * Exchanges + 4
      BY <3>1, <3>2, <2>1
    <3> QED
      BY <3>3 DEF n
  <2>3. ASSUME NEW e \in End PROVE BuffersHold(e)
    <3> DEFINE kind == KindAt(session, pc[e])
               width == Width(config, kind)
    <3>1. /\ out[e] \in Seq(Byte) /\ in[e] \in Seq(Byte) /\ pipe[e] \in Seq(Byte)
          /\ Len(pipe[e]) <= Window /\ config \in Configs
      BY TypesHere
    <3>2. Range(out[e]) \cup Range(in[e]) \cup Range(pipe[e]) \subseteq Byte
      <4>1. \A s \in Seq(Byte) : Range(s) \subseteq Byte
        BY DEF Range
      <4> QED
        BY <4>1, <3>1
    <3>3. Speaks(e) \/ Listens(e) =>
            /\ Call(e).kind = kind /\ width \in Nat /\ width <= Buffer(kind)
            /\ Buffer(kind) \in Nat
      <4>1. Speaks(e) \/ Listens(e) => Call(e).kind = kind /\ kind \in Kinds
        BY TurnFacts
      <4>2. Buffer(kind) \in Nat
        BY <3>1, ConfigsAssumption DEF Buffer, Int32
      <4> QED
        BY <4>1, <4>2, <3>1, Widths
    <3>4. /\ out[e] # <<>> => Speaks(e) /\ Len(out[e]) <= width
          /\ in[e] # <<>> => Listens(e) /\ Len(in[e]) < width
      BY DEF WireInv, EndOK, BufferOK
    <3> HIDE DEF kind, width
    <3>5. Len(out[e]) \in Nat /\ Len(in[e]) \in Nat
      BY <3>1
    <3>6. /\ out[e] # <<>> => Sending(e) /\ Len(out[e]) <= Buffer(Call(e).kind)
          /\ in[e] # <<>> => Receiving(e) /\ Len(in[e]) < Buffer(Call(e).kind)
      BY <3>3, <3>4, <3>5, TurnFacts
    <3> QED
      BY <3>1, <3>2, <3>6 DEF BuffersHold
  <2>4. session \in Sessions /\ config \in Configs /\ \A e \in End : open[e] \in BOOLEAN
    BY DEF WireInv, WireTypes
  <2> QED
    BY <2>2, <2>3, <2>4, Zenon DEF TypeOK
<1> QED
  BY <1>1, WireInvariant, PTL

(***************************************************************************)
(* Every answer a stub receives is a default one or the answer to the      *)
(* request it sent last before it.                                         *)
(***************************************************************************)
THEOREM AnswersTheorem == Spec => []AnswersMatch
<1>1. WireInv => AnswersMatch
  <2> SUFFICES ASSUME WireInv, session # "commander" PROVE AnswersMatch
    BY DEF AnswersMatch
  <2> DEFINE first == Prologue(Identity(session))
  <2>1. first \in {1, 3} /\ Len(got["stub"]) \in Nat /\ Len(sent["engineer"]) \in Nat
    BY TypesHere DEF Prologue, End
  <2>2. ASSUME NEW n \in first .. Len(got["stub"])
        PROVE  \/ got["stub"][n] \in Defaults
               \/ IsAnswer(sent["stub"][n - first + 2], got["stub"][n])
    <3>1. n \in 1 .. Len(got["stub"])
      BY <2>1
    <3>2. \/ got["stub"][n] \in Defaults
          \/ n <= Len(sent["engineer"]) /\ got["stub"][n] = sent["engineer"][n]
      BY <3>1 DEF WireInv, AnswersOK
    <3>3. CASE n <= Len(sent["engineer"]) /\ got["stub"][n] = sent["engineer"][n]
      <4>1. n \in first .. Len(sent["engineer"])
        BY <3>3, <2>1
      <4> QED
        BY <3>3, <4>1 DEF WireInv, AnswersOK
    <3> QED
      BY <3>2, <3>3
  <2> QED
    BY <2>2 DEF AnswersMatch
<1> QED
  BY <1>1, WireInvariant, PTL

(***************************************************************************)
(* What a step of the connection is to one that receives at e: a message   *)
(* is sent to e, e receives the next one, e gives up, or nothing.          *)
(***************************************************************************)
ChannelStep(e) ==
  LET f == Peer(e)
  IN  \/ /\ \E m \in Msg : sent'[f] = Append(sent[f], m)
         /\ got'[e] = got[e] /\ open'[e] = open[e]
      \/ /\ open[e] /\ open'[e] = open[e] /\ sent'[f] = sent[f]
         /\ Len(got[e]) < Len(sent[f])
         /\ got'[e] = Append(got[e], sent[f][Len(got[e]) + 1])
      \/ /\ ~open'[e] /\ sent'[f] = sent[f]
         /\ got'[e] = got[e] \/ \E d \in Defaults : got'[e] = Append(got[e], d)
      \/ sent'[f] = sent[f] /\ got'[e] = got[e] /\ open'[e] = open[e]

LEMMA ChannelSteps ==
  ASSUME WireInv, [Next]_vars, NEW e \in End
  PROVE  ChannelStep(e)
<1> DEFINE f == Peer(e)
<1>1. /\ f \in End /\ f # e /\ Peer(f) = e /\ \A d \in End : d = e \/ d = f
      /\ sent \in [End -> Seq(Msg)] /\ got \in [End -> Seq(Msg)] /\ open \in [End -> BOOLEAN]
  BY Ends DEF WireInv, WireTypes
<1> HIDE DEF f
<1>2. ASSUME NEW d \in End, BeginSend(d) PROVE ChannelStep(e)
  <2>1. /\ \E m \in Msg : sent'[d] = Append(sent[d], m)
        /\ got' = got /\ open' = open
    BY <1>2, BeginSendKeeps DEF BeginSend
  <2>2. d # f => sent'[f] = sent[f]
    BY <1>1, <1>2 DEF BeginSend
  <2> QED
    BY <2>1, <2>2 DEF ChannelStep, f
<1>3. ASSUME NEW d \in End, SendSome(d) PROVE ChannelStep(e)
  BY <1>3 DEF SendSome, ChannelStep
<1>4. ASSUME NEW d \in End, UNCHANGED <<sent, got>>, open' = [open EXCEPT ![d] = FALSE]
      PROVE  ChannelStep(e)
  BY <1>1, <1>4 DEF ChannelStep
<1>5. ASSUME NEW d \in End, RecvSome(d) PROVE ChannelStep(e)
  <2>1. open[d] /\ UNCHANGED <<open, sent>>
    BY <1>5 DEF RecvSome
  <2>2. CASE UNCHANGED got
    BY <2>1, <2>2 DEF ChannelStep
  <2>3. CASE /\ Len(got[d]) < Len(sent[Peer(d)])
             /\ got' = [got EXCEPT ![d] = Append(got[d], sent[Peer(d)][Len(got[d]) + 1])]
    <3>1. CASE d = e
      <4>1. got'[e] = Append(got[e], sent[Peer(e)][Len(got[e]) + 1])
        BY <2>3, <3>1, <1>1
      <4> QED
        BY <2>1, <2>3, <3>1, <4>1 DEF ChannelStep
    <3>2. CASE d # e
      <4>1. got'[e] = got[e]
        BY <2>3, <3>2, <1>1
      <4> QED
        BY <2>1, <4>1 DEF ChannelStep
    <3> QED
      BY <3>1, <3>2
  <2> QED
    BY <2>2, <2>3, <1>5, RecvSomeKeeps
<1>6. ASSUME NEW d \in End, RecvFails(d) PROVE ChannelStep(e)
  <2>1. PICK m \in Defaults : got' = [got EXCEPT ![d] = Append(got[d], m)]
    BY <1>6, RecvFailsKeeps
  <2>2. sent' = sent /\ open' = [open EXCEPT ![d] = FALSE]
    BY <1>6 DEF RecvFails
  <2>3. CASE d = e
    <3>1. got'[e] = Append(got[e], m) /\ ~open'[e]
      BY <2>1, <2>2, <2>3, <1>1
    <3> QED
      BY <3>1, <2>2 DEF ChannelStep
  <2>4. CASE d # e
    <3>1. got'[e] = got[e] /\ open'[e] = open[e]
      BY <2>1, <2>2, <2>4, <1>1
    <3> QED
      BY <3>1, <2>2 DEF ChannelStep
  <2> QED
    BY <2>3, <2>4
<1>7. ASSUME UNCHANGED vars PROVE ChannelStep(e)
  BY <1>7 DEF vars, ChannelStep
<1>8. ASSUME NEW d \in End, SendFails(d) \/ Die(d) PROVE ChannelStep(e)
  BY <1>4, <1>8 DEF SendFails, Die
<1>9. ASSUME Leave PROVE ChannelStep(e)
  <2>1. "stub" \in End
    BY DEF End
  <2> QED
    BY <1>4, <1>9, <2>1 DEF Leave
<1> QED
  BY <1>2, <1>3, <1>5, <1>6, <1>7, <1>8, <1>9 DEF Next, EndStep, Terminating

(***************************************************************************)
(* Each direction of a connection is a Channel: messages arrive whole, as  *)
(* they were sent and in that order, until the receiver gives it up.       *)
(***************************************************************************)
THEOREM ChannelTheorem == Spec => ImplementsChannel
<1>1. Init => ToEngineer!Init /\ ToStub!Init
  BY DEF Init, End, ToEngineer!Init, ToStub!Init
<1>2. \A s \in Seq(Msg) : \A m \in Msg : /\ Len(Append(s, m)) = Len(s) + 1
                                        /\ Append(s, m)[Len(s) + 1] = m
  OBVIOUS
<1>3. WireInv /\ [Next]_vars => [ToEngineer!Next]_(ToEngineer!vars)
  <2> SUFFICES ASSUME WireInv, [Next]_vars PROVE [ToEngineer!Next]_(ToEngineer!vars)
    OBVIOUS
  <2>1. ChannelStep("engineer") /\ Peer("engineer") = "stub"
    BY ChannelSteps DEF End, Peer
  <2>2. sent["stub"] \in Seq(Msg) /\ open["engineer"] \in BOOLEAN
    BY TypesHere DEF End
  <2> QED
    BY <2>1, <2>2, <1>2
       DEF ChannelStep, ToEngineer!Next, ToEngineer!Send, ToEngineer!Deliver,
           ToEngineer!Fail, ToEngineer!vars
<1>4. WireInv /\ [Next]_vars => [ToStub!Next]_(ToStub!vars)
  <2> SUFFICES ASSUME WireInv, [Next]_vars PROVE [ToStub!Next]_(ToStub!vars)
    OBVIOUS
  <2>1. ChannelStep("stub") /\ Peer("stub") = "engineer"
    BY ChannelSteps DEF End, Peer
  <2>2. sent["engineer"] \in Seq(Msg) /\ open["stub"] \in BOOLEAN
    BY TypesHere DEF End
  <2> QED
    BY <2>1, <2>2, <1>2
       DEF ChannelStep, ToStub!Next, ToStub!Send, ToStub!Deliver, ToStub!Fail, ToStub!vars
<1> QED
  BY <1>1, <1>3, <1>4, WireInvariant, PTL
     DEF Spec, ImplementsChannel, ToEngineer!Spec, ToStub!Spec
=============================================================================
