-------------------------------- MODULE Wire --------------------------------
(***************************************************************************)
(* One connection of LaptopFactory, byte by byte: a ClientStub at one end, *)
(* the ServerStub of an engineer at the other.  What it carries depends on *)
(* the identity the stub sends first: a customer's orders or records (0),  *)
(* a backup of smr_log (1), a scout's prepare and accept messages (2) or a *)
(* commander's learn messages (3).                                         *)
(*                                                                         *)
(* send and recv move as many bytes as they like; the kernel holds at most *)
(* Window bytes in each direction.  Socket::Send and Socket::Recv loop     *)
(* until a whole message has passed, and close the socket when they fail.  *)
(* What the messages say is chosen from small sets; what an engineer does  *)
(* with them is the matter of the other modules.                           *)
(***************************************************************************)
EXTENDS Messages

CONSTANTS
  Sessions,   \* what the connection may be for
  Configs,    \* the serverConfigs an engineer may send
  Numbers,    \* the ids and numbers that messages carry
  Chunks,     \* how many bytes a call of send or recv moves, if it can
  Window,     \* bound: the bytes on the way in one direction
  Exchanges,  \* bound: the requests of one connection, or half the learn messages
  Mortal      \* the ends whose process may be killed

ASSUME SessionsAssumption ==
  Sessions \subseteq {"orders", "records", "backup", "scout", "commander"}
ASSUME WindowAssumption == Window \in Nat \ {0} /\ Chunks \subseteq Nat \ {0}
ASSUME NumbersAssumption == Numbers \subseteq Int32
ASSUME ExchangesAssumption == Exchanges \in Nat \cap Int32

\* Each of the configs is read back from its bytes, as many as its header says.
ASSUME ConfigsAssumption ==
  \A c \in Configs :
    /\ ConfigSize(c) \in Int32 /\ ConfigSize(c) > 0
    /\ MarshalConfig(c) \in Seq(Byte) /\ Len(MarshalConfig(c)) = ConfigSize(c)
    /\ UnmarshalConfig(MarshalConfig(c)) = c

VARIABLES
  session,  \* what the connection is for
  config,   \* the server's serverConfig
  pc,       \* pc[e]: the number of the call that e is in, or Stopped
  out,      \* out[e]: the rest of the buffer that e sends
  in,       \* in[e]: the part of its buffer that e has received
  pipe,     \* pipe[e]: the bytes that are on the way from e
  open,     \* open[e]: e has not closed its socket
  sent,     \* history: the messages that e gave to Send
  got       \* history: the messages that e's receives returned

vars == <<session, config, pc, out, in, pipe, open, sent, got>>
-----------------------------------------------------------------------------
End == {"stub", "engineer"}
Peer(e) == IF e = "stub" THEN "engineer" ELSE "stub"
Stopped == 0

Identity(s) ==
  CASE s \in {"orders", "records"} -> 0
    [] s = "backup" -> 1 [] s = "scout" -> 2 [] s = "commander" -> 3

\* The n-th call of each end.
Snd(kind) == [do |-> "send", kind |-> kind]
Rcv(kind) == [do |-> "recv", kind |-> kind]

Question(identity) ==
  CASE identity = 0 -> "request" [] identity = 1 -> "log" [] OTHER -> "paxos"
Answer(identity, question) ==
  CASE identity = 0 -> IF question.request_type = 1 THEN "laptop" ELSE "record"
    [] identity = 1 -> "response" [] OTHER -> "paxos"

\* The calls before the first request: the identity, and a customer's serverConfig.
Prologue(identity) == IF identity = 0 THEN 3 ELSE 1

StubCall(n) ==
  LET identity == Identity(session)
  IN  CASE n = 1 -> Snd("identity")
        [] n \in 2 .. Prologue(identity) -> Rcv(<<"header", "config">>[n - 1])
        [] n > Prologue(identity) /\ (identity = 3 \/ n % 2 = 0) -> Snd(Question(identity))
        [] OTHER -> Rcv(Answer(identity, Last(sent["stub"]).body))

\* EngineerThread goes by the identity that has arrived.
EngineerCall(n) ==
  LET identity == got["engineer"][1].body
  IN  CASE n = 1 -> Rcv("identity")
        [] n > 1 /\ n <= Prologue(identity) -> Snd(<<"header", "config">>[n - 1])
        [] n > Prologue(identity) /\ (identity = 3 \/ n % 2 = 0) -> Rcv(Question(identity))
        [] OTHER -> Snd(Answer(identity, Last(got["engineer"]).body))

Call(e) == IF e = "stub" THEN StubCall(pc[e]) ELSE EngineerCall(pc[e])

Finished == pc["stub"] = Prologue(Identity(session)) + 2 * Exchanges + 1

Sending(e) == pc[e] # Stopped /\ ~(e = "stub" /\ Finished) /\ Call(e).do = "send"
Receiving(e) == pc[e] # Stopped /\ ~(e = "stub" /\ Finished) /\ Call(e).do = "recv"
-----------------------------------------------------------------------------
(***************************************************************************)
(* What is said.                                                           *)
(***************************************************************************)
\* Orders() numbers its orders from 0; Records() and ScanRecords() set number -1.
Requests ==
  IF session = "orders"
  THEN [customer_id : Numbers, order_number : {Len(sent["stub"]) - 1}, request_type : {1}]
  ELSE [customer_id : Numbers, order_number : {-1}, request_type : {2}]

\* Faulty variant: CopyOrder leaves order_number alone.
CopyCustomer(r) == [NoLaptop EXCEPT !.customer_id = r.customer_id,
                                    !.request_type = r.request_type]

CopyOrder(r) == [CopyCustomer(r) EXCEPT !.order_number = r.order_number]

\* adminId is the id of the server, or -5.
Laptops(r) == {[CopyOrder(r) EXCEPT !.engineer_id = 0, !.admin_id = a] : a \in {1, -5}}
Records(r) == [customer_id : {r.customer_id}, last_order : Numbers] \cup {NoRecord}

\* A backup of the operation (1, customer, order).
Backups == [factory_id : {1}, committed_index : {-1}, last_index : Numbers,
            op : [opcode : {1}, arg1 : Numbers, arg2 : {0}]]

Message(phase) == [NoPaxosMsg EXCEPT !.phase = phase]
WithCommand(m, n) == [m EXCEPT !.slotNumber = 1, !.commandId = generateCommandID(1, n),
                               !.customerId = n, !.orderId = 0]
Questions ==
  IF session = "commander" THEN {WithCommand(Message(5), n) : n \in Numbers}
  ELSE {[Message(1) EXCEPT !.proposeNumber = n] : n \in Numbers} \cup
       {[WithCommand(Message(3), n) EXCEPT !.proposeNumber = n] : n \in Numbers}
Answers(q) ==
  IF q.phase = 1
  THEN {[Message(2) EXCEPT !.agree = 1],
        [Message(2) EXCEPT !.proposeNumber = q.proposeNumber]} \cup
       {[WithCommand(Message(2), n) EXCEPT !.agree = 1, !.acceptedProposal = 0] : n \in Numbers}
  ELSE {[Message(4) EXCEPT !.agree = a] : a \in {0, 1}}

\* The messages that e may send at the call where it is.
Bodies(e) ==
  LET kind == Call(e).kind
      asked == Last(got["engineer"]).body
  IN  CASE kind = "identity" -> {Identity(session)}
        [] kind = "header" -> {ConfigSize(config)}
        [] kind = "config" -> {config}
        [] kind = "request" -> Requests
        [] kind = "laptop" -> Laptops(asked)
        [] kind = "record" -> Records(asked)
        [] kind = "log" -> Backups
        [] kind = "response" -> {[factory_id |-> 1]}
        [] OTHER -> IF e = "stub" THEN Questions ELSE Answers(asked)

\* One function per class of Messages.h; an int is sent alone twice.
Marshalled(kind, m) ==
  CASE kind \in {"identity", "header"} -> NetBytes(m)
    [] kind = "config" -> MarshalConfig(m)
    [] kind = "request" -> MarshalRequest(m)
    [] kind = "laptop" -> MarshalLaptop(m)
    [] kind = "record" -> MarshalRecord(m)
    [] kind = "log" -> MarshalLogRequest(m)
    [] kind = "response" -> MarshalLogResponse(m)
    [] OTHER -> MarshalPaxosMsg(m)
Unmarshalled(kind, b) ==
  CASE kind \in {"identity", "header"} -> NetInt(b, 0)
    [] kind = "config" -> UnmarshalConfig(b)
    [] kind = "request" -> UnmarshalRequest(b)
    [] kind = "laptop" -> UnmarshalLaptop(b)
    [] kind = "record" -> UnmarshalRecord(b)
    [] kind = "log" -> UnmarshalLogRequest(b)
    [] kind = "response" -> UnmarshalLogResponse(b)
    [] OTHER -> UnmarshalPaxosMsg(b)

\* What the receive returns when Recv has failed; no header is left unread in use.
DefaultOf(kind) ==
  CASE kind \in {"identity", "header"} -> -1
    [] kind = "config" -> NoConfig
    [] kind = "request" -> NoRequest
    [] kind = "laptop" -> NoLaptop
    [] kind = "record" -> NoRecord
    [] kind = "log" -> NoLogRequest
    [] kind = "response" -> NoLogResponse
    [] OTHER -> NoPaxosMsg

\* The size that the receiver asks for: a config's has come in the header.
Size(e) ==
  LET kind == Call(e).kind
  IN  CASE kind \in {"identity", "header", "response"} -> 4
        [] kind = "config" -> Last(got[e]).body
        [] kind = "request" -> RequestSize
        [] kind = "laptop" -> LaptopSize
        [] kind = "record" -> RecordSize
        [] kind = "log" -> LogRequestSize
        [] OTHER -> PaxosMsgSize(NoPaxosMsg)
-----------------------------------------------------------------------------
Init ==
  /\ session \in Sessions
  /\ config \in Configs
  /\ pc = [e \in End |-> 1]
  /\ out = [e \in End |-> <<>>]
  /\ in = [e \in End |-> <<>>]
  /\ pipe = [e \in End |-> <<>>]
  /\ open = [e \in End |-> TRUE]
  /\ sent = [e \in End |-> <<>>]
  /\ got = [e \in End |-> <<>>]

GotoCall(e, n) == pc' = [pc EXCEPT ![e] = n]

\* A message is marshalled and given to Socket::Send.
BeginSend(e) ==
  /\ Sending(e)
  /\ out[e] = <<>>
  /\ \E m \in Bodies(e) :
       /\ out' = [out EXCEPT ![e] = Marshalled(Call(e).kind, m)]
       /\ sent' = [sent EXCEPT ![e] = Append(@, [kind |-> Call(e).kind, body |-> m])]
  /\ UNCHANGED <<session, config, pc, in, pipe, open, got>>

Least(a, b) == IF a < b THEN a ELSE b

\* One turn of the loop of Socket::Send.
SendSome(e) ==
  /\ Sending(e)
  /\ out[e] # <<>>
  /\ open[e]
  /\ \E chunk \in Chunks :
       LET n == Least(chunk, Least(Len(out[e]), Window - Len(pipe[e])))
           rest == SubSeq(out[e], n + 1, Len(out[e]))
       IN  /\ n > 0
           /\ pipe' = [pipe EXCEPT ![e] = @ \o SubSeq(out[e], 1, n)]
           /\ out' = [out EXCEPT ![e] = rest]
           /\ GotoCall(e, IF rest = <<>> THEN pc[e] + 1 ELSE pc[e])
  /\ UNCHANGED <<session, config, in, open, sent, got>>

\* send fails: the other end has closed the connection, or this one had before.
\* Scout and commander give the stub up; others go on to the next call.
SendFails(e) ==
  /\ Sending(e)
  /\ out[e] # <<>>
  /\ ~open[e] \/ ~open[Peer(e)]
  /\ open' = [open EXCEPT ![e] = FALSE]
  /\ out' = [out EXCEPT ![e] = <<>>]
  /\ GotoCall(e, IF e = "stub" /\ session \in {"scout", "commander"} THEN Stopped ELSE pc[e] + 1)
  /\ UNCHANGED <<session, config, in, pipe, sent, got>>

\* One turn of the loop of Socket::Recv; the last one unmarshals the message.
RecvSome(e) ==
  /\ Receiving(e)
  /\ open[e]
  /\ \E chunk \in Chunks :
       LET n == Least(chunk, Least(Size(e) - Len(in[e]), Len(pipe[Peer(e)])))
           buffer == in[e] \o SubSeq(pipe[Peer(e)], 1, n)
           kind == Call(e).kind
       IN  /\ n > 0
           /\ pipe' = [pipe EXCEPT ![Peer(e)] = SubSeq(@, n + 1, Len(@))]
           /\ IF Len(buffer) < Size(e)
              THEN in' = [in EXCEPT ![e] = buffer] /\ UNCHANGED <<pc, got>>
              ELSE /\ in' = [in EXCEPT ![e] = <<>>]
                   /\ got' = [got EXCEPT ![e] =
                        Append(@, [kind |-> kind, body |-> Unmarshalled(kind, buffer)])]
                   /\ GotoCall(e, pc[e] + 1)
  /\ UNCHANGED <<session, config, out, open, sent>>

\* Faulty variant: recv's 0, the end of the stream, is tried again.
OnlyOwnEnd(e) == ~open[e]

NothingComes(e) == ~open[e] \/ (~open[Peer(e)] /\ pipe[Peer(e)] = <<>>)

\* recv fails: a default message.  It ends an engineer's loop and Orders(); a header
\* that has not come may end the whole client.
RecvFails(e) ==
  LET kind == Call(e).kind
  IN  /\ Receiving(e)
      /\ NothingComes(e)
      /\ open' = [open EXCEPT ![e] = FALSE]
      /\ in' = [in EXCEPT ![e] = <<>>]
      /\ got' = [got EXCEPT ![e] = Append(@, [kind |-> kind, body |-> DefaultOf(kind)])]
      /\ \/ /\ e = "engineer" \/ kind \in {"laptop", "header"}
            /\ GotoCall(e, Stopped)
         \/ /\ e = "stub" /\ kind # "laptop"
            /\ GotoCall(e, pc[e] + 1)
      /\ UNCHANGED <<session, config, out, pipe, sent>>

\* The customer thread ends with its last answer; servers keep their connections.
Leave ==
  /\ Finished
  /\ session \notin {"scout", "commander"}
  /\ open' = [open EXCEPT !["stub"] = FALSE]
  /\ GotoCall("stub", Stopped)
  /\ UNCHANGED <<session, config, out, in, pipe, sent, got>>

\* The process of e is gone, of its own SIGPIPE too, and its kernel closes the
\* connection; what it sent may be lost in part.  (A machine that vanishes closes
\* nothing, and the recv of its peer would not return: that is not modelled.)
Die(e) ==
  /\ e \in Mortal
  /\ pc[e] # Stopped
  /\ open' = [open EXCEPT ![e] = FALSE]
  /\ GotoCall(e, Stopped)
  /\ \E n \in Chunks \cup {0} :
       pipe' = [pipe EXCEPT ![e] = SubSeq(@, 1, Least(n, Len(@)))]
  /\ out' = [out EXCEPT ![e] = <<>>]
  /\ in' = [in EXCEPT ![e] = <<>>]
  /\ UNCHANGED <<session, config, sent, got>>

EndStep(e) == BeginSend(e) \/ SendSome(e) \/ SendFails(e) \/ RecvSome(e) \/ RecvFails(e)

StubDone == pc["stub"] = Stopped \/ Finished

\* The stub has no more calls to make and the engineer waits or is gone.
Terminating ==
  /\ StubDone
  /\ pc["engineer"] = Stopped \/ (Receiving("engineer") /\ ~NothingComes("engineer")
                                  /\ pipe["stub"] = <<>>)
  /\ UNCHANGED vars

Next == (\E e \in End : EndStep(e) \/ Die(e)) \/ Leave \/ Terminating

\* A thread that can go on does.
Fairness == (\A e \in End : WF_vars(EndStep(e))) /\ WF_vars(Leave)

Spec == Init /\ [][Next]_vars /\ Fairness
-----------------------------------------------------------------------------
(***************************************************************************)
(* Type correctness.  No message outgrows the buffer of its stub: 64 bytes *)
(* for a PaxosMsg, as much as the header says for a serverConfig, 32 for   *)
(* all others.                                                             *)
(***************************************************************************)
Buffer(kind) ==
  CASE kind = "paxos" -> 64
    [] kind = "config" -> ConfigSize(config)
    [] OTHER -> 32

BuffersHold(e) ==
  /\ Len(pipe[e]) <= Window
  /\ Range(out[e]) \cup Range(in[e]) \cup Range(pipe[e]) \subseteq Byte
  /\ out[e] # <<>> => Sending(e) /\ Len(out[e]) <= Buffer(Call(e).kind)
  /\ in[e] # <<>> => Receiving(e) /\ Len(in[e]) < Buffer(Call(e).kind)

TypeOK ==
  /\ session \in Sessions /\ config \in Configs
  /\ \A e \in End :
       /\ pc[e] \in 0 .. 2 * Exchanges + 4
       /\ open[e] \in BOOLEAN
       /\ BuffersHold(e)

(***************************************************************************)
(* Each direction of a connection is a Channel: whatever pieces send and   *)
(* recv make of them, messages are never torn, merged, swapped or altered, *)
(* and a default message stands for one only once the connection is gone.  *)
(***************************************************************************)
Defaults ==
  {[kind |-> kind, body |-> DefaultOf(kind)] :
     kind \in {"identity", "header", "config", "request", "laptop", "record", "log",
               "response", "paxos"}}

ToEngineer ==
  INSTANCE Channel WITH sent <- sent["stub"], got <- got["engineer"],
                        failed <- ~open["engineer"], Default <- Defaults
ToStub ==
  INSTANCE Channel WITH sent <- sent["engineer"], got <- got["stub"],
                        failed <- ~open["stub"], Default <- Defaults

ImplementsChannel == ToEngineer!Spec /\ ToStub!Spec

(***************************************************************************)
(* An answer that is not a default one goes with the request that was sent *)
(* last before it: the laptop of that customer's order, a record of that   *)
(* customer, a promise for a prepare message and a vote for a proposal.    *)
(* (An acceptor's answer does not repeat what it was asked, and a backup's *)
(* is the same for all: of these the comparison sees only the kind.)       *)
(***************************************************************************)
IsAnswer(question, answer) ==
  LET q == question.body
      a == answer.body
  IN  CASE answer.kind = "laptop" ->
             /\ a.customer_id = q.customer_id /\ a.order_number = q.order_number
             /\ a.request_type = q.request_type
        [] answer.kind = "record" -> a.customer_id = q.customer_id
        [] answer.kind = "response" -> q.op.opcode # -1
        [] OTHER -> a.phase = q.phase + 1

AnswersMatch ==
  session # "commander" =>
    LET first == Prologue(Identity(session))
    IN  \A n \in first .. Len(got["stub"]) :
          LET answer == got["stub"][n]
          IN  \/ answer \in Defaults
              \/ IsAnswer(sent["stub"][n - first + 2], answer)

(***************************************************************************)
(* Nobody waits for ever: the stub makes all its calls, or gives up, and   *)
(* the engineer of a customer ends too.  The kernel's buffers may be       *)
(* smaller than a message, and the process of either end may die.          *)
(***************************************************************************)
EndsStop ==
  /\ <>StubDone
  /\ session \in {"orders", "records"} => <>(pc["engineer"] = Stopped)
=============================================================================
