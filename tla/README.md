# LaptopFactory in TLA+

LaptopFactory is a replicated order service: customers place orders for laptops with any of a
few servers, and the servers agree on one log of orders with a form of Multi-Paxos over TCP.
This directory holds TLA+ modules that model the program in `src/src/`, TLC configurations that
check them on small instances, and TLAPS proofs about them for any instance.

`ST` stands for `src/src/ServerThread.cpp` below.

## 1. The system

### Components

| component | state | operations |
|---|---|---|
| **Customer** (`ClientThread.cpp`, `ClientStub.cpp`) | its connection, `serverConfig`, number of the next order | `ThreadBody`, `Orders` (place, read the answer, fail over), `Records`, `ScanRecords` |
| **Engineer** (`EngineerThread`, ST:75-201): a thread per connection, in one of four roles | the socket, the message in hand | identity 0: orders and records of a customer; 1: backup (nobody connects so); 2: acceptor; 3: learner |
| **Acceptor** (identity 2) | `promisedProposalNumber`, `acceptedProposalNumber`, `acceptedValue`, shared by the engineers of all proposers | p1a: promise or reject; p2a: accept or reject |
| **Learner** (identity 3, `Learn`) | `decisionMap`, `slot_out`, the file `<id> FactoryLog.txt` | learn a command, log the slots it fills |
| **Scout** (`ScoutThread`, `ScoutBrocasting`, `AcceptPhaseBrocasting`), one thread per server | `proposalNumber`, `slot_in`, `scout_acceptor_stub`, the counters of a round | connect, prepare rounds, choice of a command, accept phase |
| **Commander** (`CommanderBrocasting`), called by the scout | `commander_learner_stub` | connect, send the learn messages |
| **Queue** `erq` and `customer_record` | requests with promises; last order by customer | push and notify (engineer), wait and pop (scout), record (scout) |
| **Messages, sockets** (`Messages.cpp`, `Socket.cpp`, the stubs) | file descriptors | marshal, send, receive, close on failure |
| **Process start** (`ServerMain.cpp`, `AddAcceptor`) | `acceptor_map`, `numOfAcceptors` | reads the peers, starts the scout and an engineer per connection |

### How they interact

A customer sends an order to its engineer, which puts a request with a promise on `erq` and waits
for the future. The scout of the server takes the request, runs `ScoutBrocasting` to its end, and
sets the promise. `ScoutBrocasting` talks to the acceptors *one after the other, in the order of a
`std::map`*: it sends, blocks for the reply, goes on. If a majority accepts, the commander sends
learn messages, which are not answered. A server is at once acceptor, learner and (if it has
customers) proposer; the scout reads the `decisionMap` that its own learner writes.

### What is hard about it

* *Interleaving in one acceptor.* There is one engineer per proposer, and they share the three
  acceptor variables. Tests and writes of the numbers take no lock; `av_lock` is taken by the
  reader of the accepted value and never by its writer.
* *Duelling scouts* that may use the same proposal number, since a number carries no server id.
* *Counters that outlive a round* (ST:269, :274 are outside of the `while`).
* *Failure in the middle of a loop* over a stub map, which erases entries of this map and of the
  commander's; replies that never come and leave a closed socket in the map.
* *Silent loss*: a learn message, or the identity, to a dead server goes unnoticed, and the next send
  on that connection ends the sender's process with SIGPIPE, which nothing in the code handles.
* *Results of the accept phase* with four outcomes, not all of which reach the customer.
* *Out-of-order learning*, repeated learning, and a log file that outlives the process.
* *A wake-up or a promise lost* between engineer and scout; failover of customers.
* *A stream of bytes*: `send` and `recv` move pieces, the receiver must know how many bytes to wait
  for, and takes the size of a default message, or of a header, for it.

The list by line is `hazards` in `PROJECT.json`.

### What makes each part correct

* Acceptor: votes only in numbers it has promised (`PromiseBeforeVote`); a promise carries what was
  accepted (`PromiseCarriesAccepted`, which the code breaks).
* Learner: `slot_out` is the first unknown slot (`PrefixDecided`); one log line per slot, in order
  (`LogNumbered`), with the slot's command (`LogHoldsDecisions`, broken; `MisfiledRepeatsAbove` says
  how far).
* Scout and commander: only what a majority voted for is announced (`LearnedIsChosen`), slots are
  not skipped (`SlotInBehind`), the process survives its peers but in two windows
  (`SurvivesPeers`), a customer hears of missing acceptors when they are missing and not otherwise (`NoFalseAlarm`;
  `TooFewIsTold`, broken), every order is answered (`OrderAnswered`).
* System: one log (`ImplementsReplicatedLog` with one proposer; `ReplicasAgree`, broken with two),
  which reaches every living server (`Replicated`).
* Order desk: `OnePromiseEach`, `RecordShowsAnswers`, `ReadsAreFresh`, `OneLossPerCrash`,
  `CustomersEnd`. An order that is answered was proposed (`AnsweredWasProposed`, broken).
* Connection: messages arrive whole and in order until it fails (`ImplementsChannel`), an answer belongs
  to its question (`AnswersMatch`), and nobody waits for ever (`EndsStop`).

## 2. The modules

| module | what it is |
|---|---|
| `Acceptor` | the engineers of identity 2, statement by statement |
| `Learner` | `Learn`, the log file, deaths and restarts |
| `LaptopPaxos` | `EXTENDS Acceptor`, instantiates `Learner`: scouts, commanders, connections, late starts, crashes |
| `ReplicatedLog` | the abstract specification |
| `OrderDesk` | customers, engineers of identity 0, `erq`, promises, records and their reader, failover |
| `Messages` | every message class as bytes: `Marshal`, `Unmarshal`, `Size`, defaults |
| `Wire` | `EXTENDS Messages`: one connection, the loops of `Send` and `Recv`, any identity |
| `Channel` | the abstract specification of one direction of a connection |
| `LearnerProofs`, `LaptopPaxosProofs`, `ConnectionProofs`, `OneProposerProofs`, `ReplicatedLogProofs` | the theorems about the learner and the protocol: the second instantiates the first, each of the next extends the one before it |
| `OrderDeskProofs`, `MessagesProofs` | the theorems about the order desk and about the messages |
| `WireProofs` | the theorems about a connection: `EXTENDS Wire, MessagesProofs` |
| `MCLearner`, `MCOrderDesk`, `MCWire` | constants that a configuration cannot write |

### Acceptor

A variable per member of `LaptopFactory`, and for the engineer that serves proposer `p` at acceptor
`a` the message (`request`), the reply it fills in (`reply`) and the statement it comes to
(`stage`). Each read or write of a shared member is a step. `TestPrepare` is the condition of ST:146,
`Promise` the assignment of :147; `SeeAccepted`, `CopySlot` and `CopyOrder` are :151-154, where a
`Command` is copied member by member; `Reject` is :157-158; `TestAccept`, `AcceptNumber`,
`AcceptSlot` and `AcceptOrder` are :167-170. The data races of the code are these interleavings: an
`int` is read or written whole, and a `Command` is its slot and the order that its other members
name, moved in the order of their declaration. `slot` of a default `Command` is not initialised; it
is any member of `GarbageSlots`. `votes` and `promises` are history variables.

### Learner

`Learn` holds `decisionMap_lock` throughout and is one step: it stores the command, advances
`slot_out` to the first gap, and appends a line for each slot passed, *with the command of the call*
(ST:216). `CrashAndRestart` is a death of the process after any number of those lines (also none) and
a start on the old file with initial members; `main` reads nothing back. `MaxLines` bounds the file
of a server that is restarted.

### LaptopPaxos

`pc[p]` is the loop in which the scout of `p` is, and `todo[p]` the entries that its iterator has
still to visit, smallest id first.

| `pc` | code | actions |
|---|---|---|
| `idle` | ST:494-518 | `TakeOrder` |
| `connect` | ST:240-254 | `ConnectAcceptor`, `IdentifyAcceptor`, `AcceptorsConnected` |
| `prepare`, `p1b` | ST:277-307 | `SendP1a`, `P1aFails`, `RecvP1b` |
| end of `prepare` | ST:309-338 | `PrepareUnavailable`, `NextRound`, `ProposeOwn`, `ProposeSystem` |
| `accept`, `p2b` | ST:402-427 | `SendP2a`, `P2aFails`, `RecvP2b` |
| end of `accept` | ST:344-375, 429-439 | `StartCommander`, `Restart`, `GiveUpOwn`, `AcceptUnavailable` |
| `connectLearners` | ST:450-464 | `ConnectLearner`, `IdentifyLearner`, `LearnersConnected` |
| `learn` | ST:466-478, 377-382 | `SendLearn`, `SendLearnFails`, `AnswerOk` |

`tally` and `ballot` are the local variables of `ScoutBrocasting` and `AcceptPhaseBrocasting`. An entry
of a stub map is `connected` when `Init` has returned, and `Identify`, a send of its own whose result
the code ignores, makes it `open`. When the peer has died in between, that send fails (`closed`), or
draws a reset that comes back before the next send (`unheard`) or after it (still `open`). Later an
entry is `closed` by a failed receive, or `reset` after a learn message to a dead peer. `Crash` ends a process for good. What it has sent still arrives; what was
sent to it is lost. `Start` is `main` of a server in `Late`, at any time: its peers connect to their
acceptors once (`scout_acceptor_stub_init`) and to their learners once, later. `BrokenPipe` is the send
on an `unheard` or `reset` connection, which SIGPIPE turns into the end of the sender's process.
`MaxNumber` bounds the proposal numbers (a scout that would exceed it stops), `MaxOrders` the orders of a
proposer.

### OrderDesk

A label for each customer thread, for each server's engineer of a customer, and for each scout
thread. `Enqueue` is the block under `erq_lock` (ST:34-37), `Sleep` the wait with its predicate (a spurious
wake-up tests the queue under the lock and finds what was there), `Take` the pop, `Decide` the return of `ScoutBrocasting` with
the record it writes, `SetPromise` ST:518. What the scout decides is left open here: it is the matter
of `LaptopPaxos`. `LoseOrder`, `TryServer` and `Leave` are the failover of `Orders()`, in the order of
the server ids; `ConfigLost` is the header that never came (`ClientStub.cpp:65`), after which the code
goes on with what was in memory. The reader is a thread of another client process in `Records` or
`ScanRecords`: `AskRecord` sends the request, `LookUp` is `CreateCustomerRecord` under `cr_lock`,
`ReadRecord` and `LoseRecord` the receive. `floor` remembers what `Home` had told the customer by the time
of the request.

### Messages, Wire and Channel

`Messages` gives each class of `Messages.h` as a set of records, and its `Marshal`, `Unmarshal`, `Size` and
default as operators on sequences of bytes: ints in network order, the length and the port of a
`ServerInfo` in host order, a `std::map` in the order of its keys.

`Wire` is one connection. Each end makes a fixed sequence of calls, which the stub's use decides:
`StubCall` is what the client's thread, the scout or the commander does with a `ClientStub`,
`EngineerCall` what `EngineerThread` does with its `ServerStub`, by the identity that has arrived.
`BeginSend` marshals a message; `SendSome` and `RecvSome` are one turn of the loops of `Socket::Send` and
`Socket::Recv`, which move any piece of `Chunks` that fits the kernel's `Window`; `SendFails` and `RecvFails`
are their early returns, with the default message that the stub's methods then return. `Die` ends a process,
whose kernel then closes the connection, and may lose a part of what it sent.

`Channel` says what the other modules assume of a connection: what is received is what was sent, whole and
in order, and after a failure only default messages are.

## 3. Runs

Deadlock is checked in all passing runs; a `Terminating` step stands for the states in which the
system may stop, except in the learner, which never does.

| run | bounds | shows |
|---|---|---|
| `learner` | one server (learners share nothing), 7 commands: two for each of 3 slots, one for slot 0; restarts up to 3 lines of log | `TypeOK`, `PrefixDecided`, `LogNumbered`, `MisfiledRepeatsAbove`, across deaths inside `Learn` |
| `one_proposer` | 3 servers, 1 proposer, 2 orders, 2 servers may crash, one starts late; fairness | `TypeOK`, `NoFalseAlarm`, `SurvivesPeers`, `LogMatchesDecisions`, `ImplementsReplicatedLog`, `OrderAnswered`, `Replicated` |
| `two_proposers` | 2 servers, both proposers, one order each, numbers to 2, one may crash | `LearnedIsChosen`, `SlotInBehind` |
| `order_desk` | 2 servers that may both crash, 2 customers, 2 orders each, a reader of one record; fairness | `TypeOK`, `OnePromiseEach`, `RecordShowsAnswers`, `ReadsAreFresh`, `OneLossPerCrash`, `CustomersEnd` |
| `wire` | each kind of connection, 2 requests (4 learn messages), pieces of 5 bytes or all, a window of 18 bytes, either end may die; fairness | `TypeOK`, `AnswersMatch`, `ImplementsChannel`, `EndsStop` |

Seven more runs each refute one statement of a comment in the code (`findings` in `PROJECT.json`):

| run | what TLC shows |
|---|---|
| `promise_majority` | A scout is in its accept phase with a number that one acceptor of three has promised: that acceptor's promise in an earlier round counts as a second. |
| `replicas_agree` | Without any crash, two proposers with the same number make two servers learn different commands for slot 1. |
| `promise_carries` | A promise carries a number and a command that were never accepted together. |
| `too_few_is_told` | Two servers die between prepare and accept; the customer is told that its order is done. |
| `peers_propose` | After a part reject nobody proposes the order again, and its customer was told that it is done. |
| `order_dropped` | One proposer, no failure: the scout takes order 2 before its own learner has read the learn message of slot 1, proposes that command once more as the system's, and order 2 is answered with success though no acceptor ever saw it. |
| `learner_log` | Slot 2 is learned before slot 1: both lines of the log carry the command of slot 1. |

### Why these bounds

Three servers are the least with a majority that survives a crash; two crashes then leave none, so
both sides of `numOfAcceptors/2` are reached, at every point of the loops. Two orders make the scout
use connections to servers that died during the order before, which is where stale entries of the maps
would show: `SurvivesPeers` needs a death before one order's learn message, and the next order. (With
three orders the same properties hold of a system without late servers; the run takes long.) The late
server may start before, between and after the two loops that connect to it. With two
proposers the number of states grows fast; two servers are enough for equal numbers, part rejects,
restarts of the prepare phase, commands of the system and the races of the engineers. Three
slots give the learner gaps of one and two. Two customers are the least for a queue
with an order of a second customer behind the first, and two servers for a failover that succeeds and
one that does not. On the wire, a window of 18 bytes is smaller than a `LaptopInfo` (20), a `LogRequest`
(24), a `PaxosMsg` (51) and a `serverConfig`, and larger than the other messages, so that a send may end
before its receive begins and may not; pieces of 5 bytes end inside an int.

### Fairness

Each thread of a living process runs: weak fairness of a scout's next step, of each engineer and of
each customer thread. A thread that waits for a peer waits in `recv`, which returns when the peer has
answered or its process has ended. In `OrderDesk`, `ScoutStep` includes the return of `ScoutBrocasting`; that it
does return is `OrderAnswered` of `LaptopPaxos`, for one proposer and a connection that either delivers
or fails. `BrokenPipe` is a step of the scout's thread like any other. On the wire each end goes on when
it can: a `send` returns when the window has room, a `recv` when there is a byte or the peer has closed. No
fairness is assumed of crashes and of the start of a server. For two proposers no
progress is claimed: the code has no backoff, and duelling scouts may take promises from each other
for ever.

### What `SurvivesPeers` excepts

The branches at ST:284 and ST:470 take the end of a peer for a `send` that fails: they erase the peer and go
on. But the second send to a process that has ended raises SIGPIPE, which nothing in the code handles. In
general a receive comes in between and finds out; there are two exceptions, both reached in the run
`one_proposer`, and `SurvivesPeers` says that there are no more.

1. A peer that dies between `Init` and `Identify` (ST:243-250, :453-460). The identity itself draws the
   reset, and the first message to that acceptor or learner ends the proposer's process. The peer may have
   run from the start. Without this exception TLC finds such a death after 14 steps.
2. A server that starts after the scout has connected the acceptors (ST:241) and before the commander
   connects the learners (ST:451) is a learner to which the scout has no connection. When it dies, nothing of
   the prepare or accept phase fails: the first learn message draws a reset, and the second is one too many.

`OrderAnswered` and `Replicated` allow for the death of the proposer in both cases.

## 4. Proofs

The assumptions are those of the modules: `Server` is a finite set of naturals, `Proposer`, `Late` and
`Crashable` are subsets of it, the bounds are numbers, `GarbageSlots` a set of integers, commands have
integer slots; `Home` is a server and `ReadList` a sequence of customers. Everything else is arbitrary:
any number of servers, proposers, customers, orders, crashes and late starts. Each inductive invariant
was checked by TLC on the instances of the runs before it was proved.

**`LearnerProofs`.** `TypeCorrect` first. `PrefixDecided`, `LogNumbered` and `MisfiledRepeatsAbove` are
not inductive alone: that a misfiled line is not the first of its call needs that `slot_out` was
unknown before the call, so that the first line written has the command's own slot; that is
`PrefixDecided`. Together, as `LogInv`, they are inductive (`LogInvariant`).

**`LaptopPaxosProofs`.**

1. `CoreType`: the types of everything but the learners' files, with the help of `HoldsOrder` (a scout
   at work has taken an order, so the command it proposes names one). `ImplementsLearner`: every step of the
   composition is a step of `Learner` or leaves it alone, so the theorems of `LearnerProofs` hold of
   the learners here; with it `TypeCorrect`.
2. `SlotInTheorem`: `slot_in <= slot_out`. The scout stops at the first gap from `slot_in`; `slot_out`
   is a gap (`PrefixDecided` of the learner) and is not below `slot_in`, so the first gap is not
   beyond it.
3. `PromiseInvariant`: `PromiseInv` is `PromiseBeforeVote` with what makes it inductive. `EngineerOK`:
   at most one engineer works for a scout, the one it waits for, on a message with the scout's
   current number, and past the test of a p2a message that number is among the promises.
   `NumberPromised`: what `promisedProposalNumber` holds was promised at that acceptor. The number may
   change between test and vote, and even fall (two engineers that tested before either wrote); the
   history does not forget.
4. `LearnedIsChosenTheorem`: `ChosenInv` adds `AgreedVoted` (`accept_number` counts acceptors already
   visited that have voted for the command in the scout's number: none is counted twice, because the
   loop visits each entry once) and `CommanderChosen`. Votes are never withdrawn, so what is on its
   way to a learner stays chosen, whatever happens to the acceptors.

**`ConnectionProofs`**, about the same module. `Moves` sums up what a scout's step does to its
connections, its iterator and its counters, in the cases `Begins` to `Answers`; three invariants then
need only these cases.

1. `StubInv` (`StubInvariant`): an entry of `scout_acceptor_stub` that is closed was to a dead server;
   one that is missing after the scout has tried to connect was of a dead server or a late one; the
   acceptor whose reply is awaited is connected.
2. `PipeInv` (for `SurvivesPeersTheorem`): a learner connection that a learn message has reset is of a dead server to which the scout
   still has its own entry. A prepare phase that has passed the server has closed that entry (it
   cannot have a reply: `EngineerOK` says that no engineer was at work when the message went out), the
   accept phase has erased both, so the learner loop finds no such entry, and `BrokenPipe` is left with the
   two exceptions above.
3. `AlarmInv` (`NoFalseAlarmTheorem`): a phase counts as active at least the entries that it has visited
   and kept. When the count is at most half, half of the servers at least have no entry, and by
   `StubInv` these are dead or late. A server does not become reachable again.

**`OneProposerProofs`**, under the hypothesis `OneProposer`: the proposer `p` is the only one (any
servers, orders, crashes, late starts). `LeaderInv` (`LeaderInvariant`) says of it:

1. `SelfLed`: the connection of the scout to its own acceptor is never closed or erased while it lives.
2. `NumbersOK`: every acceptor that the scout can reach (`Led`) has promised the scout's number, outside
   of a prepare phase. In one, the round is either a `NewRound`, whose number no acceptor has used and
   which all of them promise, or an `OldRound`, whose number they have all promised already, which all
   reject, and after which the next number is larger than all. So a part reject, which drops the order
   (see the findings), needs a second proposer.
3. `ValuesOK`: outside of an accept phase the own acceptor holds the largest accepted number, and whoever
   has accepted in that number holds the same command (`Leads`); so the command that a prepare phase
   brings back is the own one, whoever else replies, and whatever part of its copy an acceptor
   that died had written (`Sound`, `Copied`).
4. `CommandsOK`: the commands that have a vote have each a slot and an order of its own, and leave no gap
   below. The one that the own learner does not know yet is what the own acceptor holds, so the next
   scout finds it before it gives the slot away.

**`ReplicatedLogProofs`**, with the same hypothesis.

1. `LogTheorem`: `ImplementsReplicatedLog`. By `CommandsOK` a vote that completes a majority chooses a
   command for a slot that had none, or is the slot's own; all other steps choose nothing, and by `LearnedIsChosen`
   whatever is learned was chosen. `AgreeTheorem` (`ReplicasAgree`) follows: two commands of a slot that
   were chosen are the same.
2. `LogMatchesTheorem`: `LogMatchesDecisions`. `Learn` writes its argument on the line of every slot it
   passes, so the lines are right only if it passes one slot per call. `DeliveryInv`: what is on its way to a
   server fills its slots from `slot_out` on without a gap, and everything that the scout's own server
   has, or is about to be told, was sent to every server that is still connected; so a server that
   misses a slot (it was lost, or started late) receives nothing that lets its log move past it.

The hypothesis is needed: the runs `PeersPropose` and `ReplicasAgree` refute the same claims for two
proposers. The configuration `OneProposer.cfg` satisfies it.

**`OrderDeskProofs`.** `DeskInv` and `ReaderType` give `TypeCorrect`; they say besides the types that an
engineer at work serves a customer that is connected to it, and that nothing moves in a dead server.

1. `OnePromiseTheorem`: `OnePromiseEach` with `ScoutHolds` (a scout that sleeps or looks at the queue has
   nothing in hand) and `RequestsCurrent` (a request stands for the order its customer waits for).
2. `RecordTheorem`: an answer on its way was recorded first (`ResultRecorded`), and no record is ahead
   of its customer (`RecordBehind`), so a later order never finds an older record at that server.
3. `ReadTheorem`: what the customer had been told when the reader asked is not above the record at
   `Home` from then on (`ReaderServed`); records only grow. From above, a record is always of an order
   that its customer has placed (`RecordPlaced`): the scout writes it while the customer waits for
   that order, or was ended while it did.
4. `LossTheorem`: a customer that has lost an order to a server is not connected to it again
   (`LossInv`), so the servers it has lost orders to are all different and all crashed.

**`MessagesProofs`.** The four bytes of an int give the int again (`BytesOfInt`), a sequence of ints is found again word by word behind any prefix and before any suffix; from this
the round trips of every message of fixed size, and of `PaxosMsg` with an address of any length.

**`WireProofs`**, for any session, numbers, pieces, window and number of requests. `Sessions` and `Numbers` are
what they say, `Window` and the pieces are positive, `Exchanges` fits an `int`. A `serverConfig` is written
and read in loops, which are folds in the model, and induction over data is out of the prover's reach; so that
`UnmarshalConfig` reads each of the `Configs` back, in `ConfigSize` bytes, is an assumption of `Wire`
(`ConfigsAssumption`), which TLC evaluates for the configs of the run `wire`. The round trips of all other messages are
theorems of `MessagesProofs`. `WireInv` (`WireInvariant`) says:

1. `CountsOK` and `SaidOK`: before its n-th call an end has sent and received the numbers of messages that the
   plan of the connection says (`Turn`, `Before`), and its k-th message is of the k-th kind. From this both ends
   are shown to follow one plan, though the engineer goes by the identity and the request types that it was
   sent (`CallFacts`), and the receiver of a message to ask for its size, although that of a config came in the header
   (`SizeIs`).
2. `StreamOK`: there are offsets, one per message, so that the bytes that the receiver has in its buffer, then
   those of the kernel, then those of the sender's buffer are the bytes of the messages from the next one to
   be received on. Once the sender has closed its end they are only a beginning of them: a buffer that was given up, or a part of
   what the kernel held, is missing at the end. No call needs to know where a message ends in the kernel.
3. `HeardOK`: until the receiver closes its end, what it received is a beginning of what was sent. An engineer
   that failed to send has closed its end and still knows what it was asked; the stub of a customer may go on after a failed receive
   (`Records`, `getServerConfig`), and is not covered any more.
4. `AnswersOK`: the engineer's answer is to the request of the same place in the stub's history.

`TypeCorrect`, `AnswersTheorem` and `ChannelTheorem` (both directions of `ImplementsChannel`) follow. The
engineer's bound on calls in `TypeOK` needs `HeardOK`: it cannot have received more requests than the stub made.

**Only model-checked.** Liveness (`OrderAnswered`, `Replicated`, `CustomersEnd`, `EndsStop`): fairness and
`ENABLED` are out of the prover's reach. The bytes of a `serverConfig` (see above). `LogMatchesDecisions`,
`ReplicasAgree` and `ImplementsReplicatedLog` are proved under `OneProposer`, and refuted without it.

## 5. What is not modelled

* A server that starts again in `LaptopPaxos`: a crash is for good there. The code reads nothing back,
  so a proposer that connects later would meet an acceptor that has forgotten its promises; those
  connected before do not connect again. `Learner` has the restarts, because the log file survives them.
* A machine, or a network, that vanishes without closing its connections: `recv` then does not return,
  since the code sets no timeout, and every claim about progress is about processes that end.
* The end of a server by SIGPIPE in `SendServerConfig` (`ServerStub.cpp:30-40`), whose two sends may
  both go to a client process that has just aborted. In `OrderDesk` such a server goes on, or crashes as
  any `Crashable` one.
* File descriptors: a closed socket fails. In the program its number may by then belong to another
  connection (`Socket.cpp:65`).
* The race of the scout's `decisionMap.find` with `Learn`'s insertion on a `std::map`: the two are taken
  one after the other.
* `smr_log`: the scout appends to it and nobody reads it, except a backup engineer that has
  no caller (`BackupRecord`, identity 1). Its messages and its exchange are in `Messages` and `Wire`.
* Comparison of command ids. The code makes them and never compares them; their arithmetic is
  `generateCommandID` in `Messages`, everywhere else the order stands for the id.
* Timers, printing, parsing of arguments, the Nagle option, `saveMapToFile` and `loadMapFromFile` (no caller).

## 6. Plan

Done: `Learner`, `Acceptor`, `LaptopPaxos` with late starts, `ReplicatedLog`, `OrderDesk` with its reader,
`Messages`, `Wire`, `Channel`, and the eight proof modules, with a theorem for every safety property that a
run checks and that holds. Next, in this order:

1. *Restarts* in `LaptopPaxos`: an acceptor that forgets its promises behind connections that nobody opens
   again. The abstract specification then has to say what survives.
2. *Descriptors*: a table of numbers with reuse, to see which stub may send to whom after a close.
3. *Composition* of `OrderDesk` with `LaptopPaxos` through `TakeOrder` and `Answer`.
4. *The backup engineer*'s log, for the day a caller appears.
