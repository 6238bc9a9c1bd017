---------------------------- MODULE GatewayFeed -----------------------------
(***************************************************************************)
(* The life of the order gateway (14-order-gateway-cpp) from main() to     *)
(* the destructor, its fan-out to the BBO ring, TCP, MQTT, Kafka and CSV,  *)
(* and the market makers (15-market-maker) that read its TCP feed.         *)
(*                                                                         *)
(*   main       constructs, starts, waits and destroys; the signal handler *)
(*              runs stop() on this thread, wherever it happens to be      *)
(*   reader     udpThreadFunc: here only a source of BBOs that ends when   *)
(*              running_ is false or when its listener has died            *)
(*   publisher  publishThreadFunc                                          *)
(*   io         the io_context of TCPServer: it accepts clients and writes *)
(*              the lines that broadcast() has posted, one at a time       *)
(*                                                                         *)
(* A BBO, and its line of JSON, is its place in the order of arrival.      *)
(***************************************************************************)
EXTENDS Integers, Sequences, SequencesExt, FiniteSets

CONSTANTS
    Client,       \* market makers on the TCP feed
    Idle,         \* those of them that may stop reading without leaving
    Sink,         \* MQTT, Kafka, CSV: the outputs whose constructor may throw
    SocketRoom,   \* lines that fit between a write and the client's read
    MaxBbo,       \* bound: BBOs that arrive
    MaxSignals    \* bound: signals

\* What the io thread writes between two writes.
NoLine == [to |-> "nobody", bbo |-> 0]

ASSUME FeedAssumption ==
    /\ Idle \subseteq Client /\ NoLine.to \notin Client
    /\ SocketRoom \in Nat \ {0} /\ MaxBbo \in Nat /\ MaxSignals \in Nat

Thread == {"reader", "publisher", "io"}
VARIABLES
    main,        \* where main is
    handler,     \* the step of stop() in the signal handler, or "idle"
    signals,
    running,     \* OrderGateway::running_
    thread,      \* thread -> none, run, ended or joined
    segment,     \* the shared memory of the ring: none, empty, sized, built
    sinks,       \* the sinks that were constructed and are connected
    died,        \* history: the listener died and the reader cleared running_
    early,       \* history: a signal came between running_ and the threads
    arrived,     \* history: BBOs so far
    queue,       \* bbo_queue_
    taken,       \* the BBO publishBBO works on, or 0
    posted,      \* the writes posted to the io_context
    writing,     \* the line the io thread is writing
    listed,      \* client_sockets_
    conn,        \* client -> out, pending, open, closed, left or ended
    pipe,        \* client -> lines written and not yet read
    got          \* client -> lines read

vars == <<main, handler, signals, running, thread, segment, sinks, died, early,
          arrived, queue, taken, posted, writing, listed, conn, pipe, got>>

lifeVars   == <<running, thread, segment, sinks, died, early>>
mainVars   == <<main, handler, signals>>
bboVars    == <<arrived, queue, taken>>
ioVars     == <<posted, writing>>
clientVars == <<listed, conn, pipe, got>>

Init ==
    /\ main = "unlink" /\ handler = "idle" /\ signals = 0
    /\ running = FALSE
    /\ thread = [t \in Thread |-> "none"]
    /\ segment \in {"none", "built"}   \* one may be left by an earlier run
    /\ sinks = {} /\ died = FALSE /\ early = FALSE
    /\ arrived = 0 /\ queue = <<>> /\ taken = 0
    /\ posted = <<>> /\ writing = NoLine
    /\ listed = {}
    /\ conn = [c \in Client |-> "out"]
    /\ pipe = [c \in Client |-> <<>>]
    /\ got = [c \in Client |-> <<>>]

Awake == handler = "idle"
MainAt(where) == Awake /\ main = where
MainGoes(where) == main' = where /\ UNCHANGED <<handler, signals>>

-----------------------------------------------------------------------------
(* SharedMemoryManager::create, then the rest of the constructor           *)

\* enable_disruptor may be off; a failure turns it off.
UnlinkSegment ==
    /\ MainAt("unlink")
    /\ \/ segment' = "none" /\ MainGoes("create")
       \/ UNCHANGED segment /\ MainGoes("tcp")
    /\ UNCHANGED <<running, thread, sinks, died, early, bboVars, ioVars, clientVars>>

CreateSegment ==
    /\ MainAt("create")
    /\ segment' = "empty" /\ MainGoes("truncate")
    /\ UNCHANGED <<running, thread, sinks, died, early, bboVars, ioVars, clientVars>>

TruncateSegment ==
    /\ MainAt("truncate")
    /\ \/ segment' = "sized" /\ MainGoes("map")
       \/ segment' = "none" /\ MainGoes("tcp")
    /\ UNCHANGED <<running, thread, sinks, died, early, bboVars, ioVars, clientVars>>

\* mmap and the constructor of the ring in the segment
BuildRing ==
    /\ MainAt("map")
    /\ segment' \in {"built", "none"}
    /\ MainGoes("tcp")
    /\ UNCHANGED <<running, thread, sinks, died, early, bboVars, ioVars, clientVars>>

\* The constructor of TCPServer starts the io thread.
CreateTcpServer ==
    /\ MainAt("tcp")
    /\ thread' = [thread EXCEPT !["io"] = "run"]
    /\ MainGoes("sinks")
    /\ UNCHANGED <<running, segment, sinks, died, early, bboVars, ioVars, clientVars>>

\* Those of MQTT, Kafka and the CSV file that are configured.
CreateSinks ==
    /\ MainAt("sinks")
    /\ sinks' \in SUBSET Sink
    /\ MainGoes("listen")
    /\ UNCHANGED <<running, thread, segment, died, early, bboVars, ioVars, clientVars>>

Listen ==
    /\ MainAt("listen")
    /\ MainGoes("start")
    /\ UNCHANGED <<lifeVars, bboVars, ioVars, clientVars>>

\* A constructor throws, or the port is taken: the parts built so far are
\* destroyed, but not by ~OrderGateway: the segment stays linked.
ConstructorThrows ==
    /\ main \in {"sinks", "listen"} /\ Awake
    /\ MainGoes("close sockets")
    /\ UNCHANGED <<lifeVars, bboVars, ioVars, clientVars>>

-----------------------------------------------------------------------------
(* start(), wait() and the signal handler                                  *)

SetRunning ==
    /\ MainAt("start")
    /\ running' = TRUE /\ MainGoes("threads")
    /\ UNCHANGED <<thread, segment, sinks, died, early, bboVars, ioVars, clientVars>>

StartThreads ==
    /\ MainAt("threads")
    /\ thread' = [thread EXCEPT !["reader"] = "run", !["publisher"] = "run"]
    /\ MainGoes("wait")
    /\ UNCHANGED <<running, segment, sinks, died, early, bboVars, ioVars, clientVars>>

WaitReturns ==
    /\ MainAt("wait") /\ ~running
    /\ MainGoes("destroy")
    /\ UNCHANGED <<lifeVars, bboVars, ioVars, clientVars>>

\* The handler calls stop() once g_gateway is set, and stop() does nothing
\* unless running_ is set.
Signal ==
    /\ main \notin {"exit", "abort"} /\ Awake /\ signals < MaxSignals
    /\ signals' = signals + 1
    /\ IF running
         THEN /\ running' = FALSE
              /\ handler' = "join reader"
              /\ early' = (early \/ main = "threads")
         ELSE UNCHANGED <<running, handler, early>>
    /\ UNCHANGED <<main, thread, segment, sinks, died, bboVars, ioVars, clientVars>>

JoinThread(t, from, to) ==
    /\ handler = from
    /\ \/ thread[t] = "ended" /\ thread' = [thread EXCEPT ![t] = "joined"]
       \/ thread[t] \in {"none", "joined"} /\ UNCHANGED thread
    /\ handler' = to
    /\ UNCHANGED <<main, signals, running, segment, sinks, died, early, bboVars,
                   ioVars, clientVars>>

\* Mutant: stop() does not wait for the publisher.
LeavePublisher ==
    /\ handler = "join publisher"
    /\ handler' = "disconnect"
    /\ UNCHANGED <<main, signals, lifeVars, bboVars, ioVars, clientVars>>

JoinReader    == JoinThread("reader", "join reader", "join publisher")
JoinPublisher == JoinThread("publisher", "join publisher", "disconnect")

\* The end of stop(): MQTT is disconnected, Kafka flushed.
Disconnect ==
    /\ handler = "disconnect"
    /\ handler' = "idle"
    /\ sinks' = {}
    /\ UNCHANGED <<main, signals, running, thread, segment, died, early, bboVars,
                   ioVars, clientVars>>

-----------------------------------------------------------------------------
(* The destructors                                                         *)

\* ~OrderGateway: stop() does nothing now; the ring goes first.
DestroyRing ==
    /\ MainAt("destroy")
    /\ segment' = "none" /\ MainGoes("threads gone")
    /\ UNCHANGED <<running, thread, sinks, died, early, bboVars, ioVars, clientVars>>

\* A std::thread that is still joinable ends the process with an abort.
DestroyThreads ==
    /\ MainAt("threads gone")
    /\ IF \E t \in {"reader", "publisher"} : thread[t] \in {"run", "ended"}
         THEN MainGoes("abort")
         ELSE MainGoes("close sockets")
    /\ UNCHANGED <<lifeVars, bboVars, ioVars, clientVars>>

\* Mutant: the acceptor is not closed, the connections it holds neither.
CloseListed ==
    /\ MainAt("close sockets")
    /\ conn' = [c \in Client |-> IF conn[c] = "open" THEN "closed" ELSE conn[c]]
    /\ listed' = {} /\ posted' = <<>> /\ sinks' = {}
    /\ MainGoes("join io")
    /\ UNCHANGED <<running, thread, segment, died, early, bboVars, writing, pipe, got>>

\* ~TCPServer: no more accepts, every client that is listed is closed, and
\* the writes that still wait are forgotten.
CloseSockets ==
    /\ MainAt("close sockets")
    /\ conn' = [c \in Client |->
                  IF conn[c] = "open" \/ conn[c] = "pending" THEN "closed" ELSE conn[c]]
    /\ listed' = {}
    /\ posted' = <<>>
    /\ sinks' = {}
    /\ MainGoes("join io")
    /\ UNCHANGED <<running, thread, segment, died, early, bboVars, writing, pipe, got>>

\* The io thread ends after the write it is in.
JoinIo ==
    /\ MainAt("join io") /\ writing = NoLine
    /\ thread' = [thread EXCEPT !["io"] = "joined"]
    /\ MainGoes("exit")
    /\ UNCHANGED <<running, segment, sinks, died, early, bboVars, ioVars, clientVars>>

Main ==
    \/ UnlinkSegment \/ CreateSegment \/ TruncateSegment \/ BuildRing
    \/ CreateTcpServer \/ CreateSinks \/ Listen \/ ConstructorThrows
    \/ SetRunning \/ StartThreads \/ WaitReturns
    \/ JoinReader \/ JoinPublisher \/ Disconnect
    \/ DestroyRing \/ DestroyThreads \/ CloseSockets \/ JoinIo

-----------------------------------------------------------------------------
(* The threads of the gateway                                              *)

Alive(t) == main \notin {"exit", "abort"} /\ thread[t] = "run"

\* A BBO comes out of the listener.
ReadBbo ==
    /\ Alive("reader") /\ running /\ arrived < MaxBbo
    /\ arrived' = arrived + 1
    /\ queue' = Append(queue, arrived + 1)
    /\ UNCHANGED <<mainVars, lifeVars, taken, ioVars, clientVars>>

\* The listener has stopped by itself: the reader stops the gateway.
ListenerDies ==
    /\ Alive("reader") /\ running
    /\ died' = TRUE /\ running' = FALSE
    /\ thread' = [thread EXCEPT !["reader"] = "ended"]
    /\ UNCHANGED <<mainVars, segment, sinks, early, bboVars, ioVars, clientVars>>

ThreadEnds(t, idle) ==
    /\ Alive(t) /\ ~running /\ idle
    /\ thread' = [thread EXCEPT ![t] = "ended"]
    /\ UNCHANGED <<mainVars, running, segment, sinks, died, early, bboVars,
                   ioVars, clientVars>>

ReaderEnds    == ThreadEnds("reader", TRUE)
PublisherEnds == ThreadEnds("publisher", queue = <<>> /\ taken = 0)

TakeBbo ==
    /\ Alive("publisher") /\ taken = 0 /\ queue # <<>>
    /\ taken' = Head(queue) /\ queue' = Tail(queue)
    /\ UNCHANGED <<mainVars, lifeVars, arrived, ioVars, clientVars>>

\* broadcast(): sockets that are closed are dropped from the list, a write is
\* posted for each of the others, in the order they have there.
OpenClients == {c \in listed : conn[c] # "closed"}
Writes(order, bbo) == [i \in DOMAIN order |-> [to |-> order[i], bbo |-> bbo]]

\* Mutant: the newest lines are posted in front of the older ones.
BroadcastInFront ==
    /\ Alive("publisher") /\ taken # 0
    /\ posted' = Writes(SetToSeq(OpenClients), taken) \o posted
    /\ listed' = OpenClients
    /\ taken' = 0
    /\ UNCHANGED <<mainVars, lifeVars, arrived, queue, writing, conn, pipe, got>>

\* Mutant: the publisher waits for the io thread.
BroadcastWhenWritten ==
    /\ Alive("publisher") /\ taken # 0 /\ writing = NoLine /\ posted = <<>>
    /\ posted' = Writes(SetToSeq(OpenClients), taken)
    /\ listed' = OpenClients
    /\ taken' = 0
    /\ UNCHANGED <<mainVars, lifeVars, arrived, queue, writing, conn, pipe, got>>

\* The rest of publishBBO(): the ring takes the BBO or drops it, and a sink
\* that fails is caught; neither keeps the line from the TCP clients.
Broadcast ==
    /\ Alive("publisher") /\ taken # 0
    /\ posted' = posted \o Writes(SetToSeq(OpenClients), taken)
    /\ listed' = OpenClients
    /\ taken' = 0
    /\ UNCHANGED <<mainVars, lifeVars, arrived, queue, writing, conn, pipe, got>>

\* connectionLost: nothing connects again.
SinkLost ==
    /\ sinks # {} /\ main = "wait"
    /\ \E s \in sinks : sinks' = sinks \ {s}
    /\ UNCHANGED <<mainVars, running, thread, segment, died, early, bboVars,
                   ioVars, clientVars>>

\* The accept handler runs on the io thread, between two writes.
Accept(c) ==
    /\ Alive("io") /\ writing = NoLine /\ conn[c] = "pending"
    /\ conn' = [conn EXCEPT ![c] = "open"]
    /\ listed' = listed \union {c}
    /\ UNCHANGED <<mainVars, lifeVars, bboVars, ioVars, pipe, got>>

\* The next posted write; one to a socket that is closed fails at once.
StartWrite ==
    /\ Alive("io") /\ main # "join io" /\ writing = NoLine /\ posted # <<>>
    /\ posted' = Tail(posted)
    /\ writing' = IF conn[Head(posted).to] = "closed" THEN NoLine ELSE Head(posted)
    /\ UNCHANGED <<mainVars, lifeVars, bboVars, clientVars>>

\* A blocking write: it ends when the connection has room, or fails when the
\* client has left: the socket is closed and taken from the list.
FinishWrite ==
    LET c == writing.to IN
    /\ Alive("io") /\ writing # NoLine
    /\ \/ /\ conn[c] \in {"open", "closed"} /\ Len(pipe[c]) < SocketRoom
          /\ pipe' = [pipe EXCEPT ![c] = Append(@, writing.bbo)]
          /\ UNCHANGED <<listed, conn>>
       \/ /\ conn[c] \in {"left", "ended"}
          /\ listed' = listed \ {c}
          /\ conn' = [conn EXCEPT ![c] = "ended"]
          /\ UNCHANGED pipe
    /\ writing' = NoLine
    /\ UNCHANGED <<mainVars, lifeVars, bboVars, posted, got>>

-----------------------------------------------------------------------------
(* TCPClient and the main loop of the market maker                         *)

Listening == thread["io"] = "run" /\
             main \in {"start", "threads", "wait", "destroy", "threads gone"}

\* connect(); when the port is not open the market maker ends with an error.
Connect(c) ==
    /\ conn[c] = "out"
    /\ conn' = [conn EXCEPT ![c] = IF Listening THEN "pending" ELSE "ended"]
    /\ UNCHANGED <<mainVars, lifeVars, bboVars, ioVars, listed, pipe, got>>

\* read_bbo(): the next line, or the end of the stream once all of them are
\* read: the exception is no time-out, so that the main loop ends.
ReadLine(c) ==
    /\ conn[c] \in {"open", "closed"} /\ pipe[c] # <<>>
    /\ got' = [got EXCEPT ![c] = Append(@, Head(pipe[c]))]
    /\ pipe' = [pipe EXCEPT ![c] = Tail(@)]
    /\ UNCHANGED <<mainVars, lifeVars, bboVars, ioVars, listed, conn>>

EndOfStream(c) ==
    /\ conn[c] = "closed" \/ (conn[c] \in {"open", "pending"} /\ main = "abort")
    /\ pipe[c] = <<>> /\ writing.to # c
    /\ conn' = [conn EXCEPT ![c] = "ended"]
    /\ UNCHANGED <<mainVars, lifeVars, bboVars, ioVars, listed, pipe, got>>

\* The market maker is stopped: lines on the way are lost.
Leave(c) ==
    /\ conn[c] \in {"pending", "open"}
    /\ conn' = [conn EXCEPT ![c] = "left"]
    /\ pipe' = [pipe EXCEPT ![c] = <<>>]
    /\ UNCHANGED <<mainVars, lifeVars, bboVars, ioVars, listed, got>>

MarketMaker(c) == ReadLine(c) \/ EndOfStream(c)

Io == StartWrite \/ FinishWrite \/ \E c \in Client : Accept(c)

Next ==
    \/ Main \/ ReaderEnds \/ PublisherEnds \/ TakeBbo \/ Broadcast \/ Io
    \/ ReadBbo \/ ListenerDies \/ SinkLost \/ Signal
    \/ \E c \in Client : Connect(c) \/ MarketMaker(c) \/ Leave(c)

\* The threads of the gateway run; a market maker reads as long as it lives,
\* except the idle ones.  Arrivals, signals and failures need not happen.
Fairness ==
    /\ WF_vars(Main) /\ WF_vars(ReaderEnds)
    /\ WF_vars(PublisherEnds \/ TakeBbo \/ Broadcast) /\ WF_vars(Io)
    /\ \A c \in Client \ Idle : WF_vars(MarketMaker(c))

Spec == Init /\ [][Next]_vars /\ Fairness

-----------------------------------------------------------------------------
(* Properties                                                              *)

\* The number of the last BBO that was handed to the TCP server.
Published == arrived - Len(queue) - (IF taken = 0 THEN 0 ELSE 1)

\* The lines of client c that were read, are on the way or are being written,
\* and the places of those that are posted.
LinesFor(c) ==
    got[c] \o pipe[c] \o (IF writing.to = c THEN <<writing.bbo>> ELSE <<>>)
PostedFor(c, writes) == {i \in DOMAIN writes : writes[i].to = c}

\* The lines are consecutive BBOs, and the next one after them is `next`.
Consecutive(lines, next) ==
    \A i \in DOMAIN lines : lines[i] = next - 1 - (Len(lines) - i)

\* What waits for client c are the BBOs from `next` to `last`, once and in order.
WaitFrom(c, writes, next, last) ==
    /\ {writes[i].bbo : i \in PostedFor(c, writes)} = next..last
    /\ \A i, j \in PostedFor(c, writes) : i < j => writes[i].bbo < writes[j].bbo

\* From the moment it is accepted a client gets every BBO that is published,
\* once and in order, for as long as its connection is open.
FeedIsContiguous ==
    \A c \in Client : conn[c] = "open" =>
        \E next \in 1..(Published + 1) :
            Consecutive(LinesFor(c), next) /\ WaitFrom(c, posted, next, Published)

\* Nothing is destroyed under a thread that still uses it, and the program is
\* not aborted by a thread that nobody joined, unless the gateway stopped
\* because its listener died or a signal came before its threads were created.
DestroyedAlone ==
    ~died /\ ~early =>
        /\ main # "abort"
        /\ main \in {"threads gone", "close sockets", "join io"} =>
               thread["reader"] # "run" /\ thread["publisher"] # "run"

\* A client that does not read holds up the other clients, never the
\* publisher: the queue of the gateway and with it the BBO ring keep moving.
PublisherKeepsUp == []<>(main = "abort" \/ (queue = <<>> /\ taken = 0))

\* As long as no write waits for ever, a client that reads gets every line.
LinesArrive ==
    []<>(writing = NoLine) =>
        \A c \in Client \ Idle :
            []<>(conn[c] # "open" \/ (got[c] = LinesFor(c) /\ PostedFor(c, posted) = {}))

\* The feed keeps flowing: publisher and clients each make progress, the
\* publisher whatever the clients do.
FeedKeepsFlowing == PublisherKeepsUp /\ LinesArrive

\* A signal to the running gateway ends it and, after it, the market makers
\* that read its feed, under the same condition.
SignalEndsAll ==
    []<>(writing = NoLine) =>
        /\ (handler # "idle" /\ main = "wait") ~> (main = "exit")
        /\ \A c \in Client \ Idle :
               (main = "exit") ~> (conn[c] \notin {"pending", "open", "closed"})

-----------------------------------------------------------------------------
(* The strengthening that makes the invariants above inductive.            *)

Before  == {"unlink", "create", "truncate", "map", "tcp", "sinks", "listen", "start"}
MainStep == Before \union {"threads", "wait", "destroy", "threads gone",
                           "close sockets", "join io", "exit", "abort"}
StopStep == {"idle", "join reader", "join publisher", "disconnect"}
Write == [to : Client, bbo : Nat]

FeedTypeOK ==
    /\ main \in MainStep /\ handler \in StopStep /\ signals \in Nat
    /\ running \in BOOLEAN /\ died \in BOOLEAN /\ early \in BOOLEAN
    /\ thread \in [Thread -> {"none", "run", "ended", "joined"}]
    /\ segment \in {"none", "empty", "sized", "built"} /\ sinks \subseteq Sink
    /\ arrived \in Nat /\ queue \in Seq(Nat) /\ taken \in Nat
    /\ posted \in Seq(Write) /\ writing \in Write \union {NoLine}
    /\ listed \subseteq Client
    /\ conn \in [Client -> {"out", "pending", "open", "closed", "left", "ended"}]
    /\ pipe \in [Client -> Seq(Nat)] /\ got \in [Client -> Seq(Nat)]

\* Nobody needs to join thread t any more, or not yet.
Gone(t) == thread[t] \in {"none", "joined"}
BothGone == Gone("reader") /\ Gone("publisher")

\* The handler works only while the gateway was running and main stands still.
StopPlaces ==
    /\ running => Awake /\ main \in {"threads", "wait"}
    /\ ~Awake => main \in {"threads", "wait"}
    /\ main \in Before \union {"threads"} => BothGone

\* How far stop() has got with the threads; main passes wait() after it, or
\* after one of the two exceptions.
ThreadsJoined ==
    /\ handler \in {"join publisher", "disconnect"} => Gone("reader")
    /\ handler = "disconnect" => Gone("publisher")
    /\ main = "threads" => running \/ early
    /\ Awake /\ ~running /\ ~died /\ ~early => BothGone
    /\ ~died /\ ~early => main # "abort"

LifeInvariant == StopPlaces /\ ThreadsJoined

\* The queue holds the newest BBOs; the publisher has the one before them.
QueueInOrder ==
    /\ \A i \in DOMAIN queue : queue[i] = arrived - Len(queue) + i
    /\ Len(queue) <= arrived
    /\ taken # 0 => taken = arrived - Len(queue)

\* A client is listed from its acceptance until a write fails; before it is
\* accepted nothing is written or posted to it.
ListedOnceAccepted ==
    /\ IsFiniteSet(listed)
    /\ \A c \in Client : conn[c] = "open" => c \in listed
    /\ \A c \in listed : conn[c] \notin {"out", "pending"}
    /\ \A c \in Client : conn[c] \in {"out", "pending"} =>
           LinesFor(c) = <<>> /\ PostedFor(c, posted) = {}

FeedInvariant ==
    FeedTypeOK /\ QueueInOrder /\ ListedOnceAccepted /\ FeedIsContiguous
=============================================================================
