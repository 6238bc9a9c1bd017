---------------------------- MODULE OrderGateway ----------------------------
(***************************************************************************)
(* The threads of the order gateway (14-order-gateway-cpp) in UDP mode:    *)
(*   asio     UDPListener::thread_func, receives datagrams and queues them *)
(*   reader   OrderGateway::udpThreadFunc, moves them to a second queue    *)
(*   publisher  OrderGateway::publishThreadFunc, publishes from there      *)
(*   main     waits for a signal, whose handler calls OrderGateway::stop() *)
(* A datagram is a number, its place in the order of arrival.              *)
(*                                                                         *)
(* A critical section of a queue's mutex is one step, except in read_bbo:  *)
(* between testing its predicate and blocking it holds the queue's mutex,  *)
(* but stop() sets running_ and notifies without that mutex.               *)
(***************************************************************************)
EXTENDS Integers, Sequences

CONSTANTS
    ListenerMax,   \* UDPListener::MAX_QUEUE_SIZE (1000)
    GatewayMax,    \* OrderGateway::MAX_QUEUE_SIZE (10000)
    MaxPackets     \* bound: datagrams that arrive

ASSUME GatewayAssumption ==
    ListenerMax \in Nat \ {0} /\ GatewayMax \in Nat \ {0} /\ MaxPackets \in Nat

VARIABLES
    arrived,        \* history: datagrams received so far
    running,        \* OrderGateway::running_
    lRunning,       \* UDPListener::running_, a plain bool
    lMutex,         \* owner of UDPListener::mutex_
    socketOpen, ioStopped,
    asioPc, asioBbo,
    lQueue,         \* UDPListener::bbo_queue_
    readerPc, readerBbo,
    gQueue,         \* OrderGateway::bbo_queue_
    publisherPc,
    published,      \* history: what publishBBO was given
    mainPc

ioVars == <<socketOpen, ioStopped>>
asioVars == <<arrived, asioPc, asioBbo>>
readerVars == <<readerPc, readerBbo>>
publisherVars == <<publisherPc, published>>
vars == <<running, lRunning, lMutex, mainPc, ioVars, asioVars, lQueue,
          readerVars, gQueue, publisherVars>>

NoBbo == 0

(* After start(): the listener's thread and both gateway threads run.      *)
Init ==
    /\ arrived = 0 /\ running = TRUE /\ lRunning = TRUE /\ lMutex = "free"
    /\ socketOpen = TRUE /\ ioStopped = FALSE
    /\ asioPc = "start" /\ asioBbo = NoBbo /\ lQueue = <<>>
    /\ readerPc = "loop" /\ readerBbo = NoBbo /\ gQueue = <<>>
    /\ publisherPc = "loop" /\ published = <<>>
    /\ mainPc = "wait"

(* Both queues drop their oldest entry when they are full; the mutant      *)
(* drops the newest.                                                       *)
PushOrDropNewest(queue, max, bbo) ==
    IF Len(queue) >= max THEN queue ELSE Append(queue, bbo)
PushDroppingOldest(queue, max, bbo) ==
    Append(IF Len(queue) >= max THEN Tail(queue) ELSE queue, bbo)

---------------------------------------------------------------------------
(* asio: io_.restart(); async_receive_from(...); io_.run()                 *)

ThreadFunc ==
    /\ asioPc = "start"
    /\ ioStopped' = FALSE
    /\ asioPc' = "receive"
    /\ UNCHANGED <<running, lRunning, lMutex, mainPc, socketOpen, arrived, asioBbo,
                   lQueue, readerVars, gQueue, publisherVars>>

OnReceive ==
    /\ asioPc = "receive" /\ socketOpen /\ ~ioStopped
    /\ arrived < MaxPackets
    /\ arrived' = arrived + 1
    /\ asioBbo' = arrived'
    /\ asioPc' = "process"
    /\ UNCHANGED <<running, lRunning, lMutex, mainPc, ioVars, lQueue, readerVars,
                   gQueue, publisherVars>>

(* process_bbo(), which wakes a reader that sleeps in read_bbo; the mutant *)
(* does not.                                                               *)
ProcessBboNoNotify ==
    /\ asioPc = "process"
    /\ readerPc # "tested"
    /\ lQueue' = PushDroppingOldest(lQueue, ListenerMax, asioBbo)
    /\ asioPc' = "rearm"
    /\ asioBbo' = NoBbo
    /\ UNCHANGED <<running, lRunning, lMutex, mainPc, ioVars, arrived, readerVars,
                   gQueue, publisherVars>>
ProcessBbo ==
    /\ asioPc = "process"
    /\ readerPc # "tested"
    /\ lQueue' = PushDroppingOldest(lQueue, ListenerMax, asioBbo)
    /\ readerPc' = IF readerPc = "asleep" THEN "test" ELSE readerPc
    /\ asioPc' = "rearm"
    /\ asioBbo' = NoBbo
    /\ UNCHANGED <<running, lRunning, lMutex, mainPc, ioVars, arrived, readerBbo,
                   gQueue, publisherVars>>

(* The end of on_receive(): without another receive io_.run() returns.     *)
Rearm ==
    /\ asioPc = "rearm"
    /\ asioPc' = IF lRunning THEN "receive" ELSE "ended"
    /\ UNCHANGED <<running, lRunning, lMutex, mainPc, ioVars, arrived, asioBbo,
                   lQueue, readerVars, gQueue, publisherVars>>

(* A receive on the closed socket completes with an error.                 *)
OnReceiveError ==
    /\ asioPc = "receive" /\ ~socketOpen /\ ~ioStopped
    /\ asioPc' = "rearm"
    /\ UNCHANGED <<running, lRunning, lMutex, mainPc, ioVars, arrived, asioBbo,
                   lQueue, readerVars, gQueue, publisherVars>>

RunReturns ==
    /\ asioPc = "receive" /\ ioStopped
    /\ asioPc' = "ended"
    /\ UNCHANGED <<running, lRunning, lMutex, mainPc, ioVars, arrived, asioBbo,
                   lQueue, readerVars, gQueue, publisherVars>>

Asio == ThreadFunc \/ OnReceive \/ ProcessBbo \/ Rearm \/ OnReceiveError \/ RunReturns

---------------------------------------------------------------------------
(* reader: while (running_) { bbo = read_bbo(); push it }                  *)

(* The mutant goes on until read_bbo() throws.                             *)
ReaderLoopUntilThrow ==
    /\ readerPc = "loop"
    /\ readerPc' = "lazy"
    /\ UNCHANGED <<running, lRunning, lMutex, mainPc, ioVars, asioVars, lQueue,
                   readerBbo, gQueue, publisherVars>>
ReaderLoop ==
    /\ readerPc = "loop"
    /\ readerPc' = IF running THEN "lazy" ELSE "ended"
    /\ UNCHANGED <<running, lRunning, lMutex, mainPc, ioVars, asioVars, lQueue,
                   readerBbo, gQueue, publisherVars>>

(* read_bbo(): if (!running_) run();                                       *)
LazyStart ==
    /\ readerPc = "lazy"
    /\ readerPc' = IF lRunning THEN "test" ELSE "start"
    /\ UNCHANGED <<running, lRunning, lMutex, mainPc, ioVars, asioVars, lQueue,
                   readerBbo, gQueue, publisherVars>>

(* run() under mutex_: a new thread for a listener that was stopped.       *)
Run ==
    /\ readerPc = "start" /\ lMutex = "free"
    /\ lRunning' = TRUE
    /\ asioPc' = "start"
    /\ readerPc' = "test"
    /\ UNCHANGED <<running, lMutex, mainPc, ioVars, arrived, asioBbo, lQueue,
                   readerBbo, gQueue, publisherVars>>

(* The predicate of the wait, tested with bbo_queue_mutex_ held.           *)
TestPredicate ==
    /\ readerPc = "test"
    /\ readerPc' = IF lQueue = <<>> /\ lRunning THEN "tested" ELSE "take"
    /\ UNCHANGED <<running, lRunning, lMutex, mainPc, ioVars, asioVars, lQueue,
                   readerBbo, gQueue, publisherVars>>

(* It was false: release the mutex and sleep, until notified.              *)
FallAsleep ==
    /\ readerPc = "tested"
    /\ readerPc' = "asleep"
    /\ UNCHANGED <<running, lRunning, lMutex, mainPc, ioVars, asioVars, lQueue,
                   readerBbo, gQueue, publisherVars>>

TakeBbo ==
    /\ readerPc = "take" /\ lQueue # <<>>
    /\ readerBbo' = Head(lQueue)
    /\ lQueue' = Tail(lQueue)
    /\ readerPc' = "push"
    /\ UNCHANGED <<running, lRunning, lMutex, mainPc, ioVars, asioVars, gQueue,
                   publisherVars>>

(* read_bbo() throws "UDP listener stopped" and the handler ends the       *)
(* gateway, unless the listener runs again by then.                        *)
ListenerStopped ==
    /\ readerPc = "take" /\ lQueue = <<>>
    /\ IF lRunning
         THEN readerPc' = "loop" /\ UNCHANGED running
         ELSE readerPc' = "ended" /\ running' = FALSE
    /\ UNCHANGED <<lRunning, lMutex, mainPc, ioVars, asioVars, lQueue, readerBbo,
                   gQueue, publisherVars>>

PushToGateway ==
    /\ readerPc = "push"
    /\ gQueue' = PushDroppingOldest(gQueue, GatewayMax, readerBbo)
    /\ readerBbo' = NoBbo
    /\ readerPc' = "loop"
    /\ UNCHANGED <<running, lRunning, lMutex, mainPc, ioVars, asioVars, lQueue,
                   publisherVars>>

Reader == ReaderLoop \/ LazyStart \/ Run \/ TestPredicate \/ FallAsleep \/ TakeBbo
          \/ ListenerStopped \/ PushToGateway

---------------------------------------------------------------------------
(* publisher: while (running_ || !bbo_queue_.empty()).  It waits with a    *)
(* timeout of 100 ms, so it needs no notification to go round again.       *)
PublishBBO ==
    /\ publisherPc = "loop" /\ gQueue # <<>>
    /\ published' = Append(published, Head(gQueue))
    /\ gQueue' = Tail(gQueue)
    /\ UNCHANGED <<running, lRunning, lMutex, mainPc, ioVars, asioVars, lQueue,
                   readerVars, publisherPc>>

PublisherEnds ==
    /\ publisherPc = "loop" /\ ~running /\ gQueue = <<>>
    /\ publisherPc' = "ended"
    /\ UNCHANGED <<running, lRunning, lMutex, mainPc, ioVars, asioVars, lQueue,
                   readerVars, gQueue, published>>

---------------------------------------------------------------------------
(* main: the signal handler runs OrderGateway::stop().                     *)

Signal ==
    /\ mainPc = "wait"
    /\ running' = FALSE
    /\ mainPc' = "stop"
    /\ UNCHANGED <<lRunning, lMutex, ioVars, asioVars, lQueue, readerVars, gQueue,
                   publisherVars>>

(* UDPListener::stop() takes mutex_ and keeps it until the thread is       *)
(* joined.                                                                 *)
StopListener ==
    /\ mainPc = "stop" /\ lMutex = "free"
    /\ IF lRunning
         THEN lMutex' = "main" /\ lRunning' = FALSE /\ mainPc' = "close"
         ELSE mainPc' = "joinReader" /\ UNCHANGED <<lMutex, lRunning>>
    /\ UNCHANGED <<running, ioVars, asioVars, lQueue, readerVars, gQueue,
                   publisherVars>>

CloseSocket ==
    /\ mainPc = "close"
    /\ socketOpen' = FALSE
    /\ mainPc' = "stopIo"
    /\ UNCHANGED <<running, lRunning, lMutex, ioStopped, asioVars, lQueue,
                   readerVars, gQueue, publisherVars>>

StopIo ==
    /\ mainPc = "stopIo"
    /\ ioStopped' = TRUE
    /\ mainPc' = "notify"
    /\ UNCHANGED <<running, lRunning, lMutex, socketOpen, asioVars, lQueue,
                   readerVars, gQueue, publisherVars>>

(* notify_all() reaches a reader that is asleep, not one about to sleep.   *)
(* The mutant forgets it.                                                  *)
StopWithoutNotify ==
    /\ mainPc = "notify"
    /\ mainPc' = "joinAsio"
    /\ UNCHANGED <<running, lRunning, lMutex, ioVars, asioVars, lQueue, readerVars,
                   gQueue, publisherVars>>
NotifyReaders ==
    /\ mainPc = "notify"
    /\ readerPc' = IF readerPc = "asleep" THEN "test" ELSE readerPc
    /\ mainPc' = "joinAsio"
    /\ UNCHANGED <<running, lRunning, lMutex, ioVars, asioVars, lQueue, readerBbo,
                   gQueue, publisherVars>>

JoinAsio ==
    /\ mainPc = "joinAsio" /\ asioPc = "ended"
    /\ lMutex' = "free"
    /\ mainPc' = "joinReader"
    /\ UNCHANGED <<running, lRunning, ioVars, asioVars, lQueue, readerVars, gQueue,
                   publisherVars>>

JoinThreads ==
    /\ mainPc = "joinReader"
    /\ readerPc = "ended" /\ publisherPc = "ended"
    /\ mainPc' = "stopped"
    /\ UNCHANGED <<running, lRunning, lMutex, ioVars, asioVars, lQueue, readerVars,
                   gQueue, publisherVars>>

Stop == StopListener \/ CloseSocket \/ StopIo \/ NotifyReaders \/ JoinAsio \/ JoinThreads

---------------------------------------------------------------------------
Next == Asio \/ Reader \/ PublishBBO \/ PublisherEnds \/ Signal \/ Stop

Spec == Init /\ [][Next]_vars

(* Every thread is scheduled; datagrams and the signal need not come.      *)
FairSpec ==
    /\ Spec
    /\ WF_vars(ThreadFunc \/ ProcessBbo \/ Rearm \/ OnReceiveError \/ RunReturns)
    /\ WF_vars(Reader) /\ WF_vars(PublishBBO \/ PublisherEnds) /\ WF_vars(Stop)

---------------------------------------------------------------------------
(* Types of the threads' places, the queues and the histories.             *)
Bbo == 1..MaxPackets
TypeOK ==
    /\ arrived \in 0..MaxPackets
    /\ running \in BOOLEAN /\ lRunning \in BOOLEAN
    /\ socketOpen \in BOOLEAN /\ ioStopped \in BOOLEAN
    /\ lMutex \in {"free", "main"}
    /\ asioPc \in {"start", "receive", "process", "rearm", "ended"}
    /\ readerPc \in {"loop", "lazy", "start", "test", "tested", "asleep", "take",
                     "push", "ended"}
    /\ publisherPc \in {"loop", "ended"}
    /\ mainPc \in {"wait", "stop", "close", "stopIo", "notify", "joinAsio",
                   "joinReader", "stopped"}
    /\ asioBbo \in Bbo \cup {NoBbo} /\ (asioPc = "process" => asioBbo # NoBbo)
    /\ readerBbo \in Bbo \cup {NoBbo} /\ (readerPc = "push" => readerBbo # NoBbo)
    /\ lQueue \in Seq(Bbo) /\ Len(lQueue) <= ListenerMax
    /\ gQueue \in Seq(Bbo) /\ Len(gQueue) <= GatewayMax
    /\ published \in Seq(Bbo)

Newest(seq) == seq[Len(seq)]

(* Everything the gateway has received, oldest first, by where it is now.  *)
Held(bbo) == IF bbo = NoBbo THEN <<>> ELSE <<bbo>>
Stream == published \o gQueue \o Held(readerBbo) \o lQueue \o Held(asioBbo)

(* No BBO overtakes another between the socket and publishBBO, none is     *)
(* published twice, and the newest that arrived is never the one dropped.  *)
NewestKeptInOrder ==
    /\ \A i \in 1..(Len(Stream) - 1) : Stream[i] < Stream[i + 1]
    /\ arrived > 0 => Newest(Stream) = arrived

(* Of what the reader took from the listener, stop() leaves at most one    *)
(* BBO unpublished: the reader may push it after the publisher has ended.  *)
StopLeavesOne == mainPc = "stopped" => Len(gQueue) <= 1

(* Why: running_ stays clear once the publisher has seen it clear, and a   *)
(* BBO that is pushed after that is the reader's last.                     *)
PublisherLeavesOne ==
    /\ mainPc = "stopped" => publisherPc = "ended"
    /\ publisherPc = "ended" =>
         /\ ~running
         /\ Len(gQueue) <= 1
         /\ gQueue # <<>> => readerPc \in {"loop", "ended"}

(* While nobody stops the gateway, a BBO as new as any that arrived is     *)
(* eventually published.                                                   *)
NewestPublished ==
    \A n \in Bbo : arrived = n ~>
      \/ mainPc # "wait"
      \/ published # <<>> /\ Newest(published) >= n

(* A reader that is asleep before stop() notifies is woken, and stop()     *)
(* returns.                                                                *)
StopWakesReader ==
    (mainPc \in {"stop", "close", "stopIo", "notify"} /\ readerPc = "asleep")
      ~> mainPc = "stopped"

============================================================================
