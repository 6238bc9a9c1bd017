----------------------------- MODULE SpscRing -----------------------------
(***************************************************************************)
(* The shared-memory ring that carries orders from the market maker to the *)
(* execution engine and fills back (src/common/disruptor: Sequencer,       *)
(* RingBuffer, OrderRingBuffer, FillRingBuffer).  One process calls        *)
(* publish(), another calls try_read(); each load and store of an atomic   *)
(* cursor is a step of its own, and the copy of an event into or out of a  *)
(* slot is one step per machine word, because nothing makes it atomic.     *)
(*                                                                         *)
(* The release store of a cursor and the acquire load that reads it order  *)
(* the copies on both sides, and each cursor has one writer, so the        *)
(* interleaving of these steps is all the behaviour the build can show.    *)
(***************************************************************************)
EXTENDS Integers, Sequences

CONSTANTS
    Size,       \* slots of the ring (SIZE; 8192 or 16384 in the code)
    Event,      \* the events a producer may publish
    Word,       \* the machine words an event is copied in
    Blank,      \* the word of a slot that was never written
    MaxEvents   \* bound of the model: calls to publish() that may start

ASSUME SizeAssumption ==
    Size \in Nat \ {0} /\ \E k \in 0..Size : Size = 2^k
ASSUME BlankAssumption == Blank \notin Event

VARIABLES
    cursor,          \* Sequencer::cursor_, stored by the producer only
    consumerCursor,  \* Sequencer::consumer_cursor_, stored by the consumer only
    slot,            \* RingBuffer::buffer_, word by word
    pPc, pSeq, pEvent, pLeft,   \* where publish() is, and its locals
    cPc, cSeq, cBuf, cLeft,     \* where try_read() is, and its locals
    published,       \* history: events whose publish() stored the cursor
    consumed         \* history: events try_read() returned

ringVars == <<cursor, consumerCursor, slot>>
producerVars == <<pPc, pSeq, pEvent, pLeft>>
consumerVars == <<cPc, cSeq, cBuf, cLeft>>
vars == <<ringVars, producerVars, consumerVars, published, consumed>>

Slots == 0..(Size - 1)
Content == [Word -> Event \cup {Blank}]
Whole(e) == [w \in Word |-> e]

(* RingBuffer::operator[]: sequence & (N - 1), N a power of two.           *)
Index(seq) == seq % Size

Init ==
    /\ cursor = -1
    /\ consumerCursor = -1
    /\ slot = [i \in Slots |-> Whole(Blank)]
    /\ pPc = "idle" /\ pSeq = -1 /\ pEvent = Blank /\ pLeft = {}
    /\ cPc = "idle" /\ cSeq = -1 /\ cBuf = Whole(Blank) /\ cLeft = {}
    /\ published = <<>>
    /\ consumed = <<>>

---------------------------------------------------------------------------
(* The producer: publish(event).                                           *)

BeginPublish(e) ==
    /\ pPc = "idle"
    /\ Len(published) < MaxEvents
    /\ pPc' = "next"
    /\ pSeq' = cursor + 1
    /\ pEvent' = e
    /\ UNCHANGED <<pLeft, ringVars, consumerVars, published, consumed>>

(* next() spins until the slot that pSeq maps to has been read.            *)
HasRoomOffByOne(seq) == seq - Size <= consumerCursor + 1
HasRoom(seq) == seq - Size <= consumerCursor

Claim ==
    /\ pPc = "next"
    /\ HasRoom(pSeq)
    /\ pPc' = "set"
    /\ pLeft' = Word
    /\ UNCHANGED <<pSeq, pEvent, ringVars, consumerVars, published, consumed>>

SetWord(w) ==
    /\ pPc = "set"
    /\ w \in pLeft
    /\ slot' = [slot EXCEPT ![Index(pSeq)][w] = pEvent]
    /\ pLeft' = pLeft \ {w}
    /\ UNCHANGED <<cursor, consumerCursor, pPc, pSeq, pEvent, consumerVars,
                   published, consumed>>

(* The mutant stores the cursor while words of the event are missing.      *)
PublishBeforeSet ==
    /\ pPc = "set"
    /\ pPc' = "idle"
    /\ cursor' = pSeq
    /\ pLeft' = {}
    /\ published' = Append(published, Whole(pEvent))
    /\ UNCHANGED <<consumerCursor, slot, pSeq, pEvent, consumerVars, consumed>>
Publish ==
    /\ pPc = "set"
    /\ pLeft = {}
    /\ pPc' = "idle"
    /\ cursor' = pSeq
    /\ published' = Append(published, Whole(pEvent))
    /\ UNCHANGED <<consumerCursor, slot, pSeq, pEvent, pLeft, consumerVars,
                   consumed>>

Producer ==
    \/ \E e \in Event : BeginPublish(e)
    \/ Claim
    \/ \E w \in Word : SetWord(w)
    \/ Publish

---------------------------------------------------------------------------
(* The consumer: try_read(event), called in a loop.                        *)

IsAvailable(seq) == seq <= cursor

(* The mutant jumps to the newest event instead of the next one.           *)
BeginReadLatest ==
    /\ cPc = "idle"
    /\ IsAvailable(consumerCursor + 1)
    /\ cPc' = "get"
    /\ cSeq' = cursor
    /\ cLeft' = Word
    /\ UNCHANGED <<cBuf, ringVars, producerVars, published, consumed>>
BeginRead ==
    /\ cPc = "idle"
    /\ IsAvailable(consumerCursor + 1)
    /\ cPc' = "get"
    /\ cSeq' = consumerCursor + 1
    /\ cLeft' = Word
    /\ UNCHANGED <<cBuf, ringVars, producerVars, published, consumed>>

(* try_read() returns false and its caller polls again.                    *)
PollEmpty ==
    /\ cPc = "idle"
    /\ ~IsAvailable(consumerCursor + 1)
    /\ UNCHANGED vars

GetWord(w) ==
    /\ cPc = "get"
    /\ w \in cLeft
    /\ cBuf' = [cBuf EXCEPT ![w] = slot[Index(cSeq)][w]]
    /\ cLeft' = cLeft \ {w}
    /\ UNCHANGED <<cPc, cSeq, ringVars, producerVars, published, consumed>>

(* The mutant hands the slot back before the event is copied.              *)
ReleaseBeforeGet ==
    /\ cPc = "get"
    /\ \/ /\ cLeft = Word /\ consumerCursor' = cSeq
          /\ UNCHANGED <<cPc, consumed>>
       \/ /\ cLeft = {} /\ cPc' = "idle"
          /\ consumed' = Append(consumed, cBuf)
          /\ UNCHANGED consumerCursor
    /\ UNCHANGED <<cSeq, cBuf, cLeft, cursor, slot, producerVars, published>>
SetConsumerCursor ==
    /\ cPc = "get"
    /\ cLeft = {}
    /\ cPc' = "idle"
    /\ consumerCursor' = cSeq
    /\ consumed' = Append(consumed, cBuf)
    /\ UNCHANGED <<cursor, slot, cSeq, cBuf, cLeft, producerVars, published>>

Consumer ==
    \/ BeginRead
    \/ PollEmpty
    \/ \E w \in Word : GetWord(w)
    \/ SetConsumerCursor

---------------------------------------------------------------------------
Next == Producer \/ Consumer

Spec == Init /\ [][Next]_vars

(* Each side is a thread of its own that the operating system keeps        *)
(* scheduling; a call that has begun goes on, and the consumer's main loop *)
(* polls for ever.  Nobody is obliged to start a publish().                *)
Fairness ==
    /\ WF_vars(Claim \/ Publish \/ \E w \in Word : SetWord(w))
    /\ WF_vars(BeginRead \/ SetConsumerCursor \/ \E w \in Word : GetWord(w))

FairSpec == Spec /\ Fairness

---------------------------------------------------------------------------
(* Properties.                                                             *)

(* Types of the cursors, the slots, both calls' locals and the histories;  *)
(* what was published or returned has no word that was never written.      *)
TypeOK ==
    /\ cursor \in Int /\ cursor >= -1
    /\ consumerCursor \in Int /\ consumerCursor >= -1
    /\ slot \in [Slots -> Content]
    /\ pPc \in {"idle", "next", "set"}
    /\ pSeq \in Int /\ pSeq >= -1
    /\ pEvent \in Event \cup {Blank}
    /\ pLeft \in SUBSET Word
    /\ cPc \in {"idle", "get"}
    /\ cSeq \in Int /\ cSeq >= -1
    /\ cBuf \in Content
    /\ cLeft \in SUBSET Word
    /\ published \in Seq([Word -> Event])
    /\ consumed \in Seq([Word -> Event])

(* The two sides never copy the same slot at the same time: the cursors    *)
(* alone keep the plain, non-atomic copies of set() and get() apart.       *)
NoSlotRace ==
    pPc = "set" /\ cPc = "get" => Index(pSeq) # Index(cSeq)

(* Every event between the two cursors is still in its slot, whole: a      *)
(* producer that laps the ring never damages what has not been read.       *)
UnreadIntact ==
    \A s \in (consumerCursor + 1)..cursor : slot[Index(s)] = published[s + 1]

(* What try_read() has returned is, event by event, what publish() was     *)
(* given: nothing lost, repeated, reordered or torn.                       *)
ConsumedInOrder ==
    /\ Len(consumed) <= Len(published)
    /\ \A i \in 1..Len(consumed) : consumed[i] = published[i]

(* A ring is a bounded FIFO channel of capacity Size.                      *)
Channel == INSTANCE FifoChannel
             WITH Message <- {Whole(e) : e \in Event}, Capacity <- Size,
                  sent <- published, received <- consumed
ImplementsChannel == Channel!Spec

(* Every published event is eventually returned by try_read().             *)
EventsDelivered ==
    \A n \in 1..MaxEvents : Len(published) >= n ~> Len(consumed) >= n

(* publish() spins while the ring is full, but never for ever as long as   *)
(* the consumer polls.                                                     *)
PublishReturns == pPc = "next" ~> pPc = "idle"

(* Neither side of the ring waits for ever while the other is scheduled.   *)
RingProgress == EventsDelivered /\ PublishReturns

(* The strengthening that makes the invariants above inductive.            *)
CursorsOrdered ==
    /\ Len(published) = cursor + 1
    /\ Len(consumed) = consumerCursor + 1
    /\ consumerCursor <= cursor
    /\ cursor - Size <= consumerCursor

ProducerOK ==
    /\ pPc # "idle" => pSeq = cursor + 1 /\ pEvent \in Event
    /\ pPc = "set" =>
         /\ HasRoom(pSeq)
         /\ \A w \in Word \ pLeft : slot[Index(pSeq)][w] = pEvent

ConsumerOK ==
    cPc = "get" =>
      /\ cSeq = consumerCursor + 1
      /\ cSeq <= cursor
      /\ \A w \in Word \ cLeft : cBuf[w] = published[cSeq + 1][w]

(* The inductive invariant: cursors, copies in progress and histories      *)
(* agree at every step of publish() and try_read().                        *)
RingInvariant ==
    /\ TypeOK
    /\ CursorsOrdered
    /\ ProducerOK
    /\ ConsumerOK
    /\ UnreadIntact
    /\ ConsumedInOrder
===========================================================================
