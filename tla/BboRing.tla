------------------------------ MODULE BboRing ------------------------------
(***************************************************************************)
(* The ring between the order gateway and the market maker                 *)
(* (src/common/disruptor/BboRingBuffer.h).  Its slots, cursors and reader  *)
(* are those of SpscRing; its producer calls try_publish(), which drops    *)
(* the quote instead of waiting and whose try_next() stores the cursor     *)
(* BEFORE the quote is copied into the slot (Sequencer.h:39).  The         *)
(* blocking publish() of the class has no caller.                          *)
(***************************************************************************)
EXTENDS SpscRing

(* try_next() succeeds.  Its load of the consumer cursor and its store of  *)
(* the cursor are one step: the consumer cursor only grows in between, and *)
(* nobody else stores the cursor.                                          *)
TryNextLate(e) ==
    /\ pPc = "idle"
    /\ Len(published) < MaxEvents
    /\ HasRoom(cursor + 1)
    /\ pSeq' = cursor + 2
    /\ cursor' = pSeq'
    /\ pEvent' = e
    /\ pPc' = "set"
    /\ pLeft' = Word
    /\ UNCHANGED <<consumerCursor, slot, consumerVars, published, consumed>>
TryNext(e) ==
    /\ pPc = "idle"
    /\ Len(published) < MaxEvents
    /\ HasRoom(cursor + 1)
    /\ pSeq' = cursor + 1
    /\ cursor' = pSeq'
    /\ pEvent' = e
    /\ pPc' = "set"
    /\ pLeft' = Word
    /\ UNCHANGED <<consumerCursor, slot, consumerVars, published, consumed>>

(* try_next() finds the ring full: try_publish() drops the quote.          *)
TryNextFull ==
    /\ pPc = "idle"
    /\ ~HasRoom(cursor + 1)
    /\ UNCHANGED vars

BboProducer ==
    \/ \E e \in Event : TryNext(e)
    \/ TryNextFull
    \/ \E w \in Word : SetWord(w)
    \/ Publish

BboNext == BboProducer \/ Consumer

BboSpec == Init /\ [][BboNext]_vars

---------------------------------------------------------------------------
(* What the i-th try_publish() that succeeded was given.                   *)
Accepted == IF pPc = "set" THEN Append(published, Whole(pEvent)) ELSE published

(* A quote that is completely written stays intact until it is read, even  *)
(* though the cursor already covers the quote behind it.                   *)
SettledIntact ==
    \A s \in (consumerCursor + 1)..cursor :
      (pPc = "set" => s # pSeq) => slot[Index(s)] = published[s + 1]

(* The i-th accepted quote, or what its slot held one lap before it.       *)
OneLapBefore(i, w) == IF i > Size THEN Accepted[i - Size][w] ELSE Blank
MayBeRead(i, w) == {Accepted[i][w], OneLapBefore(i, w)}

(* The reader returns one value per accepted quote, and the early cursor   *)
(* store can damage it in one way only: a word may still be the one the    *)
(* slot held a lap earlier (or was created with).                          *)
DamageIsOneLapOld ==
    /\ Len(consumed) <= Len(Accepted)
    /\ \A i \in 1..Len(consumed) : \A w \in Word : consumed[i][w] \in MayBeRead(i, w)

(* The quotes in flight never exceed the ring, including the one that is   *)
(* being copied.                                                           *)
NeverOverfull == Len(Accepted) - Len(consumed) <= Size

---------------------------------------------------------------------------
(* The strengthening that makes the invariants above inductive.            *)
BboTypeOK ==
    /\ cursor \in Int /\ cursor >= -1
    /\ consumerCursor \in Int /\ consumerCursor >= -1
    /\ slot \in [Slots -> Content]
    /\ pPc \in {"idle", "set"}
    /\ pSeq \in Int
    /\ pEvent \in Event \cup {Blank}
    /\ pLeft \in SUBSET Word
    /\ cPc \in {"idle", "get"}
    /\ cSeq \in Int
    /\ cBuf \in Content
    /\ cLeft \in SUBSET Word
    /\ published \in Seq([Word -> Event])
    /\ consumed \in Seq(Content)

BboCursorsOrdered ==
    /\ Len(Accepted) = cursor + 1
    /\ Len(consumed) = consumerCursor + 1
    /\ consumerCursor <= cursor
    /\ cursor - Size <= consumerCursor

(* The slot being written mixes the new quote with the one a lap earlier.  *)
BeingWritten ==
    pPc = "set" =>
      /\ pSeq = cursor /\ cursor >= 0 /\ pEvent \in Event
      /\ \A w \in Word : slot[Index(cursor)][w] =
           IF w \in pLeft THEN OneLapBefore(cursor + 1, w) ELSE pEvent

(* Every other slot holds the quote of the last lap, read or not, or is    *)
(* as it was created.                                                      *)
SlotsHoldLastLap ==
    /\ \A s \in 0..cursor :
         cursor < s + Size /\ (pPc = "set" => s # cursor)
           => slot[Index(s)] = Accepted[s + 1]
    /\ \A i \in Slots : i > cursor => slot[i] = Whole(Blank)

BeingRead ==
    cPc = "get" =>
      /\ cSeq = consumerCursor + 1 /\ cSeq <= cursor
      /\ \A w \in Word \ cLeft : cBuf[w] \in MayBeRead(cSeq + 1, w)

(* The inductive invariant: how the early cursor store, the slots of two   *)
(* laps and a read in progress fit together.                               *)
BboInvariant ==
    /\ BboTypeOK
    /\ BboCursorsOrdered
    /\ BeingWritten
    /\ SlotsHoldLastLap
    /\ BeingRead
    /\ DamageIsOneLapOld
============================================================================
