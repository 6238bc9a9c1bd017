------------------------------ MODULE XdpRings ------------------------------
(***************************************************************************)
(* The packet path of the gateway's AF_XDP listener (xdp_listener.cpp) and *)
(* the thread that reads it (udpThreadFunc in XDP mode).                   *)
(*                                                                         *)
(* Packet memory is cut into frames.  The reader offers free frames to the *)
(* kernel in the fill ring; the kernel writes a packet into a frame and    *)
(* hands it back in the RX ring; the reader copies the packet and recycles *)
(* the frame.  Each ring has one producer and one consumer, whose 32-bit   *)
(* indices run freely and are masked into the descriptors.  Nothing is     *)
(* ever sent, so the completion ring stays empty.                          *)
(***************************************************************************)
EXTENDS Integers, Sequences, FiniteSets

CONSTANTS
    RingSize,       \* RING_SIZE (2048), half of NUM_FRAMES
    Wrap,           \* index arithmetic is modulo Wrap (2^32)
    RefillAbove,    \* free frames beyond which a full recycle refills (10)
    MaxPackets      \* bound: packets the kernel delivers

Kind == {"bbo", "short", "corrupt"}

ASSUME RingsAssumption ==
    /\ RingSize \in Nat \ {0}
    /\ Wrap \in Nat /\ Wrap % RingSize = 0 /\ Wrap > RingSize
    /\ RefillAbove \in Nat /\ MaxPackets \in Nat

VARIABLES
    fillProd, fillCons, fillDesc,   \* the fill ring
    rxProd, rxCons, rxDesc,         \* the RX ring: frame and kind of packet
    free,           \* free_frames_, a stack
    kernel,         \* frames the driver has taken, in the order it fills them
    content,        \* number of the packet in each frame
    kinds,          \* history: kind of each packet delivered
    copied,         \* history: numbers found in the frames that were copied
    at, next,       \* where the reader is, and where a refill returns to
    held,           \* descriptor in hand, [frame |-> NoFrame] when there is none
    seen,           \* its copy of the fill ring's consumer index
    tries,          \* looks at the fill ring left to it
    attempts,       \* refills left after a corrupt descriptor
    running,        \* XDPListener::running_
    gwRunning,      \* OrderGateway::running_
    stopper         \* where OrderGateway::stop() is

ringVars == <<fillProd, fillCons, fillDesc, rxProd, rxCons, rxDesc>>
frameVars == <<free, kernel, content, kinds>>
readerVars == <<at, next, held, seen, tries, attempts>>
stopVars == <<running, gwRunning, stopper>>
pathVars == <<ringVars, frameVars, copied, readerVars, stopVars>>

Slot == 0..RingSize - 1
Frame == 0..2 * RingSize - 1    \* an address is a multiple of FRAME_SIZE
NoFrame == -1
Nothing == [frame |-> NoFrame, kind |-> "short"]
InRing(p, c) == (p - c) % Wrap
ring_free(p, c) == IF InRing(p, c) >= RingSize THEN 0 ELSE RingSize - InRing(p, c)

FillFrames == [i \in 0..InRing(fillProd, fillCons) - 1 |-> fillDesc[(fillCons + i) % RingSize]]
RxFrames == [i \in 0..InRing(rxProd, rxCons) - 1 |-> rxDesc[(rxCons + i) % RingSize].frame]

PathTypeOK ==
    /\ {fillProd, fillCons, rxProd, rxCons, seen} \subseteq 0..Wrap - 1
    /\ fillDesc \in [Slot -> Frame \cup {NoFrame}]
    /\ rxDesc \in [Slot -> [frame : Frame \cup {NoFrame}, kind : Kind]]
    /\ free \in Seq(Frame) /\ Len(free) <= Cardinality(Frame)
    /\ kernel \in Seq(Frame) /\ content \in [Frame -> 0..MaxPackets]
    /\ held \in [frame : Frame \cup {NoFrame}, kind : Kind]
    /\ tries \in 0..3 /\ attempts \in 0..3 /\ {running, gwRunning} \subseteq BOOLEAN

(* The constructor has put half of the frames in the fill ring, taken from *)
(* the top of the stack; start() found the ring full.                      *)
PathInit ==
    /\ free = [i \in 1..RingSize |-> i - 1]
    /\ fillDesc = [s \in Slot |-> 2 * RingSize - 1 - s]
    /\ fillProd = RingSize /\ fillCons = 0
    /\ rxProd = 0 /\ rxCons = 0 /\ rxDesc = [s \in Slot |-> Nothing]
    /\ kernel = <<>> /\ content = [f \in Frame |-> 0]
    /\ kinds = <<>> /\ copied = <<>>
    /\ at = "loop" /\ next = "loop"
    /\ held = Nothing /\ seen = 0 /\ tries = 0 /\ attempts = 0
    /\ running = TRUE /\ gwRunning = TRUE /\ stopper = "idle"

---------------------------------------------------------------------------
(* The kernel, external to the repository.                                 *)

KernelTakesFrame ==
    /\ fillProd # fillCons
    /\ kernel' = Append(kernel, fillDesc[fillCons % RingSize])
    /\ fillDesc' = [fillDesc EXCEPT ![fillCons % RingSize] = NoFrame]   \* no longer valid
    /\ fillCons' = (fillCons + 1) % Wrap
    /\ UNCHANGED <<fillProd, rxProd, rxCons, rxDesc, free, content, kinds,
                   copied, readerVars, stopVars>>

(* A corrupt descriptor has an address or a length that makes no sense.    *)
KernelDelivers ==
    /\ Len(kinds) < MaxPackets /\ kernel # <<>> /\ InRing(rxProd, rxCons) < RingSize
    /\ kernel' = Tail(kernel)
    /\ content' = [content EXCEPT ![Head(kernel)] = Len(kinds) + 1]
    /\ \E k \in Kind :
          /\ kinds' = Append(kinds, k)
          /\ rxDesc' = [rxDesc EXCEPT ![rxProd % RingSize] =
                [frame |-> IF k = "corrupt" THEN NoFrame ELSE Head(kernel), kind |-> k]]
    /\ rxProd' = (rxProd + 1) % Wrap
    /\ UNCHANGED <<fillProd, fillCons, fillDesc, rxCons, free, copied, readerVars, stopVars>>

---------------------------------------------------------------------------
(* The reader: udpThreadFunc calls read_bbo while the gateway runs.        *)

ReaderLoop ==
    /\ at = "loop"
    /\ at' = IF gwRunning THEN "enter" ELSE "ended"
    /\ UNCHANGED <<ringVars, frameVars, copied, next, held, seen, tries, attempts, stopVars>>

Refill(return) == at' = "refill" /\ next' = return /\ tries' = 3

(* read_bbo starts a listener that does not run.                           *)
LazyStart ==
    /\ at = "enter"
    /\ running' = TRUE
    /\ IF running THEN at' = "poll" /\ UNCHANGED <<next, tries>> ELSE Refill("poll")
    /\ UNCHANGED <<ringVars, frameVars, copied, held, seen, attempts, gwRunning, stopper>>

(* The polling loop does not look at running_.                             *)
IgnoreStop == at = "poll" /\ ~running /\ UNCHANGED pathVars

(* When the listener was stopped read_bbo throws, and the thread stops the *)
(* gateway, or goes on if the listener was started again meanwhile.        *)
ListenerStopped ==
    /\ at = "poll" /\ ~running
    /\ at' = "caught"
    /\ UNCHANGED <<ringVars, frameVars, copied, next, held, seen, tries, attempts, stopVars>>

Caught ==
    /\ at = "caught"
    /\ IF running THEN at' = "loop" /\ UNCHANGED gwRunning
                  ELSE at' = "ended" /\ gwRunning' = FALSE
    /\ UNCHANGED <<ringVars, frameVars, copied, next, held, seen, tries,
                   attempts, running, stopper>>

(* The last descriptor counts as not yet written.                          *)
UnreadButOne == rxCons + 1 < rxProd

(* poll_packet looks at the RX ring, and once more after an empty look.    *)
(* A producer index below the consumer's "should never happen", says the   *)
(* code, which then reads nothing: after 2^32 packets the index wraps.     *)
Unread == rxCons < rxProd

ReadIndices ==
    /\ at = "poll" /\ running
    /\ at' = CASE rxCons = rxProd -> "recheck"
               [] Unread -> "descriptor"
               [] OTHER -> "poll"
    /\ UNCHANGED <<ringVars, frameVars, copied, next, held, seen, tries, attempts, stopVars>>

(* An idle reader leaves the fill ring alone.                              *)
RecheckOnly ==
    /\ at = "recheck"
    /\ at' = IF Unread THEN "descriptor" ELSE "poll"
    /\ UNCHANGED <<ringVars, frameVars, copied, next, held, seen, tries, attempts, stopVars>>

Recheck ==
    /\ at = "recheck"
    /\ IF rxCons # rxProd
       THEN at' = (IF Unread THEN "descriptor" ELSE "poll") /\ UNCHANGED <<next, tries>>
       ELSE IF ring_free(fillProd, fillCons) > 0
            THEN Refill("poll")
            ELSE at' = "poll" /\ UNCHANGED <<next, tries>>
    /\ UNCHANGED <<ringVars, frameVars, copied, held, seen, attempts, stopVars>>

Descriptor == rxDesc[rxCons % RingSize]

(* The frame is lost.  Up to three attempts to refill follow.              *)
SkipCorrupt ==
    /\ at = "descriptor" /\ Descriptor.kind = "corrupt"
    /\ rxCons' = (rxCons + 1) % Wrap
    /\ attempts' = 3 /\ at' = "again"
    /\ UNCHANGED <<fillProd, fillCons, fillDesc, rxProd, rxDesc, frameVars, copied,
                   next, held, seen, tries, stopVars>>

RefillAgain ==
    /\ at = "again"
    /\ IF attempts > 0 /\ free # <<>>
       THEN Refill("again") /\ attempts' = attempts - 1
       ELSE at' = "poll" /\ attempts' = 0 /\ UNCHANGED <<next, tries>>
    /\ UNCHANGED <<ringVars, frameVars, copied, held, seen, stopVars>>

Recycle(d, return) == held' = d /\ at' = "recycle" /\ next' = return /\ tries' = 2

(* Not longer than its headers: the index moves before the frame does.     *)
SkipShort ==
    /\ at = "descriptor" /\ Descriptor.kind = "short"
    /\ rxCons' = (rxCons + 1) % Wrap
    /\ Recycle(Descriptor, "poll")
    /\ UNCHANGED <<fillProd, fillCons, fillDesc, rxProd, rxDesc, frameVars, copied,
                   seen, attempts, stopVars>>

(* The frame is recycled before the index tells the kernel so.             *)
CopyPacket ==
    /\ at = "descriptor" /\ Descriptor.kind = "bbo"
    /\ copied' = Append(copied, content[Descriptor.frame])
    /\ Recycle(Descriptor, "advance")
    /\ UNCHANGED <<ringVars, frameVars, seen, attempts, stopVars>>

(* The consumer index jumps to the producer's.                             *)
AdvanceToProducer ==
    /\ at = "advance"
    /\ rxCons' = rxProd /\ at' = "found"
    /\ UNCHANGED <<fillProd, fillCons, fillDesc, rxProd, rxDesc, frameVars, copied,
                   next, tries, held, seen, attempts, stopVars>>

Advance ==
    /\ at = "advance"
    /\ rxCons' = (rxCons + 1) % Wrap
    /\ IF free # <<>> THEN Refill("found")
                      ELSE at' = "found" /\ UNCHANGED <<next, tries>>
    /\ UNCHANGED <<fillProd, fillCons, fillDesc, rxProd, rxDesc, frameVars, copied,
                   held, seen, attempts, stopVars>>

(* A valid BBO is returned and queued; after any other read_bbo polls on.  *)
ParsePacket ==
    /\ at = "found"
    /\ at' \in {"loop", "poll"}
    /\ UNCHANGED <<ringVars, frameVars, copied, next, held, seen, tries, attempts, stopVars>>

(* recycle_frame_to_fill_ring: a slot of the fill ring, looked for three   *)
(* times, else the stack.  What a recycled frame holds is anybody's guess. *)
Forget(f) == content' = [content EXCEPT ![f] = 0]
FillFull == ring_free(fillProd, fillCons) = 0

(* The frame is put in the fill ring without a look at its free slots.     *)
RecycleBlindly ==
    /\ at = "recycle"
    /\ fillDesc' = [fillDesc EXCEPT ![fillProd % RingSize] = held.frame]
    /\ fillProd' = (fillProd + 1) % Wrap
    /\ Forget(held.frame)
    /\ held' = Nothing /\ at' = next /\ next' = "loop" /\ tries' = 0
    /\ UNCHANGED <<fillCons, rxProd, rxCons, rxDesc, free, kernel, kinds, copied,
                   seen, attempts, stopVars>>

RecycleToRing ==
    /\ at = "recycle" /\ ~FillFull
    /\ fillDesc' = [fillDesc EXCEPT ![fillProd % RingSize] = held.frame]
    /\ fillProd' = (fillProd + 1) % Wrap
    /\ Forget(held.frame)
    /\ held' = Nothing /\ at' = next /\ next' = "loop" /\ tries' = 0
    /\ UNCHANGED <<fillCons, rxProd, rxCons, rxDesc, free, kernel, kinds, copied,
                   seen, attempts, stopVars>>

RecycleAgain ==
    /\ at = "recycle" /\ FillFull /\ tries > 0
    /\ tries' = tries - 1
    /\ UNCHANGED <<ringVars, frameVars, copied, at, next, held, seen, attempts, stopVars>>

RecycleToStack ==
    /\ at = "recycle" /\ FillFull /\ tries = 0
    /\ free' = Append(free, held.frame)
    /\ Forget(held.frame)
    /\ held' = Nothing
    /\ IF Len(free) + 1 > RefillAbove
       THEN at' = "refill" /\ tries' = 3
       ELSE at' = next /\ UNCHANGED tries
    /\ UNCHANGED <<ringVars, kernel, kinds, copied, next, seen, attempts, stopVars>>

(* fill_fill_ring: the consumer index is read, again when the ring is full *)
(* although frames are free, and as many frames go in as it left room for. *)
RefillLook ==
    /\ at = "refill"
    /\ seen' = fillCons
    /\ IF FillFull /\ free # <<>> /\ tries > 0
       THEN tries' = tries - 1 /\ UNCHANGED at
       ELSE at' = "fill" /\ UNCHANGED tries
    /\ UNCHANGED <<ringVars, frameVars, copied, next, held, attempts, stopVars>>

fill_fill_ring ==
    /\ at = "fill"
    /\ LET room == ring_free(fillProd, seen)
           n == IF room < Len(free) THEN room ELSE Len(free)
       IN  /\ fillDesc' = [s \in Slot |->
                 LET i == (s - fillProd) % RingSize
                 IN  IF i < n THEN free[Len(free) - i] ELSE fillDesc[s]]
           /\ fillProd' = (fillProd + n) % Wrap
           /\ free' = SubSeq(free, 1, Len(free) - n)
    /\ at' = next /\ next' = "loop" /\ seen' = 0 /\ tries' = 0
    /\ UNCHANGED <<fillCons, rxProd, rxCons, rxDesc, kernel, content, kinds, copied,
                   held, attempts, stopVars>>

Reader ==
    \/ ReaderLoop \/ LazyStart \/ ListenerStopped \/ Caught
    \/ ReadIndices \/ Recheck
    \/ SkipCorrupt \/ RefillAgain \/ SkipShort \/ CopyPacket \/ Advance \/ ParsePacket
    \/ RecycleToRing \/ RecycleAgain \/ RecycleToStack \/ RefillLook \/ fill_fill_ring

---------------------------------------------------------------------------
(* OrderGateway::stop() on the main thread.                                *)

StopGateway ==
    /\ stopper = "idle" /\ gwRunning
    /\ gwRunning' = FALSE /\ stopper' = "listener"
    /\ UNCHANGED <<ringVars, frameVars, copied, readerVars, running>>

StopListener ==
    /\ stopper = "listener"
    /\ running' = FALSE /\ stopper' = "join"
    /\ UNCHANGED <<ringVars, frameVars, copied, readerVars, gwRunning>>

JoinReader ==
    /\ stopper = "join" /\ at = "ended"
    /\ stopper' = "done"
    /\ UNCHANGED <<ringVars, frameVars, copied, readerVars, running, gwRunning>>

Stop == StopGateway \/ StopListener \/ JoinReader

PathNext == KernelTakesFrame \/ KernelDelivers \/ Reader \/ Stop

PathSpec == PathInit /\ [][PathNext]_pathVars

(* Threads are scheduled, and the kernel takes the frames it is offered;   *)
(* nobody has to send packets or to call stop().                           *)
PathFairSpec ==
    /\ PathSpec
    /\ WF_pathVars(Reader) /\ WF_pathVars(KernelTakesFrame)
    /\ WF_pathVars(StopListener \/ JoinReader)
---------------------------------------------------------------------------
Consumed == Len(kinds) - InRing(rxProd, rxCons)
RxWrapped == Len(kinds) >= Wrap
Lost == Cardinality({i \in DOMAIN kinds : kinds[i] = "corrupt"})

(* A copied packet leaves the RX ring only after its frame was recycled.   *)
Copied == at = "advance" \/ (next = "advance" /\ at \in {"recycle", "refill", "fill"})
UnreadFrames == {i \in DOMAIN RxFrames : RxFrames[i] # NoFrame /\ (Copied => i # 0)}

(* No frame is lost but by a corrupt descriptor and none is in two places: *)
(* each is in the fill ring, with the driver, in an unread descriptor, on  *)
(* the stack or in the reader's hand.  A frame offered twice would be      *)
(* overwritten by a packet while another is read from it.                  *)
FramesConserved ==
    /\ InRing(fillProd, fillCons) <= RingSize
    /\ LET places == {FillFrames[i] : i \in DOMAIN FillFrames} \cup {kernel[i] : i \in DOMAIN kernel}
                     \cup {RxFrames[i] : i \in UnreadFrames}
                     \cup {free[i] : i \in DOMAIN free} \cup ({held.frame} \ {NoFrame})
           total == Cardinality(DOMAIN FillFrames) + Len(kernel)
                    + Cardinality(UnreadFrames) + Len(free)
                    + Cardinality({held.frame} \ {NoFrame})
       IN  /\ total = Cardinality(Frame) - Lost
           /\ Cardinality(places) = total

(* The packets copied are the ones delivered, intact, each once and in     *)
(* order, although their frames are offered to the kernel again before the *)
(* RX index moves.                                                         *)
PacketsCopiedOnce ==
    /\ \A i, j \in DOMAIN copied : i < j => copied[i] < copied[j]
    /\ {copied[i] : i \in DOMAIN copied} =
           {i \in 1..Consumed + (IF Copied THEN 1 ELSE 0) : kinds[i] = "bbo"}

(* Every packet that is delivered while the gateway runs is read, until    *)
(* the producer index of the RX ring wraps: see Unread.                    *)
PacketsRead ==
    \A n \in 1..MaxPackets :
        Len(kinds) >= n ~> (Consumed >= n \/ ~gwRunning \/ RxWrapped)

(* Free frames do not stay on the stack while the kernel has used up the   *)
(* fill ring, also when no packet arrives, with the same exception.        *)
StackDrains ==
    (fillProd = fillCons /\ free # <<>>)
        ~> (fillProd # fillCons \/ ~gwRunning \/ RxWrapped)

(* stop() returns unless the reader has started the listener again.        *)
StopEndsOrRestarts == stopper = "join" ~> (stopper = "done" \/ running)

============================================================================
