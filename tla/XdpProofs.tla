---------------------------- MODULE XdpProofs ----------------------------
(***************************************************************************)
(* Proofs about the AF_XDP listener: what the maps may name at any moment  *)
(* (XdpSocket), for any number of listeners, maps, queues, failures and    *)
(* crashes; and where the frames and packets are (XdpRings), for rings of  *)
(* any size, any number of packets and any width of the indices.           *)
(***************************************************************************)
EXTENDS XdpSocket, XdpRings, FiniteSetTheorems, SequenceTheorems, TLAPS

(* The places of a listener before it has a socket, and those where it may *)
(* be named in a map.                                                      *)
NoSocket == {"umem", "interface", "map", "queue 0", "target", "verify", "socket", "dead"}
Named == {"update all", "ready", "unmap", "remove", "close"}

(* What a place in the constructor says of the socket: how far it has come *)
(* and that the map is open.                                               *)
StageOK(l) ==
    /\ pc[l] \in NoSocket => sock[l] = "closed"
    /\ pc[l] = "rings" => sock[l] = "bound"
    /\ pc[l] \in {"fill", "check", "update"} \cup Named => sock[l] = "mapped"
    /\ pc[l] \in {"check", "update"} \cup Named => filled[l]
    /\ pc[l] \in Setup \ {"umem", "interface", "map"} => mapFd[l] # None
    /\ pc[l] = "failed" =>
          sock[l] = "closed" \/ (sock[l] \in {"bound", "mapped"} /\ mapFd[l] # None)

(* A listener is named only at its own queue, and only in those places.    *)
EntriesOK ==
    \A s \in DOMAIN entry : entry[s] \in Listener =>
        pc[entry[s]] \in Named /\ s[2] = QueueOf[entry[s]]

SocketInvariant ==
    /\ TypeOK
    /\ \A l \in Listener : StageOK(l)
    /\ EntriesOK

---------------------------------------------------------------------------
LEMMA NewestIsMap == Newest \in Map /\ Newest # None
BY XdpAssumption DEF Newest

LEMMA NoneOrStale == None \notin Listener /\ Stale \notin Listener
BY XdpAssumption

(* Deleting entries, or orphaning a listener, puts nobody into a map.      *)
LEMMA DeletedEntries ==
    ASSUME TypeOK, NEW slots, entry' = Deleted(entry, slots)
    PROVE  /\ entry' \in [Map \X Queue -> Listener \cup {None, Stale}]
           /\ \A s \in Map \X Queue : entry'[s] \in {entry[s], None}
BY DEF TypeOK, Deleted

LEMMA OrphanedEntries ==
    ASSUME TypeOK, NEW l \in Listener, entry' = Orphaned(l)
    PROVE  /\ entry' \in [Map \X Queue -> Listener \cup {None, Stale}]
           /\ \A s \in Map \X Queue : entry'[s] \in {entry[s], Stale} /\ entry'[s] # l
BY NoneOrStale DEF TypeOK, Orphaned

(* The inductive invariant holds at the start: entries are stale or absent.*)
THEOREM SocketInit == Init => SocketInvariant
<1> SUFFICES ASSUME Init PROVE SocketInvariant
  OBVIOUS
<1>1. TypeOK
  BY XdpAssumption DEF Init, TypeOK, Setup, Teardown
<1>2. ASSUME NEW l \in Listener PROVE StageOK(l)
  BY <1>2 DEF Init, StageOK, NoSocket, Named, Setup
<1>3. EntriesOK
  BY NoneOrStale DEF Init, EntriesOK
<1> QED BY <1>1, <1>2, <1>3 DEF SocketInvariant

(* What a step does when it keeps the entries right: it puts nobody but its *)
(* own listener into a map, which is then where it may be named.            *)
EntriesStep(l) ==
    /\ \A k \in Listener \ {l} : pc'[k] = pc[k]
    /\ entry' \in [Map \X Queue -> Listener \cup {None, Stale}]
    /\ \A s \in Map \X Queue :
          \/ entry'[s] \in {entry[s], None, Stale}
          \/ entry'[s] = l /\ s[2] = QueueOf[l]
    /\ pc'[l] \in Named \/ \A s \in Map \X Queue : entry'[s] # l

LEMMA EntriesKept ==
    ASSUME TypeOK, EntriesOK, NEW l \in Listener, EntriesStep(l)
    PROVE  EntriesOK'
<1>1. DOMAIN entry' = Map \X Queue /\ DOMAIN entry = Map \X Queue
  BY DEF EntriesStep, TypeOK
<1> SUFFICES ASSUME NEW s \in Map \X Queue, entry'[s] \in Listener
             PROVE  pc'[entry'[s]] \in Named /\ s[2] = QueueOf[entry'[s]]
  BY <1>1 DEF EntriesOK
<1>2. entry[s] \in Listener => pc[entry[s]] \in Named /\ s[2] = QueueOf[entry[s]]
  BY <1>1 DEF EntriesOK
<1> QED BY <1>2, NoneOrStale DEF EntriesStep

LEMMA Unnamed ==
    ASSUME TypeOK, EntriesOK, NEW l \in Listener, pc[l] \notin Named
    PROVE  \A s \in Map \X Queue : entry[s] # l
BY DEF EntriesOK, TypeOK

(* The two ways to give up.                                                *)
LEMMA Released ==
    ASSUME SocketInvariant, NEW l \in Listener, ReleaseAndThrow(l)
    PROVE  SocketInvariant'
<1>0. TypeOK /\ EntriesOK /\ \A k \in Listener : StageOK(k)
  BY DEF SocketInvariant
<1>1. /\ entry' \in [Map \X Queue -> Listener \cup {None, Stale}]
      /\ \A s \in Map \X Queue : entry'[s] \in {entry[s], Stale} /\ entry'[s] # l
  BY <1>0, OrphanedEntries DEF ReleaseAndThrow, CloseSocket
<1>2. TypeOK'
  BY <1>0, <1>1 DEF ReleaseAndThrow, CloseSocket, Goto, TypeOK
<1>3. EntriesOK'
  <2>1. EntriesStep(l)
    BY <1>0, <1>1 DEF ReleaseAndThrow, Goto, TypeOK, EntriesStep
  <2> QED BY <1>0, <2>1, EntriesKept
<1>4. ASSUME NEW k \in Listener PROVE StageOK(k)'
  <2>1. CASE k = l
    BY <1>0, <2>1 DEF ReleaseAndThrow, CloseSocket, Goto, TypeOK, StageOK, NoSocket, Named, Setup
  <2>2. CASE k # l
    BY <1>0, <2>2 DEF ReleaseAndThrow, CloseSocket, Goto, TypeOK, StageOK
  <2> QED BY <2>1, <2>2
<1> QED BY <1>2, <1>3, <1>4 DEF SocketInvariant

LEMMA Thrown ==
    ASSUME SocketInvariant, NEW l \in Listener, ThrowOnly(l), pc[l] \notin Named,
           sock[l] = "closed" \/ (sock[l] \in {"bound", "mapped"} /\ mapFd[l] # None)
    PROVE  SocketInvariant'
<1>0. TypeOK /\ EntriesOK /\ \A k \in Listener : StageOK(k)
  BY DEF SocketInvariant
<1>2. TypeOK'
  BY <1>0 DEF ThrowOnly, Goto, TypeOK
<1>3. EntriesOK'
  <2>1. EntriesStep(l)
    BY <1>0, Unnamed DEF ThrowOnly, Goto, TypeOK, EntriesStep
  <2> QED BY <1>0, <2>1, EntriesKept
<1>4. ASSUME NEW k \in Listener PROVE StageOK(k)'
  <2>1. CASE k = l
    BY <1>0, <2>1 DEF ThrowOnly, Goto, TypeOK, StageOK, NoSocket, Named, Setup
  <2>2. CASE k # l
    BY <1>0, <2>2 DEF ThrowOnly, Goto, TypeOK, StageOK
  <2> QED BY <2>1, <2>2
<1> QED BY <1>2, <1>3, <1>4 DEF SocketInvariant

(* A step of one listener keeps the invariant.  Failures are the lemmas     *)
(* above; the cases are what the other outcomes do.                         *)
LEMMA SocketStep ==
    ASSUME SocketInvariant, [Next]_vars
    PROVE  SocketInvariant'
<1>0. TypeOK /\ EntriesOK /\ \A k \in Listener : StageOK(k)
  BY DEF SocketInvariant
<1>1. ASSUME NEW l \in Listener, SetupUmem(l) PROVE SocketInvariant'
  <2>2. TypeOK'
    BY <1>0, <1>1 DEF SetupUmem, Goto, TypeOK, Setup, Teardown
  <2>3. ASSUME NEW k \in Listener PROVE StageOK(k)'
    <3>1. CASE k = l
      BY <1>0, <1>1, <3>1 DEF SetupUmem, Goto, TypeOK, StageOK, NoSocket, Named, Setup
    <3>2. CASE k # l
      BY <1>0, <1>1, <3>2 DEF SetupUmem, Goto, TypeOK, StageOK
    <3> QED BY <3>1, <3>2
  <2>4. EntriesOK'
    <3>0. \A s \in Map \X Queue : entry[s] # l
      BY <1>0, <1>1, Unnamed DEF SetupUmem, Named
    <3>1. EntriesStep(l)
      BY <1>0, <1>1, <3>0, NoneOrStale DEF SetupUmem, Goto, TypeOK, EntriesStep
    <3> QED BY <1>0, <3>1, EntriesKept
  <2> QED BY <2>2, <2>3, <2>4 DEF SocketInvariant
<1>2. ASSUME NEW l \in Listener, VerifyInterface(l) PROVE SocketInvariant'
  <2>1. CASE ThrowOnly(l)
    BY <1>0, <1>2, <2>1, Thrown DEF VerifyInterface, StageOK, NoSocket, Named, Setup
  <2>2. CASE ~ThrowOnly(l)
    <3>2. TypeOK'
      BY <1>0, <1>2, <2>2 DEF VerifyInterface, Goto, TypeOK, Setup, Teardown
    <3>3. ASSUME NEW k \in Listener PROVE StageOK(k)'
      <4>1. CASE k = l
        BY <1>0, <1>2, <2>2, <4>1 DEF VerifyInterface, Goto, TypeOK, StageOK, NoSocket, Named, Setup
      <4>2. CASE k # l
        BY <1>0, <1>2, <2>2, <4>2 DEF VerifyInterface, Goto, TypeOK, StageOK
      <4> QED BY <4>1, <4>2
    <3>4. EntriesOK'
      <4>0. \A s \in Map \X Queue : entry[s] # l
        BY <1>0, <1>2, <2>2, Unnamed DEF VerifyInterface, Named
      <4>1. EntriesStep(l)
        BY <1>0, <1>2, <2>2, <4>0, NoneOrStale DEF VerifyInterface, Goto, TypeOK, EntriesStep
      <4> QED BY <1>0, <4>1, EntriesKept
    <3> QED BY <3>2, <3>3, <3>4 DEF SocketInvariant
  <2> QED BY <2>1, <2>2
<1>3. ASSUME NEW l \in Listener, FindMap(l) PROVE SocketInvariant'
  <2>1. CASE ThrowOnly(l)
    BY <1>0, <1>3, <2>1, Thrown DEF FindMap, StageOK, NoSocket, Named, Setup
  <2>2. CASE ~ThrowOnly(l)
    <3>2. TypeOK'
      BY <1>0, <1>3, <2>2, NewestIsMap, ZenonT(40)
         DEF FindMap, Goto, TypeOK, Setup, Teardown
    <3>3. ASSUME NEW k \in Listener PROVE StageOK(k)'
      <4>1. CASE k = l
        BY <1>0, <1>3, <2>2, <4>1, NewestIsMap, ZenonT(40)
           DEF FindMap, Goto, TypeOK, StageOK, NoSocket, Named, Setup
      <4>2. CASE k # l
        BY <1>0, <1>3, <2>2, <4>2 DEF FindMap, Goto, TypeOK, StageOK
      <4> QED BY <4>1, <4>2
    <3>4. EntriesOK'
      <4>0. \A s \in Map \X Queue : entry[s] # l
        BY <1>0, <1>3, <2>2, Unnamed DEF FindMap, Named
      <4>1. EntriesStep(l)
        BY <1>0, <1>3, <2>2, <4>0, NoneOrStale DEF FindMap, Goto, TypeOK, EntriesStep
      <4> QED BY <1>0, <4>1, EntriesKept
    <3> QED BY <3>2, <3>3, <3>4 DEF SocketInvariant
  <2> QED BY <2>1, <2>2
<1>4. ASSUME NEW l \in Listener, CleanQueueZero(l) PROVE SocketInvariant'
  <2>1. /\ entry' \in [Map \X Queue -> Listener \cup {None, Stale}]
        /\ \A s \in Map \X Queue : entry'[s] \in {entry[s], None}
    BY <1>0, <1>4, DeletedEntries DEF CleanQueueZero, CleanEntry, TypeOK
  <2>2. TypeOK'
    BY <1>0, <1>4, <2>1 DEF CleanQueueZero, CleanEntry, Goto, TypeOK, Setup, Teardown
  <2>3. ASSUME NEW k \in Listener PROVE StageOK(k)'
    <3>1. CASE k = l
      BY <1>0, <1>4, <3>1 DEF CleanQueueZero, CleanEntry, Goto, TypeOK, StageOK, NoSocket, Named, Setup
    <3>2. CASE k # l
      BY <1>0, <1>4, <3>2 DEF CleanQueueZero, CleanEntry, Goto, TypeOK, StageOK
    <3> QED BY <3>1, <3>2
  <2>4. EntriesOK'
    <3>0. \A s \in Map \X Queue : entry[s] # l
      BY <1>0, <1>4, Unnamed DEF CleanQueueZero, Named
    <3>1. EntriesStep(l)
      BY <1>0, <1>4, <2>1, <3>0, NoneOrStale DEF CleanQueueZero, CleanEntry, Goto, TypeOK, EntriesStep
    <3> QED BY <1>0, <3>1, EntriesKept
  <2> QED BY <2>2, <2>3, <2>4 DEF SocketInvariant
<1>5. ASSUME NEW l \in Listener, CleanTarget(l) PROVE SocketInvariant'
  <2>1. /\ entry' \in [Map \X Queue -> Listener \cup {None, Stale}]
        /\ \A s \in Map \X Queue : entry'[s] \in {entry[s], None}
    BY <1>0, <1>5, DeletedEntries DEF CleanTarget, CleanEntry, TypeOK
  <2>2. TypeOK'
    BY <1>0, <1>5, <2>1 DEF CleanTarget, CleanEntry, Goto, TypeOK, Setup, Teardown
  <2>3. ASSUME NEW k \in Listener PROVE StageOK(k)'
    <3>1. CASE k = l
      BY <1>0, <1>5, <3>1 DEF CleanTarget, CleanEntry, Goto, TypeOK, StageOK, NoSocket, Named, Setup
    <3>2. CASE k # l
      BY <1>0, <1>5, <3>2 DEF CleanTarget, CleanEntry, Goto, TypeOK, StageOK
    <3> QED BY <3>1, <3>2
  <2>4. EntriesOK'
    <3>0. \A s \in Map \X Queue : entry[s] # l
      BY <1>0, <1>5, Unnamed DEF CleanTarget, Named
    <3>1. EntriesStep(l)
      BY <1>0, <1>5, <2>1, <3>0, NoneOrStale DEF CleanTarget, CleanEntry, Goto, TypeOK, EntriesStep
    <3> QED BY <1>0, <3>1, EntriesKept
  <2> QED BY <2>2, <2>3, <2>4 DEF SocketInvariant
<1>6. ASSUME NEW l \in Listener, VerifyCleanup(l) PROVE SocketInvariant'
  <2>1. /\ entry' \in [Map \X Queue -> Listener \cup {None, Stale}]
        /\ \A s \in Map \X Queue : entry'[s] \in {entry[s], None}
    BY <1>0, <1>6, DeletedEntries DEF VerifyCleanup, CleanEntry, TypeOK
  <2>2. TypeOK'
    BY <1>0, <1>6, <2>1 DEF VerifyCleanup, CleanEntry, Goto, TypeOK, Setup, Teardown
  <2>3. ASSUME NEW k \in Listener PROVE StageOK(k)'
    <3>1. CASE k = l
      BY <1>0, <1>6, <3>1 DEF VerifyCleanup, CleanEntry, Goto, TypeOK, StageOK, NoSocket, Named, Setup
    <3>2. CASE k # l
      BY <1>0, <1>6, <3>2 DEF VerifyCleanup, CleanEntry, Goto, TypeOK, StageOK
    <3> QED BY <3>1, <3>2
  <2>4. EntriesOK'
    <3>0. \A s \in Map \X Queue : entry[s] # l
      BY <1>0, <1>6, Unnamed DEF VerifyCleanup, Named
    <3>1. EntriesStep(l)
      BY <1>0, <1>6, <2>1, <3>0, NoneOrStale DEF VerifyCleanup, CleanEntry, Goto, TypeOK, EntriesStep
    <3> QED BY <1>0, <3>1, EntriesKept
  <2> QED BY <2>2, <2>3, <2>4 DEF SocketInvariant
<1>7. ASSUME NEW l \in Listener, CreateSocket(l) PROVE SocketInvariant'
  <2>1. CASE ReleaseAndThrow(l)
    BY <2>1, Released
  <2>2. CASE ~ReleaseAndThrow(l)
    <3>2. TypeOK'
      BY <1>0, <1>7, <2>2 DEF CreateSocket, Goto, TypeOK, Setup, Teardown
    <3>3. ASSUME NEW k \in Listener PROVE StageOK(k)'
      <4>1. CASE k = l
        BY <1>0, <1>7, <2>2, <4>1 DEF CreateSocket, Goto, TypeOK, StageOK, NoSocket, Named, Setup
      <4>2. CASE k # l
        BY <1>0, <1>7, <2>2, <4>2 DEF CreateSocket, Goto, TypeOK, StageOK
      <4> QED BY <4>1, <4>2
    <3>4. EntriesOK'
      <4>0. \A s \in Map \X Queue : entry[s] # l
        BY <1>0, <1>7, <2>2, Unnamed DEF CreateSocket, Named
      <4>1. EntriesStep(l)
        BY <1>0, <1>7, <2>2, <4>0, NoneOrStale DEF CreateSocket, Goto, TypeOK, EntriesStep
      <4> QED BY <1>0, <4>1, EntriesKept
    <3> QED BY <3>2, <3>3, <3>4 DEF SocketInvariant
  <2> QED BY <2>1, <2>2
<1>8. ASSUME NEW l \in Listener, SetOptions(l) PROVE SocketInvariant'
  <2>1. CASE ReleaseAndThrow(l)
    BY <2>1, Released
  <2>2. CASE ~ReleaseAndThrow(l)
    <3>2. TypeOK'
      BY <1>0, <1>8, <2>2 DEF SetOptions, Goto, TypeOK, Setup, Teardown
    <3>3. ASSUME NEW k \in Listener PROVE StageOK(k)'
      <4>1. CASE k = l
        BY <1>0, <1>8, <2>2, <4>1 DEF SetOptions, Goto, TypeOK, StageOK, NoSocket, Named, Setup
      <4>2. CASE k # l
        BY <1>0, <1>8, <2>2, <4>2 DEF SetOptions, Goto, TypeOK, StageOK
      <4> QED BY <4>1, <4>2
    <3>4. EntriesOK'
      <4>0. \A s \in Map \X Queue : entry[s] # l
        BY <1>0, <1>8, <2>2, Unnamed DEF SetOptions, Named
      <4>1. EntriesStep(l)
        BY <1>0, <1>8, <2>2, <4>0, NoneOrStale DEF SetOptions, Goto, TypeOK, EntriesStep
      <4> QED BY <1>0, <4>1, EntriesKept
    <3> QED BY <3>2, <3>3, <3>4 DEF SocketInvariant
  <2> QED BY <2>1, <2>2
<1>9. ASSUME NEW l \in Listener, Bind(l) PROVE SocketInvariant'
  <2>1. CASE ReleaseAndThrow(l)
    BY <2>1, Released
  <2>2. CASE ~ReleaseAndThrow(l)
    <3>2. TypeOK'
      BY <1>0, <1>9, <2>2 DEF Bind, BindSucceeds, Goto, TypeOK, Setup, Teardown
    <3>3. ASSUME NEW k \in Listener PROVE StageOK(k)'
      <4>1. CASE k = l
        BY <1>0, <1>9, <2>2, <4>1, ZenonT(40)
           DEF Bind, BindSucceeds, Goto, TypeOK, StageOK, NoSocket, Named, Setup
      <4>2. CASE k # l
        BY <1>0, <1>9, <2>2, <4>2 DEF Bind, BindSucceeds, Goto, TypeOK, StageOK
      <4> QED BY <4>1, <4>2
    <3>4. EntriesOK'
      <4>0. \A s \in Map \X Queue : entry[s] # l
        BY <1>0, <1>9, <2>2, Unnamed DEF Bind, Named
      <4>1. EntriesStep(l)
        BY <1>0, <1>9, <2>2, <4>0, NoneOrStale DEF Bind, BindSucceeds, Goto, TypeOK, EntriesStep
      <4> QED BY <1>0, <4>1, EntriesKept
    <3> QED BY <3>2, <3>3, <3>4 DEF SocketInvariant
  <2> QED BY <2>1, <2>2
<1>10. ASSUME NEW l \in Listener, ForceCleanup(l) PROVE SocketInvariant'
  <2>1. /\ entry' \in [Map \X Queue -> Listener \cup {None, Stale}]
        /\ \A s \in Map \X Queue : entry'[s] \in {entry[s], None}
    BY <1>0, <1>10, DeletedEntries DEF ForceCleanup, TypeOK
  <2>2. TypeOK'
    BY <1>0, <1>10, <2>1 DEF ForceCleanup, Goto, TypeOK, Setup, Teardown
  <2>3. ASSUME NEW k \in Listener PROVE StageOK(k)'
    <3>1. CASE k = l
      BY <1>0, <1>10, <3>1 DEF ForceCleanup, Goto, TypeOK, StageOK, NoSocket, Named, Setup
    <3>2. CASE k # l
      BY <1>0, <1>10, <3>2 DEF ForceCleanup, Goto, TypeOK, StageOK
    <3> QED BY <3>1, <3>2
  <2>4. EntriesOK'
    <3>0. \A s \in Map \X Queue : entry[s] # l
      BY <1>0, <1>10, Unnamed DEF ForceCleanup, Named
    <3>1. EntriesStep(l)
      BY <1>0, <1>10, <2>1, <3>0, NoneOrStale DEF ForceCleanup, Goto, TypeOK, EntriesStep
    <3> QED BY <1>0, <3>1, EntriesKept
  <2> QED BY <2>2, <2>3, <2>4 DEF SocketInvariant
<1>11. ASSUME NEW l \in Listener, BindAgain(l) PROVE SocketInvariant'
  <2>1. CASE ReleaseAndThrow(l)
    BY <2>1, Released
  <2>2. CASE ~ReleaseAndThrow(l)
    <3>2. TypeOK'
      BY <1>0, <1>11, <2>2 DEF BindAgain, BindSucceeds, Goto, TypeOK, Setup, Teardown
    <3>3. ASSUME NEW k \in Listener PROVE StageOK(k)'
      <4>1. CASE k = l
        BY <1>0, <1>11, <2>2, <4>1 DEF BindAgain, BindSucceeds, Goto, TypeOK, StageOK, NoSocket, Named, Setup
      <4>2. CASE k # l
        BY <1>0, <1>11, <2>2, <4>2 DEF BindAgain, BindSucceeds, Goto, TypeOK, StageOK
      <4> QED BY <4>1, <4>2
    <3>4. EntriesOK'
      <4>0. \A s \in Map \X Queue : entry[s] # l
        BY <1>0, <1>11, <2>2, Unnamed DEF BindAgain, Named
      <4>1. EntriesStep(l)
        BY <1>0, <1>11, <2>2, <4>0, NoneOrStale DEF BindAgain, BindSucceeds, Goto, TypeOK, EntriesStep
      <4> QED BY <1>0, <4>1, EntriesKept
    <3> QED BY <3>2, <3>3, <3>4 DEF SocketInvariant
  <2> QED BY <2>1, <2>2
<1>12. ASSUME NEW l \in Listener, MapRings(l) PROVE SocketInvariant'
  <2>1. CASE ThrowOnly(l)
    BY <1>0, <1>12, <2>1, Thrown DEF MapRings, StageOK, NoSocket, Named, Setup
  <2>2. CASE ~ThrowOnly(l)
    <3>2. TypeOK'
      BY <1>0, <1>12, <2>2 DEF MapRings, Goto, TypeOK, Setup, Teardown
    <3>3. ASSUME NEW k \in Listener PROVE StageOK(k)'
      <4>1. CASE k = l
        BY <1>0, <1>12, <2>2, <4>1 DEF MapRings, Goto, TypeOK, StageOK, NoSocket, Named, Setup
      <4>2. CASE k # l
        BY <1>0, <1>12, <2>2, <4>2 DEF MapRings, Goto, TypeOK, StageOK
      <4> QED BY <4>1, <4>2
    <3>4. EntriesOK'
      <4>0. \A s \in Map \X Queue : entry[s] # l
        BY <1>0, <1>12, <2>2, Unnamed DEF MapRings, Named
      <4>1. EntriesStep(l)
        BY <1>0, <1>12, <2>2, <4>0, NoneOrStale DEF MapRings, Goto, TypeOK, EntriesStep
      <4> QED BY <1>0, <4>1, EntriesKept
    <3> QED BY <3>2, <3>3, <3>4 DEF SocketInvariant
  <2> QED BY <2>1, <2>2
<1>13. ASSUME NEW l \in Listener, FillRing(l) PROVE SocketInvariant'
  <2>2. TypeOK'
    BY <1>0, <1>13 DEF FillRing, Goto, TypeOK, Setup, Teardown
  <2>3. ASSUME NEW k \in Listener PROVE StageOK(k)'
    <3>1. CASE k = l
      BY <1>0, <1>13, <3>1 DEF FillRing, Goto, TypeOK, StageOK, NoSocket, Named, Setup
    <3>2. CASE k # l
      BY <1>0, <1>13, <3>2 DEF FillRing, Goto, TypeOK, StageOK
    <3> QED BY <3>1, <3>2
  <2>4. EntriesOK'
    <3>0. \A s \in Map \X Queue : entry[s] # l
      BY <1>0, <1>13, Unnamed DEF FillRing, Named
    <3>1. EntriesStep(l)
      BY <1>0, <1>13, <3>0, NoneOrStale DEF FillRing, Goto, TypeOK, EntriesStep
    <3> QED BY <1>0, <3>1, EntriesKept
  <2> QED BY <2>2, <2>3, <2>4 DEF SocketInvariant
<1>14. ASSUME NEW l \in Listener, CheckSocket(l) PROVE SocketInvariant'
  <2>1. CASE ThrowOnly(l)
    BY <1>0, <1>14, <2>1, Thrown DEF CheckSocket, StageOK, NoSocket, Named, Setup
  <2>2. CASE ~ThrowOnly(l)
    <3>2. TypeOK'
      BY <1>0, <1>14, <2>2 DEF CheckSocket, Goto, TypeOK, Setup, Teardown
    <3>3. ASSUME NEW k \in Listener PROVE StageOK(k)'
      <4>1. CASE k = l
        BY <1>0, <1>14, <2>2, <4>1 DEF CheckSocket, Goto, TypeOK, StageOK, NoSocket, Named, Setup
      <4>2. CASE k # l
        BY <1>0, <1>14, <2>2, <4>2 DEF CheckSocket, Goto, TypeOK, StageOK
      <4> QED BY <4>1, <4>2
    <3>4. EntriesOK'
      <4>0. \A s \in Map \X Queue : entry[s] # l
        BY <1>0, <1>14, <2>2, Unnamed DEF CheckSocket, Named
      <4>1. EntriesStep(l)
        BY <1>0, <1>14, <2>2, <4>0, NoneOrStale DEF CheckSocket, Goto, TypeOK, EntriesStep
      <4> QED BY <1>0, <4>1, EntriesKept
    <3> QED BY <3>2, <3>3, <3>4 DEF SocketInvariant
  <2> QED BY <2>1, <2>2
<1>15. ASSUME NEW l \in Listener, UpdateMap(l) PROVE SocketInvariant'
  <2>1. CASE ReleaseAndThrow(l)
    BY <2>1, Released
  <2>2. CASE ~ReleaseAndThrow(l)
    <3>0. <<mapFd[l], QueueOf[l]>> \in Map \X Queue
      BY <1>0, <1>15, <2>2, XdpAssumption DEF UpdateMap, TypeOK, StageOK, Setup, Queue
    <3>a. entry' = [entry EXCEPT ![<<mapFd[l], QueueOf[l]>>] = l]
      BY <1>0, <1>15, <2>2 DEF UpdateMap, Holds
    <3>1. /\ entry' \in [Map \X Queue -> Listener \cup {None, Stale}]
          /\ \A s \in Map \X Queue :
                entry'[s] = entry[s] \/ (entry'[s] = l /\ s[2] = QueueOf[l])
      BY <1>0, <3>0, <3>a DEF TypeOK
    <3>2. TypeOK'
      BY <1>0, <1>15, <2>2, <3>1 DEF UpdateMap, Goto, TypeOK, Setup, Teardown
    <3>3. ASSUME NEW k \in Listener PROVE StageOK(k)'
      <4>1. CASE k = l
        BY <1>0, <1>15, <2>2, <4>1 DEF UpdateMap, Goto, TypeOK, StageOK, NoSocket, Named, Setup
      <4>2. CASE k # l
        BY <1>0, <1>15, <2>2, <4>2 DEF UpdateMap, Goto, TypeOK, StageOK
      <4> QED BY <4>1, <4>2
    <3>4. EntriesOK'
      <4>1. EntriesStep(l)
        BY <1>0, <1>15, <2>2, <3>1 DEF UpdateMap, Goto, TypeOK, EntriesStep, Named
      <4> QED BY <1>0, <4>1, EntriesKept
    <3> QED BY <3>2, <3>3, <3>4 DEF SocketInvariant
  <2> QED BY <2>1, <2>2
<1>16. ASSUME NEW l \in Listener, UpdateAllMaps(l) PROVE SocketInvariant'
  <2>1. /\ entry' \in [Map \X Queue -> Listener \cup {None, Stale}]
        /\ \A s \in Map \X Queue :
              entry'[s] = entry[s] \/ (entry'[s] = l /\ s[2] = QueueOf[l])
    BY <1>0, <1>16 DEF UpdateAllMaps, TypeOK, Holds, Queue
  <2>2. TypeOK'
    BY <1>0, <1>16, <2>1 DEF UpdateAllMaps, Goto, TypeOK, Setup, Teardown
  <2>3. ASSUME NEW k \in Listener PROVE StageOK(k)'
    <3>1. CASE k = l
      BY <1>0, <1>16, <3>1 DEF UpdateAllMaps, Goto, TypeOK, StageOK, NoSocket, Named, Setup
    <3>2. CASE k # l
      BY <1>0, <1>16, <3>2 DEF UpdateAllMaps, Goto, TypeOK, StageOK
    <3> QED BY <3>1, <3>2
  <2>4. EntriesOK'
    <3>1. EntriesStep(l)
      BY <1>0, <1>16, <2>1 DEF UpdateAllMaps, Goto, TypeOK, EntriesStep, Named
    <3> QED BY <1>0, <3>1, EntriesKept
  <2> QED BY <2>2, <2>3, <2>4 DEF SocketInvariant
<1>17. ASSUME NEW l \in Listener, Destroy(l) PROVE SocketInvariant'
  <2>2. TypeOK'
    BY <1>0, <1>17 DEF Destroy, Goto, TypeOK, Setup, Teardown
  <2>3. ASSUME NEW k \in Listener PROVE StageOK(k)'
    <3>1. CASE k = l
      BY <1>0, <1>17, <3>1 DEF Destroy, Goto, TypeOK, StageOK, NoSocket, Named, Setup
    <3>2. CASE k # l
      BY <1>0, <1>17, <3>2 DEF Destroy, Goto, TypeOK, StageOK
    <3> QED BY <3>1, <3>2
  <2>4. EntriesOK'
    <3>1. EntriesStep(l)
      BY <1>0, <1>17 DEF Destroy, Goto, TypeOK, EntriesStep, Named
    <3> QED BY <1>0, <3>1, EntriesKept
  <2> QED BY <2>2, <2>3, <2>4 DEF SocketInvariant
<1>18. ASSUME NEW l \in Listener, UnmapUmem(l) PROVE SocketInvariant'
  <2>2. TypeOK'
    BY <1>0, <1>18 DEF UnmapUmem, Goto, TypeOK, Setup, Teardown
  <2>3. ASSUME NEW k \in Listener PROVE StageOK(k)'
    <3>1. CASE k = l
      BY <1>0, <1>18, <3>1 DEF UnmapUmem, Goto, TypeOK, StageOK, NoSocket, Named, Setup
    <3>2. CASE k # l
      BY <1>0, <1>18, <3>2 DEF UnmapUmem, Goto, TypeOK, StageOK
    <3> QED BY <3>1, <3>2
  <2>4. EntriesOK'
    <3>1. EntriesStep(l)
      BY <1>0, <1>18 DEF UnmapUmem, Goto, TypeOK, EntriesStep, Named
    <3> QED BY <1>0, <3>1, EntriesKept
  <2> QED BY <2>2, <2>3, <2>4 DEF SocketInvariant
<1>19. ASSUME NEW l \in Listener, RemoveEntry(l) PROVE SocketInvariant'
  <2>1. /\ entry' \in [Map \X Queue -> Listener \cup {None, Stale}]
        /\ \A s \in Map \X Queue : entry'[s] \in {entry[s], None}
    BY <1>0, <1>19, DeletedEntries DEF RemoveEntry, TypeOK
  <2>2. TypeOK'
    BY <1>0, <1>19, <2>1 DEF RemoveEntry, Goto, TypeOK, Setup, Teardown
  <2>3. ASSUME NEW k \in Listener PROVE StageOK(k)'
    <3>1. CASE k = l
      BY <1>0, <1>19, <3>1 DEF RemoveEntry, Goto, TypeOK, StageOK, NoSocket, Named, Setup
    <3>2. CASE k # l
      BY <1>0, <1>19, <3>2 DEF RemoveEntry, Goto, TypeOK, StageOK
    <3> QED BY <3>1, <3>2
  <2>4. EntriesOK'
    <3>1. EntriesStep(l)
      BY <1>0, <1>19, <2>1 DEF RemoveEntry, Goto, TypeOK, EntriesStep, Named
    <3> QED BY <1>0, <3>1, EntriesKept
  <2> QED BY <2>2, <2>3, <2>4 DEF SocketInvariant
<1>20. ASSUME NEW l \in Listener, CloseAll(l) PROVE SocketInvariant'
  <2>1. /\ entry' \in [Map \X Queue -> Listener \cup {None, Stale}]
        /\ \A s \in Map \X Queue : entry'[s] \in {entry[s], Stale} /\ entry'[s] # l
    BY <1>0, <1>20, OrphanedEntries DEF CloseAll, CloseSocket, TypeOK
  <2>2. TypeOK'
    BY <1>0, <1>20, <2>1 DEF CloseAll, CloseSocket, Goto, TypeOK, Setup, Teardown
  <2>3. ASSUME NEW k \in Listener PROVE StageOK(k)'
    <3>1. CASE k = l
      BY <1>0, <1>20, <3>1 DEF CloseAll, CloseSocket, Goto, TypeOK, StageOK, NoSocket, Named, Setup
    <3>2. CASE k # l
      BY <1>0, <1>20, <3>2 DEF CloseAll, CloseSocket, Goto, TypeOK, StageOK
    <3> QED BY <3>1, <3>2
  <2>4. EntriesOK'
    <3>1. EntriesStep(l)
      BY <1>0, <1>20, <2>1 DEF CloseAll, CloseSocket, Goto, TypeOK, EntriesStep
    <3> QED BY <1>0, <3>1, EntriesKept
  <2> QED BY <2>2, <2>3, <2>4 DEF SocketInvariant
<1>21. ASSUME NEW l \in Listener, Crash(l) PROVE SocketInvariant'
  <2>1. /\ entry' \in [Map \X Queue -> Listener \cup {None, Stale}]
        /\ \A s \in Map \X Queue : entry'[s] \in {entry[s], Stale} /\ entry'[s] # l
    BY <1>0, <1>21, OrphanedEntries DEF Crash, CloseSocket, TypeOK
  <2>0. crashes' \in 0..MaxCrashes
    BY <1>0, <1>21, XdpAssumption DEF Crash, TypeOK
  <2>2. TypeOK'
    BY <1>0, <1>21, <2>1, <2>0 DEF Crash, CloseSocket, Goto, TypeOK, Setup, Teardown
  <2>3. ASSUME NEW k \in Listener PROVE StageOK(k)'
    <3>1. CASE k = l
      BY <1>0, <1>21, <3>1 DEF Crash, CloseSocket, Goto, TypeOK, StageOK, NoSocket, Named, Setup
    <3>2. CASE k # l
      BY <1>0, <1>21, <3>2 DEF Crash, CloseSocket, Goto, TypeOK, StageOK
    <3> QED BY <3>1, <3>2
  <2>4. EntriesOK'
    <3>1. EntriesStep(l)
      BY <1>0, <1>21, <2>1 DEF Crash, CloseSocket, Goto, TypeOK, EntriesStep
    <3> QED BY <1>0, <3>1, EntriesKept
  <2> QED BY <2>2, <2>3, <2>4 DEF SocketInvariant
<1>22. ASSUME NEW l \in Listener, Restart(l) PROVE SocketInvariant'
  <2>2. TypeOK'
    BY <1>0, <1>22 DEF Restart, Goto, TypeOK, Setup, Teardown
  <2>3. ASSUME NEW k \in Listener PROVE StageOK(k)'
    <3>1. CASE k = l
      BY <1>0, <1>22, <3>1 DEF Restart, Goto, TypeOK, StageOK, NoSocket, Named, Setup
    <3>2. CASE k # l
      BY <1>0, <1>22, <3>2 DEF Restart, Goto, TypeOK, StageOK
    <3> QED BY <3>1, <3>2
  <2>4. EntriesOK'
    <3>0. \A s \in Map \X Queue : entry[s] # l
      BY <1>0, <1>22, Unnamed DEF Restart, Named
    <3>1. EntriesStep(l)
      BY <1>0, <1>22, <3>0, NoneOrStale DEF Restart, Goto, TypeOK, EntriesStep
    <3> QED BY <1>0, <3>1, EntriesKept
  <2> QED BY <2>2, <2>3, <2>4 DEF SocketInvariant
<1>23. CASE UNCHANGED vars
  BY <1>0, <1>23 DEF vars, listenerVars, SocketInvariant, TypeOK, StageOK, EntriesOK
<1> QED
  BY <1>1, <1>2, <1>3, <1>4, <1>5, <1>6, <1>7, <1>8, <1>9, <1>10, <1>11, <1>12, <1>13, <1>14, <1>15, <1>16, <1>17, <1>18, <1>19, <1>20, <1>21, <1>22, <1>23 DEF Next, Construct, Destruct

(* The inductive invariant of set-up and tear-down, in every process.       *)
THEOREM SocketInvariantHolds == Spec => []SocketInvariant
<1>1. SocketInvariant /\ [Next]_vars => SocketInvariant'
  BY SocketStep
<1> QED BY SocketInit, <1>1, PTL DEF Spec

(* Types of sockets, maps and entries for any listeners, maps and queues.  *)
THEOREM SocketTypeCorrect == Spec => []TypeOK
<1>1. SocketInvariant => TypeOK
  BY DEF SocketInvariant
<1> QED BY SocketInvariantHolds, <1>1, PTL

(* EntryIsReady: setup_xdp_socket updates the map last, the destructor     *)
(* closes last, and a socket that is closed is forgotten by every map.     *)
THEOREM EntryIsReadyHolds == Spec => []EntryIsReady
<1>1. SocketInvariant => EntryIsReady
  BY DEF SocketInvariant, EntriesOK, StageOK, EntryIsReady, TypeOK
<1> QED BY SocketInvariantHolds, <1>1, PTL

(* FallbackGetsPackets: no constructor that throws leaves its socket in a  *)
(* map, so that the UDP listener gets the packets.                         *)
THEOREM FallbackGetsPacketsHolds == Spec => []FallbackGetsPackets
<1>1. SocketInvariant => FallbackGetsPackets
  <2> SUFFICES ASSUME SocketInvariant, NEW l \in Listener, pc[l] = "failed"
               PROVE  /\ \A s \in DOMAIN entry : entry[s] # l
                      /\ sock[l] \in {"closed", "bound", "mapped"}
                      /\ sock[l] = "closed" \/ mapFd[l] # None
    BY DEF FallbackGetsPackets
  <2>1. \A s \in DOMAIN entry : entry[s] # l
    BY Unnamed DEF SocketInvariant, TypeOK, Named
  <2>2. StageOK(l)
    BY DEF SocketInvariant
  <2> QED BY <2>1, <2>2 DEF StageOK
<1> QED BY SocketInvariantHolds, <1>1, PTL

---------------------------------------------------------------------------
(* What the set-up asks of the operator: every listener has a queue of its *)
(* own, and none has queue 0, whose entry each new listener deletes.       *)
QueuesApart ==
    /\ \A l \in Listener : QueueOf[l] # 0
    /\ \A k, l \in Listener : k # l => QueueOf[k] # QueueOf[l]

(* Another listener's step changes nothing of my place, and no entry of my *)
(* queue that names me.                                                    *)
LEMMA OthersLeaveMineAlone ==
    ASSUME QueuesApart, SocketInvariant, NEW l \in Listener, NEW k \in Listener \ {l},
           Construct(k) \/ Destroy(k) \/ Destruct(k) \/ Crash(k) \/ Restart(k),
           NEW m \in Map
    PROVE  /\ pc'[l] = pc[l] /\ (l \in missed' <=> l \in missed)
           /\ entry[<<m, QueueOf[l]>>] = l => entry'[<<m, QueueOf[l]>>] = l
<1> DEFINE mine == <<m, QueueOf[l]>>
           Kept == entry[mine] = l => entry'[mine] = l
           Same == pc'[l] = pc[l] /\ (l \in missed' <=> l \in missed)
<1>0. TypeOK /\ mine \in Map \X Queue
  BY DEF SocketInvariant, Queue
<1>1. \A n \in Map \cup {None} : <<n, QueueOf[k]>> # mine /\ <<n, 0>> # mine
  BY DEF QueuesApart
<1>2. mapFd[k] \in Map \cup {None}
  BY <1>0 DEF TypeOK
<1>3. entry' = Orphaned(k) => Kept
  BY <1>0 DEF Orphaned, TypeOK
<1>4. ASSUME NEW slots \in SUBSET {Holds(k, QueueOf[k]), Holds(k, 0)}, entry' = Deleted(entry, slots)
      PROVE  Kept
  BY <1>0, <1>1, <1>2, <1>4 DEF Deleted, Holds, TypeOK
<1>5. entry' = [entry EXCEPT ![Holds(k, QueueOf[k])] = k] => Kept
  BY <1>0, <1>1, <1>2 DEF Holds, TypeOK
<1>6. ReleaseAndThrow(k) \/ ThrowOnly(k) => Kept /\ Same
  BY <1>0, <1>3 DEF ReleaseAndThrow, ThrowOnly, CloseSocket, Goto, TypeOK
<1>7. SetupUmem(k) => Kept /\ Same
  BY <1>0 DEF SetupUmem, Goto, TypeOK
<1>8. VerifyInterface(k) => Kept /\ Same
  BY <1>0, <1>6 DEF VerifyInterface, Goto, TypeOK
<1>9. FindMap(k) => Kept /\ Same
  BY <1>0, <1>6 DEF FindMap, Goto, TypeOK
<1>10. CleanQueueZero(k) => Kept /\ Same
  BY <1>0, <1>4 DEF CleanQueueZero, CleanEntry, Goto, TypeOK
<1>11. CleanTarget(k) => Kept /\ Same
  BY <1>0, <1>4 DEF CleanTarget, CleanEntry, Goto, TypeOK
<1>12. VerifyCleanup(k) => Kept /\ Same
  BY <1>0, <1>4 DEF VerifyCleanup, CleanEntry, Goto, TypeOK
<1>13. CreateSocket(k) => Kept /\ Same
  BY <1>0, <1>6 DEF CreateSocket, Goto, TypeOK
<1>14. SetOptions(k) => Kept /\ Same
  BY <1>0, <1>6 DEF SetOptions, Goto, TypeOK
<1>15. Bind(k) => Kept /\ Same
  BY <1>0, <1>6 DEF Bind, BindSucceeds, Goto, TypeOK
<1>16. ForceCleanup(k) => Kept /\ Same
  BY <1>0, <1>4 DEF ForceCleanup, Goto, TypeOK
<1>17. BindAgain(k) => Kept /\ Same
  BY <1>0, <1>6 DEF BindAgain, BindSucceeds, Goto, TypeOK
<1>18. MapRings(k) => Kept /\ Same
  BY <1>0, <1>6 DEF MapRings, Goto, TypeOK
<1>19. FillRing(k) => Kept /\ Same
  BY <1>0 DEF FillRing, Goto, TypeOK
<1>20. CheckSocket(k) => Kept /\ Same
  BY <1>0, <1>6 DEF CheckSocket, Goto, TypeOK
<1>21. UpdateMap(k) => Kept /\ Same
  BY <1>0, <1>5, <1>6 DEF UpdateMap, Goto, TypeOK
<1>22. UpdateAllMaps(k) => Kept /\ Same
  <2> SUFFICES ASSUME UpdateAllMaps(k) PROVE Kept /\ Same
    OBVIOUS
  <2>1. PICK updated \in SUBSET Map :
            entry' = [s \in DOMAIN entry |->
                         IF s[1] \in updated /\ s[2] = QueueOf[k] THEN k ELSE entry[s]]
    BY DEF UpdateAllMaps
  <2>2. Kept
    BY <1>0, <2>1 DEF TypeOK, QueuesApart
  <2> QED BY <1>0, <2>2 DEF UpdateAllMaps, Goto, TypeOK
<1>23. Destroy(k) => Kept /\ Same
  BY <1>0 DEF Destroy, Goto, TypeOK
<1>24. UnmapUmem(k) => Kept /\ Same
  BY <1>0 DEF UnmapUmem, Goto, TypeOK
<1>25. RemoveEntry(k) => Kept /\ Same
  BY <1>0, <1>4 DEF RemoveEntry, Goto, TypeOK
<1>26. CloseAll(k) => Kept /\ Same
  BY <1>0, <1>3 DEF CloseAll, CloseSocket, Goto, TypeOK
<1>27. Crash(k) => Kept /\ Same
  BY <1>0, <1>3 DEF Crash, CloseSocket, Goto, TypeOK
<1>28. Restart(k) => Kept /\ Same
  BY <1>0 DEF Restart, Goto, TypeOK
<1> QED BY <1>7, <1>8, <1>9, <1>10, <1>11, <1>12, <1>13, <1>14, <1>15, <1>16, <1>17, <1>18, <1>19, <1>20, <1>21, <1>22, <1>23, <1>24, <1>25, <1>26, <1>27, <1>28 DEF Construct, Destruct

(* The only step that makes a listener ready is the last of its constructor. *)
LEMMA OnlyUpdateGetsReady ==
    ASSUME TypeOK, NEW l \in Listener, pc'[l] = "ready",
           Construct(l) \/ Destroy(l) \/ Destruct(l) \/ Crash(l) \/ Restart(l)
    PROVE  UpdateAllMaps(l)
<1>1. \A label : Goto(l, label) => label = "ready"
  BY DEF Goto, TypeOK
<1>2. ~ReleaseAndThrow(l) /\ ~ThrowOnly(l) /\ ~BindSucceeds(l)
  BY <1>1 DEF ReleaseAndThrow, ThrowOnly, BindSucceeds
<1>3. Construct(l) => UpdateAllMaps(l)
  BY <1>1, <1>2 DEF Construct, SetupUmem, VerifyInterface, FindMap, CleanQueueZero,
     CleanTarget, VerifyCleanup, CreateSocket, SetOptions, Bind, ForceCleanup,
     BindAgain, MapRings, FillRing, CheckSocket, UpdateMap
<1>4. ~Destroy(l) /\ ~Destruct(l) /\ ~Crash(l) /\ ~Restart(l)
  BY <1>1 DEF Destroy, Destruct, UnmapUmem, RemoveEntry, CloseAll, Crash, Restart
<1> QED BY <1>3, <1>4

(* KeepsReceiving: a listener that has returned from its constructor keeps  *)
(* the packets of its queue until its destructor runs, whatever the other   *)
(* processes construct, destroy or crash, if their queues are apart.        *)
THEOREM KeepsReceivingHolds ==
    ASSUME QueuesApart PROVE Spec => []KeepsReceiving
<1>1. Init => KeepsReceiving
  BY DEF Init, KeepsReceiving
<1>2. SocketInvariant /\ KeepsReceiving /\ [Next]_vars => KeepsReceiving'
  <2> SUFFICES ASSUME SocketInvariant, KeepsReceiving, [Next]_vars,
                      NEW l \in Listener, pc'[l] = "ready", l \notin missed', NEW m \in Map
               PROVE  entry'[<<m, QueueOf[l]>>] = l
    BY DEF KeepsReceiving
  <2>1. CASE UNCHANGED vars
    BY <2>1 DEF vars, listenerVars, KeepsReceiving
  <2>2. ASSUME NEW k \in Listener,
               Construct(k) \/ Destroy(k) \/ Destruct(k) \/ Crash(k) \/ Restart(k)
        PROVE  entry'[<<m, QueueOf[l]>>] = l
    <3>1. CASE k # l
      <4>1. /\ pc'[l] = pc[l] /\ (l \in missed' <=> l \in missed)
            /\ entry[<<m, QueueOf[l]>>] = l => entry'[<<m, QueueOf[l]>>] = l
        BY <2>2, <3>1, OthersLeaveMineAlone
      <4> QED BY <4>1 DEF KeepsReceiving
    <3>2. CASE k = l
      <4>1. UpdateAllMaps(l)
        BY <2>2, <3>2, OnlyUpdateGetsReady DEF SocketInvariant
      <4>2. PICK updated \in SUBSET Map :
              /\ entry' = [s \in DOMAIN entry |->
                           IF s[1] \in updated /\ s[2] = QueueOf[l] THEN l ELSE entry[s]]
              /\ missed' = IF updated = Map THEN missed \ {l} ELSE missed \cup {l}
        BY <4>1 DEF UpdateAllMaps
      <4>3. updated = Map
        BY <4>2
      <4> QED BY <4>2, <4>3 DEF SocketInvariant, TypeOK, Queue
    <3> QED BY <3>1, <3>2
  <2> QED BY <2>1, <2>2 DEF Next
<1> QED BY SocketInvariantHolds, <1>1, <1>2, PTL DEF Spec

---------------------------------------------------------------------------
(* The packet path: remainders and ring indices.                           *)

(* Remainders, also of negative numbers.                                   *)
LEMMA Remainder ==
    ASSUME NEW m \in Nat \ {0}, NEW a \in Int
    PROVE  /\ a \div m \in Int
           /\ a % m \in 0..(m - 1)
           /\ a = m * (a \div m) + (a % m)
<1>1. a % m \in 0..(m - 1)
  OBVIOUS
<1>2. a = m * (a \div m) + (a % m)
  OBVIOUS
<1>3. a \div m \in Int
  OBVIOUS
<1> QED BY <1>1, <1>2, <1>3

(* Multiples of m that differ are at least m apart.                        *)
LEMMA MultipleAdds ==
    ASSUME NEW m \in Nat \ {0}, NEW q \in Int, NEW r \in Int, q < r
    PROVE  m * q + m <= m * r
<1>1. PICK d \in Nat : r = q + 1 + d
  <2>1. r - q - 1 \in Nat /\ r = q + 1 + (r - q - 1)
    OBVIOUS
  <2> QED BY <2>1
<1>2. m * r = m * q + m + m * d
  BY <1>1
<1>3. m * d \in Nat /\ m * q \in Int
  OBVIOUS
<1> QED BY <1>2, <1>3

(* A remainder is known by its quotient.                                   *)
LEMMA RemainderIs ==
    ASSUME NEW m \in Nat \ {0}, NEW a \in Int, NEW q \in Int, NEW r \in 0..(m - 1),
           a = m * q + r
    PROVE  a % m = r
<1>1. PICK p \in Int, s \in 0..(m - 1) : a = m * p + s /\ s = a % m
  BY Remainder
<1>2. m * p \in Int /\ m * q \in Int
  OBVIOUS
<1>3. CASE p = q
  <2>1. a = m * q + s
    BY <1>1, <1>3
  <2> QED BY ONLY <2>1, <1>1, <1>2, a = m * q + r, m \in Nat, r \in 0..(m - 1)
<1>4. CASE p < q
  <2>1. m * p + m <= m * q
    BY <1>4, MultipleAdds
  <2> QED BY ONLY <2>1, <1>1, <1>2, a = m * q + r, m \in Nat, r \in 0..(m - 1)
<1>5. CASE q < p
  <2>1. m * q + m <= m * p
    BY <1>5, MultipleAdds
  <2> QED BY ONLY <2>1, <1>1, <1>2, a = m * q + r, m \in Nat, r \in 0..(m - 1)
<1> QED BY <1>3, <1>4, <1>5

(* Adding a multiple of m leaves the remainder alone.                      *)
LEMMA RemainderShift ==
    ASSUME NEW m \in Nat \ {0}, NEW a \in Int, NEW k \in Int
    PROVE  (a + m * k) % m = a % m
<1>1. PICK p \in Int, s \in 0..(m - 1) : a = m * p + s /\ s = a % m
  BY Remainder
<1>2. a + m * k \in Int /\ p + k \in Int /\ m * (p + k) = m * p + m * k
  OBVIOUS
<1>3. a + m * k = m * (p + k) + s
  BY <1>1, <1>2
<1> QED BY <1>1, <1>2, <1>3, RemainderIs

(* Adding before or after taking the remainder is the same.                *)
LEMMA RemainderAdds ==
    ASSUME NEW m \in Nat \ {0}, NEW a \in Int, NEW b \in Int
    PROVE  ((a % m) + b) % m = (a + b) % m
<1>1. PICK p \in Int, s \in 0..(m - 1) : a = m * p + s /\ s = a % m
  BY Remainder
<1>2. s + b \in Int /\ (s + b) + m * p = a + b
  BY <1>1
<1>3. ((s + b) + m * p) % m = (s + b) % m
  BY <1>2, RemainderShift
<1> QED BY <1>1, <1>2, <1>3

(* Numbers less than m apart have different remainders.                    *)
LEMMA RemaindersDiffer ==
    ASSUME NEW m \in Nat \ {0}, NEW a \in Int, NEW b \in Int, a < b, b < a + m
    PROVE  a % m # b % m
<1>1. PICK p \in Int, s \in 0..(m - 1) : a = m * p + s /\ s = a % m
  BY Remainder
<1>2. PICK q \in Int, t \in 0..(m - 1) : b = m * q + t /\ t = b % m
  BY Remainder
<1>3. m * p \in Int /\ m * q \in Int
  OBVIOUS
<1> SUFFICES ASSUME s = t PROVE FALSE
  BY <1>1, <1>2
<1>4. m * p < m * q /\ m * q < m * p + m
  BY <1>1, <1>2, <1>3
<1>5. CASE p < q
  BY <1>3, <1>4, <1>5, MultipleAdds
<1>6. CASE q < p
  <2>1. m * q + m <= m * p
    BY <1>6, MultipleAdds
  <2> QED BY <2>1, <1>3, <1>4
<1>7. CASE p = q
  BY <1>4, <1>7, <1>3
<1> QED BY <1>5, <1>6, <1>7

---------------------------------------------------------------------------
(* Indices and slots.                                                      *)

Index == 0..Wrap - 1

(* The index space holds a whole number of rings.                          *)
LEMMA RingFacts ==
    /\ RingSize \in Nat \ {0} /\ Wrap \in Nat \ {0} /\ RingSize < Wrap
    /\ \E k \in Int : Wrap = RingSize * k
<1>1. RingSize \in Nat \ {0} /\ Wrap \in Nat \ {0} /\ RingSize < Wrap /\ Wrap % RingSize = 0
  BY RingsAssumption
<1>2. PICK k \in Int : Wrap = RingSize * k + 0
  <2>1. ASSUME NEW m \in Nat \ {0}, NEW a \in Int, a % m = 0
        PROVE  \E k \in Int : a = m * k + 0
    BY <2>1, Remainder
  <2>2. Wrap \in Int
    BY <1>1
  <2> QED BY <1>1, <2>1, <2>2
<1>3. RingSize * k \in Int
  BY <1>1
<1>4. Wrap = RingSize * k
  BY <1>1, <1>2, <1>3
<1> QED BY <1>1, <1>4

(* The distance of two indices, with and without a wrap between them.      *)
LEMMA InRingIs ==
    ASSUME NEW p \in Index, NEW c \in Index
    PROVE  /\ InRing(p, c) = IF p >= c THEN p - c ELSE p - c + Wrap
           /\ InRing(p, c) \in Index
           /\ InRing(p, c) = 0 <=> p = c
<1>1. p \in Int /\ c \in Int /\ p - c \in Int
  BY RingFacts DEF Index
<1>2. CASE p >= c
  <2>1. p - c = Wrap * 0 + (p - c) /\ p - c \in 0..(Wrap - 1)
    BY <1>2, RingFacts DEF Index
  <2>2. (p - c) % Wrap = p - c
    BY <1>1, <2>1, RingFacts, RemainderIs
  <2> QED BY <1>1, <1>2, <2>1, <2>2 DEF InRing, Index
<1>3. CASE p < c
  <2>1. p - c = Wrap * (-1) + (p - c + Wrap) /\ p - c + Wrap \in 0..(Wrap - 1)
    BY <1>3, RingFacts DEF Index
  <2>2. (p - c) % Wrap = p - c + Wrap
    BY <1>1, <2>1, RingFacts, RemainderIs
  <2> QED BY <1>1, <1>3, <2>1, <2>2, RingFacts DEF InRing, Index
<1> QED BY <1>1, <1>2, <1>3

(* An index moved on by k.                                                 *)
LEMMA NextIndex ==
    ASSUME NEW p \in Index, NEW k \in Index
    PROVE  /\ (p + k) % Wrap = IF p + k < Wrap THEN p + k ELSE p + k - Wrap
           /\ (p + k) % Wrap \in Index
<1>1. p + k \in Int /\ Wrap \in Nat \ {0}
  BY RingFacts DEF Index
<1>2. CASE p + k < Wrap
  <2>1. p + k = Wrap * 0 + (p + k) /\ p + k \in 0..(Wrap - 1)
    BY <1>2, <1>1 DEF Index
  <2> QED BY <1>1, <1>2, <2>1, RemainderIs DEF Index
<1>3. CASE p + k >= Wrap
  <2>1. p + k = Wrap * 1 + (p + k - Wrap) /\ p + k - Wrap \in 0..(Wrap - 1)
    BY <1>3, <1>1 DEF Index
  <2>2. (p + k) % Wrap = p + k - Wrap
    BY <1>1, <2>1, RemainderIs
  <2> QED BY <1>1, <1>3, <2>1, <2>2 DEF Index
<1> QED BY <1>1, <1>2, <1>3 DEF Index

(* Producing, consuming: the number of entries in the ring.                *)
LEMMA Produce ==
    ASSUME NEW p \in Index, NEW c \in Index, NEW k \in Index, InRing(p, c) + k < Wrap
    PROVE  InRing((p + k) % Wrap, c) = InRing(p, c) + k
<1>1. (p + k) % Wrap \in Index
  BY NextIndex
<1>2. PICK q \in Index : q = (p + k) % Wrap /\ q = IF p + k < Wrap THEN p + k ELSE p + k - Wrap
  BY <1>1, NextIndex
<1>3. InRing(q, c) = IF q >= c THEN q - c ELSE q - c + Wrap
  BY InRingIs
<1>4. InRing(p, c) = IF p >= c THEN p - c ELSE p - c + Wrap
  BY InRingIs
<1>5. InRing(q, c) = InRing(p, c) + k
  BY <1>2, <1>3, <1>4, InRing(p, c) + k < Wrap, RingFacts DEF Index
<1> QED BY <1>2, <1>5

(* A consumer that moves on leaves one entry less.                         *)
LEMMA Consume ==
    ASSUME NEW p \in Index, NEW c \in Index, p # c
    PROVE  /\ InRing(p, (c + 1) % Wrap) = InRing(p, c) - 1
           /\ (c + 1) % Wrap \in Index
<1>0. 1 \in Index
  BY RingFacts DEF Index
<1>1. (c + 1) % Wrap \in Index
  BY <1>0, NextIndex
<1>2. PICK d \in Index : d = (c + 1) % Wrap /\ d = IF c + 1 < Wrap THEN c + 1 ELSE c + 1 - Wrap
  BY <1>0, <1>1, NextIndex
<1>3. InRing(p, d) = IF p >= d THEN p - d ELSE p - d + Wrap
  BY InRingIs
<1>4. InRing(p, c) = IF p >= c THEN p - c ELSE p - c + Wrap
  BY InRingIs
<1>5. InRing(p, d) = InRing(p, c) - 1
  BY <1>2, <1>3, <1>4, RingFacts DEF Index
<1> QED BY <1>1, <1>2, <1>5

(* The slot of the entry at distance i from the consumer.                  *)
SlotAt(c, i) == (c + i) % RingSize

(* Masked indices are slots.                                               *)
LEMMA SlotAtIsSlot ==
    ASSUME NEW c \in Int, NEW i \in Int
    PROVE  SlotAt(c, i) \in Slot
<1>1. c + i \in Int /\ RingSize \in Nat \ {0}
  BY RingFacts
<1>2. (c + i) % RingSize \in 0..(RingSize - 1)
  BY <1>1, Remainder
<1> QED BY <1>2 DEF SlotAt, Slot

(* Entries less than a ring apart are in different slots.                  *)
LEMMA SlotsDiffer ==
    ASSUME NEW c \in Int, NEW i \in Int, NEW j \in Int, i < j, j < i + RingSize
    PROVE  SlotAt(c, i) # SlotAt(c, j)
<1>1. c + i \in Int /\ c + j \in Int /\ RingSize \in Nat \ {0}
  BY RingFacts
<1>2. c + i < c + j /\ c + j < c + i + RingSize
  BY <1>1
<1> QED BY <1>1, <1>2, RemaindersDiffer DEF SlotAt

(* Whole laps of the index leave the slot alone.                           *)
LEMMA SlotSameLap ==
    ASSUME NEW a \in Int, NEW b \in Int, NEW k \in Int, b = a + Wrap * k
    PROVE  b % RingSize = a % RingSize
<1>1. PICK w \in Int : Wrap = RingSize * w
  BY RingFacts
<1>2. RingSize \in Nat \ {0}
  BY RingFacts
<1>3. Wrap * k = RingSize * (w * k) /\ w * k \in Int
  BY <1>1, <1>2
<1>4. (a + RingSize * (w * k)) % RingSize = a % RingSize
  BY <1>2, <1>3, RemainderShift
<1> QED BY <1>3, <1>4

(* Seen from the next consumer index, each entry is one nearer.            *)
LEMMA SlotOfNext ==
    ASSUME NEW c \in Index, NEW i \in Int
    PROVE  SlotAt((c + 1) % Wrap, i) = SlotAt(c, i + 1)
<1>1. 1 \in Index
  BY RingFacts DEF Index
<1>2. PICK k \in {0, -1} : (c + 1) % Wrap = c + 1 + Wrap * k
  <2>1. CASE c + 1 < Wrap
    BY <1>1, <2>1, NextIndex, RingFacts DEF Index
  <2>2. CASE c + 1 >= Wrap
    BY <1>1, <2>2, NextIndex, RingFacts DEF Index
  <2> QED BY <2>1, <2>2, RingFacts DEF Index
<1>3. ((c + 1) % Wrap) + i = c + (i + 1) + Wrap * k
  BY <1>2, RingFacts DEF Index
<1>4. ((c + 1) % Wrap) + i \in Int /\ c + (i + 1) \in Int
  BY <1>1, NextIndex, RingFacts DEF Index
<1> QED BY <1>3, <1>4, SlotSameLap DEF SlotAt

(* The producer's slot comes after the entries in the ring.                *)
LEMMA SlotOfProducer ==
    ASSUME NEW p \in Index, NEW c \in Index, NEW i \in Int
    PROVE  SlotAt(p, i) = SlotAt(c, InRing(p, c) + i)
<1>1. PICK k \in {0, 1} : InRing(p, c) = p - c + Wrap * k
  <2>1. CASE p >= c
    BY <2>1, InRingIs, RingFacts DEF Index
  <2>2. CASE p < c
    BY <2>2, InRingIs, RingFacts DEF Index
  <2> QED BY <2>1, <2>2, RingFacts DEF Index
<1>2. c + (InRing(p, c) + i) = p + i + Wrap * k
  BY <1>1, InRingIs, RingFacts DEF Index
<1>3. c + (InRing(p, c) + i) \in Int /\ p + i \in Int
  BY InRingIs, RingFacts DEF Index
<1> QED BY <1>2, <1>3, SlotSameLap DEF SlotAt

(* How far a slot is ahead of the producer's.                              *)
LEMMA AheadOfProducer ==
    ASSUME NEW p \in Index, NEW c \in Index, NEW j \in Int, InRing(p, c) <= RingSize,
           0 <= j, j < InRing(p, c) + RingSize
    PROVE  (SlotAt(c, j) - p) % RingSize =
               IF j >= InRing(p, c) THEN j - InRing(p, c) ELSE j - InRing(p, c) + RingSize
<1>1. RingSize \in Nat \ {0} /\ c + j \in Int /\ p \in Int /\ c \in Int
  BY RingFacts DEF Index
<1>2. PICK k \in {0, 1} : InRing(p, c) = p - c + Wrap * k
  <2>1. CASE p >= c
    BY <2>1, InRingIs, RingFacts DEF Index
  <2>2. CASE p < c
    BY <2>2, InRingIs, RingFacts DEF Index
  <2> QED BY <2>1, <2>2, RingFacts DEF Index
<1>3. (SlotAt(c, j) - p) % RingSize = (c + j - p) % RingSize
  <2>0. -p \in Int
    BY <1>1
  <2>1. (((c + j) % RingSize) + (-p)) % RingSize = (c + j + (-p)) % RingSize
    BY <1>1, <2>0, RemainderAdds
  <2>2. (c + j) % RingSize \in Int
    BY <1>1, Remainder
  <2>3. ((c + j) % RingSize) - p = ((c + j) % RingSize) + (-p) /\ c + j - p = c + j + (-p)
    BY <1>1, <2>2
  <2> QED BY <2>1, <2>3 DEF SlotAt
<1>4. InRing(p, c) \in Int
  BY InRingIs DEF Index
<1>5. c + j - p = (j - InRing(p, c)) + Wrap * k
  BY <1>1, <1>2, <1>4, RingFacts
<1>6. (c + j - p) % RingSize = (j - InRing(p, c)) % RingSize
  BY <1>1, <1>4, <1>5, SlotSameLap
<1>7. CASE j >= InRing(p, c)
  <2>1. j - InRing(p, c) \in 0..(RingSize - 1) /\ j - InRing(p, c) \in Int
    BY <1>1, <1>4, <1>7
  <2>2. j - InRing(p, c) = RingSize * 0 + (j - InRing(p, c))
    BY <1>1, <2>1
  <2>3. (j - InRing(p, c)) % RingSize = j - InRing(p, c)
    BY <1>1, <2>1, <2>2, RemainderIs
  <2> QED BY <1>3, <1>6, <1>7, <2>3
<1>8. CASE j < InRing(p, c)
  <2>1. /\ j - InRing(p, c) + RingSize \in 0..(RingSize - 1) /\ j - InRing(p, c) \in Int
        /\ ~(j >= InRing(p, c))
    BY <1>1, <1>4, <1>8
  <2>2. j - InRing(p, c) = RingSize * (-1) + (j - InRing(p, c) + RingSize)
    BY <1>1, <2>1
  <2>3. (j - InRing(p, c)) % RingSize = j - InRing(p, c) + RingSize
    <3>1. -1 \in Int
      OBVIOUS
    <3> QED BY <1>1, <2>1, <2>2, <3>1, RemainderIs
  <2> QED BY <1>3, <1>6, <2>1, <2>3
<1> QED BY <1>4, <1>7, <1>8

---------------------------------------------------------------------------
(* Lists of frames: the ring entries, the driver's and the stack.          *)

Listed(s) == {s[i] : i \in DOMAIN s}
NoTwice(s) == \A i, j \in DOMAIN s : i # j => s[i] # s[j]

(* A list f of n entries from index o on loses its first or gets one more. *)
LEMMA ListLosesFirst ==
    ASSUME NEW o \in Int, NEW z \in Int, NEW y \in Int, NEW f, NEW g, NoTwice(f),
           o <= z, y = z - 1, DOMAIN f = o..z, DOMAIN g = o..y,
           \A i \in o..y : g[i] = f[i + 1]
    PROVE  /\ NoTwice(g) /\ f[o] \in Listed(f)
           /\ \A x : x \in Listed(g) <=> x \in Listed(f) /\ x # f[o]
<1>1. o \in DOMAIN f
  OBVIOUS
<1>2. ASSUME NEW i \in DOMAIN g PROVE g[i] = f[i + 1] /\ i + 1 \in DOMAIN f /\ i + 1 # o
  OBVIOUS
<1>3. NoTwice(g)
  <2> SUFFICES ASSUME NEW i \in DOMAIN g, NEW j \in DOMAIN g, i # j PROVE g[i] # g[j]
    BY DEF NoTwice
  <2>1. i + 1 # j + 1
    OBVIOUS
  <2> QED BY <1>2, <2>1 DEF NoTwice
<1>4. ASSUME NEW x \in Listed(g) PROVE x \in Listed(f) \ {f[o]}
  BY <1>1, <1>2 DEF Listed, NoTwice
<1>5. ASSUME NEW x \in Listed(f), x # f[o] PROVE x \in Listed(g)
  <2>1. PICK i \in DOMAIN f : x = f[i]
    BY DEF Listed
  <2>2. i - 1 \in DOMAIN g /\ (i - 1) + 1 = i
    BY <2>1, <1>5
  <2>3. g[i - 1] = x
    BY <1>2, <2>1, <2>2
  <2> QED BY <2>2, <2>3 DEF Listed
<1>6. f[o] \in Listed(f)
  BY <1>1 DEF Listed
<1> QED BY <1>3, <1>4, <1>5, <1>6

(* The entries f of a ring, and those without the first or with one more.  *)
LEMMA RingLosesFirst ==
    ASSUME NEW n \in Nat \ {0}, NEW f, NEW g, NoTwice(f),
           DOMAIN f = 0..(n - 1), DOMAIN g = 0..(n - 2),
           \A i \in 0..(n - 2) : g[i] = f[i + 1]
    PROVE  NoTwice(g) /\ f[0] \in Listed(f) /\ Listed(g) = Listed(f) \ {f[0]}
<1>1. 0 \in DOMAIN f
  OBVIOUS
<1>2. ASSUME NEW i \in DOMAIN g PROVE g[i] = f[i + 1] /\ i + 1 \in DOMAIN f /\ i + 1 # 0
  OBVIOUS
<1>3. NoTwice(g)
  <2> SUFFICES ASSUME NEW i \in DOMAIN g, NEW j \in DOMAIN g, i # j PROVE g[i] # g[j]
    BY DEF NoTwice
  <2>1. i + 1 # j + 1
    OBVIOUS
  <2> QED BY <1>2, <2>1 DEF NoTwice
<1>4. ASSUME NEW x \in Listed(g) PROVE x \in Listed(f) \ {f[0]}
  BY <1>1, <1>2 DEF Listed, NoTwice
<1>5. ASSUME NEW x \in Listed(f), x # f[0] PROVE x \in Listed(g)
  <2>1. PICK i \in DOMAIN f : x = f[i]
    BY DEF Listed
  <2>2. i - 1 \in DOMAIN g /\ (i - 1) + 1 = i
    BY <2>1, <1>5
  <2>3. g[i - 1] = x
    BY <1>2, <2>1, <2>2
  <2> QED BY <2>2, <2>3 DEF Listed
<1>6. f[0] \in Listed(f)
  BY <1>1 DEF Listed
<1>7. Listed(g) = Listed(f) \ {f[0]}
  BY <1>4, <1>5
<1> QED BY <1>3, <1>6, <1>7

(* A list that gets one more at its end, which was not in it.              *)
LEMMA ListGains ==
    ASSUME NEW o \in Int, NEW z \in Int, NEW y \in Int, NEW f, NEW g, NoTwice(f),
           o <= y, y = z + 1, DOMAIN f = o..z, DOMAIN g = o..y,
           \A i \in o..z : g[i] = f[i],
           g[y] \notin Listed(f)
    PROVE  NoTwice(g) /\ Listed(g) = Listed(f) \cup {g[y]}
<1>1. y \in DOMAIN g
  OBVIOUS
<1>2. ASSUME NEW i \in DOMAIN g, i # y PROVE g[i] = f[i] /\ i \in DOMAIN f
  BY <1>2
<1>3. ASSUME NEW i \in DOMAIN f PROVE g[i] = f[i] /\ i \in DOMAIN g /\ i # y
  OBVIOUS
<1>4. NoTwice(g)
  BY <1>1, <1>2 DEF NoTwice, Listed
<1>5. ASSUME NEW x \in Listed(g) PROVE x \in Listed(f) \cup {g[y]}
  BY <1>2 DEF Listed
<1>6. ASSUME NEW x \in Listed(f) \cup {g[y]} PROVE x \in Listed(g)
  BY <1>1, <1>3 DEF Listed
<1> QED BY <1>4, <1>5, <1>6

(* The same for the entries of a ring.                                     *)
LEMMA RingGains ==
    ASSUME NEW n \in Nat, NEW f, NEW g, DOMAIN f = 0..(n - 1), DOMAIN g = 0..n,
           \A i \in 0..(n - 1) : g[i] = f[i], NoTwice(f), g[n] \notin Listed(f)
    PROVE NoTwice(g) /\ Listed(g) = Listed(f) \cup {g[n]}
<1>1. PICK o \in Int, z \in Int, y \in Int : o = 0 /\ z = n - 1 /\ y = n /\ y = z + 1 /\ o <= y
  OBVIOUS
<1>2. DOMAIN f = o..z /\ DOMAIN g = o..y /\ \A i \in o..z : g[i] = f[i]
  BY <1>1
<1>3. NoTwice(g) /\ Listed(g) = Listed(f) \cup {g[y]}
  BY <1>1, <1>2, ListGains
<1> QED BY <1>1, <1>3

(* The same for a sequence.                                                *)
LEMMA SeqGains ==
    ASSUME NEW S, NEW s \in Seq(S), NEW x \in S, NoTwice(s), x \notin Listed(s)
    PROVE  LET t == Append(s, x)
           IN  /\ t \in Seq(S) /\ Len(t) = Len(s) + 1
               /\ NoTwice(t) /\ Listed(t) = Listed(s) \cup {x}
<1>1. PICK t : t = Append(s, x)
  OBVIOUS
<1>2. PICK n \in Nat : n = Len(s)
  OBVIOUS
<1>3. /\ t \in Seq(S) /\ Len(t) = n + 1 /\ \A i \in 1..n : t[i] = s[i]
      /\ t[n + 1] = x
  BY <1>1, <1>2, AppendProperties
<1>4. DOMAIN s = 1..n /\ DOMAIN t = 1..(n + 1) /\ t[n + 1] \notin Listed(s)
  BY <1>2, <1>3
<1>5. NoTwice(t) /\ Listed(t) = Listed(s) \cup {t[n + 1]}
  <2>1. PICK y \in Int : y = n + 1 /\ 1 <= y /\ 1 \in Int /\ n \in Int
    OBVIOUS
  <2>2. DOMAIN t = 1..y /\ t[y] \notin Listed(s)
    BY <1>4, <2>1
  <2>3. NoTwice(t) /\ Listed(t) = Listed(s) \cup {t[y]}
    BY <1>3, <1>4, <2>1, <2>2, ListGains
  <2> QED BY <2>1, <2>3
<1> QED BY <1>1, <1>2, <1>3, <1>5

(* A sequence without its first.                                           *)
LEMMA SeqLosesFirst ==
    ASSUME NEW S, NEW s \in Seq(S), s # <<>>, NoTwice(s)
    PROVE  LET t == Tail(s)
           IN  /\ t \in Seq(S) /\ Len(t) = Len(s) - 1 /\ Head(s) \in S
               /\ NoTwice(t) /\ Head(s) \in Listed(s) /\ Listed(t) = Listed(s) \ {Head(s)}
<1>1. PICK t : t = Tail(s)
  OBVIOUS
<1>2. PICK n \in Nat \ {0} : n = Len(s)
  OBVIOUS
<1>3. t \in Seq(S) /\ Len(t) = n - 1 /\ \A i \in 1..(n - 1) : t[i] = s[i + 1]
  BY <1>1, <1>2, HeadTailProperties
<1>4. DOMAIN s = 1..n /\ DOMAIN t = 1..(n - 1)
  BY <1>2, <1>3
<1>5. NoTwice(t) /\ s[1] \in Listed(s) /\ Listed(t) = Listed(s) \ {s[1]}
  <2>1. PICK y \in Int : y = n - 1 /\ 1 <= n /\ 1 \in Int /\ n \in Int
    OBVIOUS
  <2>2. DOMAIN t = 1..y /\ \A i \in 1..y : t[i] = s[i + 1]
    BY <1>3, <1>4, <2>1
  <2>3. NoTwice(t) /\ s[1] \in Listed(s)
    BY <1>4, <2>1, <2>2, ListLosesFirst
  <2>4. \A x : x \in Listed(t) <=> x \in Listed(s) /\ x # s[1]
    BY <1>4, <2>1, <2>2, ListLosesFirst
  <2> QED BY <2>3, <2>4
<1>6. Head(s) = s[1] /\ Head(s) \in S
  BY <1>2
<1> QED BY <1>1, <1>2, <1>3, <1>5, <1>6

(* How many there are.                                                     *)
LEMMA ListCount ==
    ASSUME NEW D, IsFiniteSet(D), NEW s, \A i, j \in D : i # j => s[i] # s[j]
    PROVE  /\ IsFiniteSet({s[i] : i \in D})
           /\ Cardinality({s[i] : i \in D}) = Cardinality(D)
<1> DEFINE T == {s[i] : i \in D}
           f == [i \in D |-> s[i]]
<1>1. f \in Bijection(D, T)
  <2>1. f \in [D -> T]
    OBVIOUS
  <2>2. \A a, b \in D : f[a] = f[b] => a = b
    OBVIOUS
  <2>3. \A t \in T : \E a \in D : f[a] = t
    OBVIOUS
  <2> QED BY <2>1, <2>2, <2>3 DEF Bijection, Injection, Surjection, IsInjective
<1>2. ExistsBijection(D, T)
  BY <1>1 DEF ExistsBijection
<1> QED BY <1>2, FS_Bijection

(* The beginning of a sequence.                                            *)
LEMMA Prefix ==
    ASSUME NEW S, NEW s \in Seq(S), NEW m \in 0..Len(s)
    PROVE  /\ SubSeq(s, 1, m) \in Seq(S) /\ Len(SubSeq(s, 1, m)) = m
           /\ DOMAIN SubSeq(s, 1, m) = 1..m
           /\ \A i \in 1..m : SubSeq(s, 1, m)[i] = s[i]
<1>1. \A i \in 1..m : s[i] \in S
  BY LenProperties
<1>2. m \in Nat /\ 1 \in Int
  BY LenProperties
<1> QED BY <1>1, <1>2, SubSeqProperties

(* A list f of n entries, followed by the last k of the l in s, last one   *)
(* first, and what is left of s.                                           *)
Followed(g, f, n, s, l, k) ==
    /\ DOMAIN f = 0..(n - 1) /\ DOMAIN g = 0..(n + k - 1) /\ DOMAIN s = 1..l
    /\ \A i \in 0..(n - 1) : g[i] = f[i]
    /\ \A i \in n..(n + k - 1) : g[i] = s[l - (i - n)]

LeftOf(t, s, l, k) == DOMAIN t = 1..(l - k) /\ \A i \in 1..(l - k) : t[i] = s[i]

(* Entries moved from a stack to a ring are still there, once.             *)
LEMMA ListsShare ==
    ASSUME NEW s, NEW l \in Nat, NEW k \in Nat, k <= l, NoTwice(s),
           NEW n \in Nat, NEW f, NoTwice(f), Listed(f) \cap Listed(s) = {},
           NEW g, Followed(g, f, n, s, l, k), NEW t, LeftOf(t, s, l, k)
    PROVE  /\ NoTwice(g) /\ NoTwice(t)
           /\ Listed(g) \cap Listed(t) = {}
           /\ Listed(g) \cup Listed(t) = Listed(f) \cup Listed(s)
<1> USE DEF Followed
<1>0. PICK m \in Nat : m = l - k
  OBVIOUS
<1>1. l \in Nat /\ DOMAIN s = 1..l /\ m \in Nat /\ m <= l /\ m = l - k
  BY <1>0
<1>2. DOMAIN t = 1..m /\ \A i \in 1..m : t[i] = s[i]
  BY <1>0 DEF LeftOf
<1>3. ASSUME NEW i \in DOMAIN g
      PROVE  \/ i \in DOMAIN f /\ g[i] = f[i]
             \/ i >= n /\ l - (i - n) \in (m + 1)..l /\ g[i] = s[l - (i - n)]
  BY <1>1
<1>4. NoTwice(t)
  BY <1>1, <1>2 DEF NoTwice
<1>5. NoTwice(g)
  <2> SUFFICES ASSUME NEW i \in DOMAIN g, NEW j \in DOMAIN g, i # j, g[i] = g[j] PROVE FALSE
    BY DEF NoTwice
  <2>1. i \in Int /\ j \in Int
    OBVIOUS
  <2>2. CASE i \in DOMAIN f /\ j \in DOMAIN f
    <3>1. g[i] = f[i] /\ g[j] = f[j]
      BY <2>2
    <3> QED BY <2>2, <3>1 DEF NoTwice
  <2>3. CASE i \in DOMAIN f /\ j \notin DOMAIN f
    <3>1. g[i] \in Listed(f)
      BY <2>3, <1>3 DEF Listed
    <3>2. l - (j - n) \in DOMAIN s /\ g[j] = s[l - (j - n)]
      BY <2>3, <1>1, <1>3
    <3>3. g[j] \in Listed(s)
      BY <3>2 DEF Listed
    <3> QED BY <3>1, <3>3
  <2>4. CASE i \notin DOMAIN f /\ j \in DOMAIN f
    <3>1. g[j] \in Listed(f)
      BY <2>4, <1>3 DEF Listed
    <3>2. l - (i - n) \in DOMAIN s /\ g[i] = s[l - (i - n)]
      BY <2>4, <1>1, <1>3
    <3>3. g[i] \in Listed(s)
      BY <3>2 DEF Listed
    <3> QED BY <3>1, <3>3
  <2>5. CASE i \notin DOMAIN f /\ j \notin DOMAIN f
    <3>1. /\ l - (i - n) \in DOMAIN s /\ g[i] = s[l - (i - n)]
          /\ l - (j - n) \in DOMAIN s /\ g[j] = s[l - (j - n)]
      BY <2>5, <1>1, <1>3
    <3>2. l - (i - n) # l - (j - n)
      BY <1>1, <2>1, SMTT(30)
    <3> QED BY <3>1, <3>2, ZenonT(30) DEF NoTwice
  <2> QED BY <2>2, <2>3, <2>4, <2>5
<1>6. ASSUME NEW x \in Listed(g), x \in Listed(t) PROVE FALSE
  <2>1. PICK i \in DOMAIN g : x = g[i]
    BY DEF Listed
  <2>2. PICK j \in 1..m : x = s[j]
    BY <1>2, <1>6 DEF Listed
  <2>3. j \in DOMAIN s
    BY <1>1, <2>2
  <2>4. CASE i \in DOMAIN f /\ g[i] = f[i]
    BY <2>1, <2>2, <2>3, <2>4 DEF Listed
  <2>5. CASE l - (i - n) \in (m + 1)..l /\ g[i] = s[l - (i - n)]
    <3>1. l - (i - n) \in DOMAIN s /\ l - (i - n) # j
      BY <1>1, <2>2, <2>5
    <3> QED BY <2>1, <2>2, <2>3, <2>5, <3>1 DEF NoTwice
  <2> QED BY <1>3, <2>4, <2>5
<1>7. ASSUME NEW x \in Listed(g) \cup Listed(t) PROVE x \in Listed(f) \cup Listed(s)
  <2>1. CASE x \in Listed(t)
    BY <1>1, <1>2, <2>1 DEF Listed
  <2>2. CASE x \in Listed(g)
    <3>1. PICK i \in DOMAIN g : x = g[i]
      BY <2>2 DEF Listed
    <3>2. l - (i - n) \in (m + 1)..l => l - (i - n) \in DOMAIN s
      BY <1>1
    <3> QED BY <1>3, <3>1, <3>2 DEF Listed
  <2> QED BY <1>7, <2>1, <2>2
<1>8. ASSUME NEW x \in Listed(f) PROVE x \in Listed(g)
  <2>1. PICK i \in 0..(n - 1) : x = f[i]
    BY DEF Listed
  <2>2. i \in DOMAIN g /\ g[i] = x
    BY <2>1
  <2> QED BY <2>2 DEF Listed
<1>9. ASSUME NEW x \in Listed(s) PROVE x \in Listed(g) \cup Listed(t)
  <2>1. PICK j \in 1..l : x = s[j]
    BY <1>1 DEF Listed
  <2>2. CASE j <= m
    <3>1. j \in DOMAIN t /\ t[j] = x
      BY <1>1, <1>2, <2>1, <2>2
    <3> QED BY <3>1 DEF Listed
  <2>3. CASE j > m
    <3>1. n + (l - j) \in n..(n + k - 1) /\ l - ((n + (l - j)) - n) = j
      BY <1>1, <2>1, <2>3
    <3>2. n + (l - j) \in DOMAIN g
      BY <3>1
    <3>3. g[n + (l - j)] = s[j]
      BY <3>1
    <3> QED BY <2>1, <3>2, <3>3 DEF Listed
  <2> QED BY <1>1, <2>1, <2>2, <2>3
<1>10. Listed(g) \cap Listed(t) = {}
  BY <1>6
<1>11. Listed(g) \cup Listed(t) = Listed(f) \cup Listed(s)
  BY <1>7, <1>8, <1>9
<1> QED BY <1>4, <1>5, <1>10, <1>11

(* The part V of a list, and where it is when the list lost its first.     *)
LEMMA PartMoves ==
    ASSUME NEW n \in Nat \ {0}, NEW f, NEW g,
           \A i \in 0..(n - 2) : g[i] = f[i + 1],
           NEW V \in SUBSET (1..(n - 1)),
           \A i, j \in V : i # j => f[i] # f[j],
           NEW W, W = {i \in 0..(n - 2) : i + 1 \in V}
    PROVE  /\ \A i, j \in W : i # j => g[i] # g[j]
           /\ {g[i] : i \in W} = {f[i] : i \in V}
           /\ IsFiniteSet(W) /\ IsFiniteSet(V) /\ Cardinality(W) = Cardinality(V)
<1>1. ASSUME NEW i \in W PROVE i \in Int /\ i + 1 \in V /\ g[i] = f[i + 1]
  OBVIOUS
<1>2. ASSUME NEW i \in V PROVE i - 1 \in W /\ i \in Int /\ g[i - 1] = f[i]
  <2>1. i \in 1..(n - 1)
    OBVIOUS
  <2>2. i - 1 \in 0..(n - 2) /\ (i - 1) + 1 = i
    BY <2>1
  <2> QED BY <2>1, <2>2
<1>3. \A i, j \in W : i # j => g[i] # g[j]
  <2> SUFFICES ASSUME NEW i \in W, NEW j \in W, i # j PROVE g[i] # g[j]
    OBVIOUS
  <2>1. i + 1 # j + 1
    BY <1>1
  <2> QED BY <1>1, <2>1
<1>4. {g[i] : i \in W} = {f[i] : i \in V}
  BY <1>1, <1>2
<1>5. IsFiniteSet(V)
  <2>1. n - 1 \in Int /\ 1 \in Int
    OBVIOUS
  <2>2. IsFiniteSet(1..(n - 1))
    BY <2>1, FS_Interval
  <2> QED BY <2>2, FS_Subset
<1> DEFINE h == [i \in V |-> i - 1]
<1>6. h \in Bijection(V, W)
  <2>1. h \in [V -> W]
    BY <1>2
  <2>2. \A a, b \in V : h[a] = h[b] => a = b
    BY <1>2
  <2>3. \A w \in W : \E a \in V : h[a] = w
    <3> SUFFICES ASSUME NEW w \in W PROVE \E a \in V : h[a] = w
      OBVIOUS
    <3>1. w + 1 \in V /\ (w + 1) - 1 = w
      BY <1>1
    <3> QED BY <3>1
  <2> QED BY <2>1, <2>2, <2>3 DEF Bijection, Injection, Surjection, IsInjective
<1>7. ExistsBijection(V, W)
  BY <1>6 DEF ExistsBijection
<1> QED BY <1>3, <1>4, <1>5, <1>7, FS_Bijection

---------------------------------------------------------------------------
(* What a ring holds, in the order of its indices.                         *)

Entries(p, c, d) == [i \in 0..InRing(p, c) - 1 |-> d[(c + i) % RingSize]]

(* The entry at distance i from the consumer.                              *)
LEMMA EntryAt ==
    ASSUME NEW p, NEW c, NEW d
    PROVE  /\ DOMAIN Entries(p, c, d) = 0..(InRing(p, c) - 1)
           /\ \A i \in 0..(InRing(p, c) - 1) : Entries(p, c, d)[i] = d[SlotAt(c, i)]
BY DEF Entries, SlotAt

(* A ring that is not empty has a first entry.                             *)
LEMMA FirstEntry ==
    ASSUME NEW p \in Index, NEW c \in Index, NEW d, p # c
    PROVE  0 \in 0..(InRing(p, c) - 1) /\ Entries(p, c, d)[0] = d[c % RingSize]
<1>1. InRing(p, c) \in Index /\ InRing(p, c) # 0
  BY InRingIs
<1>2. 0 \in 0..(InRing(p, c) - 1)
  BY <1>1, RingFacts DEF Index
<1>3. c + 0 = c
  BY RingFacts DEF Index
<1> QED BY <1>2, <1>3 DEF Entries

(* The entries after the consumer moved on.                                *)
LEMMA EntriesPop ==
    ASSUME NEW p \in Index, NEW c \in Index, p # c, InRing(p, c) <= RingSize,
           NEW d, NEW e, \A s \in Slot : s # c % RingSize => e[s] = d[s]
    PROVE  /\ InRing(p, (c + 1) % Wrap) = InRing(p, c) - 1
           /\ DOMAIN Entries(p, (c + 1) % Wrap, e) = 0..(InRing(p, c) - 2)
           /\ \A i \in 0..(InRing(p, c) - 2) :
                  Entries(p, (c + 1) % Wrap, e)[i] = Entries(p, c, d)[i + 1]
<1> DEFINE n == InRing(p, c)
           b == (c + 1) % Wrap
<1>1. n \in Nat \ {0} /\ RingSize \in Nat \ {0} /\ c \in Int
  BY InRingIs, RingFacts DEF Index
<1>2. InRing(p, b) = n - 1
  BY Consume
<1> HIDE DEF n, b
<1>3. n - 1 - 1 = n - 2
  BY <1>1
<1>4. DOMAIN Entries(p, b, e) = 0..(n - 2)
  BY <1>2, <1>3, EntryAt
<1>5. ASSUME NEW i \in 0..(n - 2)
      PROVE  Entries(p, b, e)[i] = Entries(p, c, d)[i + 1]
  <2>1. i \in Int /\ i + 1 \in 1..(n - 1) /\ i + 1 \in 0..(n - 1) /\ i + 1 < 0 + RingSize
    BY <1>1, InRing(p, c) <= RingSize DEF n
  <2>2. Entries(p, b, e)[i] = e[SlotAt(b, i)]
    BY <1>2, <1>3, EntryAt
  <2>3. SlotAt(b, i) = SlotAt(c, i + 1)
    BY <2>1, SlotOfNext DEF b
  <2>4. SlotAt(c, i + 1) \in Slot
    BY <1>1, <2>1, SlotAtIsSlot
  <2>5. SlotAt(c, i + 1) # SlotAt(c, 0) /\ SlotAt(c, 0) = c % RingSize
    <3>1. 0 < i + 1 /\ 0 \in Int /\ i + 1 \in Int /\ c + 0 = c
      BY <1>1, <2>1
    <3>2. SlotAt(c, 0) # SlotAt(c, i + 1)
      BY <1>1, <2>1, <3>1, SlotsDiffer
    <3> QED BY <3>1, <3>2 DEF SlotAt
  <2>6. e[SlotAt(c, i + 1)] = d[SlotAt(c, i + 1)]
    BY <2>4, <2>5
  <2>7. Entries(p, c, d)[i + 1] = d[SlotAt(c, i + 1)]
    BY <2>1, EntryAt DEF n
  <2> QED BY <2>2, <2>3, <2>6, <2>7
<1> QED BY <1>2, <1>4, <1>5 DEF n, b

(* The producer writes a slot that no entry is in.                         *)
LEMMA PushedSlot ==
    ASSUME NEW p \in Index, NEW c \in Index, NEW n \in Nat, n = InRing(p, c), n < RingSize,
           NEW q, q = (p + 1) % Wrap
    PROVE  /\ q \in Index /\ InRing(q, c) = n + 1
           /\ p % RingSize = SlotAt(c, n) /\ p % RingSize \in Slot
           /\ \A i \in 0..(n - 1) : SlotAt(c, i) \in Slot /\ SlotAt(c, i) # p % RingSize
<1>1. RingSize \in Nat \ {0} /\ c \in Int /\ n + 1 < Wrap /\ 1 \in Index /\ p \in Int
  BY RingFacts DEF Index
<1>2. q \in Index
  BY <1>1, NextIndex
<1>3. InRing(q, c) = n + 1
  BY <1>1, Produce
<1>4. p % RingSize = SlotAt(c, n) /\ p % RingSize \in Slot
  <2>1. SlotAt(p, 0) = SlotAt(c, n + 0) /\ n + 0 = n /\ p + 0 = p
    BY <1>1, SlotOfProducer
  <2> QED BY <1>1, <2>1, SlotAtIsSlot DEF SlotAt
<1>5. ASSUME NEW i \in 0..(n - 1)
      PROVE  SlotAt(c, i) \in Slot /\ SlotAt(c, i) # p % RingSize
  <2>1. i \in Int /\ n \in Int /\ i < n /\ n < i + RingSize
    BY <1>1
  <2> QED BY <1>1, <1>4, <2>1, SlotsDiffer, SlotAtIsSlot
<1> QED BY <1>2, <1>3, <1>4, <1>5

(* The entries after the producer wrote one.                               *)
LEMMA EntriesPush ==
    ASSUME NEW p \in Index, NEW c \in Index, NEW n \in Nat, n = InRing(p, c), n < RingSize,
           NEW q, q = (p + 1) % Wrap, NEW e
    PROVE  /\ q \in Index /\ InRing(q, c) = n + 1
           /\ DOMAIN Entries(q, c, e) = 0..n
           /\ Entries(q, c, e)[n] = e[p % RingSize]
<1>1. /\ q \in Index /\ InRing(q, c) = n + 1 /\ n + 1 - 1 = n /\ n \in 0..n
      /\ p % RingSize = SlotAt(c, n)
  BY PushedSlot
<1>2. DOMAIN Entries(q, c, e) = 0..(InRing(q, c) - 1)
  BY EntryAt
<1>3. \A i \in 0..(InRing(q, c) - 1) : Entries(q, c, e)[i] = e[SlotAt(c, i)]
  BY EntryAt
<1> QED BY <1>1, <1>2, <1>3

(* The entries before it are as they were.                                 *)
LEMMA EntryStays ==
    ASSUME NEW p \in Index, NEW c \in Index, NEW n \in Nat, n = InRing(p, c), n < RingSize,
           NEW q, q = (p + 1) % Wrap,
           NEW d, NEW e, \A s \in Slot : s # p % RingSize => e[s] = d[s],
           NEW i \in 0..(n - 1)
    PROVE  Entries(q, c, e)[i] = Entries(p, c, d)[i]
<1>1. i \in 0..n /\ InRing(q, c) = n + 1 /\ n + 1 - 1 = n
  BY PushedSlot
<1>2. SlotAt(c, i) \in Slot /\ SlotAt(c, i) # p % RingSize
  BY PushedSlot
<1>3. \A j \in 0..(InRing(q, c) - 1) : Entries(q, c, e)[j] = e[SlotAt(c, j)]
  BY EntryAt
<1>4. \A j \in 0..(InRing(p, c) - 1) : Entries(p, c, d)[j] = d[SlotAt(c, j)]
  BY EntryAt
<1> QED BY <1>1, <1>2, <1>3, <1>4

(* The entries after the producer wrote k.                                 *)
LEMMA EntriesFill ==
    ASSUME NEW p \in Index, NEW c \in Index, NEW n \in Nat, n = InRing(p, c),
           NEW k \in Nat, n + k <= RingSize, NEW q, q = (p + k) % Wrap, NEW e
    PROVE  /\ q \in Index /\ InRing(q, c) = n + k
           /\ DOMAIN Entries(q, c, e) = 0..(n + k - 1)
<1>1. k \in Index /\ n + k < Wrap /\ RingSize \in Nat
  BY RingFacts DEF Index
<1>2. q \in Index
  BY <1>1, NextIndex
<1>3. InRing(q, c) = n + k
  BY <1>1, Produce
<1>4. DOMAIN Entries(q, c, e) = 0..(InRing(q, c) - 1)
  BY EntryAt
<1> QED BY <1>2, <1>3, <1>4

(* The k slots from the producer's on hold the last of h, last one first.  *)
Filled(e, d, p, k, h, m) ==
    \A s \in Slot : e[s] = IF (s - p) % RingSize < k THEN h[m - ((s - p) % RingSize)]
                                                      ELSE d[s]

(* Each of them: an old one, or one taken from the end of h.               *)
LEMMA FilledEntry ==
    ASSUME NEW p \in Index, NEW c \in Index, NEW n \in Nat, n = InRing(p, c),
           NEW k \in Nat, n + k <= RingSize, NEW q, q = (p + k) % Wrap,
           NEW d, NEW h, NEW m \in Int, NEW e,
           Filled(e, d, p, k, h, m), NEW i \in 0..(n + k - 1)
    PROVE  Entries(q, c, e)[i] = IF i < n THEN Entries(p, c, d)[i] ELSE h[m - (i - n)]
<1>1. RingSize \in Nat \ {0} /\ c \in Int /\ n <= RingSize
  BY RingFacts DEF Index
<1>2. Entries(q, c, e)[i] = e[SlotAt(c, i)]
  <2>1. \A j \in 0..(InRing(q, c) - 1) : Entries(q, c, e)[j] = e[SlotAt(c, j)]
    BY EntryAt
  <2>2. InRing(q, c) = n + k
    BY EntriesFill
  <2> QED BY <2>1, <2>2
<1>3. i < n => Entries(p, c, d)[i] = d[SlotAt(c, i)]
  <2>1. \A j \in 0..(InRing(p, c) - 1) : Entries(p, c, d)[j] = d[SlotAt(c, j)]
    BY EntryAt
  <2> QED BY <2>1
<1>4. e[SlotAt(c, i)] = IF i < n THEN d[SlotAt(c, i)] ELSE h[m - (i - n)]
  <2>1. i \in Int /\ 0 <= i /\ i < n + RingSize
    BY <1>1
  <2>2. SlotAt(c, i) \in Slot
    BY <1>1, <2>1, SlotAtIsSlot
  <2>3. PICK a \in Int : /\ a = (SlotAt(c, i) - p) % RingSize
                         /\ a = IF i >= n THEN i - n ELSE i - n + RingSize
    <3>1. (SlotAt(c, i) - p) % RingSize = IF i >= n THEN i - n ELSE i - n + RingSize
      BY <1>1, <2>1, AheadOfProducer
    <3>2. (IF i >= n THEN i - n ELSE i - n + RingSize) \in Int
      BY <1>1, <2>1
    <3> QED BY <3>1, <3>2
  <2>4. e[SlotAt(c, i)] = IF a < k THEN h[m - a] ELSE d[SlotAt(c, i)]
    BY <2>2, <2>3 DEF Filled
  <2>5. CASE i < n
    <3>1. ~(a < k)
      BY <1>1, <2>1, <2>3, <2>5
    <3> QED BY <2>4, <2>5, <3>1
  <2>6. CASE ~(i < n)
    <3>1. a < k /\ a = i - n
      BY <1>1, <2>1, <2>3, <2>6
    <3> QED BY <2>4, <2>6, <3>1
  <2> QED BY <2>5, <2>6
<1> QED BY <1>2, <1>3, <1>4

---------------------------------------------------------------------------
(* The inductive invariant.                                                *)

FillCount == InRing(fillProd, fillCons)
RxCount == InRing(rxProd, rxCons)
RxEntries == Entries(rxProd, rxCons, rxDesc)

(* The frames in each of the five places.                                  *)
InFill == Listed(FillFrames)
InKernel == Listed(kernel)
InRx == {RxFrames[i] : i \in UnreadFrames}
OnStack == Listed(free)
InHand == {held.frame} \ {NoFrame}

Returns == {"loop", "poll", "again", "found", "advance"}

PathTypes ==
    /\ fillProd \in Index /\ fillCons \in Index /\ rxProd \in Index /\ rxCons \in Index
    /\ seen \in Index
    /\ fillDesc \in [Slot -> Frame \cup {NoFrame}]
    /\ rxDesc \in [Slot -> [frame : Frame \cup {NoFrame}, kind : Kind]]
    /\ free \in Seq(Frame) /\ kernel \in Seq(Frame) /\ content \in [Frame -> 0..MaxPackets]
    /\ held \in [frame : Frame \cup {NoFrame}, kind : Kind]
    /\ tries \in 0..3 /\ attempts \in 0..3 /\ running \in BOOLEAN /\ gwRunning \in BOOLEAN
    /\ kinds \in Seq(Kind) /\ Len(kinds) <= MaxPackets /\ copied \in Seq(Nat)

(* The reader has a descriptor before it where it says so, a frame in its  *)
(* hand exactly while it recycles one, and an old view of the fill ring.   *)
ReaderOK ==
    /\ next \in Returns
    /\ FillCount <= RingSize /\ RxCount <= RingSize /\ RxCount <= Len(kinds)
    /\ at = "descriptor" \/ Copied => RxCount > 0
    /\ held.frame # NoFrame <=> at = "recycle"
    /\ at = "fill" => FillCount <= InRing(fillProd, seen)

RxOK ==
    \A i \in 0..(RxCount - 1) :
        /\ RxEntries[i].kind = kinds[Consumed + i + 1]
        /\ RxEntries[i].frame = NoFrame <=> RxEntries[i].kind = "corrupt"

Apart ==
    /\ NoTwice(FillFrames) /\ NoTwice(kernel) /\ NoTwice(free)
    /\ \A i, j \in UnreadFrames : i # j => RxFrames[i] # RxFrames[j]
    /\ InFill \subseteq Frame
    /\ InFill \cap InKernel = {} /\ InFill \cap InRx = {} /\ InFill \cap OnStack = {}
    /\ InFill \cap InHand = {} /\ InKernel \cap InRx = {} /\ InKernel \cap OnStack = {}
    /\ InKernel \cap InHand = {} /\ InRx \cap OnStack = {} /\ InRx \cap InHand = {}
    /\ OnStack \cap InHand = {}

Counted ==
    FillCount + Len(kernel) + Cardinality(UnreadFrames) + Len(free) + Cardinality(InHand)
        = 2 * RingSize - Lost

(* What is in the frames that were not read yet.                           *)
Intact == \A i \in UnreadFrames : content[RxFrames[i]] = Consumed + i + 1

PathInvariant ==
    PathTypes /\ ReaderOK /\ RxOK /\ Apart /\ Counted /\ Intact /\ PacketsCopiedOnce

---------------------------------------------------------------------------
(* What the rings of the path hold.                                        *)
LEMMA RingContents ==
    ASSUME PathTypes
    PROVE  /\ FillFrames = Entries(fillProd, fillCons, fillDesc)
           /\ FillCount \in Nat /\ FillCount < Wrap /\ DOMAIN FillFrames = 0..(FillCount - 1)
           /\ RxCount \in Nat /\ RxCount < Wrap
           /\ DOMAIN RxFrames = 0..(RxCount - 1) /\ DOMAIN RxEntries = 0..(RxCount - 1)
           /\ \A i \in 0..(RxCount - 1) : RxFrames[i] = RxEntries[i].frame
           /\ UnreadFrames \subseteq 0..(RxCount - 1) /\ IsFiniteSet(UnreadFrames)
<1>1. FillFrames = Entries(fillProd, fillCons, fillDesc)
  BY DEF FillFrames, Entries
<1>2. FillCount \in Index /\ RxCount \in Index
  BY InRingIs DEF PathTypes, FillCount, RxCount
<1>3. FillCount \in Nat /\ FillCount < Wrap /\ RxCount \in Nat /\ RxCount < Wrap
  BY <1>2, RingFacts DEF Index
<1>4. DOMAIN FillFrames = 0..(FillCount - 1)
  BY DEF FillFrames, FillCount
<1>5. DOMAIN RxFrames = 0..(RxCount - 1) /\ DOMAIN RxEntries = 0..(RxCount - 1)
  BY DEF RxFrames, RxEntries, Entries, RxCount
<1>6. \A i \in 0..(RxCount - 1) : RxFrames[i] = RxEntries[i].frame
  BY DEF RxFrames, RxEntries, Entries, RxCount
<1>7. UnreadFrames \subseteq 0..(RxCount - 1)
  BY <1>5 DEF UnreadFrames
<1>8. IsFiniteSet(UnreadFrames)
  <2>1. 0 \in Int /\ RxCount - 1 \in Int
    BY <1>3
  <2>2. IsFiniteSet(0..(RxCount - 1))
    BY <2>1, FS_Interval
  <2> QED BY <1>7, <2>2, FS_Subset
<1> QED BY <1>1, <1>3, <1>4, <1>5, <1>6, <1>7, <1>8

(* The reader has at most one frame in its hand.                           *)
LEMMA HandCount ==
    /\ held.frame = NoFrame => InHand = {} /\ Cardinality(InHand) = 0
    /\ held.frame # NoFrame => InHand = {held.frame} /\ Cardinality(InHand) = 1
<1>1. CASE held.frame = NoFrame
  <2>1. InHand = {}
    BY <1>1 DEF InHand
  <2> QED BY <1>1, <2>1, FS_EmptySet
<1>2. CASE held.frame # NoFrame
  <2>1. InHand = {held.frame}
    BY <1>2 DEF InHand
  <2> QED BY <1>2, <2>1, FS_Singleton
<1> QED BY <1>1, <1>2

(* The corrupt packets are counted by a number.                            *)
LEMMA LostCount ==
    ASSUME kinds \in Seq(Kind)
    PROVE  Lost \in Nat /\ IsFiniteSet({i \in DOMAIN kinds : kinds[i] = "corrupt"})
<1>1. DOMAIN kinds = 1..Len(kinds) /\ Len(kinds) \in Int /\ 1 \in Int
  OBVIOUS
<1>2. IsFiniteSet(1..Len(kinds))
  BY <1>1, FS_Interval
<1>3. IsFiniteSet({i \in DOMAIN kinds : kinds[i] = "corrupt"})
  BY <1>1, <1>2, FS_Subset
<1> QED BY <1>3, FS_CardinalityType DEF Lost

(* So are the frames of unread packets.                                    *)
LEMMA UnreadCount ==
    ASSUME PathTypes
    PROVE  Cardinality(UnreadFrames) \in Nat
BY RingContents, FS_CardinalityType

(* Steps that leave the rings and the frames alone.                        *)
LEMMA FramesStay ==
    ASSUME UNCHANGED <<ringVars, frameVars, held>>, Copied' = Copied
    PROVE  /\ RxOK => RxOK'
           /\ Apart => Apart'
           /\ Counted => Counted'
           /\ Intact => Intact'
           /\ copied' = copied /\ PacketsCopiedOnce => PacketsCopiedOnce'
           /\ FillCount' = FillCount /\ RxCount' = RxCount
<1> USE DEF ringVars, frameVars
<1>1. /\ FillFrames' = FillFrames /\ RxFrames' = RxFrames /\ RxEntries' = RxEntries
      /\ FillCount' = FillCount /\ RxCount' = RxCount /\ Consumed' = Consumed
  BY DEF FillFrames, RxFrames, RxEntries, Entries, FillCount, RxCount, Consumed, InRing
<1>2. UnreadFrames' = UnreadFrames
  BY <1>1 DEF UnreadFrames
<1>3. /\ InFill' = InFill /\ InKernel' = InKernel /\ InRx' = InRx /\ OnStack' = OnStack
      /\ InHand' = InHand /\ Lost' = Lost
  BY <1>1, <1>2 DEF InFill, InKernel, InRx, OnStack, InHand, Listed, Lost
<1>4. RxOK => RxOK'
  BY <1>1 DEF RxOK
<1>5. Apart => Apart'
  BY <1>1, <1>2, <1>3 DEF Apart, NoTwice
<1>6. Counted => Counted'
  BY <1>1, <1>2, <1>3 DEF Counted
<1>7. Intact => Intact'
  BY <1>1, <1>2 DEF Intact
<1>8. copied' = copied => (PacketsCopiedOnce => PacketsCopiedOnce')
  BY <1>1 DEF PacketsCopiedOnce
<1> QED BY <1>1, <1>4, <1>5, <1>6, <1>7, <1>8

(* Frames are counted, and no frame is not one.                            *)
LEMMA FrameFacts ==
    /\ Frame = 0..(2 * RingSize - 1) /\ NoFrame \notin Frame /\ Slot = 0..(RingSize - 1)
    /\ IsFiniteSet(Frame) /\ Cardinality(Frame) = 2 * RingSize
<1>1. RingSize \in Nat \ {0}
  BY RingFacts
<1>2. 0 \in Int /\ 2 * RingSize - 1 \in Int
  BY <1>1
<1>3. IsFiniteSet(0..(2 * RingSize - 1)) /\ Cardinality(0..(2 * RingSize - 1)) = 2 * RingSize
  BY <1>1, <1>2, FS_Interval
<1> QED BY <1>1, <1>3 DEF Frame, NoFrame, Slot

(* The invariant holds after the constructor.                              *)
LEMMA PathStarts == PathInit => PathInvariant
<1> SUFFICES ASSUME PathInit PROVE PathInvariant
  OBVIOUS
<1>1. RingSize \in Nat \ {0} /\ Wrap \in Nat /\ RingSize < Wrap /\ MaxPackets \in Nat
  BY RingFacts, RingsAssumption
<1>2. free \in Seq(Frame) /\ Len(free) = RingSize /\ \A i \in 1..RingSize : free[i] = i - 1
  <2>1. ASSUME NEW i \in 1..RingSize PROVE i - 1 \in Frame
    BY <1>1, FrameFacts
  <2> QED BY <1>1, <2>1 DEF PathInit
<1>3. PathTypes
  <2>1. Nothing \in [frame : Frame \cup {NoFrame}, kind : Kind]
    BY DEF Nothing, Kind
  <2>2. fillDesc \in [Slot -> Frame \cup {NoFrame}]
    <3>1. ASSUME NEW s \in Slot PROVE 2 * RingSize - 1 - s \in Frame
      BY <1>1, FrameFacts
    <3> QED BY <3>1 DEF PathInit
  <2>3. content \in [Frame -> 0..MaxPackets]
    BY <1>1 DEF PathInit
  <2> QED BY <1>1, <1>2, <2>1, <2>2, <2>3 DEF PathInit, PathTypes, Index
<1>4. FillCount = RingSize /\ RxCount = 0 /\ Consumed = 0
  <2>1. FillCount = RingSize
    BY <1>3, <1>1, InRingIs DEF PathInit, FillCount, PathTypes
  <2>2. RxCount = 0
    BY <1>3, InRingIs DEF PathInit, RxCount, PathTypes
  <2> QED BY <2>1, <2>2 DEF PathInit, Consumed, RxCount
<1>5. ~Copied /\ UnreadFrames = {} /\ InRx = {}
  <2>1. ~Copied
    BY DEF PathInit, Copied
  <2>2. UnreadFrames = {}
    BY <1>3, <1>4, RingContents
  <2> QED BY <2>1, <2>2 DEF InRx
<1>6. ReaderOK
  BY <1>1, <1>4, <1>5 DEF PathInit, ReaderOK, Returns, Nothing
<1>7. RxOK /\ Intact
  BY <1>4, <1>5 DEF RxOK, Intact
<1>8. ASSUME NEW i \in DOMAIN FillFrames
      PROVE  i \in 0..(RingSize - 1) /\ FillFrames[i] = 2 * RingSize - 1 - i
  <2>1. i \in 0..(RingSize - 1)
    BY <1>3, <1>4, RingContents
  <2>2. FillFrames[i] = fillDesc[(fillCons + i) % RingSize] /\ fillCons + i = i
    BY <2>1 DEF FillFrames, PathInit
  <2>3. i % RingSize = i
    <3>1. i = RingSize * 0 + i /\ i \in Int /\ 0 \in Int
      BY <1>1, <2>1
    <3> QED BY <1>1, <2>1, <3>1, RemainderIs
  <2> QED BY <2>1, <2>2, <2>3, FrameFacts DEF PathInit
<1>9. InKernel = {} /\ InHand = {} /\ Cardinality(InHand) = 0 /\ Len(kernel) = 0
  <2>1. kernel = <<>> /\ held.frame = NoFrame
    BY DEF PathInit, Nothing
  <2> QED BY <2>1, HandCount DEF InKernel, Listed
<1>10. ASSUME NEW x \in InFill PROVE x \in RingSize..(2 * RingSize - 1)
  <2>1. PICK i \in DOMAIN FillFrames : x = FillFrames[i]
    BY DEF InFill, Listed
  <2> QED BY <1>1, <1>8, <2>1
<1>11. ASSUME NEW x \in OnStack PROVE x \in 0..(RingSize - 1)
  BY <1>1, <1>2, <1>11 DEF OnStack, Listed
<1>12. Apart
  <2>1. NoTwice(FillFrames)
    BY <1>1, <1>8 DEF NoTwice
  <2>2. NoTwice(kernel)
    BY DEF NoTwice, PathInit
  <2>3. NoTwice(free)
    BY <1>1, <1>2 DEF NoTwice
  <2>4. InFill \subseteq Frame /\ InFill \cap OnStack = {}
    BY <1>1, <1>10, <1>11, FrameFacts
  <2> QED BY <1>5, <1>9, <2>1, <2>2, <2>3, <2>4 DEF Apart
<1>13. Counted
  <2>1. Lost = 0
    <3>1. {i \in DOMAIN kinds : kinds[i] = "corrupt"} = {}
      BY DEF PathInit
    <3> QED BY <3>1, FS_EmptySet DEF Lost
  <2>2. Cardinality(UnreadFrames) = 0
    BY <1>5, FS_EmptySet
  <2> QED BY <1>1, <1>2, <1>4, <1>9, <2>1, <2>2 DEF Counted
<1>14. PacketsCopiedOnce
  BY <1>4, <1>5 DEF PacketsCopiedOnce, PathInit
<1> QED BY <1>3, <1>6, <1>7, <1>12, <1>13, <1>14 DEF PathInvariant

(* The entries after the consumer moved on, when it writes nothing.        *)
LEMMA EntriesMove ==
    ASSUME NEW p \in Index, NEW c \in Index, p # c, InRing(p, c) <= RingSize, NEW d
    PROVE  /\ InRing(p, (c + 1) % Wrap) = InRing(p, c) - 1
           /\ DOMAIN Entries(p, (c + 1) % Wrap, d) = 0..(InRing(p, c) - 2)
           /\ \A i \in 0..(InRing(p, c) - 2) :
                  Entries(p, (c + 1) % Wrap, d)[i] = Entries(p, c, d)[i + 1]
<1>1. PICK e : e = d
  OBVIOUS
<1>2. \A s \in Slot : s # c % RingSize => e[s] = d[s]
  BY <1>1
<1>3. InRing(p, (c + 1) % Wrap) = InRing(p, c) - 1
  BY <1>2, EntriesPop
<1>4. DOMAIN Entries(p, (c + 1) % Wrap, e) = 0..(InRing(p, c) - 2)
  BY <1>2, EntriesPop, ZenonT(30)
<1>5. \A i \in 0..(InRing(p, c) - 2) :
          Entries(p, (c + 1) % Wrap, e)[i] = Entries(p, c, d)[i + 1]
  BY <1>2, EntriesPop
<1> QED BY <1>1, <1>3, <1>4, <1>5

(* A descriptor is read: the ones behind it move up, and its frame, if it  *)
(* is in the ring, is no longer.                                           *)
LEMMA RxMoves ==
    ASSUME PathInvariant, RxCount > 0, rxCons' = (rxCons + 1) % Wrap,
           UNCHANGED <<rxProd, rxDesc, kinds>>, ~Copied'
    PROVE  /\ rxCons' \in Index /\ RxCount' = RxCount - 1 /\ Consumed' = Consumed + 1
           /\ RxOK'
           /\ InRx' = {RxFrames[i] : i \in UnreadFrames \ {0}}
           /\ Cardinality(UnreadFrames') = Cardinality(UnreadFrames \ {0})
           /\ (\A i, j \in UnreadFrames : i # j => RxFrames[i] # RxFrames[j])'
           /\ \A i \in UnreadFrames' : i + 1 \in UnreadFrames \ {0} /\ RxFrames'[i] = RxFrames[i + 1]
<1>0. PathTypes /\ RxCount <= RingSize /\ RxCount <= Len(kinds) /\ RxOK /\ Len(kinds) \in Nat
  BY DEF PathInvariant, ReaderOK, PathTypes
<1>1. rxProd \in Index /\ rxCons \in Index /\ rxProd # rxCons /\ RxCount \in Nat
  BY <1>0, InRingIs, RingContents DEF PathTypes, RxCount
<1>2. /\ RxCount' = RxCount - 1 /\ rxCons' \in Index
      /\ DOMAIN RxEntries' = 0..(RxCount - 2)
      /\ \A i \in 0..(RxCount - 2) : RxEntries'[i] = RxEntries[i + 1]
  <2>1. RxEntries' = Entries(rxProd, (rxCons + 1) % Wrap, rxDesc) /\ RxCount' = InRing(rxProd, (rxCons + 1) % Wrap)
    BY DEF RxEntries, RxCount, Entries, InRing
  <2>2. InRing(rxProd, rxCons) <= RingSize
    BY <1>0 DEF RxCount
  <2>3. /\ InRing(rxProd, (rxCons + 1) % Wrap) = RxCount - 1
        /\ DOMAIN Entries(rxProd, (rxCons + 1) % Wrap, rxDesc) = 0..(RxCount - 2)
        /\ \A i \in 0..(RxCount - 2) :
               Entries(rxProd, (rxCons + 1) % Wrap, rxDesc)[i] = RxEntries[i + 1]
    <3>2. /\ InRing(rxProd, (rxCons + 1) % Wrap) = InRing(rxProd, rxCons) - 1
          /\ DOMAIN Entries(rxProd, (rxCons + 1) % Wrap, rxDesc) = 0..(InRing(rxProd, rxCons) - 2)
          /\ \A i \in 0..(InRing(rxProd, rxCons) - 2) :
                 Entries(rxProd, (rxCons + 1) % Wrap, rxDesc)[i] =
                     Entries(rxProd, rxCons, rxDesc)[i + 1]
      BY <1>1, <2>2, EntriesMove
    <3> QED BY <3>2 DEF RxCount, RxEntries
  <2>4. rxCons' \in Index
    BY <1>1, Consume
  <2> QED BY <2>1, <2>3, <2>4
<1>3. Consumed' = Consumed + 1
  <2>1. Consumed = Len(kinds) - RxCount /\ Consumed' = Len(kinds) - RxCount'
    BY DEF Consumed, RxCount
  <2> QED BY <1>0, <1>1, <1>2, <2>1
<1>4. Consumed \in Nat
  BY <1>0, <1>1 DEF Consumed, RxCount
<1>5. RxOK'
  <2> SUFFICES ASSUME NEW i \in 0..(RxCount' - 1)
               PROVE  /\ RxEntries'[i].kind = kinds'[Consumed' + i + 1]
                      /\ RxEntries'[i].frame = NoFrame <=> RxEntries'[i].kind = "corrupt"
    BY DEF RxOK
  <2>1. i + 1 \in 0..(RxCount - 1) /\ i \in 0..(RxCount - 2) /\ Consumed + (i + 1) + 1 = Consumed' + i + 1
    BY <1>1, <1>2, <1>3, <1>4
  <2>2. RxEntries'[i] = RxEntries[i + 1]
    BY <1>2, <2>1
  <2>3. /\ RxEntries[i + 1].kind = kinds[Consumed + (i + 1) + 1]
        /\ RxEntries[i + 1].frame = NoFrame <=> RxEntries[i + 1].kind = "corrupt"
    BY <1>0, <2>1 DEF RxOK
  <2> QED BY <2>1, <2>2, <2>3
<1>6. \A i \in 0..(RxCount - 2) : RxFrames'[i] = RxFrames[i + 1]
  <2> SUFFICES ASSUME NEW i \in 0..(RxCount - 2) PROVE RxFrames'[i] = RxFrames[i + 1]
    OBVIOUS
  <2>1. RxFrames' = [j \in 0..RxCount' - 1 |-> RxEntries'[j].frame]
    BY DEF RxFrames, RxEntries, Entries, RxCount
  <2>2. RxFrames[i + 1] = RxEntries[i + 1].frame
    BY <1>0, <1>1, RingContents
  <2>3. i \in 0..RxCount' - 1
    BY <1>1, <1>2
  <2> QED BY <1>2, <2>1, <2>2, <2>3
<1>7. DOMAIN RxFrames' = 0..(RxCount - 2)
  BY <1>1, <1>2 DEF RxFrames, RxCount
<1>8. UnreadFrames \subseteq 0..(RxCount - 1) /\ DOMAIN RxFrames = 0..(RxCount - 1)
  BY <1>0, RingContents
<1>9. UnreadFrames' = {i \in 0..(RxCount - 2) : i + 1 \in UnreadFrames \ {0}}
  <2>1. UnreadFrames' = {i \in DOMAIN RxFrames' : RxFrames'[i] # NoFrame}
    BY DEF UnreadFrames
  <2>2. ASSUME NEW i \in 0..(RxCount - 2)
        PROVE  RxFrames'[i] # NoFrame <=> i + 1 \in UnreadFrames \ {0}
    <3>1. i + 1 \in 0..(RxCount - 1) /\ i + 1 # 0
      BY <1>1
    <3>2. i + 1 \in UnreadFrames <=> RxFrames[i + 1] # NoFrame
      BY <1>8, <3>1 DEF UnreadFrames
    <3> QED BY <1>6, <3>1, <3>2
  <2> QED BY <1>7, <2>1, <2>2
<1>10. /\ \A i, j \in UnreadFrames' : i # j => RxFrames'[i] # RxFrames'[j]
       /\ {RxFrames'[i] : i \in UnreadFrames'} = {RxFrames[i] : i \in UnreadFrames \ {0}}
       /\ Cardinality(UnreadFrames') = Cardinality(UnreadFrames \ {0})
  <2>1. UnreadFrames \ {0} \in SUBSET (1..(RxCount - 1))
    BY <1>1, <1>8
  <2>2. \A i, j \in UnreadFrames \ {0} : i # j => RxFrames[i] # RxFrames[j]
    BY DEF PathInvariant, Apart
  <2>3. RxCount \in Nat \ {0}
    BY <1>1
  <2> QED BY <1>6, <1>9, <2>1, <2>2, <2>3, PartMoves
<1>11. InRx' = {RxFrames'[i] : i \in UnreadFrames'}
  BY DEF InRx
<1>12. \A i \in UnreadFrames' : i + 1 \in UnreadFrames \ {0} /\ RxFrames'[i] = RxFrames[i + 1]
  BY <1>6, <1>9
<1> QED BY <1>2, <1>3, <1>5, <1>10, <1>11, <1>12

(* Steps that leave the RX ring alone.                                     *)
LEMMA RxStays ==
    ASSUME UNCHANGED <<rxProd, rxCons, rxDesc, kinds>>, Copied' = Copied
    PROVE  /\ RxCount' = RxCount /\ Consumed' = Consumed /\ Lost' = Lost /\ InRx' = InRx
           /\ UnreadFrames' = UnreadFrames /\ RxFrames' = RxFrames
           /\ RxOK => RxOK'
           /\ copied' = copied /\ PacketsCopiedOnce => PacketsCopiedOnce'
<1>1. /\ RxFrames' = RxFrames /\ RxEntries' = RxEntries /\ RxCount' = RxCount
      /\ Consumed' = Consumed /\ Lost' = Lost
  BY DEF RxFrames, RxEntries, Entries, RxCount, Consumed, InRing, Lost
<1>2. UnreadFrames' = UnreadFrames
  BY <1>1 DEF UnreadFrames
<1>3. InRx' = InRx
  BY <1>1, <1>2 DEF InRx
<1>4. RxOK => RxOK'
  BY <1>1 DEF RxOK
<1>5. copied' = copied => (PacketsCopiedOnce => PacketsCopiedOnce')
  BY <1>1 DEF PacketsCopiedOnce
<1> QED BY <1>1, <1>2, <1>3, <1>4, <1>5

(* Steps that leave the fill ring alone.                                   *)
LEMMA FillStays ==
    ASSUME UNCHANGED <<fillProd, fillCons, fillDesc>>
    PROVE  FillFrames' = FillFrames /\ FillCount' = FillCount /\ InFill' = InFill
BY DEF FillFrames, FillCount, InFill, Listed, InRing

(* The invariant in parts, for the steps below.                            *)
LEMMA Parts ==
    ASSUME PathInvariant
    PROVE  /\ PathTypes /\ ReaderOK /\ RxOK /\ Apart /\ Counted /\ Intact /\ PacketsCopiedOnce
           /\ FillCount \in Nat /\ RxCount \in Nat /\ Consumed \in Nat
           /\ Len(kinds) \in Nat /\ Consumed + RxCount = Len(kinds)
           /\ Cardinality(UnreadFrames) \in Nat /\ Lost \in Nat
           /\ Len(free) \in Nat /\ Len(kernel) \in Nat
           /\ RingSize \in Nat \ {0}
<1>1. PathTypes /\ ReaderOK /\ RxOK /\ Apart /\ Counted /\ Intact /\ PacketsCopiedOnce
  BY DEF PathInvariant
<1>2. /\ kinds \in Seq(Kind) /\ Len(kinds) \in Nat /\ Len(free) \in Nat /\ Len(kernel) \in Nat
      /\ RxCount <= Len(kinds)
  BY <1>1 DEF PathTypes, ReaderOK
<1>3. FillCount \in Nat /\ RxCount \in Nat
  BY <1>1, RingContents
<1>4. Consumed \in Nat /\ Consumed + RxCount = Len(kinds)
  BY <1>2, <1>3 DEF Consumed, RxCount
<1>5. Cardinality(UnreadFrames) \in Nat /\ Lost \in Nat
  BY <1>1, <1>2, UnreadCount, LostCount
<1> QED BY <1>1, <1>2, <1>3, <1>4, <1>5, RingFacts

(* A step that moves neither frames nor indices.                           *)
LEMMA QuietKeeps ==
    ASSUME PathInvariant, UNCHANGED <<ringVars, frameVars, held, copied>>, Copied' = Copied,
           PathTypes', next' \in Returns,
           at' = "descriptor" => RxCount > 0,
           at' = "recycle" <=> at = "recycle",
           at' = "fill" => FillCount <= InRing(fillProd, seen')
    PROVE  PathInvariant'
<1>1. /\ RxOK' /\ Apart' /\ Counted' /\ Intact' /\ PacketsCopiedOnce'
      /\ FillCount' = FillCount /\ RxCount' = RxCount
  BY FramesStay, Parts
<1>2. ReaderOK'
  BY <1>1, Parts DEF ReaderOK, ringVars, frameVars
<1> QED BY <1>1, <1>2 DEF PathInvariant

Quiet ==
    \/ ReaderLoop \/ LazyStart \/ ListenerStopped \/ Caught \/ ReadIndices \/ Recheck
    \/ RefillAgain \/ ParsePacket \/ RecycleAgain \/ RefillLook \/ Stop \/ UNCHANGED pathVars

(* The comparison of the indices finds only what is there.                 *)
LEMMA UnreadIsThere ==
    ASSUME PathTypes, Unread
    PROVE  RxCount > 0
<1>1. rxProd \in Index /\ rxCons \in Index /\ rxProd # rxCons
  BY RingFacts DEF PathTypes, Index, Unread
<1>2. RxCount # 0 /\ RxCount \in Nat
  BY <1>1, InRingIs, RingContents DEF RxCount
<1> QED BY <1>2

(* None of these steps breaks the invariant.                               *)
LEMMA QuietStep ==
    ASSUME PathInvariant, Quiet
    PROVE  PathInvariant'
<1> USE DEF readerVars, stopVars, Refill, Returns
<1>1. PathTypes /\ ReaderOK
  BY Parts
<1>2. CASE ReaderLoop
  BY <1>1, <1>2, QuietKeeps DEF ReaderLoop, ReaderOK, Copied, PathTypes, ringVars, frameVars
<1>3. CASE LazyStart
  BY <1>1, <1>3, QuietKeeps DEF LazyStart, ReaderOK, Copied, PathTypes, ringVars, frameVars
<1>4. CASE ListenerStopped
  BY <1>1, <1>4, QuietKeeps DEF ListenerStopped, ReaderOK, Copied, PathTypes, ringVars, frameVars
<1>5. CASE Caught
  BY <1>1, <1>5, QuietKeeps DEF Caught, ReaderOK, Copied, PathTypes, ringVars, frameVars
<1>6. CASE ReadIndices
  BY <1>1, <1>6, QuietKeeps, UnreadIsThere
     DEF ReadIndices, ReaderOK, Copied, PathTypes, ringVars, frameVars
<1>7. CASE Recheck
  BY <1>1, <1>7, QuietKeeps, UnreadIsThere
     DEF Recheck, ReaderOK, Copied, PathTypes, ringVars, frameVars
<1>8. CASE RefillAgain
  BY <1>1, <1>8, QuietKeeps DEF RefillAgain, ReaderOK, Copied, PathTypes, ringVars, frameVars
<1>9. CASE ParsePacket
  BY <1>1, <1>9, QuietKeeps DEF ParsePacket, ReaderOK, Copied, PathTypes, ringVars, frameVars
<1>10. CASE RecycleAgain
  BY <1>1, <1>10, QuietKeeps DEF RecycleAgain, ReaderOK, Copied, PathTypes, ringVars, frameVars
<1>11. CASE RefillLook
  <2>1. at' = "fill" => FillCount <= InRing(fillProd, seen')
    BY <1>1, <1>11, Parts DEF RefillLook, FillCount
  <2>2. PathTypes'
    BY <1>1, <1>11 DEF RefillLook, PathTypes, ringVars, frameVars
  <2> QED BY <1>1, <1>11, <2>1, <2>2, QuietKeeps DEF RefillLook, ReaderOK, Copied
<1>12. CASE Stop
  BY <1>1, <1>12, QuietKeeps
     DEF Stop, StopGateway, StopListener, JoinReader, ReaderOK, Copied, PathTypes, ringVars, frameVars
<1>13. CASE UNCHANGED pathVars
  BY <1>1, <1>13, QuietKeeps DEF pathVars, ReaderOK, Copied, PathTypes, ringVars, frameVars
<1> QED BY <1>2, <1>3, <1>4, <1>5, <1>6, <1>7, <1>8, <1>9, <1>10, <1>11, <1>12, <1>13 DEF Quiet

(* A frame leaves the fill ring for the driver.                            *)
LEMMA TakeStep ==
    ASSUME PathInvariant, KernelTakesFrame
    PROVE  PathInvariant'
<1> USE DEF KernelTakesFrame, readerVars, stopVars
<1>1. PathTypes /\ ReaderOK /\ Apart
  BY Parts
<1>2. fillProd \in Index /\ fillCons \in Index /\ fillProd # fillCons /\ FillCount \in Nat \ {0}
  BY <1>1, Parts, InRingIs DEF PathTypes, FillCount
<1>3. /\ fillCons' \in Index /\ FillCount' = FillCount - 1
      /\ DOMAIN FillFrames' = 0..(FillCount - 2)
      /\ \A i \in 0..(FillCount - 2) : FillFrames'[i] = FillFrames[i + 1]
  <2>1. /\ FillFrames' = Entries(fillProd, (fillCons + 1) % Wrap, fillDesc')
        /\ FillFrames = Entries(fillProd, fillCons, fillDesc)
        /\ FillCount' = InRing(fillProd, (fillCons + 1) % Wrap)
    BY DEF FillFrames, Entries, FillCount, InRing
  <2>2. \A s \in Slot : s # fillCons % RingSize => fillDesc'[s] = fillDesc[s]
    BY <1>1 DEF PathTypes
  <2>3. InRing(fillProd, fillCons) <= RingSize
    BY <1>1 DEF ReaderOK, FillCount
  <2>4. InRing(fillProd, (fillCons + 1) % Wrap) = FillCount - 1
    BY <1>2, <2>2, <2>3, EntriesPop DEF FillCount
  <2>5. DOMAIN FillFrames' = 0..(FillCount - 2)
    BY <1>2, <2>1, <2>2, <2>3, EntriesPop DEF FillCount
  <2>6. \A i \in 0..(FillCount - 2) : FillFrames'[i] = FillFrames[i + 1]
    <3>1. \A i \in 0..(InRing(fillProd, fillCons) - 2) :
              Entries(fillProd, (fillCons + 1) % Wrap, fillDesc')[i] =
                  Entries(fillProd, fillCons, fillDesc)[i + 1]
      <4>1. PICK e : e = fillDesc'
        OBVIOUS
      <4>2. \A s \in Slot : s # fillCons % RingSize => e[s] = fillDesc[s]
        BY <2>2, <4>1
      <4>3. \A i \in 0..(InRing(fillProd, fillCons) - 2) :
                Entries(fillProd, (fillCons + 1) % Wrap, e)[i] =
                    Entries(fillProd, fillCons, fillDesc)[i + 1]
        BY <1>2, <2>3, <4>2, EntriesPop
      <4> QED BY <4>1, <4>3
    <3> QED BY <2>1, <3>1 DEF FillCount
  <2> QED BY <1>2, <2>1, <2>4, <2>5, <2>6, Consume
<1>4. PICK f : f = FillFrames[0]
  OBVIOUS
<1>5. kernel' = Append(kernel, f)
  <2>1. FillFrames[0] = fillDesc[fillCons % RingSize]
    BY <1>1, <1>2, FirstEntry, RingContents
  <2> QED BY <1>4, <2>1
<1>6. NoTwice(FillFrames') /\ f \in InFill /\ InFill' = InFill \ {f}
  <2>1. PICK n, g, h : n \in Nat \ {0} /\ n = FillCount /\ g = FillFrames' /\ h = FillFrames
    BY <1>2
  <2>0. n \in Nat \ {0}
    BY <2>1
  <2>2. DOMAIN h = 0..(n - 1) /\ DOMAIN g = 0..(n - 2) /\ \A i \in 0..(n - 2) : g[i] = h[i + 1]
    BY <1>1, <1>3, <2>1, RingContents
  <2>3. NoTwice(h)
    BY <1>1, <2>1 DEF Apart
  <2>4. NoTwice(g) /\ h[0] \in Listed(h) /\ Listed(g) = Listed(h) \ {h[0]}
    BY <2>0, <2>2, <2>3, RingLosesFirst
  <2> QED BY <1>4, <2>1, <2>4 DEF InFill
<1>7. f \in Frame /\ f \notin InKernel
  BY <1>1, <1>6 DEF Apart
<1>8. /\ NoTwice(kernel') /\ InKernel' = InKernel \cup {f} /\ Len(kernel') = Len(kernel) + 1
      /\ kernel' \in Seq(Frame)
  BY <1>1, <1>5, <1>7, SeqGains DEF PathTypes, Apart, InKernel
<1>9. Copied' = Copied
  BY DEF Copied
<1>10. /\ RxCount' = RxCount /\ Consumed' = Consumed /\ Lost' = Lost /\ InRx' = InRx
       /\ UnreadFrames' = UnreadFrames /\ RxFrames' = RxFrames /\ RxOK' /\ PacketsCopiedOnce'
  BY <1>9, Parts, RxStays
<1>11. OnStack' = OnStack /\ InHand' = InHand
  BY DEF OnStack, Listed, InHand
<1>12. PathTypes'
  <2>1. fillDesc' \in [Slot -> Frame \cup {NoFrame}]
    BY <1>1 DEF PathTypes
  <2> QED BY <1>1, <1>3, <1>8, <2>1 DEF PathTypes
<1>13. ReaderOK'
  <2>1. at' = "fill" => FillCount' <= InRing(fillProd', seen')
    <3>1. at' = "fill" => FillCount <= InRing(fillProd', seen')
      BY <1>1 DEF ReaderOK, InRing
    <3>2. InRing(fillProd', seen') \in Int
      BY <1>12, InRingIs, RingFacts DEF PathTypes, Index
    <3> QED BY <1>2, <1>3, <3>1, <3>2
  <2> QED BY <1>1, <1>2, <1>3, <1>9, <1>10, <2>1, RingFacts DEF ReaderOK
<1>14. Apart'
  BY <1>1, <1>6, <1>7, <1>8, <1>10, <1>11 DEF Apart
<1>15. Counted'
  BY <1>2, <1>3, <1>8, <1>10, <1>11, Parts DEF Counted
<1>16. Intact'
  BY <1>10, Parts DEF Intact
<1> QED BY <1>10, <1>12, <1>13, <1>14, <1>15, <1>16 DEF PathInvariant

(* A packet arrives in the frame the driver has held longest.              *)
LEMMA DeliverStep ==
    ASSUME PathInvariant, KernelDelivers
    PROVE  PathInvariant'
<1> USE DEF KernelDelivers, readerVars, stopVars
<1>1. PathTypes /\ ReaderOK /\ Apart /\ RxOK
  BY Parts
<1>2. PICK h : h = Head(kernel)
  OBVIOUS
<1>3. /\ kernel' \in Seq(Frame) /\ Len(kernel') = Len(kernel) - 1 /\ h \in Frame
      /\ NoTwice(kernel') /\ h \in InKernel /\ InKernel' = InKernel \ {h}
  BY <1>1, <1>2, SeqLosesFirst DEF PathTypes, Apart, InKernel
<1>4. PICK k \in Kind :
        /\ kinds' = Append(kinds, k)
        /\ rxDesc' = [rxDesc EXCEPT ![rxProd % RingSize] =
              [frame |-> IF k = "corrupt" THEN NoFrame ELSE h, kind |-> k]]
  BY <1>2
<1>5. PICK x : x = [frame |-> IF k = "corrupt" THEN NoFrame ELSE h, kind |-> k]
  OBVIOUS
<1>6. x \in [frame : Frame \cup {NoFrame}, kind : Kind] /\ x.kind = k
      /\ x.frame = (IF k = "corrupt" THEN NoFrame ELSE h)
  BY <1>3, <1>5
<1>7. PICK m \in Nat : m = RxCount
  BY Parts
<1>8. /\ kinds' \in Seq(Kind) /\ Len(kinds') = Len(kinds) + 1 /\ kinds'[Len(kinds) + 1] = k
      /\ \A i \in 1..Len(kinds) : kinds'[i] = kinds[i]
      /\ DOMAIN kinds = 1..Len(kinds) /\ DOMAIN kinds' = 1..(Len(kinds) + 1)
  BY <1>1, <1>4, AppendProperties DEF PathTypes
<1>9. /\ rxProd' \in Index /\ RxCount' = m + 1
      /\ \A i \in 0..(m - 1) : RxEntries'[i] = RxEntries[i]
      /\ RxEntries'[m] = x
  <2>1. PICK d, p, c : d = rxDesc /\ p = rxProd /\ c = rxCons
    OBVIOUS
  <2>2. p \in Index /\ c \in Index /\ InRing(p, c) < RingSize /\ DOMAIN d = Slot
    BY <1>1, <2>1 DEF PathTypes
  <2>3. PICK e : e = rxDesc'
    OBVIOUS
  <2>4. e[p % RingSize] = x /\ \A s \in Slot : s # p % RingSize => e[s] = d[s]
    <3>1. p % RingSize \in Slot
      <4>1. p \in Int /\ 0 \in Int /\ p + 0 = p
        BY <2>2, RingFacts DEF Index
      <4> QED BY <4>1, SlotAtIsSlot DEF SlotAt
    <3> QED BY <1>4, <1>5, <2>1, <2>2, <2>3, <3>1
  <2>5. PICK q : q = (p + 1) % Wrap
    OBVIOUS
  <2>6. m = InRing(p, c)
    BY <1>7, <2>1 DEF RxCount
  <2>7. m < RingSize
    BY <2>2, <2>6
  <2>8. q \in Index /\ InRing(q, c) = m + 1 /\ Entries(q, c, e)[m] = e[p % RingSize]
    BY <2>2, <2>5, <2>6, <2>7, EntriesPush
  <2>9. ASSUME NEW i \in 0..(m - 1) PROVE Entries(q, c, e)[i] = Entries(p, c, d)[i]
    BY <2>2, <2>4, <2>5, <2>6, <2>7, EntryStays
  <2>10. /\ RxEntries' = Entries(q, c, e) /\ RxCount' = InRing(q, c)
         /\ rxProd' = q /\ RxEntries = Entries(p, c, d)
    BY <2>1, <2>3, <2>5 DEF RxEntries, Entries, RxCount, InRing
  <2> QED BY <2>4, <2>8, <2>9, <2>10
<1>10. PathTypes'
  <2>1. rxDesc' \in [Slot -> [frame : Frame \cup {NoFrame}, kind : Kind]]
    BY <1>1, <1>4, <1>5, <1>6 DEF PathTypes
  <2>2. content' \in [Frame -> 0..MaxPackets]
    <3>1. Len(kinds) + 1 \in 0..MaxPackets
      BY Parts, RingsAssumption, SMTT(30)
    <3> QED BY <1>1, <3>1 DEF PathTypes
  <2>3. Len(kinds') <= MaxPackets
    BY <1>8, Parts, RingsAssumption
  <2> QED BY <1>1, <1>3, <1>8, <1>9, <2>1, <2>2, <2>3 DEF PathTypes
<1>11. Copied' = Copied
  BY DEF Copied
<1>12. Consumed' = Consumed
  BY <1>7, <1>8, <1>9, Parts DEF Consumed, RxCount
<1>13. RxOK'
  <2> SUFFICES ASSUME NEW i \in 0..(RxCount' - 1)
               PROVE  /\ RxEntries'[i].kind = kinds'[Consumed' + i + 1]
                      /\ RxEntries'[i].frame = NoFrame <=> RxEntries'[i].kind = "corrupt"
    BY DEF RxOK
  <2>1. CASE i < m
    <3>1. i \in 0..(m - 1)
      BY <1>9, <2>1
    <3>2. Consumed \in Nat /\ Consumed + m = Len(kinds)
      BY <1>7, Parts
    <3>3. Consumed + i + 1 \in 1..Len(kinds)
      BY <3>1, <3>2
    <3> QED BY <1>1, <1>7, <1>8, <1>9, <1>12, <3>1, <3>3 DEF RxOK
  <2>2. CASE i = m
    <3>1. Consumed' + i + 1 = Len(kinds) + 1
      BY <1>7, <1>12, <2>2, Parts
    <3>2. h # NoFrame
      BY <1>3, FrameFacts
    <3> QED BY <1>6, <1>8, <1>9, <2>2, <3>1, <3>2
  <2>3. i < m \/ i = m
    BY <1>9
  <2> QED BY <2>1, <2>2, <2>3
<1>14. /\ DOMAIN RxFrames = 0..(m - 1) /\ DOMAIN RxFrames' = 0..m
       /\ \A i \in 0..(m - 1) : RxFrames'[i] = RxFrames[i]
       /\ RxFrames'[m] = x.frame
       /\ UnreadFrames \subseteq 0..(m - 1)
  <2>1. DOMAIN RxFrames = 0..(m - 1) /\ UnreadFrames \subseteq 0..(m - 1)
        /\ \A i \in 0..(m - 1) : RxFrames[i] = RxEntries[i].frame
    BY <1>1, <1>7, RingContents
  <2>2. RxFrames' = [i \in 0..RxCount' - 1 |-> RxEntries'[i].frame]
    BY DEF RxFrames, RxEntries, Entries, RxCount
  <2>3. 0..RxCount' - 1 = 0..m
    BY <1>7, <1>9
  <2> QED BY <1>9, <2>1, <2>2, <2>3
<1>15. UnreadFrames' = IF k = "corrupt" THEN UnreadFrames ELSE UnreadFrames \cup {m}
  <2>1. UnreadFrames' = {i \in 0..m : RxFrames'[i] # NoFrame /\ (Copied => i # 0)}
    BY <1>11, <1>14 DEF UnreadFrames
  <2>2. UnreadFrames = {i \in 0..(m - 1) : RxFrames[i] # NoFrame /\ (Copied => i # 0)}
    BY <1>14 DEF UnreadFrames
  <2>3. Copied => m # 0
    BY <1>1, <1>7 DEF ReaderOK
  <2>4. h # NoFrame
    BY <1>3, FrameFacts
  <2>5. 0..m = 0..(m - 1) \cup {m}
    OBVIOUS
  <2>6. x.frame # NoFrame <=> k # "corrupt"
    BY <1>6, <2>4
  <2>7. ASSUME NEW i \in 0..(m - 1) PROVE i \in UnreadFrames' <=> i \in UnreadFrames
    BY <1>14, <2>1, <2>2, <2>5
  <2>8. m \in UnreadFrames' <=> k # "corrupt"
    BY <1>14, <2>1, <2>3, <2>5, <2>6
  <2>9. UnreadFrames' \subseteq 0..(m - 1) \cup {m}
    BY <2>1, <2>5
  <2>10. CASE k = "corrupt"
    <3>1. \A i : i \in UnreadFrames' <=> i \in UnreadFrames
      BY <1>14, <2>7, <2>8, <2>9, <2>10
    <3> QED BY <2>10, <3>1
  <2>11. CASE k # "corrupt"
    <3>1. \A i : i \in UnreadFrames' <=> i \in UnreadFrames \cup {m}
      BY <1>14, <2>7, <2>8, <2>9, <2>11
    <3> QED BY <2>11, <3>1
  <2> QED BY <2>10, <2>11
<1>16. m \notin UnreadFrames /\ \A i \in UnreadFrames : RxFrames'[i] = RxFrames[i]
  <2>1. m \notin 0..(m - 1)
    OBVIOUS
  <2> QED BY <1>14, <2>1
<1>17. InRx' = IF k = "corrupt" THEN InRx ELSE InRx \cup {h}
  <2>1. InRx' = {RxFrames'[i] : i \in UnreadFrames'}
    BY DEF InRx
  <2> QED BY <1>6, <1>14, <1>15, <1>16, <2>1 DEF InRx
<1>18. h \notin InRx
  BY <1>1, <1>3 DEF Apart
<1>19. \A i, j \in UnreadFrames' : i # j => RxFrames'[i] # RxFrames'[j]
  <2>1. \A i \in UnreadFrames : RxFrames[i] \in InRx
    BY DEF InRx
  <2>2. \A i, j \in UnreadFrames : i # j => RxFrames[i] # RxFrames[j]
    BY <1>1 DEF Apart
  <2>3. k # "corrupt" => RxFrames'[m] = h
    BY <1>6, <1>14
  <2> QED BY <1>15, <1>16, <1>18, <2>1, <2>2, <2>3
<1>20. FillFrames' = FillFrames /\ FillCount' = FillCount /\ InFill' = InFill
  BY FillStays
<1>21. OnStack' = OnStack /\ InHand' = InHand
  BY DEF OnStack, Listed, InHand
<1>22. Apart'
  <2>1. /\ InKernel' \cap InRx' = {} /\ InRx' \cap InFill = {} /\ InRx' \cap OnStack = {}
        /\ InRx' \cap InHand = {}
    BY <1>1, <1>3, <1>17 DEF Apart
  <2>2. InKernel' \cap InFill = {} /\ InKernel' \cap OnStack = {} /\ InKernel' \cap InHand = {}
    BY <1>1, <1>3 DEF Apart
  <2>3. /\ NoTwice(FillFrames') /\ NoTwice(kernel') /\ NoTwice(free')
        /\ (\A i, j \in UnreadFrames : i # j => RxFrames[i] # RxFrames[j])'
    BY <1>1, <1>3, <1>19, <1>20 DEF Apart
  <2> QED BY <1>1, <1>20, <1>21, <2>1, <2>2, <2>3 DEF Apart
<1>23. Lost' = IF k = "corrupt" THEN Lost + 1 ELSE Lost
  <2> DEFINE C == {i \in DOMAIN kinds : kinds[i] = "corrupt"}
             D == {i \in DOMAIN kinds' : kinds'[i] = "corrupt"}
  <2>1. IsFiniteSet(C) /\ Lost = Cardinality(C) /\ Lost' = Cardinality(D)
    BY <1>1, LostCount DEF PathTypes, Lost
  <2>2. PICK n \in Nat : n = Len(kinds)
    BY Parts
  <2>3. n + 1 \notin C
    BY <1>8, <2>2
  <2>4. ASSUME NEW i PROVE i \in D <=> i \in C \/ (i = n + 1 /\ k = "corrupt")
    <3>1. 1..(n + 1) = 1..n \cup {n + 1}
      OBVIOUS
    <3>2. i \in D <=> i \in 1..(n + 1) /\ kinds'[i] = "corrupt"
      BY <1>8, <2>2
    <3>3. i \in C <=> i \in 1..n /\ kinds[i] = "corrupt"
      BY <1>8, <2>2
    <3>4. i \in 1..n => kinds'[i] = kinds[i]
      BY <1>8, <2>2
    <3>5. kinds'[n + 1] = k
      BY <1>8, <2>2
    <3> QED BY <3>1, <3>2, <3>3, <3>4, <3>5
  <2>5. D = IF k = "corrupt" THEN C \cup {n + 1} ELSE C
    BY <2>4
  <2> HIDE DEF C, D
  <2> QED BY <2>1, <2>3, <2>5, FS_AddElement
<1>24. Cardinality(UnreadFrames') = IF k = "corrupt" THEN Cardinality(UnreadFrames)
                                    ELSE Cardinality(UnreadFrames) + 1
  <2>1. IsFiniteSet(UnreadFrames)
    BY <1>1, RingContents
  <2> QED BY <1>15, <1>16, <2>1, FS_AddElement
<1>25. Counted'
  <2>1. Cardinality(InHand) \in Nat
    BY HandCount
  <2>2. PICK u \in Nat, l \in Nat, w \in Nat, y \in Nat, z \in Nat, r \in Nat, v \in Nat :
           /\ u = Cardinality(UnreadFrames) /\ l = Lost /\ w = Cardinality(InHand)
           /\ y = Len(free) /\ z = Len(kernel) /\ r = RingSize /\ v = FillCount
    BY <2>1, Parts
  <2>3. v + z + u + y + w = 2 * r - l
    BY <2>2, Parts DEF Counted
  <2>4. /\ Cardinality(InHand') = w /\ FillCount' = v /\ Len(free') = y /\ Len(kernel') = z - 1
    BY <1>3, <1>20, <1>21, <2>2
  <2>5. CASE k = "corrupt"
    <3>1. Lost' = l + 1 /\ Cardinality(UnreadFrames') = u
      BY <1>23, <1>24, <2>2, <2>5
    <3>2. v + (z - 1) + u + y + w = 2 * r - (l + 1)
      BY <2>3
    <3> QED BY <2>2, <2>4, <3>1, <3>2 DEF Counted
  <2>6. CASE k # "corrupt"
    <3>1. Lost' = l /\ Cardinality(UnreadFrames') = u + 1
      BY <1>23, <1>24, <2>2, <2>6
    <3>2. v + (z - 1) + (u + 1) + y + w = 2 * r - l
      BY <2>3
    <3> QED BY <2>2, <2>4, <3>1, <3>2 DEF Counted
  <2> QED BY <2>5, <2>6
<1>26. Intact'
  <2> SUFFICES ASSUME NEW i \in UnreadFrames'
               PROVE  content'[RxFrames'[i]] = Consumed' + i + 1
    BY DEF Intact
  <2>1. CASE i \in UnreadFrames
    <3>1. RxFrames[i] \in InRx /\ RxFrames[i] # h
      BY <1>18, <2>1 DEF InRx
    <3>2. content'[RxFrames[i]] = content[RxFrames[i]]
      BY <1>1, <1>2, <3>1 DEF PathTypes
    <3> QED BY <1>12, <1>16, <2>1, <3>2, Parts DEF Intact
  <2>2. CASE i = m /\ k # "corrupt"
    <3>1. RxFrames'[i] = h
      BY <1>6, <1>14, <2>2
    <3>2. content'[h] = Len(kinds) + 1
      BY <1>1, <1>2, <1>3 DEF PathTypes
    <3> QED BY <1>7, <1>12, <2>2, <3>1, <3>2, Parts
  <2> QED BY <1>15, <2>1, <2>2
<1>27. PacketsCopiedOnce'
  <2>1. PICK n \in Nat : n = Consumed + (IF Copied THEN 1 ELSE 0)
    BY Parts
  <2>2. n <= Len(kinds)
    <3>1. Consumed \in Nat /\ Consumed + RxCount = Len(kinds) /\ RxCount \in Nat
      BY Parts
    <3>2. Copied => RxCount > 0
      BY <1>1 DEF ReaderOK
    <3> QED BY <2>1, <3>1, <3>2
  <2>3. \A i \in 1..n : i \in 1..Len(kinds)
    BY <2>2, Parts
  <2>4. \A i \in 1..n : kinds'[i] = kinds[i]
    BY <1>8, <2>3
  <2>5. {i \in 1..n : kinds'[i] = "bbo"} = {i \in 1..n : kinds[i] = "bbo"}
    BY <2>4
  <2>6. n = Consumed' + (IF Copied' THEN 1 ELSE 0)
    BY <1>11, <1>12, <2>1
  <2>7. /\ \A i, j \in DOMAIN copied : i < j => copied[i] < copied[j]
        /\ {copied[i] : i \in DOMAIN copied} = {i \in 1..n : kinds[i] = "bbo"}
    BY <2>1, Parts DEF PacketsCopiedOnce
  <2>8. copied' = copied
    OBVIOUS
  <2>9. \A i, j \in DOMAIN copied' : i < j => copied'[i] < copied'[j]
    BY <2>7, <2>8
  <2>10. {copied'[i] : i \in DOMAIN copied'} = {i \in 1..n : kinds'[i] = "bbo"}
    <3>1. PICK b : b = {i \in 1..n : kinds[i] = "bbo"}
      OBVIOUS
    <3>2. {copied[i] : i \in DOMAIN copied} = b /\ {i \in 1..n : kinds'[i] = "bbo"} = b
      BY <2>5, <2>7, <3>1
    <3>3. {copied'[i] : i \in DOMAIN copied'} = b
      BY <2>8, <3>2
    <3> QED BY <3>2, <3>3
  <2> QED BY <2>6, <2>9, <2>10 DEF PacketsCopiedOnce
<1>28. ReaderOK'
  <2>1. Len(kinds) \in Nat /\ RingSize \in Nat /\ m < RingSize /\ m <= Len(kinds)
    BY <1>1, <1>7, Parts DEF ReaderOK, RxCount
  <2> QED BY <1>1, <1>7, <1>8, <1>9, <1>11, <1>20, <2>1 DEF ReaderOK
<1> QED BY <1>10, <1>13, <1>22, <1>25, <1>26, <1>27, <1>28 DEF PathInvariant

(* The frames of the unread packets behind the first.                      *)
RxBehind == {RxFrames[i] : i \in UnreadFrames \ {0}}

(* What the reader has before it when it has found a descriptor.           *)
LEMMA FirstUnread ==
    ASSUME PathInvariant, at = "descriptor"
    PROVE  /\ RxCount > 0 /\ ~Copied /\ InHand = {} /\ Cardinality(InHand) = 0
           /\ Descriptor.kind = kinds[Consumed + 1] /\ Descriptor.kind \in Kind
           /\ Descriptor \in [frame : Frame \cup {NoFrame}, kind : Kind]
           /\ Descriptor.kind = "corrupt" =>
                  UnreadFrames \ {0} = UnreadFrames /\ RxBehind = InRx
           /\ Descriptor.kind # "corrupt" =>
                  /\ 0 \in UnreadFrames /\ RxFrames[0] = Descriptor.frame
                  /\ Descriptor.frame \in Frame /\ Descriptor.frame \in InRx
                  /\ RxBehind = InRx \ {Descriptor.frame}
                  /\ Cardinality(UnreadFrames \ {0}) = Cardinality(UnreadFrames) - 1
<1>1. PathTypes /\ ReaderOK /\ RxOK /\ Apart
  BY Parts
<1>2. RxCount > 0 /\ ~Copied /\ InHand = {} /\ Cardinality(InHand) = 0
  BY <1>1, HandCount DEF ReaderOK, Copied
<1>3. rxProd \in Index /\ rxCons \in Index /\ rxProd # rxCons
  BY <1>1, <1>2, InRingIs DEF PathTypes, RxCount
<1>4. 0 \in 0..(RxCount - 1) /\ RxEntries[0] = Descriptor
  BY <1>3, FirstEntry DEF RxEntries, RxCount, Descriptor
<1>5. RxFrames[0] = Descriptor.frame
  BY <1>1, <1>4, RingContents
<1>6. /\ Descriptor.kind = kinds[Consumed + 1]
      /\ Descriptor.frame = NoFrame <=> Descriptor.kind = "corrupt"
  <2>1. Consumed + 0 + 1 = Consumed + 1
    BY Parts
  <2> QED BY <1>1, <1>4, <2>1 DEF RxOK
<1>7. Descriptor \in [frame : Frame \cup {NoFrame}, kind : Kind]
  <2>1. rxCons % RingSize \in Slot
    <3>1. rxCons \in Int /\ 0 \in Int /\ rxCons + 0 = rxCons
      BY <1>3, RingFacts DEF Index
    <3> QED BY <3>1, SlotAtIsSlot DEF SlotAt
  <2> QED BY <1>1, <2>1 DEF PathTypes, Descriptor
<1>8. DOMAIN RxFrames = 0..(RxCount - 1)
  BY <1>1, RingContents
<1>9. 0 \in UnreadFrames <=> Descriptor.kind # "corrupt"
  BY <1>2, <1>4, <1>5, <1>6, <1>8 DEF UnreadFrames
<1>10. Descriptor.kind = "corrupt" => UnreadFrames \ {0} = UnreadFrames /\ RxBehind = InRx
  BY <1>9 DEF RxBehind, InRx
<1>11. ASSUME Descriptor.kind # "corrupt"
       PROVE  /\ Descriptor.frame \in Frame /\ Descriptor.frame \in InRx
              /\ RxBehind = InRx \ {Descriptor.frame}
              /\ Cardinality(UnreadFrames \ {0}) = Cardinality(UnreadFrames) - 1
  <2>1. 0 \in UnreadFrames /\ IsFiniteSet(UnreadFrames)
    BY <1>1, <1>9, <1>11, RingContents
  <2>2. Cardinality(UnreadFrames \ {0}) = Cardinality(UnreadFrames) - 1
    BY <2>1, FS_RemoveElement
  <2>3. Descriptor.frame \in Frame
    BY <1>6, <1>7, <1>11
  <2>4. Descriptor.frame \in InRx
    BY <1>5, <2>1 DEF InRx
  <2>5. \A i, j \in UnreadFrames : i # j => RxFrames[i] # RxFrames[j]
    BY <1>1 DEF Apart
  <2>6. RxBehind = InRx \ {Descriptor.frame}
    BY <1>5, <2>1, <2>5 DEF RxBehind, InRx
  <2> QED BY <2>2, <2>3, <2>4, <2>6
<1> QED BY <1>2, <1>5, <1>6, <1>7, <1>9, <1>10, <1>11

(* The RX index moves past the first descriptor.                           *)
LEMMA Advances ==
    ASSUME PathInvariant, RxCount > 0, rxCons' = (rxCons + 1) % Wrap,
           UNCHANGED <<fillProd, fillCons, fillDesc, rxProd, rxDesc, free, kernel, content, kinds>>,
           ~Copied'
    PROVE  /\ rxCons' \in Index /\ RxCount' = RxCount - 1 /\ Consumed' = Consumed + 1
           /\ RxOK' /\ Intact' /\ InRx' = RxBehind /\ Lost' = Lost
           /\ Cardinality(UnreadFrames') = Cardinality(UnreadFrames \ {0})
           /\ (\A i, j \in UnreadFrames : i # j => RxFrames[i] # RxFrames[j])'
           /\ FillFrames' = FillFrames /\ FillCount' = FillCount /\ InFill' = InFill
           /\ InKernel' = InKernel /\ OnStack' = OnStack
<1>1. /\ rxCons' \in Index /\ RxCount' = RxCount - 1 /\ Consumed' = Consumed + 1
      /\ RxOK' /\ InRx' = RxBehind
      /\ Cardinality(UnreadFrames') = Cardinality(UnreadFrames \ {0})
  BY RxMoves DEF RxBehind
<1>2. (\A i, j \in UnreadFrames : i # j => RxFrames[i] # RxFrames[j])'
  BY RxMoves
<1>3. \A i \in UnreadFrames' : i + 1 \in UnreadFrames \ {0} /\ RxFrames'[i] = RxFrames[i + 1]
  BY RxMoves
<1>4. Intact'
  <2> SUFFICES ASSUME NEW i \in UnreadFrames' PROVE content'[RxFrames'[i]] = Consumed' + i + 1
    BY DEF Intact
  <2>1. i + 1 \in UnreadFrames /\ RxFrames'[i] = RxFrames[i + 1] /\ content' = content
    BY <1>3
  <2>2. content[RxFrames[i + 1]] = Consumed + (i + 1) + 1
    BY <2>1, Parts DEF Intact
  <2>3. i \in Int
    <3>1. UnreadFrames' \subseteq DOMAIN RxFrames' /\ DOMAIN RxFrames' = 0..RxCount' - 1
      BY DEF UnreadFrames, RxFrames, RxCount
    <3> QED BY <3>1
  <2>4. Consumed + (i + 1) + 1 = Consumed' + i + 1
    <3>1. Consumed \in Nat /\ Consumed' = Consumed + 1
      BY <1>1, Parts
    <3> QED BY <2>3, <3>1
  <2> QED BY <2>1, <2>2, <2>4
<1>5. Lost' = Lost /\ InKernel' = InKernel /\ OnStack' = OnStack
  BY DEF Lost, InKernel, OnStack, Listed
<1> QED BY <1>1, <1>2, <1>4, <1>5, FillStays

(* The packets that count as read: nothing is copied, or a packet is       *)
(* passed over that is no quote.                                           *)
LEMMA CopiedKeeps ==
    ASSUME PathInvariant, UNCHANGED <<copied, kinds>>,
           NEW n \in Nat, n = Consumed + (IF Copied THEN 1 ELSE 0),
           NEW k \in Nat, k = Consumed' + (IF Copied' THEN 1 ELSE 0),
           k = n \/ (k = n + 1 /\ kinds[n + 1] # "bbo")
    PROVE  PacketsCopiedOnce'
<1>1. /\ \A i, j \in DOMAIN copied : i < j => copied[i] < copied[j]
      /\ {copied[i] : i \in DOMAIN copied} = {i \in 1..n : kinds[i] = "bbo"}
  BY Parts DEF PacketsCopiedOnce
<1>2. {i \in 1..k : kinds[i] = "bbo"} = {i \in 1..n : kinds[i] = "bbo"}
  <2>1. CASE k = n
    BY <2>1
  <2>2. CASE k = n + 1 /\ kinds[n + 1] # "bbo"
    <3>1. \A i : i \in 1..(n + 1) <=> i \in 1..n \/ i = n + 1
      OBVIOUS
    <3> QED BY <2>2, <3>1
  <2> QED BY <2>1, <2>2
<1>3. copied' = copied /\ kinds' = kinds
  OBVIOUS
<1>4. \A i, j \in DOMAIN copied' : i < j => copied'[i] < copied'[j]
  BY <1>1, <1>3
<1>5. {copied'[i] : i \in DOMAIN copied'} = {i \in 1..k : kinds'[i] = "bbo"}
  <2>1. PICK b : b = {i \in 1..n : kinds[i] = "bbo"}
    OBVIOUS
  <2>2. {copied[i] : i \in DOMAIN copied} = b /\ {i \in 1..k : kinds[i] = "bbo"} = b
    BY <1>1, <1>2, <2>1
  <2>3. {copied'[i] : i \in DOMAIN copied'} = b
    BY <1>3, <2>2
  <2>4. {i \in 1..k : kinds'[i] = "bbo"} = b
    BY <1>3, <2>2
  <2> QED BY <2>3, <2>4
<1> QED BY <1>4, <1>5 DEF PacketsCopiedOnce

(* A descriptor that makes no sense, or a packet without a payload.        *)
LEMMA SkipCorruptStep ==
    ASSUME PathInvariant, SkipCorrupt
    PROVE  PathInvariant'
<1> USE DEF SkipCorrupt, stopVars, frameVars
<1>1. PathTypes /\ ReaderOK /\ Apart /\ Counted
  BY Parts
<1>2. /\ RxCount > 0 /\ ~Copied /\ kinds[Consumed + 1] = "corrupt"
      /\ UnreadFrames \ {0} = UnreadFrames /\ RxBehind = InRx
  BY FirstUnread
<1>3. ~Copied'
  BY DEF Copied
<1>4. /\ rxCons' \in Index /\ RxCount' = RxCount - 1 /\ Consumed' = Consumed + 1
      /\ RxOK' /\ Intact' /\ InRx' = InRx /\ Lost' = Lost
      /\ Cardinality(UnreadFrames') = Cardinality(UnreadFrames)
      /\ FillFrames' = FillFrames /\ FillCount' = FillCount /\ InFill' = InFill
      /\ InKernel' = InKernel /\ OnStack' = OnStack
  BY <1>2, <1>3, Advances
<1>5. (\A i, j \in UnreadFrames : i # j => RxFrames[i] # RxFrames[j])'
  BY <1>2, <1>3, Advances
<1>6. InHand' = InHand
  BY DEF InHand
<1>7. PathTypes'
  BY <1>1, <1>4 DEF PathTypes
<1>8. ReaderOK'
  BY <1>1, <1>3, <1>4, Parts DEF ReaderOK
<1>9. Apart'
  BY <1>1, <1>4, <1>5, <1>6 DEF Apart
<1>10. Counted'
  BY <1>1, <1>4, <1>6 DEF Counted
<1>11. PacketsCopiedOnce'
  <2>1. PICK n \in Nat : n = Consumed
    BY Parts
  <2>2. n = Consumed + (IF Copied THEN 1 ELSE 0) /\ n + 1 = Consumed' + (IF Copied' THEN 1 ELSE 0)
    BY <1>2, <1>3, <1>4, <2>1
  <2>3. kinds[n + 1] # "bbo" /\ n + 1 \in Nat
    BY <1>2, <2>1
  <2> QED BY <2>2, <2>3, CopiedKeeps
<1> QED BY <1>4, <1>7, <1>8, <1>9, <1>10, <1>11 DEF PathInvariant

(* A packet that is too short goes to be recycled.                         *)
LEMMA SkipShortStep ==
    ASSUME PathInvariant, SkipShort
    PROVE  PathInvariant'
<1> USE DEF SkipShort, Recycle, stopVars, frameVars
<1>1. PathTypes /\ ReaderOK /\ Apart /\ Counted
  BY Parts
<1>2. PICK x : x = Descriptor
  OBVIOUS
<1>3. /\ RxCount > 0 /\ ~Copied /\ InHand = {} /\ Cardinality(InHand) = 0
      /\ kinds[Consumed + 1] = "short"
      /\ x \in [frame : Frame \cup {NoFrame}, kind : Kind]
      /\ x.frame \in Frame /\ x.frame \in InRx /\ RxBehind = InRx \ {x.frame}
      /\ Cardinality(UnreadFrames \ {0}) = Cardinality(UnreadFrames) - 1
  BY <1>2, FirstUnread
<1>4. ~Copied'
  BY DEF Copied
<1>5. /\ rxCons' \in Index /\ RxCount' = RxCount - 1 /\ Consumed' = Consumed + 1
      /\ RxOK' /\ Intact' /\ InRx' = InRx \ {x.frame} /\ Lost' = Lost
      /\ Cardinality(UnreadFrames') = Cardinality(UnreadFrames) - 1
      /\ FillFrames' = FillFrames /\ FillCount' = FillCount /\ InFill' = InFill
      /\ InKernel' = InKernel /\ OnStack' = OnStack
  BY <1>3, <1>4, Advances
<1>6. (\A i, j \in UnreadFrames : i # j => RxFrames[i] # RxFrames[j])'
  BY <1>3, <1>4, Advances
<1>7. held' = x /\ x.frame # NoFrame
  BY <1>2, <1>3, FrameFacts
<1>8. InHand' = {x.frame} /\ Cardinality(InHand') = 1
  <2>1. InHand' = {x.frame}
    BY <1>7 DEF InHand
  <2> QED BY <2>1, FS_Singleton
<1>9. PathTypes'
  BY <1>1, <1>3, <1>5, <1>7 DEF PathTypes
<1>10. ReaderOK'
  BY <1>1, <1>4, <1>5, <1>7, Parts DEF ReaderOK, Returns
<1>11. Apart'
  BY <1>1, <1>3, <1>5, <1>6, <1>8 DEF Apart
<1>12. Counted'
  <2>1. PICK u \in Nat, l \in Nat, v \in Nat :
           u = Cardinality(UnreadFrames) /\ l = Lost /\ v = FillCount
    BY Parts
  <2>2. v + Len(kernel) + u + Len(free) + 0 = 2 * RingSize - l
    BY <1>1, <1>3, <2>1 DEF Counted
  <2>3. v + Len(kernel) + (u - 1) + Len(free) + 1 = 2 * RingSize - l
    BY <2>2, Parts
  <2> QED BY <1>5, <1>8, <2>1, <2>3 DEF Counted
<1>13. PacketsCopiedOnce'
  <2>1. PICK n \in Nat : n = Consumed
    BY Parts
  <2>2. n = Consumed + (IF Copied THEN 1 ELSE 0) /\ n + 1 = Consumed' + (IF Copied' THEN 1 ELSE 0)
    BY <1>3, <1>4, <1>5, <2>1
  <2>3. kinds[n + 1] # "bbo" /\ n + 1 \in Nat
    BY <1>3, <2>1
  <2> QED BY <2>2, <2>3, CopiedKeeps
<1> QED BY <1>5, <1>9, <1>10, <1>11, <1>12, <1>13 DEF PathInvariant

(* The packet was copied and its frame recycled.                           *)
LEMMA AdvanceStep ==
    ASSUME PathInvariant, Advance
    PROVE  PathInvariant'
<1> USE DEF Advance, Refill, stopVars, frameVars
<1>1. PathTypes /\ ReaderOK /\ Apart /\ Counted
  BY Parts
<1>2. Copied /\ RxCount > 0
  BY <1>1 DEF Copied, ReaderOK
<1>3. UnreadFrames \ {0} = UnreadFrames /\ RxBehind = InRx
  <2>1. 0 \notin UnreadFrames
    BY <1>2 DEF UnreadFrames
  <2>2. UnreadFrames \ {0} = UnreadFrames
    BY <2>1
  <2> QED BY <2>2 DEF RxBehind, InRx
<1>4. ~Copied'
  BY DEF Copied
<1>5. /\ rxCons' \in Index /\ RxCount' = RxCount - 1 /\ Consumed' = Consumed + 1
      /\ RxOK' /\ Intact' /\ InRx' = InRx /\ Lost' = Lost
      /\ Cardinality(UnreadFrames') = Cardinality(UnreadFrames)
      /\ FillFrames' = FillFrames /\ FillCount' = FillCount /\ InFill' = InFill
      /\ InKernel' = InKernel /\ OnStack' = OnStack
  BY <1>2, <1>3, <1>4, Advances
<1>6. (\A i, j \in UnreadFrames : i # j => RxFrames[i] # RxFrames[j])'
  BY <1>2, <1>4, Advances
<1>7. InHand' = InHand
  BY DEF InHand
<1>8. PathTypes'
  BY <1>1, <1>5, SMTT(30) DEF PathTypes
<1>9. ReaderOK'
  BY <1>1, <1>4, <1>5, Parts, SMTT(30) DEF ReaderOK, Returns
<1>10. Apart'
  BY <1>1, <1>5, <1>6, <1>7 DEF Apart
<1>11. Counted'
  BY <1>1, <1>5, <1>7 DEF Counted
<1>12. PacketsCopiedOnce'
  <2>1. PICK n \in Nat : n = Consumed + 1
    BY Parts
  <2>2. n = Consumed + (IF Copied THEN 1 ELSE 0) /\ n = Consumed' + (IF Copied' THEN 1 ELSE 0)
    BY <1>2, <1>4, <1>5, <2>1
  <2> QED BY <2>2, CopiedKeeps
<1> QED BY <1>5, <1>8, <1>9, <1>10, <1>11, <1>12 DEF PathInvariant

(* A packet is copied: its frame is the reader's now, although its         *)
(* descriptor is still in the ring.                                        *)
LEMMA CopyPacketStep ==
    ASSUME PathInvariant, CopyPacket
    PROVE  PathInvariant'
<1> USE DEF CopyPacket, Recycle, stopVars, frameVars, ringVars
<1>1. PathTypes /\ ReaderOK /\ Apart /\ Counted /\ Intact
  BY Parts
<1>2. PICK x : x = Descriptor
  OBVIOUS
<1>3. /\ RxCount > 0 /\ ~Copied /\ InHand = {} /\ Cardinality(InHand) = 0
      /\ kinds[Consumed + 1] = "bbo" /\ 0 \in UnreadFrames /\ RxFrames[0] = x.frame
      /\ x \in [frame : Frame \cup {NoFrame}, kind : Kind]
      /\ x.frame \in Frame /\ x.frame \in InRx /\ RxBehind = InRx \ {x.frame}
      /\ Cardinality(UnreadFrames \ {0}) = Cardinality(UnreadFrames) - 1
  BY <1>2, FirstUnread
<1>4. Copied'
  BY DEF Copied
<1>5. /\ FillFrames' = FillFrames /\ RxFrames' = RxFrames /\ RxEntries' = RxEntries
      /\ FillCount' = FillCount /\ RxCount' = RxCount /\ Consumed' = Consumed
      /\ InFill' = InFill /\ InKernel' = InKernel /\ OnStack' = OnStack /\ Lost' = Lost
  BY DEF FillFrames, RxFrames, RxEntries, Entries, FillCount, RxCount, Consumed, InRing,
         InFill, InKernel, OnStack, Listed, Lost
<1>6. UnreadFrames' = UnreadFrames \ {0}
  BY <1>3, <1>4, <1>5 DEF UnreadFrames
<1>7. InRx' = InRx \ {x.frame}
  <2>1. InRx' = {RxFrames[i] : i \in UnreadFrames \ {0}}
    BY <1>5, <1>6 DEF InRx
  <2> QED BY <1>3, <2>1 DEF RxBehind
<1>8. held' = x /\ x.frame # NoFrame
  BY <1>2, <1>3, FrameFacts
<1>9. InHand' = {x.frame} /\ Cardinality(InHand') = 1
  <2>1. InHand' = {x.frame}
    BY <1>8 DEF InHand
  <2> QED BY <2>1, FS_Singleton
<1>10. copied' = Append(copied, Consumed + 1)
  <2>1. content[x.frame] = Consumed + 0 + 1 /\ Consumed + 0 + 1 = Consumed + 1
    BY <1>1, <1>3, Parts DEF Intact
  <2> QED BY <1>2, <2>1
<1>11. PathTypes'
  <2>1. copied' \in Seq(Nat)
    BY <1>1, <1>10, Parts DEF PathTypes
  <2> QED BY <1>1, <1>3, <1>8, <2>1 DEF PathTypes
<1>12. ReaderOK'
  BY <1>1, <1>3, <1>4, <1>5, <1>8 DEF ReaderOK, Returns
<1>13. RxOK'
  BY <1>5, Parts DEF RxOK
<1>14. Apart'
  <2>1. \A i, j \in UnreadFrames' : i # j => RxFrames'[i] # RxFrames'[j]
    BY <1>1, <1>5, <1>6 DEF Apart
  <2>2. NoTwice(FillFrames') /\ NoTwice(kernel') /\ NoTwice(free')
    BY <1>1, <1>5 DEF Apart
  <2>3. (\A i, j \in UnreadFrames : i # j => RxFrames[i] # RxFrames[j])'
    BY <2>1
  <2> QED BY <1>1, <1>3, <1>5, <1>7, <1>9, <2>2, <2>3 DEF Apart
<1>15. Counted'
  <2>1. PICK u \in Nat, l \in Nat, v \in Nat :
           u = Cardinality(UnreadFrames) /\ l = Lost /\ v = FillCount
    BY Parts
  <2>2. v + Len(kernel) + u + Len(free) + 0 = 2 * RingSize - l
    BY <1>1, <1>3, <2>1 DEF Counted
  <2>3. v + Len(kernel) + (u - 1) + Len(free) + 1 = 2 * RingSize - l
    BY <2>2, Parts
  <2> QED BY <1>3, <1>5, <1>6, <1>9, <2>1, <2>3 DEF Counted
<1>16. Intact'
  BY <1>1, <1>5, <1>6 DEF Intact
<1>17. PacketsCopiedOnce'
  <2>1. PICK n \in Nat : n = Consumed
    BY Parts
  <2>2. /\ \A i, j \in DOMAIN copied : i < j => copied[i] < copied[j]
        /\ {copied[i] : i \in DOMAIN copied} = {i \in 1..n : kinds[i] = "bbo"}
    <3>1. n = Consumed + (IF Copied THEN 1 ELSE 0)
      BY <1>3, <2>1
    <3> QED BY <3>1, Parts DEF PacketsCopiedOnce
  <2>3. PICK m \in Nat : m = Len(copied)
    BY <1>1 DEF PathTypes
  <2>4. /\ DOMAIN copied = 1..m /\ DOMAIN copied' = 1..(m + 1)
        /\ \A i \in 1..m : copied'[i] = copied[i]
        /\ copied'[m + 1] = n + 1
    BY <1>1, <1>10, <2>1, <2>3, AppendProperties DEF PathTypes
  <2>5. ASSUME NEW i \in 1..(m + 1) PROVE i \in 1..m \/ i = m + 1
    OBVIOUS
  <2>6. \A i \in 1..m : copied[i] \in 1..n
    BY <2>2, <2>4
  <2>7. \A i, j \in DOMAIN copied' : i < j => copied'[i] < copied'[j]
    <3> SUFFICES ASSUME NEW i \in 1..(m + 1), NEW j \in 1..(m + 1), i < j
                 PROVE  copied'[i] < copied'[j]
      BY <2>4
    <3>1. i \in 1..m
      OBVIOUS
    <3>2. CASE j \in 1..m
      BY <2>2, <2>4, <3>1, <3>2
    <3>3. CASE j = m + 1
      BY <2>4, <2>6, <3>1, <3>3
    <3> QED BY <2>5, <3>2, <3>3
  <2>8. {copied'[i] : i \in DOMAIN copied'} = {i \in 1..(n + 1) : kinds'[i] = "bbo"}
    <3>1. PICK a, b, k : /\ a = {copied[i] : i \in DOMAIN copied} /\ k = kinds
                         /\ b = {copied'[i] : i \in DOMAIN copied'}
      OBVIOUS
    <3>2. \A y : y \in b <=> y \in a \/ y = n + 1
      BY <2>4, <2>5, <3>1
    <3>3. a = {i \in 1..n : k[i] = "bbo"} /\ k[n + 1] = "bbo" /\ kinds' = k
      BY <1>3, <2>1, <2>2, <3>1
    <3>4. \A i : i \in 1..(n + 1) <=> i \in 1..n \/ i = n + 1
      OBVIOUS
    <3>5. b = {i \in 1..(n + 1) : k[i] = "bbo"}
      BY <3>2, <3>3, <3>4
    <3> QED BY <3>1, <3>3, <3>5
  <2>9. n + 1 = Consumed' + (IF Copied' THEN 1 ELSE 0)
    BY <1>4, <1>5, <2>1
  <2> QED BY <2>7, <2>8, <2>9 DEF PacketsCopiedOnce
<1> QED BY <1>11, <1>12, <1>13, <1>14, <1>15, <1>16, <1>17 DEF PathInvariant

(* The frame in the reader's hand, and what holds once it is put away.     *)
LEMMA FrameInHand ==
    ASSUME PathInvariant, at = "recycle"
    PROVE  /\ held.frame \in Frame /\ InHand = {held.frame} /\ Cardinality(InHand) = 1
           /\ held.frame \notin InFill /\ held.frame \notin InKernel
           /\ held.frame \notin InRx /\ held.frame \notin OnStack
<1>1. PathTypes /\ ReaderOK /\ Apart
  BY Parts
<1>2. held.frame # NoFrame /\ held.frame \in Frame
  BY <1>1 DEF ReaderOK, PathTypes
<1>3. InHand = {held.frame} /\ Cardinality(InHand) = 1
  BY <1>2, HandCount
<1> QED BY <1>1, <1>2, <1>3 DEF Apart

(* What holds once the frame is put away, wherever that is.                *)
LEMMA PutAway ==
    ASSUME PathInvariant, at = "recycle", Forget(held.frame), held' = Nothing,
           UNCHANGED <<rxProd, rxCons, rxDesc, kernel, kinds, copied>>, Copied' = Copied
    PROVE  /\ InHand' = {} /\ Cardinality(InHand') = 0
           /\ held' \in [frame : Frame \cup {NoFrame}, kind : Kind] /\ held'.frame = NoFrame
           /\ content' \in [Frame -> 0..MaxPackets]
           /\ RxCount' = RxCount /\ Consumed' = Consumed /\ Lost' = Lost /\ InRx' = InRx
           /\ UnreadFrames' = UnreadFrames /\ RxFrames' = RxFrames
           /\ InKernel' = InKernel
           /\ RxOK' /\ PacketsCopiedOnce' /\ Intact'
<1>1. PathTypes /\ RxOK /\ PacketsCopiedOnce /\ Intact
  BY Parts
<1>2. /\ RxCount' = RxCount /\ Consumed' = Consumed /\ Lost' = Lost /\ InRx' = InRx
      /\ UnreadFrames' = UnreadFrames /\ RxFrames' = RxFrames
      /\ RxOK' /\ PacketsCopiedOnce'
  BY <1>1, RxStays
<1>3. held'.frame = NoFrame /\ held' \in [frame : Frame \cup {NoFrame}, kind : Kind]
  BY DEF Nothing, Kind
<1>4. InHand' = {} /\ Cardinality(InHand') = 0
  <2>1. InHand' = {}
    BY <1>3 DEF InHand
  <2> QED BY <2>1, FS_EmptySet
<1>5. content' \in [Frame -> 0..MaxPackets]
  <2>1. 0 \in 0..MaxPackets
    BY RingsAssumption
  <2>2. content \in [Frame -> 0..MaxPackets] /\ held.frame \in Frame
    BY <1>1, FrameInHand DEF PathTypes
  <2> QED BY <2>1, <2>2 DEF Forget
<1>6. Intact'
  <2> SUFFICES ASSUME NEW i \in UnreadFrames PROVE content'[RxFrames[i]] = Consumed + i + 1
    BY <1>2 DEF Intact
  <2>1. RxFrames[i] \in InRx /\ held.frame \notin InRx
    BY FrameInHand DEF InRx
  <2>2. content'[RxFrames[i]] = content[RxFrames[i]]
    BY <1>1, <2>1 DEF PathTypes, Forget
  <2> QED BY <1>1, <2>2 DEF Intact
<1>7. InKernel' = InKernel
  BY DEF InKernel, Listed
<1> QED BY <1>2, <1>3, <1>4, <1>5, <1>6, <1>7

(* The frame goes on the stack.                                            *)
LEMMA RecycleToStackStep ==
    ASSUME PathInvariant, RecycleToStack
    PROVE  PathInvariant'
<1> USE DEF RecycleToStack, stopVars, ringVars
<1>1. PathTypes /\ ReaderOK /\ Apart /\ Counted
  BY Parts
<1>2. PICK x : x = held.frame
  OBVIOUS
<1>3. /\ x \in Frame /\ InHand = {x} /\ Cardinality(InHand) = 1
      /\ x \notin InFill /\ x \notin InKernel /\ x \notin InRx /\ x \notin OnStack
  BY <1>2, FrameInHand
<1>4. Copied' = Copied
  BY <1>1 DEF Copied, ReaderOK, Returns
<1>5. /\ InHand' = {} /\ Cardinality(InHand') = 0
      /\ held' \in [frame : Frame \cup {NoFrame}, kind : Kind] /\ held'.frame = NoFrame
      /\ content' \in [Frame -> 0..MaxPackets]
      /\ RxCount' = RxCount /\ Consumed' = Consumed /\ Lost' = Lost /\ InRx' = InRx
      /\ UnreadFrames' = UnreadFrames /\ RxFrames' = RxFrames /\ InKernel' = InKernel
      /\ RxOK' /\ PacketsCopiedOnce' /\ Intact'
  BY <1>4, PutAway
<1>6. /\ free' \in Seq(Frame) /\ Len(free') = Len(free) + 1
      /\ NoTwice(free') /\ OnStack' = OnStack \cup {x}
  BY <1>1, <1>2, <1>3, SeqGains DEF PathTypes, Apart, OnStack
<1>7. FillFrames' = FillFrames /\ FillCount' = FillCount /\ InFill' = InFill
  BY FillStays
<1>8. PathTypes'
  BY <1>1, <1>5, <1>6 DEF PathTypes
<1>9. ReaderOK'
  BY <1>1, <1>4, <1>5, <1>7 DEF ReaderOK, Returns
<1>10. Apart'
  <2>1. NoTwice(FillFrames') /\ NoTwice(kernel') /\ NoTwice(free')
    BY <1>1, <1>6, <1>7 DEF Apart
  <2>2. (\A i, j \in UnreadFrames : i # j => RxFrames[i] # RxFrames[j])'
    BY <1>1, <1>5 DEF Apart
  <2> QED BY <1>1, <1>3, <1>5, <1>6, <1>7, <2>1, <2>2 DEF Apart
<1>11. Counted'
  <2>1. PICK u \in Nat, l \in Nat, v \in Nat, y \in Nat :
           u = Cardinality(UnreadFrames) /\ l = Lost /\ v = FillCount /\ y = Len(free)
    BY Parts
  <2>2. v + Len(kernel) + u + y + 1 = 2 * RingSize - l
    BY <1>1, <1>3, <2>1 DEF Counted
  <2>3. v + Len(kernel) + u + (y + 1) + 0 = 2 * RingSize - l
    BY <2>2, Parts
  <2> QED BY <1>5, <1>6, <1>7, <2>1, <2>3 DEF Counted
<1> QED BY <1>5, <1>8, <1>9, <1>10, <1>11 DEF PathInvariant

(* The room in a ring.                                                     *)
LEMMA RoomIs ==
    ASSUME NEW p \in Index, NEW c \in Index
    PROVE  /\ ring_free(p, c) \in Nat
           /\ ring_free(p, c) = 0 <=> InRing(p, c) >= RingSize
           /\ ring_free(p, c) # 0 => ring_free(p, c) = RingSize - InRing(p, c)
<1>1. InRing(p, c) \in Nat /\ RingSize \in Nat
  BY InRingIs, RingFacts DEF Index
<1> QED BY <1>1 DEF ring_free

(* The frame goes into the fill ring.                                      *)
LEMMA RecycleToRingStep ==
    ASSUME PathInvariant, RecycleToRing
    PROVE  PathInvariant'
<1> USE DEF RecycleToRing, stopVars
<1>1. PathTypes /\ ReaderOK /\ Apart /\ Counted
  BY Parts
<1>2. PICK x : x = held.frame
  OBVIOUS
<1>3. /\ x \in Frame /\ InHand = {x} /\ Cardinality(InHand) = 1
      /\ x \notin InFill /\ x \notin InKernel /\ x \notin InRx /\ x \notin OnStack
  BY <1>2, FrameInHand
<1>4. Copied' = Copied
  BY <1>1 DEF Copied, ReaderOK, Returns
<1>5. /\ InHand' = {} /\ Cardinality(InHand') = 0
      /\ held' \in [frame : Frame \cup {NoFrame}, kind : Kind] /\ held'.frame = NoFrame
      /\ content' \in [Frame -> 0..MaxPackets]
      /\ RxCount' = RxCount /\ Consumed' = Consumed /\ Lost' = Lost /\ InRx' = InRx
      /\ UnreadFrames' = UnreadFrames /\ RxFrames' = RxFrames /\ InKernel' = InKernel
      /\ RxOK' /\ PacketsCopiedOnce' /\ Intact'
  BY <1>4, PutAway
<1>6. PICK n \in Nat : n = FillCount
  BY Parts
<1>7. n < RingSize
  <2>1. ring_free(fillProd, fillCons) # 0
    BY DEF FillFull
  <2>2. fillProd \in Index /\ fillCons \in Index
    BY <1>1 DEF PathTypes
  <2>3. ~(InRing(fillProd, fillCons) >= RingSize)
    BY <2>1, <2>2, RoomIs
  <2> QED BY <1>6, <2>3, Parts DEF FillCount
<1>8. PICK f, g : f = FillFrames /\ g = FillFrames'
  OBVIOUS
<1>9. /\ fillProd' \in Index /\ FillCount' = n + 1 /\ DOMAIN g = 0..n
      /\ \A i \in 0..(n - 1) : g[i] = f[i]
      /\ g[n] = x
  <2>1. PICK d, p, c, e : d = fillDesc /\ p = fillProd /\ c = fillCons /\ e = fillDesc'
    OBVIOUS
  <2>8. PICK q : q = (p + 1) % Wrap
    OBVIOUS
  <2>2. p \in Index /\ c \in Index /\ n = InRing(p, c) /\ DOMAIN d = Slot
    BY <1>1, <1>6, <2>1 DEF PathTypes, FillCount
  <2>3. p % RingSize \in Slot
    BY <1>7, <2>1, <2>2, PushedSlot
  <2>4. e[p % RingSize] = x /\ \A s \in Slot : s # p % RingSize => e[s] = d[s]
    BY <1>2, <2>1, <2>2, <2>3
  <2>5. /\ q \in Index /\ InRing(q, c) = n + 1 /\ DOMAIN Entries(q, c, e) = 0..n
        /\ Entries(q, c, e)[n] = e[p % RingSize]
    BY <1>7, <2>8, <2>2, EntriesPush
  <2>6. ASSUME NEW i \in 0..(n - 1) PROVE Entries(q, c, e)[i] = Entries(p, c, d)[i]
    BY <1>7, <2>8, <2>2, <2>4, EntryStays
  <2>7. g = Entries(q, c, e) /\ f = Entries(p, c, d) /\ FillCount' = InRing(q, c) /\ fillProd' = q
    BY <1>8, <2>8, <2>1 DEF FillFrames, Entries, FillCount, InRing
  <2> QED BY <2>4, <2>5, <2>6, <2>7
<1>10. NoTwice(g) /\ Listed(g) = Listed(f) \cup {x}
  <2>1. NoTwice(f) /\ DOMAIN f = 0..(n - 1) /\ g[n] \notin Listed(f)
    BY <1>1, <1>3, <1>6, <1>8, <1>9, RingContents DEF Apart, InFill
  <2> QED BY <1>9, <2>1, RingGains
<1>11. InFill' = InFill \cup {x} /\ NoTwice(FillFrames')
  BY <1>8, <1>10 DEF InFill
<1>12. OnStack' = OnStack
  BY DEF OnStack, Listed
<1>13. PathTypes'
  <2>1. fillDesc' \in [Slot -> Frame \cup {NoFrame}]
    BY <1>1, <1>2, <1>3 DEF PathTypes
  <2> QED BY <1>1, <1>5, <1>9, <2>1 DEF PathTypes
<1>14. ReaderOK'
  BY <1>1, <1>4, <1>5, <1>6, <1>7, <1>9, RingFacts DEF ReaderOK, Returns
<1>15. Apart'
  <2>1. NoTwice(kernel') /\ NoTwice(free')
    BY <1>1 DEF Apart
  <2>2. (\A i, j \in UnreadFrames : i # j => RxFrames[i] # RxFrames[j])'
    BY <1>1, <1>5 DEF Apart
  <2> QED BY <1>1, <1>3, <1>5, <1>11, <1>12, <2>1, <2>2 DEF Apart
<1>16. Counted'
  <2>1. PICK u \in Nat, l \in Nat, y \in Nat, z \in Nat :
           u = Cardinality(UnreadFrames) /\ l = Lost /\ y = Len(free) /\ z = Len(kernel)
    BY Parts
  <2>2. n + z + u + y + 1 = 2 * RingSize - l
    BY <1>1, <1>3, <1>6, <2>1 DEF Counted
  <2>3. (n + 1) + z + u + y + 0 = 2 * RingSize - l
    BY <2>2, Parts
  <2> QED BY <1>5, <1>9, <2>1, <2>3 DEF Counted
<1> QED BY <1>5, <1>13, <1>14, <1>15, <1>16 DEF PathInvariant

(* As many frames leave the stack for the fill ring as the reader's view   *)
(* of its consumer left room for; the consumer only moved on since.        *)
LEMMA FillRefillStep ==
    ASSUME PathInvariant, fill_fill_ring
    PROVE  PathInvariant'
<1> USE DEF fill_fill_ring, stopVars
<1>1. PathTypes /\ ReaderOK /\ Apart /\ Counted
  BY Parts
<1>2. PICK room : room = ring_free(fillProd, seen)
  OBVIOUS
<1>3. PICK k : k = IF room < Len(free) THEN room ELSE Len(free)
  OBVIOUS
<1>4. /\ fillDesc' = [s \in Slot |->
             IF (s - fillProd) % RingSize < k THEN free[Len(free) - ((s - fillProd) % RingSize)]
                                              ELSE fillDesc[s]]
      /\ fillProd' = (fillProd + k) % Wrap
      /\ free' = SubSeq(free, 1, Len(free) - k)
  BY <1>2, <1>3
<1>5. PICK n \in Nat : n = FillCount
  BY Parts
<1>6. k \in Nat /\ k <= Len(free) /\ n + k <= RingSize
  <2>1. fillProd \in Index /\ seen \in Index /\ n <= InRing(fillProd, seen) /\ n <= RingSize
    BY <1>1, <1>5 DEF PathTypes, ReaderOK
  <2>2. InRing(fillProd, seen) \in Nat /\ RingSize \in Nat /\ Len(free) \in Nat
    BY <2>1, InRingIs, RingFacts, Parts DEF Index
  <2>3. /\ room \in Nat /\ room = 0 <=> InRing(fillProd, seen) >= RingSize
        /\ room # 0 => room = RingSize - InRing(fillProd, seen)
    BY <1>2, <2>1, RoomIs
  <2>4. n + room <= RingSize
    BY <2>1, <2>2, <2>3
  <2> QED BY <1>3, <2>2, <2>3, <2>4
<1>7. PICK f, g : f = FillFrames /\ g = FillFrames'
  OBVIOUS
<1>8. /\ fillProd' \in Index /\ FillCount' = n + k /\ DOMAIN g = 0..(n + k - 1)
      /\ \A i \in 0..(n - 1) : g[i] = f[i]
      /\ \A i \in n..(n + k - 1) : g[i] = free[Len(free) - (i - n)]
  <2>1. PICK d, p, c, e, h, m :
           /\ d = fillDesc /\ p = fillProd /\ c = fillCons /\ e = fillDesc' /\ h = free
           /\ m = Len(free)
    OBVIOUS
  <2>2. p \in Index /\ c \in Index /\ n = InRing(p, c) /\ m \in Int
    BY <1>1, <1>5, <2>1, Parts DEF PathTypes, FillCount
  <2>3. PICK q : q = (p + k) % Wrap
    OBVIOUS
  <2>4. Filled(e, d, p, k, h, m)
    BY <1>4, <2>1 DEF Filled
  <2>5. q \in Index /\ InRing(q, c) = n + k /\ DOMAIN Entries(q, c, e) = 0..(n + k - 1)
    BY <1>6, <2>2, <2>3, EntriesFill
  <2>6. ASSUME NEW i \in 0..(n + k - 1)
        PROVE  Entries(q, c, e)[i] = IF i < n THEN Entries(p, c, d)[i] ELSE h[m - (i - n)]
    BY <1>6, <2>2, <2>3, <2>4, FilledEntry, SMTT(30)
  <2>7. g = Entries(q, c, e) /\ f = Entries(p, c, d) /\ FillCount' = InRing(q, c) /\ fillProd' = q
    BY <1>4, <1>7, <2>1, <2>3 DEF FillFrames, Entries, FillCount, InRing
  <2>8. ASSUME NEW i \in 0..(n - 1) PROVE g[i] = f[i]
    <3>1. i \in 0..(n + k - 1) /\ i < n
      BY <1>6
    <3> QED BY <2>6, <2>7, <3>1
  <2>9. ASSUME NEW i \in n..(n + k - 1) PROVE g[i] = free[Len(free) - (i - n)]
    <3>1. i \in 0..(n + k - 1) /\ ~(i < n)
      BY <1>6
    <3> QED BY <2>1, <2>6, <2>7, <3>1
  <2> QED BY <2>5, <2>7, <2>8, <2>9
<1>9. PICK s, t, many : s = free /\ t = free' /\ many = Len(free)
  OBVIOUS
<1>10. /\ t \in Seq(Frame) /\ Len(t) = many - k
       /\ NoTwice(g) /\ NoTwice(t)
       /\ Listed(g) \cap Listed(t) = {}
       /\ Listed(g) \cup Listed(t) = Listed(f) \cup Listed(s)
  <2>1. /\ s \in Seq(Frame) /\ k \in Nat /\ k <= many /\ NoTwice(s) /\ many \in Nat /\ DOMAIN s = 1..many
        /\ many = Len(s)
    BY <1>1, <1>6, <1>9 DEF PathTypes, Apart
  <2>2. DOMAIN f = 0..(n - 1) /\ NoTwice(f) /\ Listed(f) \cap Listed(s) = {}
    BY <1>1, <1>5, <1>7, <1>9, RingContents DEF Apart, InFill, OnStack
  <2>3. Followed(g, f, n, s, many, k)
    BY <1>8, <1>9, <2>1, <2>2 DEF Followed
  <2>4. t = SubSeq(s, 1, many - k) /\ many - k \in 0..Len(s)
    BY <1>4, <1>9, <2>1
  <2>5. t \in Seq(Frame) /\ Len(t) = many - k /\ LeftOf(t, s, many, k)
    <3>1. PICK z \in 0..Len(s) : z = many - k
      BY <2>4
    <3>2. t = SubSeq(s, 1, z)
      BY <2>4, <3>1
    <3>3. t \in Seq(Frame) /\ Len(t) = z /\ DOMAIN t = 1..z /\ \A i \in 1..z : t[i] = s[i]
      BY <2>1, <3>2, Prefix
    <3> QED BY <3>1, <3>3 DEF LeftOf
  <2>6. NoTwice(g) /\ NoTwice(t)
    BY <2>1, <2>2, <2>3, <2>5, ListsShare
  <2>7. Listed(g) \cap Listed(t) = {} /\ Listed(g) \cup Listed(t) = Listed(f) \cup Listed(s)
    BY <2>1, <2>2, <2>3, <2>5, ListsShare
  <2> QED BY <2>5, <2>6, <2>7
<1>11. /\ InFill' \cap OnStack' = {} /\ InFill' \cup OnStack' = InFill \cup OnStack
       /\ NoTwice(FillFrames') /\ NoTwice(free')
  BY <1>7, <1>9, <1>10 DEF InFill, OnStack
<1>12. Copied' = Copied
  BY <1>1 DEF Copied, ReaderOK, Returns
<1>13. /\ RxCount' = RxCount /\ Consumed' = Consumed /\ Lost' = Lost /\ InRx' = InRx
       /\ UnreadFrames' = UnreadFrames /\ RxFrames' = RxFrames /\ RxOK' /\ PacketsCopiedOnce'
  BY <1>12, Parts, RxStays
<1>14. InKernel' = InKernel /\ InHand' = InHand
  BY DEF InKernel, Listed, InHand
<1>15. PathTypes'
  <2>1. fillDesc' \in [Slot -> Frame \cup {NoFrame}]
    <3>1. ASSUME NEW x \in Slot
          PROVE  (IF (x - fillProd) % RingSize < k THEN free[Len(free) - ((x - fillProd) % RingSize)]
                                                   ELSE fillDesc[x]) \in Frame \cup {NoFrame}
      <4>1. x - fillProd \in Int /\ RingSize \in Nat \ {0}
        <5>1. RingSize \in Nat \ {0} /\ Wrap \in Nat
          BY RingFacts
        <5>2. fillProd \in Int
          BY <1>1, <5>1 DEF PathTypes, Index
        <5>3. x \in Int
          BY <5>1 DEF Slot
        <5> QED BY <5>1, <5>2, <5>3
      <4>2. PICK a \in Nat : a = (x - fillProd) % RingSize
        BY <4>1, Remainder
      <4>3. a < k => free[Len(free) - a] \in Frame
        <5>1. a < k => Len(free) - a \in 1..Len(free)
          BY <1>6, Parts
        <5> QED BY <1>1, <5>1 DEF PathTypes
      <4>4. fillDesc[x] \in Frame \cup {NoFrame}
        BY <1>1 DEF PathTypes
      <4> QED BY <4>2, <4>3, <4>4
    <3> QED BY <1>4, <3>1
  <2>2. 0 \in Index /\ 0 \in 0..3
    BY RingFacts DEF Index
  <2>3. free' \in Seq(Frame)
    BY <1>9, <1>10
  <2> QED BY <1>1, <1>8, <2>1, <2>2, <2>3 DEF PathTypes
<1>16. ReaderOK'
  BY <1>1, <1>6, <1>8, <1>12, <1>13 DEF ReaderOK, Returns
<1>17. Apart'
  <2>1. NoTwice(kernel') /\ InFill \subseteq Frame /\ OnStack \subseteq Frame
    BY <1>1 DEF Apart, OnStack, Listed, PathTypes
  <2>2. (\A i, j \in UnreadFrames : i # j => RxFrames[i] # RxFrames[j])'
    BY <1>1, <1>13 DEF Apart
  <2>3. InFill' \subseteq InFill \cup OnStack /\ OnStack' \subseteq InFill \cup OnStack
    BY <1>11
  <2> QED BY <1>1, <1>11, <1>13, <1>14, <2>1, <2>2, <2>3 DEF Apart
<1>18. Counted'
  <2>1. PICK u \in Nat, l \in Nat, y \in Nat, z \in Nat :
           u = Cardinality(UnreadFrames) /\ l = Lost /\ y = Len(free) /\ z = Len(kernel)
    BY Parts
  <2>2. PICK w \in Nat : w = Cardinality(InHand)
    BY HandCount
  <2>3. n + z + u + y + w = 2 * RingSize - l
    BY <1>1, <1>5, <2>1, <2>2 DEF Counted
  <2>4. (n + k) + z + u + (y - k) + w = 2 * RingSize - l
    BY <1>6, <2>3, Parts
  <2>5. Len(free') = y - k /\ Len(kernel') = z /\ Cardinality(InHand') = w
    BY <1>9, <1>10, <1>14, <2>1, <2>2
  <2> QED BY <1>8, <1>13, <2>1, <2>4, <2>5 DEF Counted
<1>19. Intact'
  BY <1>13, Parts DEF Intact
<1> QED BY <1>13, <1>15, <1>16, <1>17, <1>18, <1>19 DEF PathInvariant

(* The positions of a sequence.                                            *)
LEMMA PositionsCount ==
    ASSUME NEW S, NEW s \in Seq(S)
    PROVE  IsFiniteSet(DOMAIN s) /\ Cardinality(DOMAIN s) = Len(s)
<1>1. PICK n \in Nat : n = Len(s)
  OBVIOUS
<1>2. DOMAIN s = 1..n /\ 1 \in Int /\ n \in Int
  BY <1>1
<1>3. IsFiniteSet(1..n) /\ Cardinality(1..n) = n
  BY <1>2, FS_Interval
<1> QED BY <1>1, <1>2, <1>3

(* Every step keeps the invariant.                                         *)
LEMMA PathStep ==
    ASSUME PathInvariant, [PathNext]_pathVars
    PROVE  PathInvariant'
<1>1. CASE KernelTakesFrame
  BY <1>1, TakeStep
<1>2. CASE KernelDelivers
  BY <1>2, DeliverStep
<1>3. CASE Quiet
  BY <1>3, QuietStep
<1>4. CASE SkipCorrupt
  BY <1>4, SkipCorruptStep
<1>5. CASE SkipShort
  BY <1>5, SkipShortStep
<1>6. CASE CopyPacket
  BY <1>6, CopyPacketStep
<1>7. CASE Advance
  BY <1>7, AdvanceStep
<1>8. CASE RecycleToRing
  BY <1>8, RecycleToRingStep
<1>9. CASE RecycleToStack
  BY <1>9, RecycleToStackStep
<1>10. CASE fill_fill_ring
  BY <1>10, FillRefillStep
<1> QED BY <1>1, <1>2, <1>3, <1>4, <1>5, <1>6, <1>7, <1>8, <1>9, <1>10
        DEF PathNext, Reader, Quiet

(* The inductive invariant of the packet path (read_bbo, poll_packet and   *)
(* the recycling of frames), for every ring size and any number of packets. *)
THEOREM PathInvariantHolds == PathSpec => []PathInvariant
<1>1. PathInit => PathInvariant
  BY PathStarts
<1>2. PathInvariant /\ [PathNext]_pathVars => PathInvariant'
  BY PathStep
<1> QED BY <1>1, <1>2, PTL DEF PathSpec

(* Types of the rings, the frames and the reader's state; the stack never  *)
(* holds more than all frames.                                             *)
THEOREM PathTypeCorrect == PathSpec => []PathTypeOK
<1>1. PathInvariant => PathTypeOK
  <2> SUFFICES ASSUME PathInvariant PROVE PathTypeOK
    OBVIOUS
  <2>1. PathTypes /\ NoTwice(free)
    BY Parts DEF Apart
  <2>2. Len(free) <= Cardinality(Frame)
    <3>2. IsFiniteSet(DOMAIN free) /\ Cardinality(DOMAIN free) = Len(free)
      BY <2>1, PositionsCount DEF PathTypes
    <3>3. Cardinality({free[i] : i \in DOMAIN free}) = Len(free)
      BY <2>1, <3>2, ListCount DEF NoTwice
    <3>4. {free[i] : i \in DOMAIN free} \subseteq Frame
      BY <2>1 DEF PathTypes
    <3> QED BY <3>3, <3>4, FrameFacts, FS_Subset
  <2> QED BY <2>1, <2>2 DEF PathTypes, PathTypeOK, Index
<1> QED BY <1>1, PathInvariantHolds, PTL

(* Two sets that share nothing count together.                             *)
LEMMA CountsAdd ==
    ASSUME NEW A, NEW B, IsFiniteSet(A), IsFiniteSet(B), A \cap B = {}
    PROVE  IsFiniteSet(A \cup B) /\ Cardinality(A \cup B) = Cardinality(A) + Cardinality(B)
<1>1. Cardinality(A \cap B) = 0
  BY FS_EmptySet
<1>2. Cardinality(A) \in Nat /\ Cardinality(B) \in Nat
  BY FS_CardinalityType
<1>3. /\ IsFiniteSet(A \cup B)
      /\ Cardinality(A \cup B) = Cardinality(A) + Cardinality(B) - Cardinality(A \cap B)
  BY FS_Union
<1> QED BY <1>1, <1>2, <1>3

(* No frame of the packet memory is lost but by a corrupt descriptor, and  *)
(* none is in two places, whatever the driver and the reader interleave.   *)
THEOREM FramesConservedHolds == PathSpec => []FramesConserved
<1>1. PathInvariant => FramesConserved
  <2> SUFFICES ASSUME PathInvariant PROVE FramesConserved
    OBVIOUS
  <2>1. PathTypes /\ ReaderOK /\ Apart /\ Counted
    BY Parts
  <2>2. /\ IsFiniteSet(InFill) /\ Cardinality(InFill) = FillCount
        /\ Cardinality(DOMAIN FillFrames) = FillCount
    <3>1. DOMAIN FillFrames = 0..(FillCount - 1) /\ FillCount \in Nat /\ 0 \in Int
          /\ FillCount - 1 \in Int
      BY <2>1, RingContents
    <3>2. IsFiniteSet(DOMAIN FillFrames) /\ Cardinality(DOMAIN FillFrames) = FillCount
      BY <3>1, FS_Interval
    <3> QED BY <2>1, <3>2, ListCount DEF Apart, NoTwice, InFill, Listed
  <2>3. IsFiniteSet(InKernel) /\ Cardinality(InKernel) = Len(kernel)
    <3>2. IsFiniteSet(DOMAIN kernel) /\ Cardinality(DOMAIN kernel) = Len(kernel)
      BY <2>1, PositionsCount DEF PathTypes
    <3> QED BY <2>1, <3>2, ListCount DEF Apart, NoTwice, InKernel, Listed
  <2>4. IsFiniteSet(OnStack) /\ Cardinality(OnStack) = Len(free)
    <3>2. IsFiniteSet(DOMAIN free) /\ Cardinality(DOMAIN free) = Len(free)
      BY <2>1, PositionsCount DEF PathTypes
    <3> QED BY <2>1, <3>2, ListCount DEF Apart, NoTwice, OnStack, Listed
  <2>5. IsFiniteSet(InRx) /\ Cardinality(InRx) = Cardinality(UnreadFrames)
    <3>1. IsFiniteSet(UnreadFrames)
      BY <2>1, RingContents
    <3> QED BY <2>1, <3>1, ListCount DEF Apart, InRx
  <2>6. IsFiniteSet(InHand)
    BY FS_EmptySet, FS_Singleton, HandCount
  <2>7. PICK a, b, c, d, e : /\ a = InFill /\ b = InKernel /\ c = InRx /\ d = OnStack
                             /\ e = InHand
    OBVIOUS
  <2>8. /\ a \cap b = {} /\ (a \cup b) \cap c = {} /\ (a \cup b \cup c) \cap d = {}
        /\ (a \cup b \cup c \cup d) \cap e = {}
    BY <2>1, <2>7 DEF Apart
  <2>9. /\ IsFiniteSet(a) /\ IsFiniteSet(b) /\ IsFiniteSet(c) /\ IsFiniteSet(d)
        /\ IsFiniteSet(e)
    BY <2>2, <2>3, <2>4, <2>5, <2>6, <2>7
  <2>10. IsFiniteSet(a \cup b) /\ Cardinality(a \cup b) = Cardinality(a) + Cardinality(b)
    BY <2>8, <2>9, CountsAdd
  <2>11. /\ IsFiniteSet(a \cup b \cup c)
         /\ Cardinality(a \cup b \cup c) = Cardinality(a) + Cardinality(b) + Cardinality(c)
    BY <2>8, <2>9, <2>10, CountsAdd
  <2>12. /\ IsFiniteSet(a \cup b \cup c \cup d)
         /\ Cardinality(a \cup b \cup c \cup d) =
                Cardinality(a) + Cardinality(b) + Cardinality(c) + Cardinality(d)
    BY <2>8, <2>9, <2>11, CountsAdd
  <2>13. Cardinality(a \cup b \cup c \cup d \cup e) =
            Cardinality(a) + Cardinality(b) + Cardinality(c) + Cardinality(d) + Cardinality(e)
    BY <2>8, <2>9, <2>12, CountsAdd
  <2>14. Cardinality(InFill \cup InKernel \cup InRx \cup OnStack \cup InHand) =
            FillCount + Len(kernel) + Cardinality(UnreadFrames) + Len(free) + Cardinality(InHand)
    <3>1. /\ Cardinality(a) = FillCount /\ Cardinality(b) = Len(kernel)
          /\ Cardinality(c) = Cardinality(UnreadFrames) /\ Cardinality(d) = Len(free)
          /\ Cardinality(e) = Cardinality(InHand)
      BY <2>2, <2>3, <2>4, <2>5, <2>7
    <3> QED BY <2>7, <2>13, <3>1
  <2>15. FillCount + Len(kernel) + Cardinality(UnreadFrames) + Len(free) + Cardinality(InHand)
            = Cardinality(Frame) - Lost
    BY <2>1, FrameFacts DEF Counted
  <2>16. InRing(fillProd, fillCons) <= RingSize
    BY <2>1 DEF ReaderOK, FillCount
  <2> QED BY <2>2, <2>14, <2>15, <2>16
          DEF FramesConserved, InFill, InKernel, InRx, OnStack, InHand, Listed
<1> QED BY <1>1, PathInvariantHolds, PTL

(* poll_packet copies each valid packet once, whole and in order, although *)
(* its frame is offered to the kernel before the RX index moves.           *)
THEOREM PacketsCopiedOnceHolds == PathSpec => []PacketsCopiedOnce
<1>1. PathInvariant => PacketsCopiedOnce
  BY DEF PathInvariant
<1> QED BY <1>1, PathInvariantHolds, PTL
=============================================================================
