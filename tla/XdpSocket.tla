----------------------------- MODULE XdpSocket -----------------------------
(***************************************************************************)
(* Set-up and tear-down of the gateway's AF_XDP socket (xdp_listener.cpp): *)
(* the constructor with setup_umem and setup_xdp_socket, built with        *)
(* HAVE_LIBXDP, and the destructor, in every process that runs a listener  *)
(* on the interface.  The processes share the kernel's BPF maps: the XDP   *)
(* program attached to the interface looks up the queue of a packet in its *)
(* xsks_map and sends the packet to the socket it finds.                   *)
(*                                                                         *)
(* A call of the kernel either succeeds or fails; what the kernel keeps of *)
(* it is external.  Deletions and updates that the code repeats until they *)
(* succeed are one step that may still fail.                               *)
(***************************************************************************)
EXTENDS Integers

CONSTANTS
    Listener,       \* processes with an XDP listener
    Map,            \* ids of maps named xsks_map; a later load has a higher id
    QueueOf,        \* receive queue each listener was given (--xdp-queue-id)
    QueueCount,     \* queues found under /sys/class/net; 0 when unknown
    LookupWorks,    \* does the kernel answer lookups of such a map
    MaxCrashes,     \* bound: crashes of processes
    None, Stale     \* no entry; an entry whose socket is closed

Queue == {QueueOf[l] : l \in Listener} \cup {0}
Newest == CHOOSE m \in Map : \A n \in Map : n <= m

ASSUME XdpAssumption ==
    /\ Map \subseteq Nat \ {0} /\ None \notin Map
    /\ \E m \in Map : \A n \in Map : n <= m       \* there is a newest map
    /\ QueueOf \in [Listener -> Nat]
    /\ QueueCount \in Nat /\ MaxCrashes \in Nat
    /\ LookupWorks \in BOOLEAN
    /\ None # Stale /\ {None, Stale} \cap Listener = {}

VARIABLES
    pc,         \* where the constructor or destructor of each listener is
    sock,       \* xdp_socket_fd_: how far the kernel's socket has come
    umem,       \* is the packet memory mapped
    mapFd,      \* xsk_map_fd_: the map held open, or None
    filled,     \* has the fill ring been given frames
    entry,      \* the kernel's maps: socket at each queue of each map
    missed,     \* listeners whose update of a further map failed
    crashes

listenerVars == <<pc, sock, umem, mapFd, filled>>
vars == <<listenerVars, entry, missed, crashes>>

Setup == {"umem", "interface", "map", "queue 0", "target", "verify", "socket",
          "options", "bind", "force", "rebind", "rings", "fill", "check",
          "update", "update all"}
Teardown == {"unmap", "remove", "close"}

TypeOK ==
    /\ pc \in [Listener -> Setup \cup Teardown \cup {"ready", "failed", "gone", "dead"}]
    /\ sock \in [Listener -> {"closed", "open", "configured", "bound", "mapped"}]
    /\ umem \in [Listener -> BOOLEAN] /\ filled \in [Listener -> BOOLEAN]
    /\ mapFd \in [Listener -> Map \cup {None}]
    /\ entry \in [Map \X Queue -> Listener \cup {None, Stale}]
    /\ missed \subseteq Listener
    /\ crashes \in 0..MaxCrashes

(* Entries of earlier runs, whose sockets are closed, may be anywhere.     *)
Init ==
    /\ pc = [l \in Listener |-> "umem"]
    /\ sock = [l \in Listener |-> "closed"]
    /\ umem = [l \in Listener |-> FALSE]
    /\ mapFd = [l \in Listener |-> None]
    /\ filled = [l \in Listener |-> FALSE]
    /\ entry \in [Map \X Queue -> {None, Stale}]
    /\ missed = {} /\ crashes = 0

Goto(l, label) == pc' = [pc EXCEPT ![l] = label]
Holds(l, q) == <<mapFd[l], q>>
Deleted(e, slots) == [s \in DOMAIN e |-> IF s \in slots THEN None ELSE e[s]]
(* The kernel forgets a closed socket; what maps hold of it is stale.      *)
Orphaned(l) == [s \in DOMAIN entry |-> IF entry[s] = l THEN Stale ELSE entry[s]]

CloseSocket(l) ==
    /\ sock' = [sock EXCEPT ![l] = "closed"]
    /\ filled' = [filled EXCEPT ![l] = FALSE]
    /\ entry' = Orphaned(l)

(* Most failures close the socket and the map and throw.  The object was   *)
(* not constructed: no destructor runs, and the packet memory stays.       *)
ReleaseAndThrow(l) ==
    /\ Goto(l, "failed")
    /\ CloseSocket(l)
    /\ mapFd' = [mapFd EXCEPT ![l] = None]
    /\ UNCHANGED <<umem, missed, crashes>>

(* A failure in map_rings, or a socket with descriptor 0, closes nothing.  *)
ThrowOnly(l) ==
    /\ Goto(l, "failed")
    /\ UNCHANGED <<sock, umem, mapFd, filled, entry, missed, crashes>>

---------------------------------------------------------------------------
(* The constructor.                                                        *)

SetupUmem(l) ==
    /\ pc[l] = "umem"
    /\ \/ /\ Goto(l, "interface") /\ umem' = [umem EXCEPT ![l] = TRUE]
       \/ /\ Goto(l, "failed") /\ UNCHANGED umem   \* no interface, no memory
    /\ UNCHANGED <<sock, mapFd, filled, entry, missed, crashes>>

(* A queue that does not seem to exist is only warned about.               *)
VerifyInterface(l) ==
    /\ pc[l] = "interface"
    /\ \/ /\ Goto(l, "map")
          /\ UNCHANGED <<sock, umem, mapFd, filled, entry, missed, crashes>>
       \/ ThrowOnly(l)

(* The newest map is taken, be its program attached or not.                *)
FindMap(l) ==
    /\ pc[l] = "map"
    /\ \/ /\ Goto(l, "queue 0")
          /\ mapFd' = [mapFd EXCEPT ![l] = Newest]
          /\ UNCHANGED <<sock, umem, filled, entry, missed, crashes>>
       \/ ThrowOnly(l)                             \* no map can be opened

(* An entry that a lookup shows counts as stale, whoever owns it: both     *)
(* branches of the test set is_stale.                                      *)
CleanEntry(l, q) ==
    \/ UNCHANGED entry                             \* nothing seen, or ten failures
    \/ LookupWorks /\ entry' = Deleted(entry, {Holds(l, q)})

CleanQueueZero(l) ==
    /\ pc[l] = "queue 0" /\ Goto(l, "target")
    /\ CleanEntry(l, 0)
    /\ UNCHANGED <<sock, umem, mapFd, filled, missed, crashes>>

CleanTarget(l) ==
    /\ pc[l] = "target" /\ Goto(l, "verify")
    /\ IF QueueCount > 0 /\ QueueOf[l] >= QueueCount
       THEN UNCHANGED entry
       ELSE CleanEntry(l, QueueOf[l])
    /\ UNCHANGED <<sock, umem, mapFd, filled, missed, crashes>>

VerifyCleanup(l) ==
    /\ pc[l] = "verify" /\ Goto(l, "socket")
    /\ CleanEntry(l, QueueOf[l])
    /\ UNCHANGED <<sock, umem, mapFd, filled, missed, crashes>>

CreateSocket(l) ==
    /\ pc[l] = "socket"
    /\ \/ /\ Goto(l, "options")
          /\ sock' = [sock EXCEPT ![l] = "open"]
          /\ UNCHANGED <<umem, mapFd, filled, entry, missed, crashes>>
       \/ ReleaseAndThrow(l)

(* Packet memory and the four rings, one setsockopt each.                  *)
SetOptions(l) ==
    /\ pc[l] = "options"
    /\ \/ /\ Goto(l, "bind")
          /\ sock' = [sock EXCEPT ![l] = "configured"]
          /\ UNCHANGED <<umem, mapFd, filled, entry, missed, crashes>>
       \/ ReleaseAndThrow(l)

QueueTaken(l) ==
    \E k \in Listener \ {l} : QueueOf[k] = QueueOf[l] /\ sock[k] \in {"bound", "mapped"}

BindSucceeds(l) ==
    /\ ~QueueTaken(l)
    /\ Goto(l, "rings")
    /\ sock' = [sock EXCEPT ![l] = "bound"]
    /\ UNCHANGED <<umem, mapFd, filled, entry, missed, crashes>>

Bind(l) ==
    /\ pc[l] = "bind"
    /\ \/ BindSucceeds(l)
       \/ /\ Goto(l, "force")                      \* EINVAL
          /\ UNCHANGED <<sock, umem, mapFd, filled, entry, missed, crashes>>
       \/ ReleaseAndThrow(l)                       \* any other error

(* The cleaning spares no queue.                                           *)
ForceCleanupAll(l) ==
    /\ pc[l] = "force" /\ Goto(l, "rebind")
    /\ entry' = Deleted(entry, {mapFd[l]} \X Queue)
    /\ UNCHANGED <<sock, umem, mapFd, filled, missed, crashes>>

(* Before the second attempt both entries go, with no look at either.      *)
ForceCleanup(l) ==
    /\ pc[l] = "force" /\ Goto(l, "rebind")
    /\ \E slots \in SUBSET {Holds(l, QueueOf[l]), Holds(l, 0)} :
          entry' = Deleted(entry, slots)
    /\ UNCHANGED <<sock, umem, mapFd, filled, missed, crashes>>

BindAgain(l) ==
    /\ pc[l] = "rebind"
    /\ BindSucceeds(l) \/ ReleaseAndThrow(l)

(* The map is updated as soon as the rings are mapped.                     *)
MapRingsAndUpdate(l) ==
    /\ pc[l] = "rings" /\ Goto(l, "fill")
    /\ sock' = [sock EXCEPT ![l] = "mapped"]
    /\ entry' = [entry EXCEPT ![Holds(l, QueueOf[l])] = l]
    /\ UNCHANGED <<umem, mapFd, filled, missed, crashes>>

MapRings(l) ==
    /\ pc[l] = "rings"
    /\ \/ /\ Goto(l, "fill")
          /\ sock' = [sock EXCEPT ![l] = "mapped"]
          /\ UNCHANGED <<umem, mapFd, filled, entry, missed, crashes>>
       \/ ThrowOnly(l)

FillRing(l) ==
    /\ pc[l] = "fill" /\ Goto(l, "check")
    /\ filled' = [filled EXCEPT ![l] = TRUE]
    /\ UNCHANGED <<sock, umem, mapFd, entry, missed, crashes>>

(* xdp_socket_fd_ <= 0: descriptor 0 is free when stdin is closed.         *)
CheckSocket(l) ==
    /\ pc[l] = "check"
    /\ \/ /\ Goto(l, "update")
          /\ UNCHANGED <<sock, umem, mapFd, filled, entry, missed, crashes>>
       \/ ThrowOnly(l)

(* A failure of the check is found after the map was updated.              *)
UpdateMapThenCheck(l) ==
    /\ pc[l] = "update"
    /\ entry' = [entry EXCEPT ![Holds(l, QueueOf[l])] = l]
    /\ Goto(l, "update all") \/ Goto(l, "failed")
    /\ UNCHANGED <<sock, umem, mapFd, filled, missed, crashes>>

(* BPF_ANY, then BPF_NOEXIST, then BPF_EXIST.                              *)
UpdateMap(l) ==
    /\ pc[l] = "update"
    /\ \/ /\ Goto(l, "update all")
          /\ entry' = [entry EXCEPT ![Holds(l, QueueOf[l])] = l]
          /\ UNCHANGED <<sock, umem, mapFd, filled, missed, crashes>>
       \/ ReleaseAndThrow(l)

(* Every other map gets the socket too; a failure is only logged.  The     *)
(* look at the entry that follows changes nothing.                         *)
UpdateAllMaps(l) ==
    /\ pc[l] = "update all" /\ Goto(l, "ready")
    /\ \E updated \in SUBSET Map :
          /\ mapFd[l] \in updated
          /\ entry' = [s \in DOMAIN entry |->
                          IF s[1] \in updated /\ s[2] = QueueOf[l] THEN l ELSE entry[s]]
          /\ missed' = IF updated = Map THEN missed \ {l} ELSE missed \cup {l}
    /\ UNCHANGED <<sock, umem, mapFd, filled, crashes>>

---------------------------------------------------------------------------
(* The destructor, and the end of a process.                               *)

Destroy(l) ==
    /\ pc[l] = "ready" /\ Goto(l, "unmap")
    /\ UNCHANGED <<sock, umem, mapFd, filled, entry, missed, crashes>>

UnmapUmem(l) ==
    /\ pc[l] = "unmap" /\ Goto(l, "remove")
    /\ umem' = [umem EXCEPT ![l] = FALSE]
    /\ UNCHANGED <<sock, mapFd, filled, entry, missed, crashes>>

(* Only the entry of the map that was chosen is removed.                   *)
RemoveEntry(l) ==
    /\ pc[l] = "remove" /\ Goto(l, "close")
    /\ \/ entry' = Deleted(entry, {Holds(l, QueueOf[l])})
       \/ UNCHANGED entry
    /\ UNCHANGED <<sock, umem, mapFd, filled, missed, crashes>>

CloseAll(l) ==
    /\ pc[l] = "close" /\ Goto(l, "gone")
    /\ CloseSocket(l)
    /\ mapFd' = [mapFd EXCEPT ![l] = None]
    /\ UNCHANGED <<umem, missed, crashes>>

Crash(l) ==
    /\ crashes < MaxCrashes /\ pc[l] # "dead"
    /\ crashes' = crashes + 1
    /\ Goto(l, "dead")
    /\ CloseSocket(l)
    /\ umem' = [umem EXCEPT ![l] = FALSE]
    /\ mapFd' = [mapFd EXCEPT ![l] = None]
    /\ missed' = missed \ {l}

Restart(l) ==
    /\ pc[l] = "dead" /\ Goto(l, "umem")
    /\ UNCHANGED <<sock, umem, mapFd, filled, entry, missed, crashes>>

Construct(l) ==
    \/ SetupUmem(l) \/ VerifyInterface(l) \/ FindMap(l)
    \/ CleanQueueZero(l) \/ CleanTarget(l) \/ VerifyCleanup(l)
    \/ CreateSocket(l) \/ SetOptions(l) \/ Bind(l) \/ ForceCleanup(l)
    \/ BindAgain(l) \/ MapRings(l) \/ FillRing(l) \/ CheckSocket(l)
    \/ UpdateMap(l) \/ UpdateAllMaps(l)

Destruct(l) == UnmapUmem(l) \/ RemoveEntry(l) \/ CloseAll(l)

Next == \E l \in Listener :
    Construct(l) \/ Destroy(l) \/ Destruct(l) \/ Crash(l) \/ Restart(l)

Spec == Init /\ [][Next]_vars

---------------------------------------------------------------------------
(* A map never names a socket before it is bound to the queue of its key,  *)
(* with mapped rings and frames in the fill ring: the order which the      *)
(* comments of setup_xdp_socket ask for, kept through failed constructors, *)
(* crashes and destructors.                                                *)
EntryIsReady ==
    \A s \in DOMAIN entry : entry[s] \in Listener =>
        /\ s[2] = QueueOf[entry[s]]
        /\ sock[entry[s]] = "mapped" /\ filled[entry[s]]

(* Once the constructor has returned, packets of the listener's queue go   *)
(* to its socket until its destructor runs, whichever map's program is the *)
(* attached one and whatever the listeners of other queues do meanwhile,   *)
(* unless the update of a further map failed.                              *)
KeepsReceiving ==
    \A l \in Listener : pc[l] = "ready" /\ l \notin missed
        => \A m \in Map : entry[<<m, QueueOf[l]>>] = l

(* A constructor that threw has left no map naming its socket, so that the *)
(* packets reach the UDP listener the gateway falls back to; the socket    *)
(* itself is closed unless map_rings or the check of the descriptor threw. *)
FallbackGetsPackets ==
    \A l \in Listener : pc[l] = "failed" =>
        /\ \A s \in DOMAIN entry : entry[s] # l
        /\ sock[l] \in {"closed", "bound", "mapped"}
        /\ sock[l] = "closed" \/ mapFd[l] # None

============================================================================
