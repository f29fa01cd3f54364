---------------------------- MODULE HeadTracker ----------------------------
(***************************************************************************)
(* The sensor's shared best-known head (HeadBlock, part_000 lines 66-70)   *)
(* and the sync.RWMutex that guards it (Eth66ProtocolOptions.HeadMutex).   *)
(* Handshakes read the head under RLock (lines 93-103); handleNewBlock     *)
(* replaces it under Lock (lines 379-389).                                 *)
(*                                                                         *)
(* The lock follows Go's sync.RWMutex: a writer first takes the writer     *)
(* mutex and announces itself (readerCount -= rwmutexMaxReaders); from     *)
(* then on every new RLock blocks; the writer proceeds when the readers    *)
(* that held the lock at the announcement have left; Unlock admits every   *)
(* reader that blocked meanwhile before the next writer can announce.      *)
(* This module is an operator library composed by Eth66.                   *)
(***************************************************************************)
EXTENDS Naturals

CONSTANTS
    Worker,     \* the goroutines that use the lock (one per connection)
    None        \* no writer holds the writer mutex

VARIABLES
    head,       \* [hash, td, number]: the shared HeadBlock
    readers,    \* workers holding the read lock
    rblocked,   \* workers blocked in RLock behind an announced writer
    wHolder     \* the writer that holds the writer mutex and has announced

htVars == <<head, readers, rblocked, wHolder>>

HeadRecord(hash, td, number) == [hash |-> hash, td |-> td, number |-> number]

\* Variant of RLock without writer preference: readers enter even while a
\* writer waits.
RLockNoWriterPref(t) ==
    /\ readers' = readers \cup {t}
    /\ UNCHANGED rblocked

\* RWMutex.RLock: proceeds unless a writer has announced itself.
RLock(t) ==
    IF wHolder = None
    THEN /\ readers' = readers \cup {t}
         /\ UNCHANGED rblocked
    ELSE /\ rblocked' = rblocked \cup {t}
         /\ UNCHANGED readers

\* RWMutex.RUnlock.
RUnlock(t) == readers' = readers \ {t}

\* RWMutex.Lock, first half: take the writer mutex and announce.
AnnounceWriter(t) ==
    /\ wHolder = None
    /\ wHolder' = t

\* Variant of HoldsWriteLock that does not wait for the readers to leave.
HoldsWriteLockEarly(t) == wHolder = t

\* RWMutex.Lock, second half: the announced writer holds the lock once the
\* readers present at the announcement are gone (no new reader can enter).
HoldsWriteLock(t) ==
    /\ wHolder = t
    /\ readers = {}

\* RWMutex.Unlock: admit the blocked readers, release the writer mutex.
WUnlock ==
    /\ readers' = readers \cup rblocked
    /\ rblocked' = {}
    /\ wHolder' = None

\* handleNewBlock's head rule: replace the whole record only when the
\* candidate's number AND total difficulty are both strictly greater.
IsBetterHead(cand) ==
    /\ cand.number > head.number
    /\ cand.td > head.td

ProposeHead(cand) ==
    head' = IF IsBetterHead(cand) THEN cand ELSE head

=============================================================================
