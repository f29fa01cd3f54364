------------------------------- MODULE Eth66 -------------------------------
(***************************************************************************)
(* The eth/66 sensor protocol of part_000 (package p2p): one worker per    *)
(* peer connection runs the Run closure of NewEth66Protocol: status        *)
(* exchange under the shared head's read lock, then the dispatch loop.    *)
(* The workers share the HeadBlock and its RWMutex (module HeadTracker)    *)
(* and the Database collaborator; everything else is per connection.       *)
(*                                                                         *)
(* The remote peer is the environment: it answers the requests it was sent *)
(* (GetBlockHeaders by hash, GetBlockBodies by request id) and sends       *)
(* unsolicited NewBlock, NewBlockHashes and BlockHeaders messages.  Within *)
(* one connection messages are read in order, so each peer message and the *)
(* handler that reads it are one step; a handler that blocks on the head's *)
(* lock (handleNewBlock) is split at the lock.                             *)
(***************************************************************************)
EXTENDS Naturals, Sequences, SequencesExt, FiniteSets

CONSTANTS
    Conn,           \* peer connections (model values), one worker each
    Block,          \* block hashes that peers talk about
    Root,           \* the genesis block, the initial head
    ZeroHash,       \* the parent hash of the genesis block
    Number,         \* Number[b]: the block number in b's header
    Parent,         \* Parent[b]: the ParentHash in b's header
    TD,             \* total difficulties a peer may announce in NewBlock
    GenesisTD,      \* total difficulty of the initial head
    NetworkID,      \* Eth66ProtocolOptions.NetworkID
    PeerNetworkID,  \* network ids a peer may put in its status packet
    WriteBlocks,    \* db.ShouldWriteBlocks() /\ db.ShouldWriteBlockEvents()
    AnswerEmpty,    \* whether a peer may answer GetBlockBodies with no body
    MaxRequests,    \* bound on conn.requestNum (model bound)
    MaxBatch,       \* bound on the items of one announcement (model bound)
    PeersCap,       \* capacity of the opts.Peers channel (made by the caller)
    SlowConsumer,   \* whether the caller's receiver of opts.Peers may lag
    None            \* nil

ASSUME /\ Root \in Block /\ ZeroHash \notin Block
       /\ Number \in [Block -> Nat] /\ Parent \in [Block -> Block \cup {ZeroHash}]
       /\ Parent[Root] = ZeroHash
       /\ \A b \in Block \ {Root} : Parent[b] \in Block /\ Number[Parent[b]] = Number[b] - 1
       /\ NetworkID \in PeerNetworkID
       /\ WriteBlocks \in BOOLEAN /\ AnswerEmpty \in BOOLEAN
       /\ MaxRequests \in Nat /\ MaxBatch \in Nat \ {0}
       /\ PeersCap \in Nat \ {0} /\ SlowConsumer \in BOOLEAN

VARIABLES
    phase,      \* phase[c]: where worker c is in Run
    status,     \* status[c]: the head snapshot sent in c's status packet
    peers,      \* the opts.Peers channel: nodes sent and not yet received
    published,  \* published[c]: sends on opts.Peers in c's current Run (ghost)
    accepted,   \* accepted[c]: c's current Run passed the network id check (ghost)
    conn,       \* conn[c]: requests, requestNum, oldestBlock of the conn struct
    wire,       \* wire[c]: GetBlockBodies requests c's peer has not answered
    newBlock,   \* newBlock[c]: the NewBlock packet whose handler waits for Lock
    db,         \* hashes for which db.HasBlock holds
    written,    \* the last db.WriteBlockBody call: [hash, body]
    fetched,    \* fetched[c]: parents fetched by getParentBlock in c's last step
    head, readers, rblocked, wHolder

vars == <<phase, status, peers, published, accepted, conn, wire, newBlock, db, written,
          fetched, head, readers, rblocked, wHolder>>

INSTANCE HeadTracker WITH Worker <- Conn

Phases == {"new", "rlockWait", "rlocked", "awaitStatus", "publishing",
           "dispatching", "lockWait", "terminated"}

Request == [requestID : Nat, hash : Block]

\* A newly created conn struct (NewEth66Protocol, Run, lines 80-91).
NewConn == [requests |-> <<>>, requestNum |-> 0, oldestBlock |-> None]

RequestIDs(c) == {r.requestID : r \in ToSet(conn[c].requests)}

-----------------------------------------------------------------------------
(* Per-connection helpers, as functions of the connection's state w =     *)
(* [conn |-> ..., wire |-> ..., fetched |-> ...] so that a handler that   *)
(* loops over a packet is a fold.                                          *)

ConnState(c) == [conn |-> conn[c], wire |-> wire[c], fetched |-> {}]

\* getBlockData: GetBlockHeaders by hash (not correlated: its answer is
\* handled like any BlockHeaders packet), then the next request id is
\* recorded with the hash and GetBlockBodies is sent with it.
GetBlockData(w, hash) ==
    LET id == w.conn.requestNum + 1
        r  == [requestID |-> id, hash |-> hash]
    IN [w EXCEPT !.conn.requestNum = id,
                 !.conn.requests   = Append(@, r),
                 !.wire            = @ \cup {r}]

\* Variant of GetParentBlock that also backfills from a header at the
\* floor's height (Cmp(...) != -1 instead of != 1).
GetParentBlockAtFloor(w, header) ==
    IF ~WriteBlocks THEN w
    ELSE IF w.conn.oldestBlock = None
         THEN [w EXCEPT !.conn.oldestBlock = header]
    ELSE IF \/ Parent[header] \in db
            \/ ~(Number[header] >= Number[w.conn.oldestBlock])
         THEN w
    ELSE [GetBlockData(w, Parent[header]) EXCEPT !.fetched = @ \cup {Parent[header]}]

\* getParentBlock: the first header seen becomes the floor; later headers
\* fetch their parent when storage lacks it and they are above the floor.
GetParentBlock(w, header) ==
    IF ~WriteBlocks THEN w
    ELSE IF w.conn.oldestBlock = None
         THEN [w EXCEPT !.conn.oldestBlock = header]
    ELSE IF \/ Parent[header] \in db
            \/ ~(Number[header] > Number[w.conn.oldestBlock])
         THEN w
    ELSE [GetBlockData(w, Parent[header]) EXCEPT !.fetched = @ \cup {Parent[header]}]

\* Commit a new per-connection state; the request id stays within the bound.
SetConnState(c, w) ==
    /\ w.conn.requestNum <= MaxRequests
    /\ conn' = [conn EXCEPT ![c] = w.conn]
    /\ wire' = [wire EXCEPT ![c] = w.wire]
    /\ fetched' = [fetched EXCEPT ![c] = w.fetched]

-----------------------------------------------------------------------------
(* Handshake: Run lines 93-110 and statusExchange lines 165-193.          *)

\* c.headMutex.RLock(); blocks behind an announced writer.
StatusRLock(c) ==
    /\ phase[c] = "new"
    /\ RLock(c)
    /\ phase' = [phase EXCEPT ![c] = IF c \in readers' THEN "rlocked" ELSE "rlockWait"]
    /\ UNCHANGED <<status, peers, published, accepted, conn, wire, newBlock, db, written,
                   fetched, head, wHolder>>

\* The status packet is built from the head and sent; the worker then
\* blocks in ReadMsg for the peer's status, still holding the read lock.
SendStatus(c) ==
    /\ phase[c] = "rlocked"
    /\ status' = [status EXCEPT ![c] = head]
    /\ phase' = [phase EXCEPT ![c] = "awaitStatus"]
    /\ UNCHANGED <<peers, published, accepted, conn, wire, newBlock, db, written, fetched,
                   head, readers, rblocked, wHolder>>

\* Variant of RecvStatus that sends the node before checking the network id.
RecvStatusPublishBeforeCheck(c, nid) ==
    /\ phase[c] = "awaitStatus"
    /\ RUnlock(c)
    /\ Len(peers) < PeersCap
    /\ peers' = Append(peers, c)
    /\ published' = [published EXCEPT ![c] = @ + 1]
    /\ phase' = [phase EXCEPT ![c] = IF nid = NetworkID THEN "dispatching" ELSE "terminated"]
    /\ accepted' = [accepted EXCEPT ![c] = (nid = NetworkID)]
    /\ UNCHANGED <<status, conn, wire, newBlock, db, written,
                   fetched, head, rblocked, wHolder>>

\* The peer's status arrives: RUnlock, then reject a foreign network id or
\* go on to publish the node.
RecvStatus(c, nid) ==
    /\ phase[c] = "awaitStatus"
    /\ RUnlock(c)
    /\ phase' = [phase EXCEPT ![c] = IF nid = NetworkID THEN "publishing" ELSE "terminated"]
    /\ accepted' = [accepted EXCEPT ![c] = (nid = NetworkID)]
    /\ UNCHANGED <<status, peers, published, conn, wire, newBlock, db, written,
                   fetched, head, rblocked, wHolder>>

\* opts.Peers <- p.Node(): a plain send, not in a select on the context,
\* so the worker blocks (and reads no message) while the channel is full;
\* then the dispatch loop starts.  A receiver that is always waiting takes
\* the node in the same step.
PublishPeer(c) ==
    /\ phase[c] = "publishing"
    /\ Len(peers) < PeersCap
    /\ peers' = IF SlowConsumer THEN Append(peers, c) ELSE peers
    /\ published' = [published EXCEPT ![c] = @ + 1]
    /\ phase' = [phase EXCEPT ![c] = "dispatching"]
    /\ UNCHANGED <<status, accepted, conn, wire, newBlock, db, written, fetched,
                   head, readers, rblocked, wHolder>>

\* The caller's consumer of opts.Peers receives the oldest node.
TakePeer ==
    /\ peers # <<>>
    /\ peers' = Tail(peers)
    /\ UNCHANGED <<phase, status, published, accepted, conn, wire, newBlock, db,
                   written, fetched, head, readers, rblocked, wHolder>>

\* A send, read, decode or discard error (or a wrong status code) ends Run;
\* during the status exchange the read lock is released first.
Disconnect(c) ==
    /\ phase[c] \in {"rlocked", "awaitStatus", "dispatching"}
    /\ IF phase[c] \in {"rlocked", "awaitStatus"} THEN RUnlock(c) ELSE UNCHANGED readers
    /\ phase' = [phase EXCEPT ![c] = "terminated"]
    /\ UNCHANGED <<status, peers, published, accepted, conn, wire, newBlock, db, written,
                   fetched, head, rblocked, wHolder>>

\* The transport dials the peer again: Run starts with a fresh conn struct.
Reconnect(c) ==
    /\ phase[c] = "terminated"
    /\ phase' = [phase EXCEPT ![c] = "new"]
    /\ status' = [status EXCEPT ![c] = None]
    /\ conn' = [conn EXCEPT ![c] = NewConn]
    /\ wire' = [wire EXCEPT ![c] = {}]
    /\ fetched' = [fetched EXCEPT ![c] = {}]
    /\ published' = [published EXCEPT ![c] = 0]
    /\ accepted' = [accepted EXCEPT ![c] = FALSE]
    /\ UNCHANGED <<peers, newBlock, db, written, head, readers, rblocked, wHolder>>

-----------------------------------------------------------------------------
(* The dispatch loop, Run lines 114-158: one step per message read.       *)

Batches == UNION {[1..n -> Block] : n \in 1..MaxBatch}

\* handleNewBlockHashes: getBlockData for every announced hash, then
\* db.WriteBlockHashes (block events only: HasBlock is unaffected).
RecvNewBlockHashes(c, hashes) ==
    /\ phase[c] = "dispatching"
    /\ SetConnState(c, FoldLeft(GetBlockData, ConnState(c), hashes))
    /\ UNCHANGED <<phase, status, peers, published, accepted, newBlock, db, written,
                   head, readers, rblocked, wHolder>>

\* handleBlockHeaders: getParentBlock for every header in packet order,
\* then db.WriteBlockHeaders for the whole packet.
\* The packet answers a GetBlockHeaders or is unsolicited: the code does not
\* tell them apart.
RecvBlockHeaders(c, headers) ==
    /\ phase[c] = "dispatching"
    /\ SetConnState(c, FoldLeft(GetParentBlock, ConnState(c), headers))
    /\ db' = IF WriteBlocks THEN db \cup ToSet(headers) ELSE db
    /\ UNCHANGED <<phase, status, peers, published, accepted, newBlock, written,
                   head, readers, rblocked, wHolder>>


\* Variant of HandleBlockBodies that assumes responses come in request
\* order and binds the body to the front of the list.
HandleBlockBodiesFIFO(c, w, id, body) ==
    IF body = None \/ w.conn.requests = <<>>
    THEN /\ SetConnState(c, w)
         /\ UNCHANGED written
    ELSE /\ SetConnState(c, [w EXCEPT !.conn.requests = Tail(@)])
         /\ written' = [hash |-> Head(w.conn.requests).hash, body |-> body]

\* Variant of HandleBlockBodies that forgets c.requests.Remove(e).
HandleBlockBodiesKeep(c, w, id, body) ==
    LET i == SelectInSeq(w.conn.requests, LAMBDA q : q.requestID = id)
    IN IF body = None \/ i = 0
       THEN /\ SetConnState(c, w)
            /\ UNCHANGED written
       ELSE /\ SetConnState(c, w)
            /\ written' = [hash |-> w.conn.requests[i].hash, body |-> body]

\* handleBlockBodies: an empty packet is ignored; otherwise the first
\* pending request with the packet's id is removed and the first body is
\* written under that request's hash; no match only logs a warning.
HandleBlockBodies(c, w, id, body) ==
    LET i == SelectInSeq(w.conn.requests, LAMBDA q : q.requestID = id)
    IN IF body = None \/ i = 0
       THEN /\ SetConnState(c, w)
            /\ UNCHANGED written
       ELSE /\ SetConnState(c, [w EXCEPT !.conn.requests = RemoveAt(@, i)])
            /\ written' = [hash |-> w.conn.requests[i].hash, body |-> body]

\* The peer answers an outstanding GetBlockBodies with the body of the
\* hash it was asked for, or (if AnswerEmpty) with no body.
PeerAnswersBodies(c, r) ==
    /\ phase[c] = "dispatching"
    /\ r \in wire[c]
    /\ \E body \in {r.hash} \cup (IF AnswerEmpty THEN {None} ELSE {}) :
          HandleBlockBodies(c, [ConnState(c) EXCEPT !.wire = @ \ {r}], r.requestID, body)
    /\ UNCHANGED <<phase, status, peers, published, accepted, newBlock, db,
                   head, readers, rblocked, wHolder>>

\* handleNewBlock, up to c.headMutex.Lock(): the packet is decoded and the
\* worker asks for the write lock.  (The bound is checked here: storage only
\* grows while the worker waits, so the fetch at commit is no larger.)
RecvNewBlock(c, b, td) ==
    /\ phase[c] = "dispatching"
    /\ GetParentBlock(ConnState(c), b).conn.requestNum <= MaxRequests
    /\ newBlock' = [newBlock EXCEPT ![c] = HeadRecord(b, td, Number[b])]
    /\ phase' = [phase EXCEPT ![c] = "lockWait"]
    /\ UNCHANGED <<status, peers, published, accepted, conn, wire, db, written, fetched,
                   head, readers, rblocked, wHolder>>

\* Lock: the worker takes the writer mutex and announces itself.
LockHead(c) ==
    /\ phase[c] = "lockWait"
    /\ AnnounceWriter(c)
    /\ UNCHANGED <<phase, status, peers, published, accepted, conn, wire, newBlock, db, written,
                   fetched, head, readers, rblocked>>

\* The rest of handleNewBlock once the readers are gone: replace the head
\* if better, Unlock (waking the blocked handshakes), getParentBlock for
\* the block's header, db.WriteBlock.
CommitNewBlock(c) ==
    /\ phase[c] = "lockWait"
    /\ HoldsWriteLock(c)
    /\ ProposeHead(newBlock[c])
    /\ WUnlock
    /\ phase' = [d \in Conn |-> IF d = c THEN "dispatching"
                                ELSE IF d \in rblocked THEN "rlocked"
                                ELSE phase[d]]
    /\ SetConnState(c, GetParentBlock(ConnState(c), newBlock[c].hash))
    /\ db' = IF WriteBlocks THEN db \cup {newBlock[c].hash} ELSE db
    /\ newBlock' = [newBlock EXCEPT ![c] = None]
    /\ UNCHANGED <<status, peers, published, accepted, written>>

-----------------------------------------------------------------------------

Init ==
    /\ phase = [c \in Conn |-> "new"]
    /\ status = [c \in Conn |-> None]
    /\ peers = <<>>
    /\ published = [c \in Conn |-> 0]
    /\ accepted = [c \in Conn |-> FALSE]
    /\ conn = [c \in Conn |-> NewConn]
    /\ wire = [c \in Conn |-> {}]
    /\ newBlock = [c \in Conn |-> None]
    /\ db = {}
    /\ written = None
    /\ fetched = [c \in Conn |-> {}]
    /\ head = HeadRecord(Root, GenesisTD, Number[Root])
    /\ readers = {}
    /\ rblocked = {}
    /\ wHolder = None

Next ==
    \/ \E c \in Conn :
           \/ StatusRLock(c)
           \/ SendStatus(c)
           \/ \E nid \in PeerNetworkID : RecvStatus(c, nid)
           \/ PublishPeer(c)
           \/ Disconnect(c)
           \/ Reconnect(c)
           \/ \E hs \in Batches : RecvNewBlockHashes(c, hs)
           \/ \E hs \in Batches : RecvBlockHeaders(c, hs)
           \/ \E r \in wire[c] : PeerAnswersBodies(c, r)
           \/ \E b \in Block, td \in TD : RecvNewBlock(c, b, td)
           \/ LockHead(c)
           \/ CommitNewBlock(c)
    \/ TakePeer

\* The sensor's goroutines run whenever they can; the Go mutex's starvation
\* mode lets a waiting writer take the writer mutex (SF).  An honest peer
\* answers the requests it was sent: the answer is queued in the ordered
\* stream, so the dispatch loop, which is only intermittently reading (it
\* may be handling other messages), eventually reads it (SF).  The
\* consumer of opts.Peers is the caller's and gets no fairness: a send on a
\* full channel may block forever.
SensorFairness ==
    \A c \in Conn :
        /\ WF_vars(StatusRLock(c))
        /\ WF_vars(SendStatus(c))
        /\ WF_vars(PublishPeer(c))
        /\ SF_vars(LockHead(c))
        /\ WF_vars(CommitNewBlock(c))
        /\ SF_vars(\E r \in wire[c] : PeerAnswersBodies(c, r))

\* A peer that is dialed answers the status exchange.
StatusFairness == \A c \in Conn : WF_vars(\E nid \in PeerNetworkID : RecvStatus(c, nid))

Spec == Init /\ [][Next]_vars /\ SensorFairness /\ StatusFairness

\* Peers may keep the connection open without ever sending their status.
SpecSilentPeers == Init /\ [][Next]_vars /\ SensorFairness

-----------------------------------------------------------------------------
(* Properties                                                              *)

HeadType == [hash : Block, td : TD \cup {GenesisTD}, number : Nat]

TypeOK ==
    /\ phase \in [Conn -> Phases]
    /\ status \in [Conn -> HeadType \cup {None}]
    /\ peers \in Seq(Conn) /\ Len(peers) <= PeersCap
    /\ published \in [Conn -> Nat] /\ accepted \in [Conn -> BOOLEAN]
    /\ \A c \in Conn :
          /\ conn[c].requestNum \in 0..MaxRequests
          /\ conn[c].requests \in Seq(Request)
          /\ conn[c].oldestBlock \in Block \cup {None}
          /\ wire[c] \subseteq Request
          /\ fetched[c] \subseteq Block
    /\ newBlock \in [Conn -> HeadType \cup {None}]
    /\ db \subseteq Block
    /\ written \in [hash : Block, body : Block] \cup {None}
    /\ head \in HeadType
    /\ readers \subseteq Conn /\ rblocked \subseteq Conn
    /\ wHolder \in Conn \cup {None}

\* While a worker is blocked in the status exchange it holds the read lock,
\* so the head it advertised in its status packet is still the shared head:
\* no handleNewBlock on any connection can replace the head in between.
StatusSnapshotCurrent ==
    \A c \in Conn : phase[c] = "awaitStatus" => status[c] = head

\* Spec, section 4.1: the peer's node is published on opts.Peers exactly
\* once per successful handshake, never before it: in every Run of a
\* worker at most one send, a send only after the network id check passed,
\* and no worker reaches the dispatch loop without having sent.
PublishedOnce ==
    \A c \in Conn :
        /\ published[c] <= 1
        /\ published[c] = 1 => accepted[c]
        /\ phase[c] \in {"dispatching", "lockWait"} => published[c] = 1

\* A handleNewBlock that waits for the head's write lock eventually gets it
\* and returns to the dispatch loop, whatever handshakes run meanwhile.
WriterProgress ==
    \A c \in Conn : phase[c] = "lockWait" ~> phase[c] = "dispatching"

\* Every body written by handleBlockBodies is stored under the hash of the
\* block it belongs to: the request id in a BlockBodies response resolves
\* to the hash that getBlockData recorded for that id, however requests
\* from NewBlockHashes, NewBlock and BlockHeaders interleave.
BodiesBoundCorrectly ==
    written # None => written.hash = written.body

\* Spec, section 8: "given a connection whose floor header is number F, no
\* backfill request is ever issued for an ancestor at or below F".
BackfillAboveFloor ==
    \A c \in Conn : \A h \in fetched[c] :
        h \in Block /\ Number[h] > Number[conn[c].oldestBlock]

\* The request list, the counter and the requests on the wire of every
\* connection implement the abstract request tracker: ids are fresh on
\* issue, an answer with a body removes exactly the entry with its id, an
\* empty answer changes nothing, reconnecting starts afresh.
RT == INSTANCE RequestTracker WITH
        Hash <- Block, MaxId <- MaxRequests,
        pending <- [c \in Conn |-> ToSet(conn[c].requests)],
        asked <- wire,
        issued <- [c \in Conn |-> conn[c].requestNum]

Live(c) == phase[c] # "terminated"

\* Every request getBlockData records is eventually removed from
\* conn.requests by a BlockBodies response, unless the connection ends.
PendingResolved ==
    \A c \in Conn : \A id \in 1..MaxRequests :
        (Live(c) /\ id \in RequestIDs(c)) ~> (~Live(c) \/ id \notin RequestIDs(c))

=============================================================================
