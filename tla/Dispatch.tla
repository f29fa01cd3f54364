------------------------------ MODULE Dispatch ------------------------------
(***************************************************************************)
(* The traffic side of the sensor's dispatch loop (part_000, Run lines     *)
(* 114-158): the handlers of transaction and request messages, and the     *)
(* shared MessageCount tallies they update with atomic.AddInt32 from every *)
(* connection's goroutine.  The block handlers (NewBlockHashes,            *)
(* BlockHeaders, BlockBodies, NewBlock) are modelled in Eth66; their       *)
(* counters are left out of both modules (no control flow reads them).     *)
(*                                                                         *)
(* A peer sends messages into the connection's inbox (the ordered devp2p   *)
(* stream); the loop reads one, runs its handler, and drops the connection *)
(* on any error.  Replies and requests the sensor sends go to outbox.      *)
(***************************************************************************)
EXTENDS Integers, Sequences, SequencesExt

CONSTANTS
    Conn,           \* connections, one goroutine each
    Items,          \* item counts a packet may carry (len of its list)
    StartCount,     \* value of every counter when the model starts
    WriteTxs,       \* db.ShouldWriteTransactions() && ShouldWriteTransactionEvents()
    MaxInbox,       \* bound on messages queued in one connection's stream
    MaxMsgs         \* bound on messages one peer sends

\* The int32 range (written so that TLC, whose own integers are 32-bit,
\* never computes 2^31).
MaxInt32 == 2147483647
MinInt32 == -MaxInt32 - 1

ASSUME /\ Items \subseteq 0..MaxInt32 /\ MaxInbox \in Nat \ {0} /\ MaxMsgs \in Nat
       /\ StartCount \in MinInt32..MaxInt32 /\ WriteTxs \in BOOLEAN

VARIABLES
    inbox,      \* inbox[c]: messages the peer sent that Run has not read
    outbox,     \* outbox[c]: [code, id] of every packet the sensor sent
    live,       \* live[c]: Run is still in its dispatch loop
    sent,       \* sent[c]: messages the peer has sent (and its next request id)
    count,      \* the shared MessageCount fields
    txStored    \* transactions forwarded to db.WriteTransactions

vars == <<inbox, outbox, live, sent, count, txStored>>

\* The MessageCount fields these handlers touch.
Counter == {"Transactions", "BlockHeaderRequests", "BlockBodiesRequests",
            "TransactionHashes", "TransactionRequests"}

\* Message codes routed to the handlers of this module; "Other" stands for
\* a code the switch has no case for.
Code == {"Transactions", "GetBlockHeaders", "GetBlockBodies",
         "NewPooledTransactionHashes", "GetPooledTransactions",
         "PooledTransactions", "GetReceipts", "Other"}

\* ok = FALSE: the payload does not decode (msg.Decode returns an error).
Msg == [code : Code, n : Items, id : Nat, ok : BOOLEAN]

\* atomic.AddInt32 of d >= 0 (an int32(len(...))): two's-complement
\* wrap-around when a + d passes MaxInt32, i.e. a + d - 2^32.
AddInt32(a, d) ==
    IF a > MaxInt32 - d THEN (a - MaxInt32 - 1) + (d - MaxInt32 - 1) ELSE a + d

\* atomic.AddInt32(&c.count.<k>, int32(n))
Count(k, n) == count' = [count EXCEPT ![k] = AddInt32(@, n)]

\* ethp2p.Send: the packet goes out, or the write fails and Run returns.
Send(c, code, id) ==
    \/ /\ outbox' = [outbox EXCEPT ![c] = Append(@, [code |-> code, id |-> id])]
       /\ UNCHANGED live
    \/ /\ live' = [live EXCEPT ![c] = FALSE]
       /\ UNCHANGED outbox

Reply(c, code, m) == Send(c, code, m.id)

Quiet == UNCHANGED <<outbox, live>>

HandleTransactions(c, m) ==
    /\ Count("Transactions", m.n)
    /\ txStored' = txStored + m.n
    /\ Quiet

HandleGetBlockHeaders(c, m) ==
    /\ Count("BlockHeaderRequests", 1)
    /\ Reply(c, "BlockHeaders", m)
    /\ UNCHANGED txStored

HandleGetBlockBodies(c, m) ==
    /\ Count("BlockBodiesRequests", m.n)
    /\ Reply(c, "BlockBodies", m)
    /\ UNCHANGED txStored

HandleGetPooledTransactions(c, m) ==
    /\ Count("TransactionRequests", m.n)
    /\ Reply(c, "PooledTransactions", m)
    /\ UNCHANGED txStored

\* The request goes out without a RequestId (the packet's zero value).
HandleNewPooledTransactionHashes(c, m) ==
    /\ Count("TransactionHashes", m.n)
    /\ IF WriteTxs THEN Send(c, "GetPooledTransactions", 0) ELSE Quiet
    /\ UNCHANGED txStored

HandlePooledTransactions(c, m) ==
    /\ Count("Transactions", m.n)
    /\ txStored' = txStored + m.n
    /\ Quiet

\* Variant of HandleGetReceipts that never answers.
HandleGetReceiptsSilent(c, m) ==
    /\ Quiet
    /\ UNCHANGED <<count, txStored>>

HandleGetReceipts(c, m) ==
    /\ Reply(c, "Receipts", m)
    /\ UNCHANGED <<count, txStored>>

Init ==
    /\ inbox = [c \in Conn |-> <<>>]
    /\ outbox = [c \in Conn |-> <<>>]
    /\ live = [c \in Conn |-> TRUE]
    /\ sent = [c \in Conn |-> 0]
    /\ count = [k \in Counter |-> StartCount]
    /\ txStored = 0

\* The peer writes a message to the stream; request ids are fresh.
PeerSends(c) ==
    /\ live[c]
    /\ sent[c] < MaxMsgs
    /\ Len(inbox[c]) < MaxInbox
    /\ \E code \in Code, n \in Items, ok \in BOOLEAN :
        inbox' = [inbox EXCEPT ![c] = Append(@, [code |-> code, n |-> n, id |-> sent[c] + 1, ok |-> ok])]
    /\ sent' = [sent EXCEPT ![c] = @ + 1]
    /\ UNCHANGED <<outbox, live, count, txStored>>

\* ReadMsg or Discard fails (the peer hung up): Run returns.
PeerCloses(c) ==
    /\ live[c]
    /\ live' = [live EXCEPT ![c] = FALSE]
    /\ UNCHANGED <<inbox, outbox, sent, count, txStored>>

\* A payload that does not decode: the handler returns the error and Run
\* drops the connection before counting anything.  The default case of the
\* switch decodes nothing and cannot fail.
DecodeFails(c) ==
    /\ live[c]
    /\ inbox[c] # <<>>
    /\ ~Head(inbox[c]).ok
    /\ Head(inbox[c]).code # "Other"
    /\ inbox' = [inbox EXCEPT ![c] = Tail(@)]
    /\ live' = [live EXCEPT ![c] = FALSE]
    /\ UNCHANGED <<outbox, sent, count, txStored>>

\* One iteration of Run's loop: read the next message, switch on its code.
Handle(c) ==
    /\ live[c]
    /\ inbox[c] # <<>>
    /\ Head(inbox[c]).ok \/ Head(inbox[c]).code = "Other"
    /\ LET m == Head(inbox[c]) IN
       /\ inbox' = [inbox EXCEPT ![c] = Tail(@)]
       /\ CASE m.code = "Transactions" -> HandleTransactions(c, m)
            [] m.code = "GetBlockHeaders" -> HandleGetBlockHeaders(c, m)
            [] m.code = "GetBlockBodies" -> HandleGetBlockBodies(c, m)
            [] m.code = "NewPooledTransactionHashes" -> HandleNewPooledTransactionHashes(c, m)
            [] m.code = "GetPooledTransactions" -> HandleGetPooledTransactions(c, m)
            [] m.code = "PooledTransactions" -> HandlePooledTransactions(c, m)
            [] m.code = "GetReceipts" -> HandleGetReceipts(c, m)
            [] OTHER -> UNCHANGED <<outbox, live, count, txStored>>
    /\ UNCHANGED sent

Next ==
    \E c \in Conn :
        \/ PeerSends(c)
        \/ PeerCloses(c)
        \/ DecodeFails(c)
        \/ Handle(c)

\* Each connection's goroutine keeps reading while it has messages.
Spec == Init /\ [][Next]_vars /\ \A c \in Conn : WF_vars(Handle(c))

-----------------------------------------------------------------------------

TypeOK ==
    /\ \A c \in Conn : inbox[c] \in Seq(Msg) /\ Len(inbox[c]) <= MaxInbox
    /\ outbox \in [Conn -> Seq([code : STRING, id : Nat])]
    /\ live \in [Conn -> BOOLEAN]
    /\ count \in [Counter -> MinInt32..MaxInt32]

\* Spec section 4.6: "counters never decrease".
CountersNeverDecrease ==
    [][\A k \in Counter : count'[k] >= count[k]]_count

\* A request the peer sends on a connection that stays up is eventually
\* answered with a packet carrying its RequestId (the handlers of
\* GetBlockHeaders, GetBlockBodies, GetPooledTransactions, GetReceipts).
RequestCode == {"GetBlockHeaders", "GetBlockBodies", "GetPooledTransactions", "GetReceipts"}

Requested(c, i) ==
    \E j \in 1..Len(inbox[c]) :
        inbox[c][j].id = i /\ inbox[c][j].code \in RequestCode /\ inbox[c][j].ok

Answered(c, i) == \E j \in 1..Len(outbox[c]) : outbox[c][j].id = i

RequestsAnswered ==
    \A c \in Conn, i \in 1..MaxMsgs :
        (live[c] /\ Requested(c, i)) ~> (Answered(c, i) \/ ~live[c])

=============================================================================
