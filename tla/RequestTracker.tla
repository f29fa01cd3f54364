--------------------------- MODULE RequestTracker ---------------------------
(***************************************************************************)
(* What a connection's request tracker promises (spec section 4.3): each   *)
(* block-data fetch gets a request id never used before on that            *)
(* connection and is both recorded and asked of the peer; an answer with a *)
(* body resolves exactly the pending entry that carries the answer's id;   *)
(* an empty answer is ignored; a new connection starts with nothing        *)
(* pending.  Eth66 implements it with conn.requests (a list scanned from   *)
(* the front), conn.requestNum, and the GetBlockBodies requests on the     *)
(* wire.                                                                   *)
(***************************************************************************)
EXTENDS Naturals, FiniteSets

CONSTANTS
    Conn,   \* connections
    Hash,   \* block hashes a request can be for
    MaxId   \* bound on request ids

VARIABLES
    pending,    \* pending[c]: set of [requestID, hash] awaiting a body
    asked,      \* asked[c]: requests sent to c's peer and not yet answered
    issued      \* issued[c]: the greatest request id handed out on c

trackerVars == <<pending, asked, issued>>

Entry == [requestID : 1..MaxId, hash : Hash]

Ids(S) == {e.requestID : e \in S}

Init ==
    /\ pending = [c \in Conn |-> {}]
    /\ asked = [c \in Conn |-> {}]
    /\ issued = [c \in Conn |-> 0]

\* One step may issue several fetches (a NewBlockHashes packet); every new
\* id is above all ids issued so far, and the new ids are distinct.
Issue(c) ==
    \E new \in (SUBSET [requestID : issued[c]+1..MaxId, hash : Hash]) \ {{}} :
        /\ Cardinality(Ids(new)) = Cardinality(new)
        /\ pending' = [pending EXCEPT ![c] = @ \cup new]
        /\ asked' = [asked EXCEPT ![c] = @ \cup new]
        /\ issued' = [issued EXCEPT ![c] = CHOOSE m \in Ids(new) : \A i \in Ids(new) : i <= m]

\* The peer answers request r with a body: the entry with r's id, and no
\* other, leaves the pending set.
AnswerBody(c) ==
    \E r \in asked[c] :
        /\ asked' = [asked EXCEPT ![c] = @ \ {r}]
        /\ pending' = [pending EXCEPT ![c] = {e \in @ : e.requestID # r.requestID}]
        /\ UNCHANGED issued

\* The peer answers request r with an empty packet, which is ignored.
AnswerEmpty(c) ==
    \E r \in asked[c] :
        /\ asked' = [asked EXCEPT ![c] = @ \ {r}]
        /\ UNCHANGED <<pending, issued>>

\* The connection ends and a new one starts from scratch.
Reset(c) ==
    /\ pending' = [pending EXCEPT ![c] = {}]
    /\ asked' = [asked EXCEPT ![c] = {}]
    /\ issued' = [issued EXCEPT ![c] = 0]

Next == \E c \in Conn : Issue(c) \/ AnswerBody(c) \/ AnswerEmpty(c) \/ Reset(c)

Spec == Init /\ [][Next]_trackerVars

=============================================================================
