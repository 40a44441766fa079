-------------------------- MODULE WithdrawalQueue --------------------------
(***************************************************************************)
(* The supply withdrawal queue of a market (common/src/withdrawal_queue.rs)*)
(* is a doubly linked list kept in two persistent maps: `queue`, from node *)
(* identifiers to nodes, and `entries`, from accounts to node identifiers. *)
(* Identifiers are handed out once and never reused; NoNode is the         *)
(* Option::None of Option<NonZeroU32>, whose representation is 0.          *)
(***************************************************************************)
EXTENDS Integers, Sequences, FiniteSets, FiniteSetsExt, Functions

CONSTANTS Accounts,    \* accounts that may ask for a withdrawal
          Amounts,     \* amounts a request may carry
          MaxNodeId    \* the last value of the identifier counter (u32::MAX)

ASSUME QueueAssumption ==
    /\ MaxNodeId \in Nat \ {0}
    /\ Amounts \subseteq Nat

VARIABLES queue,               \* node identifier -> node
          entries,             \* account -> node identifier
          queue_head,          \* oldest node, or NoNode
          queue_tail,          \* newest node, or NoNode
          length,              \* cached number of nodes
          next_queue_node_id   \* identifier of the next node

vars == <<queue, entries, queue_head, queue_tail, length, next_queue_node_id>>

NoNode == 0

NodeIds == 1 .. MaxNodeId

Nodes == [account : Accounts, amount : Amounts,
          prev : NodeIds \cup {NoNode}, next : NodeIds \cup {NoNode}]

Live == DOMAIN queue

Without(f, x) == Restrict(f, DOMAIN f \ {x})

\* `f` with the value `v` at `x`, whether or not `x` was in its domain.
Insert(f, x, v) == [y \in DOMAIN f \cup {x} |-> IF y = x THEN v ELSE f[y]]

Init ==
    /\ queue = << >>
    /\ entries = << >>
    /\ queue_head = NoNode
    /\ queue_tail = NoNode
    /\ length = 0
    /\ next_queue_node_id = 1

-----------------------------------------------------------------------------
\* The node map with the `next` (`prev`) of an existing node replaced; with
\* NoNode the code's `if let Some(id)` does not match and nothing is written.
SetExistingNodeNext(q, id, next) ==
    IF id = NoNode THEN q ELSE [q EXCEPT ![id].next = next]

\* Mutant: the back link is not written.
SetExistingNodePrevSkipped(q, id, prev) == q

SetExistingNodePrev(q, id, prev) ==
    IF id = NoNode THEN q ELSE [q EXCEPT ![id].prev = prev]

UpdateExisting(a, amount) ==
    /\ a \in DOMAIN entries
    /\ queue' = [queue EXCEPT ![entries[a]].amount = amount]
    /\ UNCHANGED <<entries, queue_head, queue_tail, length, next_queue_node_id>>

\* The counter is advanced with checked_add(1).unwrap(): the call aborts when
\* the counter stands at its last value.
CanAllocate == next_queue_node_id < MaxNodeId

\* Mutant: a new request goes to the front.
AddNewAtFront(a, amount) ==
    /\ a \notin DOMAIN entries
    /\ CanAllocate
    /\ LET id == next_queue_node_id
           node == [account |-> a, amount |-> amount,
                    prev |-> NoNode, next |-> queue_head]
       IN  /\ queue' = Insert(SetExistingNodePrev(queue, queue_head, id), id, node)
           /\ entries' = Insert(entries, a, id)
           /\ queue_head' = id
           /\ queue_tail' = IF queue_tail = NoNode THEN id ELSE queue_tail
           /\ length' = length + 1
           /\ next_queue_node_id' = id + 1

AddNew(a, amount) ==
    /\ a \notin DOMAIN entries
    /\ CanAllocate
    /\ LET id == next_queue_node_id
           node == [account |-> a, amount |-> amount,
                    prev |-> queue_tail, next |-> NoNode]
       IN  /\ queue' = Insert(SetExistingNodeNext(queue, queue_tail, id), id, node)
           /\ entries' = Insert(entries, a, id)
           /\ queue_head' = IF queue_head = NoNode THEN id ELSE queue_head
           /\ queue_tail' = id
           /\ length' = length + 1
           /\ next_queue_node_id' = id + 1

InsertOrUpdate(a, amount) == UpdateExisting(a, amount) \/ AddNew(a, amount)

Unindex(a) == Without(entries, a)

MutHead(amount) ==
    /\ queue_head # NoNode
    /\ queue' = [queue EXCEPT ![queue_head].amount = amount]
    /\ UNCHANGED <<entries, queue_head, queue_tail, length, next_queue_node_id>>

Pop ==
    /\ queue_head # NoNode
    /\ LET next == queue[queue_head].next
       IN  /\ queue' = SetExistingNodePrev(Without(queue, queue_head), next, NoNode)
           /\ entries' = Unindex(queue[queue_head].account)
           /\ queue_head' = next
           /\ queue_tail' = IF next = NoNode THEN NoNode ELSE queue_tail
           /\ length' = length - 1
           /\ UNCHANGED next_queue_node_id

Remove(a) ==
    /\ a \in DOMAIN entries
    /\ LET id == entries[a]
           prev == queue[id].prev
           next == queue[id].next
       IN  /\ queue' = SetExistingNodeNext(
                         SetExistingNodePrev(Without(queue, id), next, prev), prev, next)
           /\ entries' = Unindex(a)
           /\ queue_tail' = IF next = NoNode THEN prev ELSE queue_tail
           /\ queue_head' = IF prev = NoNode THEN next ELSE queue_head
           /\ length' = length - 1
           /\ UNCHANGED next_queue_node_id

Next ==
    \/ \E a \in Accounts, x \in Amounts : InsertOrUpdate(a, x)
    \/ \E a \in Accounts : Remove(a)
    \/ \E x \in Amounts : MutHead(x)
    \/ Pop

Spec == Init /\ [][Next]_vars

-----------------------------------------------------------------------------
\* Walking the list from a node along `next`, as WithdrawalQueueIter does.
IterFrom[id \in Live \cup {NoNode}] ==
    IF id = NoNode THEN <<>> ELSE <<id>> \o IterFrom[queue[id].next]

Iter == IterFrom[queue_head]

SumAmounts(ids) == MapThenSumSet(LAMBDA id : queue[id].amount, ids)

GetStatus == [depth |-> SumAmounts(Range(Iter)), length |-> length]

\* The places of the account in the walk: get_request_status answers with the
\* first one, and reaches its unreachable!() when there is none.
PlacesOf(a) == {i \in DOMAIN Iter : queue[Iter[i]].account = a}

\* Mutant: the account's own request is counted as ahead of it.
GetRequestStatusInclusive(a) ==
    LET i == Min(PlacesOf(a))
    IN  [index |-> i - 1, depth |-> SumAmounts({Iter[j] : j \in 1 .. i}),
         amount |-> queue[Iter[i]].amount]

GetRequestStatus(a) ==
    LET i == Min(PlacesOf(a))
    IN  [index  |-> i - 1,
         depth  |-> SumAmounts({Iter[j] : j \in 1 .. (i - 1)}),
         amount |-> queue[Iter[i]].amount]

-----------------------------------------------------------------------------
\* Every field of the queue has its type (struct WithdrawalQueue).
TypeOK ==
    /\ Live \subseteq NodeIds
    /\ queue \in [Live -> Nodes]
    /\ DOMAIN entries \subseteq Accounts
    /\ entries \in [DOMAIN entries -> NodeIds]
    /\ queue_head \in NodeIds \cup {NoNode}
    /\ queue_tail \in NodeIds \cup {NoNode}
    /\ length \in Nat
    /\ next_queue_node_id \in NodeIds

\* `m` is the node that arrived next after `n` among those still waiting.
IsSuccessor(n, m) ==
    IF m = NoNode THEN \A k \in Live : k <= n
    ELSE m \in Live /\ n < m /\ \A k \in Live : k <= n \/ m <= k

\* `m` is the node that arrived last before `n` among those still waiting.
IsPredecessor(n, m) ==
    IF m = NoNode THEN \A k \in Live : n <= k
    ELSE m \in Live /\ m < n /\ \A k \in Live : k <= m \/ n <= k

\* The links of the list, its ends and its cached length are exactly those of
\* the waiting nodes taken in order of arrival: pop and remove relink the
\* neighbours of what they take out, so no "Inconsistent state" panic is met.
ListInOrder ==
    /\ IsSuccessor(NoNode, queue_head)
    /\ IsPredecessor(next_queue_node_id, queue_tail)
    /\ \A n \in Live : /\ n < next_queue_node_id
                       /\ IsSuccessor(n, queue[n].next)
                       /\ IsPredecessor(n, queue[n].prev)

\* The account index and the node map are inverse to each other: an account
\* waits at one node at most, and no node is left behind when it leaves.
EntriesMatchNodes ==
    /\ \A a \in DOMAIN entries : entries[a] \in Live /\ queue[entries[a]].account = a
    /\ \A n \in Live : /\ queue[n].account \in DOMAIN entries
                       /\ entries[queue[n].account] = n

\* The cached length counts the nodes: len() and is_empty() never drift.
LengthIsExact == IsFiniteSet(Live) /\ length = Cardinality(Live)

\* The queue is sound: its fields have their types, with a node id that never
\* passes the counter's last value, and the list, the account index and the
\* length agree after any sequence of joins, updates, pops and removals.
QueueInv == TypeOK /\ ListInOrder /\ EntriesMatchNodes /\ LengthIsExact

\* get_request_status never reaches its unreachable!(), what it tells an account
\* about the requests ahead of it (their number and their total) are those of
\* the accounts that joined earlier and still wait, and get_status counts every
\* waiting request once.
StatusIsExact ==
    /\ GetStatus = [depth |-> SumAmounts(Live), length |-> Cardinality(Live)]
    /\ \A a \in DOMAIN entries :
        LET ahead == {n \in Live : n < entries[a]}
        IN  /\ PlacesOf(a) # {}
            /\ GetRequestStatus(a) = [index  |-> Cardinality(ahead),
                                      depth  |-> SumAmounts(ahead),
                                      amount |-> queue[entries[a]].amount]

-----------------------------------------------------------------------------
\* The waiting requests in the order of the walk are those of a first-in
\* first-out queue.
Fifo == INSTANCE RequestFifo WITH
    requests <- [i \in DOMAIN Iter |-> [account |-> queue[Iter[i]].account,
                                        amount  |-> queue[Iter[i]].amount]]

\* Every operation on the linked list is one of the operations of the abstract
\* first-in first-out queue, or changes nothing that its users see.
ImplementsFifo == Fifo!Spec
=============================================================================
