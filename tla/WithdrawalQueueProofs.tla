----------------------- MODULE WithdrawalQueueProofs -----------------------
(***************************************************************************)
(* For any number of accounts, any amounts and any size of the identifier  *)
(* counter, the linked list of WithdrawalQueue is the list of the waiting  *)
(* nodes in order of arrival.  The invariant is inductive: because         *)
(* identifiers only grow, "in order of arrival" is "in order of            *)
(* identifier", which the neighbours of a node determine.                  *)
(***************************************************************************)
EXTENDS WithdrawalQueue, FiniteSums, SequenceTheorems

\* Leaves that name no prover go to SMT, with half a minute each, then to Zenon.
USE SMTT(30), Zenon

\* The queue starts empty (WithdrawalQueue::new).
LEMMA QueueInitInv == Init => QueueInv
<1> SUFFICES ASSUME Init PROVE QueueInv
    OBVIOUS
<1> USE QueueAssumption DEF Init, NoNode, NodeIds
<1>1. Live = {} /\ DOMAIN entries = {}
    BY DEF Live
<1>2. TypeOK
    BY <1>1 DEF TypeOK, Nodes
<1>3. ListInOrder
    BY <1>1 DEF ListInOrder, IsSuccessor, IsPredecessor
<1>4. EntriesMatchNodes
    BY <1>1 DEF EntriesMatchNodes
<1>5. LengthIsExact
    BY <1>1, FS_EmptySet DEF LengthIsExact
<1> QED BY <1>2, <1>3, <1>4, <1>5 DEF QueueInv

\* Replacing the amount of one node (insert_or_update of a waiting account,
\* mut_head) moves nobody.
LEMMA SetAmountInv ==
    ASSUME QueueInv, NEW id \in Live, NEW x \in Amounts,
           queue' = [queue EXCEPT ![id].amount = x],
           UNCHANGED <<entries, queue_head, queue_tail, length, next_queue_node_id>>
    PROVE  QueueInv'
<1> USE DEF QueueInv
<1>1. /\ Live' = Live
      /\ queue' \in [Live -> Nodes]
      /\ \A n \in Live : /\ queue'[n].account = queue[n].account
                         /\ queue'[n].prev = queue[n].prev
                         /\ queue'[n].next = queue[n].next
    BY DEF TypeOK, Live, Nodes
<1>2. TypeOK'
    BY <1>1 DEF TypeOK
<1>3. ListInOrder'
    BY <1>1 DEF ListInOrder, IsSuccessor, IsPredecessor
<1>4. EntriesMatchNodes'
    BY <1>1 DEF EntriesMatchNodes
<1>5. LengthIsExact'
    BY <1>1 DEF LengthIsExact
<1> QED BY <1>2, <1>3, <1>4, <1>5

\* A new node goes behind all the others (insert_or_update).
LEMMA AddNewInv ==
    ASSUME QueueInv, NEW a \in Accounts, NEW x \in Amounts, AddNew(a, x)
    PROVE  QueueInv'
<1> DEFINE id == next_queue_node_id
           node == [account |-> a, amount |-> x, prev |-> queue_tail, next |-> NoNode]
           linked == SetExistingNodeNext(queue, queue_tail, id)
<1> USE QueueAssumption DEF QueueInv, NoNode, NodeIds
<1>1. /\ id \in NodeIds /\ id + 1 \in NodeIds /\ id \notin Live
      /\ a \notin DOMAIN entries
      /\ entries' = Insert(entries, a, id)
      /\ queue_head' = IF queue_head = NoNode THEN id ELSE queue_head
      /\ queue_tail' = id
      /\ length' = length + 1
      /\ next_queue_node_id' = id + 1
    BY DEF AddNew, CanAllocate, TypeOK, ListInOrder
<1>2. queue' = Insert(linked, id, node)
    BY DEF AddNew
<1>3. queue_tail = NoNode <=> Live = {}
    BY DEF TypeOK, ListInOrder, IsPredecessor, IsSuccessor
<1>4. queue_tail # NoNode => queue_tail \in Live
    BY DEF ListInOrder, IsPredecessor
<1>5. /\ DOMAIN linked = Live
      /\ linked \in [Live -> Nodes]
      /\ \A n \in Live : /\ linked[n].account = queue[n].account
                         /\ linked[n].prev = queue[n].prev
                         /\ linked[n].next = IF n = queue_tail THEN id ELSE queue[n].next
    BY <1>1, <1>4 DEF TypeOK, Live, Nodes, SetExistingNodeNext
<1>6. node \in Nodes
    BY DEF TypeOK, Nodes
<1> HIDE DEF linked, node
<1>7. /\ Live' = Live \cup {id}
      /\ queue' \in [Live' -> Nodes]
      /\ queue'[id] = node
      /\ \A n \in Live : queue'[n] = linked[n]
    BY <1>1, <1>2, <1>5, <1>6 DEF Live, Insert
<1>8. /\ node.account = a /\ node.prev = queue_tail /\ node.next = NoNode
    BY DEF node
<1>9. TypeOK'
    BY <1>1, <1>7 DEF TypeOK, Insert
<1>10. ListInOrder'
  <2>1. \A n \in Live' : n < next_queue_node_id'
    BY <1>1, <1>7 DEF TypeOK, ListInOrder
  <2>2. IsSuccessor(NoNode, queue_head)'
    BY <1>1, <1>3, <1>7 DEF TypeOK, ListInOrder, IsSuccessor
  <2>3. IsPredecessor(next_queue_node_id, queue_tail)'
    BY <1>1, <1>7 DEF TypeOK, ListInOrder, IsPredecessor
  <2>4. ASSUME NEW n \in Live'
        PROVE  IsSuccessor(n, queue[n].next)' /\ IsPredecessor(n, queue[n].prev)'
    <3>1. CASE n = id
      <4>1. IsSuccessor(n, queue[n].next)'
        BY <3>1, <1>1, <1>7, <1>8 DEF TypeOK, ListInOrder, IsSuccessor
      <4>2. IsPredecessor(n, queue[n].prev)'
        BY <3>1, <1>1, <1>7, <1>8 DEF TypeOK, ListInOrder, IsPredecessor
      <4> QED BY <4>1, <4>2
    <3>2. CASE n \in Live
      <4>1. IsPredecessor(n, queue[n].prev)'
        BY <3>2, <1>1, <1>5, <1>7 DEF TypeOK, ListInOrder, IsPredecessor
      <4>2. CASE n = queue_tail
        <5>1. queue'[n].next = id /\ id \in Live' /\ n < id
            BY <4>2, <3>2, <1>1, <1>5, <1>7 DEF TypeOK, ListInOrder
        <5>2. \A k \in Live' : k <= n \/ id <= k
            BY <4>2, <3>2, <1>1, <1>7 DEF TypeOK, ListInOrder, IsPredecessor
        <5> QED BY <4>1, <5>1, <5>2, <1>1 DEF IsSuccessor, TypeOK
      <4>3. CASE n # queue_tail
        <5>1. queue_tail \in Live /\ n < queue_tail
            BY <4>3, <3>2, <1>3, <1>4 DEF TypeOK, ListInOrder, IsPredecessor
        <5>2. /\ queue[n].next # NoNode /\ queue[n].next \in Live /\ n < queue[n].next
              /\ \A k \in Live : k <= n \/ queue[n].next <= k
            BY <5>1, <3>2 DEF TypeOK, ListInOrder, IsSuccessor
        <5>3. queue'[n].next = queue[n].next /\ queue[n].next <= id
            BY <5>2, <4>3, <3>2, <1>5, <1>7 DEF TypeOK, ListInOrder
        <5> QED BY <4>1, <5>2, <5>3, <1>7 DEF IsSuccessor
      <4> QED BY <4>2, <4>3
    <3> QED BY <3>1, <3>2, <1>7
  <2> QED BY <2>1, <2>2, <2>3, <2>4 DEF ListInOrder
<1>11. EntriesMatchNodes'
    BY <1>1, <1>5, <1>7, <1>8 DEF TypeOK, EntriesMatchNodes, Insert
<1>12. LengthIsExact'
    BY <1>1, <1>7, FS_AddElement DEF LengthIsExact
<1> QED BY <1>9, <1>10, <1>11, <1>12

\* Taking a node out links its neighbours to each other (remove).
LEMMA RemoveInv ==
    ASSUME QueueInv, NEW a \in Accounts, Remove(a)
    PROVE  QueueInv'
<1> DEFINE id == entries[a]
           prev == queue[id].prev
           next == queue[id].next
<1> USE QueueAssumption DEF QueueInv, NoNode, NodeIds
<1>1. /\ a \in DOMAIN entries /\ id \in Live /\ queue[id].account = a
      /\ entries' = Without(entries, a)
      /\ queue_tail' = IF next = NoNode THEN prev ELSE queue_tail
      /\ queue_head' = IF prev = NoNode THEN next ELSE queue_head
      /\ length' = length - 1
      /\ next_queue_node_id' = next_queue_node_id
    BY DEF Remove, Unindex, EntriesMatchNodes
<1>2. /\ prev # NoNode => prev \in Live \ {id}
      /\ next # NoNode => next \in Live \ {id}
      /\ prev = next => prev = NoNode
    BY <1>1 DEF TypeOK, ListInOrder, IsPredecessor, IsSuccessor
<1> DEFINE kept == Without(queue, id)
           relinked == SetExistingNodePrev(kept, next, prev)
<1>3. /\ DOMAIN kept = Live \ {id}
      /\ kept \in [Live \ {id} -> Nodes]
      /\ \A n \in Live \ {id} : kept[n] = queue[n]
    BY DEF TypeOK, Live, Without, Restrict
<1>4. prev \in NodeIds \cup {NoNode} /\ next \in NodeIds \cup {NoNode} /\ Live \subseteq NodeIds
    BY <1>1 DEF TypeOK, Nodes
<1>5. queue' = SetExistingNodeNext(relinked, prev, next)
    BY DEF Remove
<1>6. /\ relinked \in [Live \ {id} -> Nodes]
       /\ \A n \in Live \ {id} :
             /\ relinked[n].account = queue[n].account
             /\ relinked[n].prev = IF n = next THEN prev ELSE queue[n].prev
             /\ relinked[n].next = queue[n].next
    <2> HIDE DEF kept, prev, next, id
    <2> QED BY <1>2, <1>3, <1>4 DEF relinked, TypeOK, Nodes, SetExistingNodePrev
<1>7. /\ Live' = Live \ {id}
      /\ queue' \in [Live' -> Nodes]
      /\ \A n \in Live' : /\ queue'[n].account = queue[n].account
                          /\ queue'[n].prev = IF n = next THEN prev ELSE queue[n].prev
                          /\ queue'[n].next = IF n = prev THEN next ELSE queue[n].next
    <2> HIDE DEF relinked, prev, next, id
    <2>1. CASE prev = NoNode
      <3>1. queue' = relinked
        BY <2>1, <1>5 DEF SetExistingNodeNext
      <3> QED BY <2>1, <3>1, <1>4, <1>6 DEF Live
    <2>2. CASE prev # NoNode
      <3>1. queue' = [relinked EXCEPT ![prev] = [relinked[prev] EXCEPT !.next = next]]
        BY <2>2, <1>5 DEF SetExistingNodeNext
      <3>2. [relinked[prev] EXCEPT !.next = next] \in Nodes
        BY <2>2, <1>2, <1>4, <1>6 DEF Nodes
      <3> QED BY <2>2, <3>1, <3>2, <1>2, <1>4, <1>6 DEF Live, Nodes
    <2> QED BY <2>1, <2>2
<1>8. IsPredecessor(id, prev) /\ IsSuccessor(id, next)
    BY <1>1 DEF ListInOrder
<1> HIDE DEF prev, next, id
<1>9. LengthIsExact'
    BY <1>1, <1>7, FS_RemoveElement DEF LengthIsExact
<1>10. TypeOK'
  <2>1. length' \in Nat
    BY <1>9, FS_CardinalityType DEF LengthIsExact
  <2> QED BY <2>1, <1>1, <1>7, <1>4 DEF TypeOK, Without, Restrict
<1>11. ListInOrder'
  <2>1. IsSuccessor(NoNode, queue_head)'
    BY <1>1, <1>7, <1>8, <1>4 DEF TypeOK, ListInOrder, IsSuccessor, IsPredecessor
  <2>2. IsPredecessor(next_queue_node_id, queue_tail)'
    <3>1. IsPredecessor(next_queue_node_id, queue_tail) /\ \A n \in Live : n < next_queue_node_id
        BY DEF ListInOrder
    <3>2. next_queue_node_id \in Nat /\ queue_tail \in Nat
        BY DEF TypeOK
    <3>3. CASE next = NoNode
        BY <3>1, <3>2, <3>3, <1>1, <1>7, <1>8, <1>4 DEF IsSuccessor, IsPredecessor
    <3>4. CASE next # NoNode
        BY <3>1, <3>2, <3>4, <1>1, <1>7, <1>8, <1>4 DEF IsSuccessor, IsPredecessor
    <3> QED BY <3>3, <3>4
  <2>3. ASSUME NEW n \in Live'
        PROVE  IsSuccessor(n, queue[n].next)' /\ IsPredecessor(n, queue[n].prev)'
    <3>1. IsSuccessor(n, queue[n].next) /\ IsPredecessor(n, queue[n].prev) /\ n \in NodeIds
        BY <1>7, <1>4, Zenon DEF ListInOrder
    <3>2. IsSuccessor(n, queue[n].next)'
        BY <3>1, <1>1, <1>7, <1>8, <1>4 DEF IsSuccessor, IsPredecessor
    <3>3. IsPredecessor(n, queue[n].prev)'
        BY <3>1, <1>1, <1>7, <1>8, <1>4 DEF IsSuccessor, IsPredecessor
    <3> QED BY <3>2, <3>3
  <2> QED BY <2>1, <2>2, <2>3, <1>1, <1>7 DEF ListInOrder
<1>12. EntriesMatchNodes'
    BY <1>1, <1>7 DEF EntriesMatchNodes, Without, Restrict, id
<1> QED BY <1>10, <1>11, <1>12, <1>9

\* Popping is removing the account at the head: the head has no predecessor.
LEMMA PopIsRemove ==
    ASSUME QueueInv, Pop
    PROVE  /\ queue[queue_head].account \in Accounts
           /\ Remove(queue[queue_head].account)
<1> USE DEF QueueInv
<1>1. queue_head \in Live /\ queue[queue_head] \in Nodes
    BY DEF Pop, ListInOrder, IsSuccessor, TypeOK
<1>2. queue[queue_head].prev = NoNode
    BY <1>1, QueueAssumption
       DEF TypeOK, Nodes, NodeIds, NoNode, ListInOrder, IsSuccessor, IsPredecessor
<1>3. /\ queue[queue_head].account \in DOMAIN entries
      /\ entries[queue[queue_head].account] = queue_head
    BY <1>1 DEF EntriesMatchNodes
<1> QED BY <1>1, <1>2, <1>3 DEF Pop, Remove, Unindex, SetExistingNodeNext, Nodes

\* Every operation keeps the list in order.
LEMMA QueueNextInv == QueueInv /\ [Next]_vars => QueueInv'
<1> SUFFICES ASSUME QueueInv, [Next]_vars PROVE QueueInv'
    OBVIOUS
<1>1. ASSUME NEW a \in Accounts, NEW x \in Amounts, UpdateExisting(a, x)
      PROVE  QueueInv'
    BY <1>1, SetAmountInv, Zenon DEF UpdateExisting, QueueInv, EntriesMatchNodes
<1>2. ASSUME NEW x \in Amounts, MutHead(x)
      PROVE  QueueInv'
    BY <1>2, SetAmountInv, Zenon DEF MutHead, QueueInv, ListInOrder, IsSuccessor
<1>3. CASE Pop
    BY <1>3, PopIsRemove, RemoveInv
<1>4. CASE UNCHANGED vars
    BY <1>4 DEF vars, QueueInv, TypeOK, ListInOrder, EntriesMatchNodes, LengthIsExact,
                Live, IsSuccessor, IsPredecessor
<1> QED BY <1>1, <1>2, <1>3, <1>4, AddNewInv, RemoveInv DEF Next, InsertOrUpdate

\* The linked list of the withdrawal queue is in order of arrival in every
\* reachable state, its account index is exact and its length is right.
THEOREM QueueSafe == Spec => []QueueInv
BY QueueInitInv, QueueNextInv, PTL DEF Spec

-----------------------------------------------------------------------------
(* Sets in order                                                           *)

\* The sequence lists the elements of the set, from the least to the greatest.
Lists(s, S) ==
    /\ s \in Seq(S)
    /\ \A i, j \in DOMAIN s : i < j => s[i] < s[j]
    /\ \A n \in S : \E i \in DOMAIN s : s[i] = n

\* A list is indexed by its places, in the order of its elements.
LEMMA ListPlaces ==
    ASSUME NEW S \in SUBSET Nat, NEW s, Lists(s, S)
    PROVE  /\ s \in Seq(S) /\ Len(s) \in Nat /\ DOMAIN s = 1..Len(s)
           /\ \A i \in DOMAIN s : i \in Nat /\ s[i] \in S /\ s[i] \in Nat
           /\ \A i, j \in DOMAIN s : i < j <=> s[i] < s[j]
           /\ \A i, j \in DOMAIN s : s[i] = s[j] => i = j
<1>1. s \in Seq(S) /\ \A i, j \in DOMAIN s : i < j => s[i] < s[j]
    BY DEF Lists
<1>2. Len(s) \in Nat /\ DOMAIN s = 1..Len(s) /\ \A i \in DOMAIN s : s[i] \in S
    BY <1>1
<1>3. \A i \in DOMAIN s : i \in Nat
    BY <1>2
<1>4. \A i \in DOMAIN s : s[i] \in Nat
    BY <1>2, Zenon
<1>5. ASSUME NEW i \in DOMAIN s, NEW j \in DOMAIN s
      PROVE  (i < j <=> s[i] < s[j]) /\ (s[i] = s[j] => i = j)
    <2>1. i \in Nat /\ j \in Nat /\ s[i] \in Nat /\ s[j] \in Nat
        BY <1>3, <1>4
    <2>2. (i < j => s[i] < s[j]) /\ (j < i => s[j] < s[i])
        BY <1>1
    <2> QED BY <2>1, <2>2
<1> QED BY <1>1, <1>2, <1>3, <1>4, <1>5

\* The empty set is listed by the empty sequence.
LEMMA EmptyList == Lists(<<>>, {})
BY DEF Lists

\* A number less than all the others is listed first.
LEMMA ListPrepend ==
    ASSUME NEW S \in SUBSET Nat, NEW s, Lists(s, S), NEW m \in Nat, \A n \in S : m < n
    PROVE  Lists(<<m>> \o s, S \cup {m})
<1> DEFINE t == <<m>> \o s
<1>1. s \in Seq(S) /\ Len(s) \in Nat /\ DOMAIN s = 1..Len(s)
    BY DEF Lists
<1>2. /\ t \in Seq(S \cup {m}) /\ Len(t) = Len(s) + 1 /\ DOMAIN t = 1..(Len(s) + 1)
      /\ t[1] = m /\ \A i \in 2..(Len(s) + 1) : t[i] = s[i - 1]
    BY <1>1
<1> HIDE DEF t
<1>3. ASSUME NEW i \in DOMAIN t, NEW j \in DOMAIN t, i < j
      PROVE  t[i] < t[j]
    <2>1. j - 1 \in DOMAIN s /\ t[j] = s[j - 1] /\ s[j - 1] \in S
        BY <1>1, <1>2, <1>3
    <2>2. CASE i = 1
        BY <1>2, <2>1, <2>2, Zenon
    <2>3. CASE i # 1
        <3>1. i - 1 \in DOMAIN s /\ t[i] = s[i - 1] /\ i - 1 < j - 1
            BY <1>1, <1>2, <1>3, <2>3
        <3> QED BY <2>1, <3>1 DEF Lists
    <2> QED BY <2>2, <2>3
<1>4. ASSUME NEW n \in S \cup {m}
      PROVE  \E i \in DOMAIN t : t[i] = n
    <2>1. CASE n = m
        BY <1>1, <1>2, <2>1
    <2>2. CASE n \in S
        <3>1. PICK i \in DOMAIN s : s[i] = n
            BY <2>2 DEF Lists
        <3>2. i + 1 \in DOMAIN t /\ t[i + 1] = s[i]
            BY <1>1, <1>2, <3>1
        <3> QED BY <3>1, <3>2
    <2> QED BY <2>1, <2>2
<1>5. t \in Seq(S \cup {m}) /\ \A i, j \in DOMAIN t : i < j => t[i] < t[j]
    BY <1>2, <1>3
<1>6. \A n \in S \cup {m} : \E i \in DOMAIN t : t[i] = n
    BY <1>4
<1> QED BY <1>5, <1>6 DEF Lists, t

\* A number greater than all the others is listed last.
LEMMA ListAppend ==
    ASSUME NEW S \in SUBSET Nat, NEW s, Lists(s, S), NEW m \in Nat, \A n \in S : n < m
    PROVE  Lists(Append(s, m), S \cup {m})
<1> DEFINE t == Append(s, m)
<1>1. s \in Seq(S) /\ Len(s) \in Nat /\ DOMAIN s = 1..Len(s)
    BY DEF Lists
<1>2. /\ t \in Seq(S \cup {m}) /\ DOMAIN t = 1..(Len(s) + 1)
      /\ t[Len(s) + 1] = m /\ \A i \in 1..Len(s) : t[i] = s[i]
    BY <1>1
<1> HIDE DEF t
<1>3. \A i, j \in DOMAIN t : i < j => t[i] < t[j]
    <2> SUFFICES ASSUME NEW i \in DOMAIN t, NEW j \in DOMAIN t, i < j PROVE t[i] < t[j]
        OBVIOUS
    <2>1. i \in DOMAIN s /\ t[i] = s[i] /\ s[i] \in S
        BY <1>1, <1>2
    <2>2. CASE j = Len(s) + 1
        BY <1>2, <2>1, <2>2, Zenon
    <2>3. CASE j \in DOMAIN s
        BY <1>1, <1>2, <2>1, <2>3 DEF Lists
    <2> QED BY <1>1, <1>2, <2>2, <2>3
<1>4. ASSUME NEW n \in S \cup {m}
      PROVE  \E i \in DOMAIN t : t[i] = n
    <2>1. CASE n = m
        BY <1>1, <1>2, <2>1
    <2>2. CASE n \in S
        <3>1. PICK i \in DOMAIN s : s[i] = n
            BY <2>2 DEF Lists
        <3> QED BY <1>1, <1>2, <3>1
    <2> QED BY <2>1, <2>2
<1>6. \A n \in S \cup {m} : \E i \in DOMAIN t : t[i] = n
    BY <1>4
<1> QED BY <1>2, <1>3, <1>6 DEF Lists, t

\* Leaving one element out leaves the others in their order.
LEMMA ListWithout ==
    ASSUME NEW S \in SUBSET Nat, NEW s, Lists(s, S), NEW k \in DOMAIN s,
           NEW t, DOMAIN t = 1..(Len(s) - 1), t \in Seq(S),
           \A i \in DOMAIN t : t[i] = IF i < k THEN s[i] ELSE s[i + 1]
    PROVE  Lists(t, S \ {s[k]})
<1>1. /\ s \in Seq(S) /\ Len(s) \in Nat /\ DOMAIN s = 1..Len(s) /\ k \in 1..Len(s)
      /\ \A i \in DOMAIN s : s[i] \in Nat
    <2>1. s \in Seq(S)
        BY DEF Lists
    <2>2. DOMAIN s = 1..Len(s) /\ Len(s) \in Nat /\ \A i \in DOMAIN s : s[i] \in S
        BY <2>1
    <2> QED BY <2>1, <2>2, Zenon
<1>2. \A i, j \in DOMAIN s : i < j => s[i] < s[j]
    BY DEF Lists
<1>3. \A i, j \in DOMAIN s : s[i] = s[j] => i = j
    BY <1>1, <1>2
<1>4. \A i \in DOMAIN t : \E j \in DOMAIN s : t[i] = s[j] /\ j # k /\ j = IF i < k THEN i ELSE i + 1
    BY <1>1
<1>5. \A i \in DOMAIN t : t[i] \in S \ {s[k]}
    BY <1>1, <1>3, <1>4
<1>6. t \in Seq(S \ {s[k]})
    <2>1. Len(s) - 1 \in Nat
        BY <1>1
    <2>2. t \in [1..(Len(s) - 1) -> S \ {s[k]}]
        BY <1>5
    <2> QED BY <2>1, <2>2
<1>7. \A i, j \in DOMAIN t : i < j => t[i] < t[j]
    <2> SUFFICES ASSUME NEW i \in DOMAIN t, NEW j \in DOMAIN t, i < j PROVE t[i] < t[j]
        OBVIOUS
    <2> DEFINE I == IF i < k THEN i ELSE i + 1
               J == IF j < k THEN j ELSE j + 1
    <2>1. I \in DOMAIN s /\ J \in DOMAIN s /\ I < J
        BY <1>1
    <2>2. t[i] = s[I] /\ t[j] = s[J]
        OBVIOUS
    <2> QED BY <1>2, <2>1, <2>2
<1>8. ASSUME NEW n \in S \ {s[k]}
      PROVE  \E i \in DOMAIN t : t[i] = n
    <2>1. PICK j \in DOMAIN s : s[j] = n
        BY DEF Lists
    <2>2. CASE j < k
        <3>1. j \in DOMAIN t
            BY <1>1, <2>1, <2>2
        <3> QED BY <2>1, <2>2, <3>1
    <2>3. CASE j > k
        <3>1. j - 1 \in DOMAIN t /\ ~(j - 1 < k) /\ (j - 1) + 1 = j
            BY <1>1, <2>1, <2>3
        <3> QED BY <2>1, <3>1
    <2> QED BY <1>1, <2>1, <2>2, <2>3
<1> QED BY <1>6, <1>7, <1>8 DEF Lists

\* Two lists of one set agree wherever the first is defined.
LEMMA ListAgrees ==
    ASSUME NEW S \in SUBSET Nat, NEW s, Lists(s, S), NEW t, Lists(t, S)
    PROVE  \A i \in DOMAIN s : i \in DOMAIN t /\ s[i] = t[i]
<1> DEFINE Bad == {i \in DOMAIN s : ~(i \in DOMAIN t /\ s[i] = t[i])}
<1> SUFFICES ASSUME Bad # {} PROVE FALSE
    OBVIOUS
<1>1. /\ DOMAIN s = 1..Len(s) /\ Len(s) \in Nat /\ DOMAIN t = 1..Len(t) /\ Len(t) \in Nat
      /\ \A i \in DOMAIN s : s[i] \in S /\ s[i] \in Nat
      /\ \A i \in DOMAIN t : t[i] \in S /\ t[i] \in Nat
    <2>1. s \in Seq(S) /\ t \in Seq(S)
        BY DEF Lists
    <2>2. DOMAIN s = 1..Len(s) /\ Len(s) \in Nat /\ \A i \in DOMAIN s : s[i] \in S
        BY <2>1
    <2>3. DOMAIN t = 1..Len(t) /\ Len(t) \in Nat /\ \A i \in DOMAIN t : t[i] \in S
        BY <2>1
    <2> QED BY <2>2, <2>3, Zenon
<1>2. Bad \in SUBSET Nat
    BY <1>1
<1>3. PICK i \in Bad : \A j \in Bad : i <= j
    BY <1>2, LeastExists, Zenon
<1>4. \A j \in DOMAIN s : j < i => j \in DOMAIN t /\ s[j] = t[j]
    BY <1>1, <1>2, <1>3
<1>5. i \in DOMAIN s /\ ~(i \in DOMAIN t /\ s[i] = t[i])
    OBVIOUS
<1> HIDE DEF Bad
<1>6. PICK j \in DOMAIN t : t[j] = s[i]
    BY <1>1, <1>5 DEF Lists
<1>7. ~(j < i)
    <2> SUFFICES ASSUME j < i PROVE FALSE
        OBVIOUS
    <2>1. j \in DOMAIN s /\ s[j] = t[j]
        BY <1>1, <1>4, <1>5, <1>6
    <2>2. s[j] < s[i]
        BY <1>5, <2>1 DEF Lists
    <2> QED BY <1>1, <1>5, <1>6, <2>1, <2>2
<1>8. i \in DOMAIN t
    BY <1>1, <1>5, <1>6, <1>7
<1>9. i < j
    BY <1>1, <1>5, <1>6, <1>7, <1>8
<1>10. t[i] < s[i]
    BY <1>6, <1>8, <1>9 DEF Lists
<1>11. PICK k \in DOMAIN s : s[k] = t[i]
    BY <1>1, <1>8 DEF Lists
<1>12. CASE k < i
    <2>1. s[k] = t[k] /\ k \in DOMAIN t /\ k < i
        BY <1>4, <1>11, <1>12
    <2>2. t[k] < t[i]
        BY <1>8, <2>1 DEF Lists
    <2> QED BY <1>1, <1>8, <1>11, <2>1, <2>2
<1>13. CASE ~(k < i)
    <2>1. k = i \/ i < k
        BY <1>1, <1>5, <1>11, <1>13
    <2>2. s[i] <= s[k]
        BY <1>1, <1>5, <1>11, <2>1 DEF Lists
    <2> QED BY <1>1, <1>5, <1>8, <1>10, <1>11, <2>2
<1> QED BY <1>12, <1>13

\* A set of numbers has one list.
LEMMA ListUnique ==
    ASSUME NEW S \in SUBSET Nat, NEW s, Lists(s, S), NEW t, Lists(t, S)
    PROVE  s = t
<1>1. \A i \in DOMAIN s : i \in DOMAIN t /\ s[i] = t[i]
    BY ListAgrees
<1>2. \A i \in DOMAIN t : i \in DOMAIN s /\ t[i] = s[i]
    BY ListAgrees
<1>3. s \in Seq(S) /\ t \in Seq(S)
    BY DEF Lists
<1>4. DOMAIN s = DOMAIN t
    BY <1>1, <1>2
<1>5. Len(s) = Len(t) /\ s \in [1..Len(s) -> S] /\ t \in [1..Len(t) -> S]
    BY <1>3, <1>4
<1> QED BY <1>1, <1>5

\* Every finite set of numbers has a list.
LEMMA ListExists ==
    ASSUME NEW L, L \subseteq Nat, IsFiniteSet(L), NEW B \in SUBSET L
    PROVE  \E s : Lists(s, B)
<1> DEFINE Bad == {U \in SUBSET L : ~\E s : Lists(s, U)}
<1> SUFFICES ASSUME Bad # {} PROVE FALSE
    BY Zenon
<1>1. PICK U \in Bad : \A y \in Bad : y \subseteq U => y = U
    <2>1. Bad \in SUBSET SUBSET L
        OBVIOUS
    <2> HIDE DEF Bad
    <2> QED BY ONLY IsFiniteSet(L), Bad # {}, <2>1, SmallestSubset
<1>2. U \in SUBSET L /\ ~\E s : Lists(s, U)
    OBVIOUS
<1>3. U # {}
    BY <1>2, EmptyList
<1>4. PICK m \in U : \A n \in U : m <= n
    <2>1. U \in SUBSET Nat
        BY <1>2
    <2> QED BY <1>3, <2>1, LeastExists
<1>5. U \ {m} \in SUBSET L /\ U \ {m} \notin Bad
    <2> HIDE DEF Bad
    <2> QED BY <1>1, <1>2, <1>4
<1>6. PICK s : Lists(s, U \ {m})
    BY <1>5
<1> HIDE DEF Bad
<1>7. m \in Nat /\ U \ {m} \in SUBSET Nat /\ \A n \in U \ {m} : m < n
    BY <1>2, <1>4
<1>8. Lists(<<m>> \o s, (U \ {m}) \cup {m})
    BY <1>6, <1>7, ListPrepend
<1>9. (U \ {m}) \cup {m} = U
    BY <1>4
<1> QED BY <1>2, <1>8, <1>9

-----------------------------------------------------------------------------
(* The walk                                                                *)

\* The waiting nodes from one on.
Onward(id) == {k \in Live : id <= k}

\* The waiting nodes from one on can be listed.
LEMMA OnwardListed ==
    ASSUME QueueInv
    PROVE  \A id \in Live : \E s : Lists(s, Onward(id))
<1>1. Live \in SUBSET Nat /\ IsFiniteSet(Live)
    BY QueueAssumption DEF QueueInv, TypeOK, LengthIsExact, NodeIds
<1>2. \A id \in Live : Onward(id) \in SUBSET Live
    BY DEF Onward
<1> QED BY <1>1, <1>2, ListExists, Zenon

\* The nodes from one on are that node and the nodes from its successor on.
LEMMA OnwardStep ==
    ASSUME QueueInv, NEW id \in Live
    PROVE  /\ queue[id].next \in Live \cup {NoNode}
           /\ queue[id].next = NoNode => Onward(id) = {id}
           /\ queue[id].next # NoNode =>
                 /\ id < queue[id].next
                 /\ Onward(id) = Onward(queue[id].next) \cup {id}
                 /\ \A n \in Onward(queue[id].next) : id < n
<1> USE QueueAssumption DEF QueueInv, NoNode, NodeIds
<1>1. Live \in SUBSET Nat /\ IsSuccessor(id, queue[id].next)
    BY DEF TypeOK, ListInOrder
<1> DEFINE m == queue[id].next
<1> HIDE DEF m
<1>2. IsSuccessor(id, m)
    BY <1>1 DEF m
<1>3. CASE m = NoNode
    <2>1. \A k \in Live : k <= id
        BY <1>2, <1>3 DEF IsSuccessor
    <2>3. \A k \in Live : id <= k <=> k = id
        BY <1>1, <2>1
    <2>2. Onward(id) = {id}
        BY <2>3 DEF Onward
    <2> QED BY <1>3, <2>2 DEF m
<1>4. CASE m # NoNode
    <2>1. m \in Live /\ id < m /\ \A k \in Live : k <= id \/ m <= k
        BY <1>2, <1>4 DEF IsSuccessor
    <2>2. \A k \in Live : id <= k <=> m <= k \/ k = id
        BY <1>1, <2>1
    <2>4. Onward(id) = Onward(m) \cup {id}
        BY <1>1, <2>2, Zenon DEF Onward
    <2>3. \A n \in Onward(m) : id < n
        BY <1>1, <2>1 DEF Onward
    <2> QED BY <1>4, <2>1, <2>3, <2>4 DEF m
<1> QED BY <1>3, <1>4

\* The recursion of the walk has a solution, so the walk satisfies it: following
\* `next` ends.
LEMMA WalkUnfolds ==
    ASSUME QueueInv
    PROVE  IterFrom = [id \in Live \cup {NoNode} |->
                IF id = NoNode THEN <<>> ELSE <<id>> \o IterFrom[queue[id].next]]
<1> DEFINE D == Live \cup {NoNode}
           Step(f) == [id \in D |-> IF id = NoNode THEN <<>> ELSE <<id>> \o f[queue[id].next]]
           From(id) == CHOOSE s : Lists(s, Onward(id))
           w == [id \in D |-> IF id = NoNode THEN <<>> ELSE From(id)]
<1>1. Live \in SUBSET Nat /\ NoNode \notin Live
    BY QueueAssumption DEF QueueInv, TypeOK, NodeIds, NoNode
<1>2. \A id \in Live : Lists(From(id), Onward(id))
    BY OnwardListed
<1>3. ASSUME NEW id \in Live
      PROVE  w[id] = <<id>> \o w[queue[id].next]
    <2> DEFINE m == queue[id].next
    <2>1. /\ m \in D
          /\ m = NoNode => Onward(id) = {id}
          /\ m # NoNode => /\ Onward(id) = Onward(m) \cup {id}
                           /\ \A n \in Onward(m) : id < n
        BY OnwardStep
    <2> HIDE DEF m
    <2>2. w[id] = From(id) /\ Lists(From(id), Onward(id)) /\ Onward(id) \in SUBSET Nat /\ id \in Nat
        BY <1>1, <1>2, Zenon DEF Onward
    <2> HIDE DEF From
    <2>3. CASE m = NoNode
        <3>1. Lists(<<id>> \o <<>>, {} \cup {id})
            BY <2>2, EmptyList, ListPrepend, Zenon
        <3>2. w[m] = <<>>
            BY <2>1, <2>3
        <3>3. Lists(<<id>> \o w[m], Onward(id))
            BY <2>1, <2>3, <3>1, <3>2
        <3> HIDE DEF w
        <3> QED BY <2>2, <3>3, ListUnique, Zenon DEF m
    <2>4. CASE m # NoNode
        <3>1. m \in Live /\ w[m] = From(m)
            BY <2>1, <2>4
        <3>2. Lists(w[m], Onward(m)) /\ Onward(m) \in SUBSET Nat
            BY <1>1, <1>2, <3>1, Zenon DEF Onward
        <3> HIDE DEF w
        <3>3. Lists(<<id>> \o w[m], Onward(m) \cup {id})
            BY <2>1, <2>2, <2>4, <3>2, ListPrepend
        <3>4. Lists(<<id>> \o w[m], Onward(id))
            BY <2>1, <2>4, <3>3
        <3> QED BY <2>2, <3>4, ListUnique, Zenon DEF m
    <2> QED BY <2>3, <2>4, Zenon
<1>4. w = Step(w)
    <2>1. ASSUME NEW id \in D
          PROVE  w[id] = IF id = NoNode THEN <<>> ELSE <<id>> \o w[queue[id].next]
        <3>1. CASE id = NoNode
            BY <3>1
        <3>2. CASE id # NoNode
            <4>1. w[id] = <<id>> \o w[queue[id].next]
                BY <1>3, <3>2, Zenon
            <4> HIDE DEF w
            <4> QED BY <3>2, <4>1
        <3> QED BY <3>1, <3>2
    <2> HIDE DEF w
    <2>2. w = [id \in D |-> w[id]]
        BY DEF w
    <2> QED BY <2>1, <2>2
<1>5. \E f : f = Step(f)
    BY <1>4, Zenon
<1>6. IterFrom = CHOOSE f : f = Step(f)
    BY DEF IterFrom
<1> HIDE DEF Step
<1>7. IterFrom = Step(IterFrom)
    BY <1>5, <1>6, Zenon
<1> QED BY <1>7, Zenon DEF Step

\* Following `next` from a node meets the nodes from it on in order of arrival.
LEMMA WalkLists ==
    ASSUME QueueInv
    PROVE  \A id \in Live : Lists(IterFrom[id], Onward(id))
<1> USE QueueAssumption
<1> DEFINE Ahead(id) == MaxNodeId - id
           Bad == {Ahead(id) : id \in {k \in Live : ~Lists(IterFrom[k], Onward(k))}}
<1>1. /\ Live \in SUBSET Nat /\ NoNode \notin Live
      /\ \A id \in Live : Ahead(id) \in Nat
    BY DEF QueueInv, TypeOK, NodeIds, NoNode
<1> SUFFICES ASSUME Bad # {} PROVE FALSE
    OBVIOUS
<1>2. Bad \in SUBSET Nat
    BY <1>1
<1>3. PICK d \in Bad : \A e \in Bad : d <= e
    BY <1>2, LeastExists, Zenon
<1>4. PICK id \in Live : d = Ahead(id) /\ ~Lists(IterFrom[id], Onward(id))
    BY <1>3
<1>5. \A k \in Live : id < k => Lists(IterFrom[k], Onward(k))
    <2> SUFFICES ASSUME NEW k \in Live, id < k, ~Lists(IterFrom[k], Onward(k)) PROVE FALSE
        OBVIOUS
    <2>1. Ahead(k) \in Bad
        OBVIOUS
    <2>2. d <= Ahead(k)
        BY <1>3, <2>1
    <2> QED BY <1>1, <1>4, <2>2
<1> HIDE DEF Bad
<1> DEFINE m == queue[id].next
<1>6. IterFrom[id] = <<id>> \o IterFrom[m] /\ IterFrom[NoNode] = <<>>
    BY <1>1, <1>4, WalkUnfolds, Zenon
<1>7. /\ m \in Live \cup {NoNode}
      /\ m = NoNode => Onward(id) = {id}
      /\ m # NoNode => /\ id < m
                       /\ Onward(id) = Onward(m) \cup {id}
                       /\ \A n \in Onward(m) : id < n
    BY OnwardStep
<1> HIDE DEF m
<1>8. CASE m = NoNode
    <2>1. Lists(<<id>> \o <<>>, {} \cup {id})
        BY <1>1, EmptyList, ListPrepend, Zenon
    <2> QED BY <1>4, <1>6, <1>7, <1>8, <2>1, Zenon
<1>9. CASE m # NoNode
    <2>1. Lists(IterFrom[m], Onward(m)) /\ Onward(m) \in SUBSET Nat /\ id \in Nat
        BY <1>1, <1>5, <1>7, <1>9, Zenon DEF Onward
    <2>2. Lists(<<id>> \o IterFrom[m], Onward(m) \cup {id})
        BY <1>7, <1>9, <2>1, ListPrepend
    <2> QED BY <1>4, <1>6, <1>7, <1>9, <2>2, Zenon
<1> QED BY <1>8, <1>9

\* The walk of WithdrawalQueueIter meets every waiting node once, in order of arrival.
LEMMA IterListsLive == QueueInv => Lists(Iter, Live)
<1> SUFFICES ASSUME QueueInv PROVE Lists(Iter, Live)
    OBVIOUS
<1> USE QueueAssumption DEF NoNode, NodeIds
<1>1. Live \in SUBSET Nat /\ IsSuccessor(NoNode, queue_head)
    BY DEF QueueInv, TypeOK, ListInOrder
<1>2. CASE queue_head = NoNode
    <2>1. Iter = <<>>
        BY <1>2, WalkUnfolds, Zenon DEF Iter
    <2>2. Live = {}
        BY <1>1, <1>2 DEF IsSuccessor, QueueInv, TypeOK
    <2> QED BY <2>1, <2>2, EmptyList
<1>3. CASE queue_head # NoNode
    <2>1. queue_head \in Live /\ Onward(queue_head) = Live
        BY <1>1, <1>3 DEF IsSuccessor, Onward, QueueInv, TypeOK
    <2>2. Lists(IterFrom[queue_head], Onward(queue_head))
        BY <2>1, WalkLists
    <2> QED BY <2>1, <2>2 DEF Iter
<1> QED BY <1>2, <1>3

-----------------------------------------------------------------------------
(* What the queue tells about a request                                    *)

\* The numbers up to one are that many.
LEMMA PrefixSize ==
    ASSUME NEW S \in SUBSET Nat, NEW s, Lists(s, S), NEW i \in DOMAIN s
    PROVE  /\ {s[j] : j \in 1..(i - 1)} = {n \in S : n < s[i]}
           /\ Cardinality({n \in S : n < s[i]}) = i - 1
<1> DEFINE P == {s[j] : j \in 1..(i - 1)}
<1>1. s \in Seq(S)
    BY DEF Lists
<1>2. DOMAIN s = 1..Len(s) /\ Len(s) \in Nat /\ \A j \in DOMAIN s : s[j] \in S
    BY <1>1
<1>3. \A j, k \in DOMAIN s : (j < k <=> s[j] < s[k]) /\ (s[j] = s[k] => j = k)
    BY ListPlaces, Zenon
<1>4. P = {n \in S : n < s[i]}
    <2>1. ASSUME NEW n \in P PROVE n \in S /\ n < s[i]
        BY <1>2, <1>3
    <2>2. ASSUME NEW n \in S, n < s[i] PROVE n \in P
        <3>1. PICK j \in DOMAIN s : s[j] = n
            BY DEF Lists
        <3>2. j < i
            BY <1>3, <2>2, <3>1
        <3>3. j \in 1..(i - 1)
            BY <1>2, <3>1, <3>2
        <3> QED BY <3>1, <3>3
    <2> HIDE DEF P
    <2> QED BY <2>1, <2>2, Zenon
<1>5. Cardinality(P) = i - 1
    <2> DEFINE f == [j \in 1..(i - 1) |-> s[j]]
    <2>1. f \in Bijection(1..(i - 1), P)
        <3>1. f \in [1..(i - 1) -> P]
            OBVIOUS
        <3>2. \A j, k \in 1..(i - 1) : f[j] = f[k] => j = k
            BY <1>2, <1>3
        <3>3. \A n \in P : \E j \in 1..(i - 1) : f[j] = n
            OBVIOUS
        <3>4. DOMAIN f = 1..(i - 1)
            OBVIOUS
        <3> HIDE DEF P, f
        <3> QED BY <3>1, <3>2, <3>3, <3>4 DEF Bijection, Injection, Surjection, IsInjective
    <2>2. ExistsBijection(1..(i - 1), P)
        BY <2>1 DEF ExistsBijection
    <2>3. /\ IsFiniteSet(1..(i - 1))
          /\ Cardinality(1..(i - 1)) = i - 1
        <3>1. 1 \in Int /\ i - 1 \in Int /\ i - 1 \in Nat
            BY <1>2
        <3>2. /\ IsFiniteSet(1..(i - 1))
              /\ Cardinality(1..(i - 1)) = IF 1 > i - 1 THEN 0 ELSE (i - 1) - 1 + 1
            BY <3>1, FS_Interval
        <3> QED BY <3>1, <3>2
    <2> HIDE DEF P
    <2> QED BY <2>2, <2>3, FS_Bijection
<1> QED BY <1>4, <1>5

\* The queue's answers are right whenever the list is in order.
LEMMA StatusFollows == QueueInv => StatusIsExact
<1> SUFFICES ASSUME QueueInv PROVE StatusIsExact
    OBVIOUS
<1> USE QueueAssumption
<1>1. Lists(Iter, Live) /\ Live \in SUBSET Nat
    BY IterListsLive DEF QueueInv, TypeOK, NodeIds
<1>2. Iter \in Seq(Live) /\ \A i \in DOMAIN Iter : Iter[i] \in Live
    <2>1. Iter \in Seq(Live)
        BY <1>1 DEF Lists
    <2> QED BY <2>1
<1>3. GetStatus = [depth |-> SumAmounts(Live), length |-> Cardinality(Live)]
    <2>1. Range(Iter) = Live
        BY <1>1, <1>2, Zenon DEF Range, Lists
    <2> QED BY <2>1 DEF GetStatus, QueueInv, LengthIsExact
<1>4. ASSUME NEW a \in DOMAIN entries
      PROVE  LET ahead == {n \in Live : n < entries[a]}
             IN  /\ PlacesOf(a) # {}
                 /\ GetRequestStatus(a) = [index  |-> Cardinality(ahead),
                                           depth  |-> SumAmounts(ahead),
                                           amount |-> queue[entries[a]].amount]
    <2> DEFINE ahead == {n \in Live : n < entries[a]}
    <2>1. /\ entries[a] \in Live /\ queue[entries[a]].account = a
          /\ \A n \in Live : queue[n].account = a => n = entries[a]
        BY DEF QueueInv, EntriesMatchNodes
    <2>2. PICK i \in DOMAIN Iter : Iter[i] = entries[a]
        BY <1>1, <2>1, Zenon DEF Lists
    <2>3. \A j \in DOMAIN Iter : Iter[j] = entries[a] => j = i
        BY <1>1, <2>2, ListPlaces, Zenon
    <2>4. PlacesOf(a) = {i}
        BY <1>2, <2>1, <2>2, <2>3 DEF PlacesOf
    <2>5. i \in Nat
        BY <1>2, <2>2
    <2>6. Min({i}) = i
        <3>1. i \in {i} /\ \A n \in {i} : i <= n
            BY <2>5
        <3>2. \A m \in {i} : m = i
            OBVIOUS
        <3> QED BY <3>1, <3>2, Zenon DEF Min
    <2>7. {Iter[j] : j \in 1..(i - 1)} = ahead /\ Cardinality(ahead) = i - 1
        <3>1. /\ {Iter[j] : j \in 1..(i - 1)} = {n \in Live : n < Iter[i]}
              /\ Cardinality({n \in Live : n < Iter[i]}) = i - 1
            BY <1>1, PrefixSize, Zenon
        <3> QED BY <2>2, <3>1
    <2> HIDE DEF ahead
    <2>8. GetRequestStatus(a) = [index |-> i - 1, depth |-> SumAmounts(ahead),
                                 amount |-> queue[entries[a]].amount]
        <3>1. Min(PlacesOf(a)) = i
            BY <2>4, <2>6
        <3> QED BY <2>2, <2>7, <3>1, Zenon DEF GetRequestStatus
    <2> QED BY <2>4, <2>7, <2>8 DEF ahead
<1> QED BY <1>3, <1>4 DEF StatusIsExact

\* get_status and get_request_status answer exactly in every reachable state.
THEOREM StatusAlwaysExact == Spec => []StatusIsExact
BY QueueSafe, StatusFollows, PTL

-----------------------------------------------------------------------------
(* The queue implements a first-in first-out queue                         *)

\* The request kept at a node.
RequestAt(n) == [account |-> queue[n].account, amount |-> queue[n].amount]

\* The requests in the order of the walk.
Requests == [i \in DOMAIN Iter |-> RequestAt(Iter[i])]

\* After a step the walk lists the nodes then waiting.
LEMMA IterListsLiveNext == QueueInv' => Lists(Iter, Live)'
BY IterListsLive, PTL

\* The walk is the list of the waiting nodes, before and after a step.
LEMMA WalksOfStep ==
    ASSUME QueueInv, QueueInv'
    PROVE  /\ Live \in SUBSET Nat /\ Lists(Iter, Live)
           /\ Live' \in SUBSET Nat /\ Lists(Iter', Live')
BY QueueAssumption, IterListsLive, IterListsLiveNext DEF QueueInv, TypeOK, NodeIds

\* An account waits in the abstract queue when it waits at a node.
LEMMA WaitingIsIndexed ==
    ASSUME QueueInv, NEW a
    PROVE  /\ a \in {Requests[i].account : i \in DOMAIN Requests} <=> a \in DOMAIN entries
           /\ \A i \in DOMAIN Iter : /\ Iter[i] \in Live
                                     /\ Requests[i].account = queue[Iter[i]].account
           /\ \A i \in DOMAIN Iter : Requests[i].account = a
                                     <=> a \in DOMAIN entries /\ Iter[i] = entries[a]
<1>1. Lists(Iter, Live) /\ Live \in SUBSET Nat
    BY QueueAssumption, IterListsLive DEF QueueInv, TypeOK, NodeIds
<1>2. \A i \in DOMAIN Iter : Iter[i] \in Live
    BY <1>1, ListPlaces, Zenon
<1>3. \A n \in Live : \E i \in DOMAIN Iter : Iter[i] = n
    BY <1>1 DEF Lists
<1>4. \A i \in DOMAIN Iter : Requests[i].account = queue[Iter[i]].account
    BY DEF Requests, RequestAt
<1>5. \A i \in DOMAIN Iter : Requests[i].account = a
                            <=> a \in DOMAIN entries /\ Iter[i] = entries[a]
    BY <1>2, <1>4 DEF QueueInv, EntriesMatchNodes
<1>6. a \in DOMAIN entries => entries[a] \in Live
    BY DEF QueueInv, EntriesMatchNodes
<1>7. DOMAIN Requests = DOMAIN Iter
    BY DEF Requests
<1>8. ASSUME NEW i \in DOMAIN Iter, a = Requests[i].account PROVE a \in DOMAIN entries
    BY <1>5, <1>8
<1>9. ASSUME a \in DOMAIN entries PROVE \E i \in DOMAIN Iter : a = Requests[i].account
    BY <1>3, <1>5, <1>6, <1>9
<1> QED BY <1>2, <1>4, <1>5, <1>7, <1>8, <1>9

\* The requests are a sequence as long as the walk.
LEMMA RequestsAreSequence ==
    ASSUME QueueInv
    PROVE  /\ Requests \in Seq(Fifo!Request) /\ Len(Requests) = Len(Iter)
           /\ Len(Iter) \in Nat /\ DOMAIN Requests = 1..Len(Iter)
<1>1. Lists(Iter, Live) /\ Live \in SUBSET Nat
    BY QueueAssumption, IterListsLive DEF QueueInv, TypeOK, NodeIds
<1>2. Len(Iter) \in Nat /\ DOMAIN Iter = 1..Len(Iter) /\ \A i \in DOMAIN Iter : Iter[i] \in Live
    BY <1>1, ListPlaces, Zenon
<1>3. \A n \in Live : RequestAt(n) \in Fifo!Request
    BY DEF QueueInv, TypeOK, Nodes, RequestAt, Fifo!Request
<1>4. Requests \in [1..Len(Iter) -> Fifo!Request]
    BY <1>2, <1>3 DEF Requests
<1> QED BY <1>2, <1>4

\* Changing the amount of a node changes the amount of its request and nothing
\* of the order.
LEMMA AmountStep ==
    ASSUME QueueInv, QueueInv', NEW id \in Live, NEW x,
           queue' = [queue EXCEPT ![id].amount = x]
    PROVE  Requests' = [i \in DOMAIN Requests |->
                            IF Iter[i] = id THEN [Requests[i] EXCEPT !.amount = x]
                            ELSE Requests[i]]
<1>1. Live' = Live
    BY DEF Live
<1>2. Iter' = Iter
    BY <1>1, WalksOfStep, ListUnique
<1>3. \A i \in DOMAIN Iter : Iter[i] \in Live
    BY WalksOfStep, ListPlaces, Zenon
<1>4. \A n \in Live : queue[n] \in Nodes
    BY DEF QueueInv, TypeOK
<1>5. ASSUME NEW n \in Live
      PROVE  RequestAt(n)' = IF n = id THEN [RequestAt(n) EXCEPT !.amount = x] ELSE RequestAt(n)
    BY <1>4 DEF RequestAt, Live, Nodes
<1>6. /\ DOMAIN Requests = DOMAIN Iter
      /\ \A i \in DOMAIN Iter : Requests[i] = RequestAt(Iter[i])
    BY DEF Requests
<1>7. Requests' = [i \in DOMAIN Iter |-> RequestAt(Iter[i])']
    BY <1>2 DEF Requests, RequestAt
<1>8. ASSUME NEW i \in DOMAIN Iter
      PROVE  RequestAt(Iter[i])' = IF Iter[i] = id THEN [Requests[i] EXCEPT !.amount = x]
                                   ELSE Requests[i]
    <2>1. PICK n \in Live : n = Iter[i]
        BY <1>3
    <2>2. RequestAt(Iter[i])' = RequestAt(n)'
        BY <1>2, <2>1 DEF RequestAt
    <2> QED BY <1>5, <1>6, <2>1, <2>2
<1> QED BY <1>6, <1>7, <1>8

\* An account that waits already keeps its place (insert_or_update).
LEMMA UpdateIsSubmit ==
    ASSUME QueueInv, QueueInv', NEW a \in Accounts, NEW x \in Amounts, UpdateExisting(a, x)
    PROVE  Fifo!Submit(a, x)
<1>1. /\ a \in DOMAIN entries /\ entries[a] \in Live
      /\ queue' = [queue EXCEPT ![entries[a]].amount = x]
    BY DEF UpdateExisting, QueueInv, EntriesMatchNodes
<1>2. Requests' = [i \in DOMAIN Requests |->
                        IF Iter[i] = entries[a] THEN [Requests[i] EXCEPT !.amount = x]
                        ELSE Requests[i]]
    BY <1>1, AmountStep, Zenon
<1>3. a \in {Requests[i].account : i \in DOMAIN Requests}
    BY <1>1, WaitingIsIndexed
<1>4. DOMAIN Requests = DOMAIN Iter
    BY DEF Requests
<1>5. \A i \in DOMAIN Requests : Requests[i].account = a <=> Iter[i] = entries[a]
    BY <1>1, <1>4, WaitingIsIndexed
<1>6. Requests' = [i \in DOMAIN Requests |->
                        IF Requests[i].account = a THEN [Requests[i] EXCEPT !.amount = x]
                        ELSE Requests[i]]
    BY <1>2, <1>5
<1>7. Requests = [i \in DOMAIN Iter |-> [account |-> queue[Iter[i]].account,
                                         amount  |-> queue[Iter[i]].amount]]
    BY DEF Requests, RequestAt
<1>8. Requests' = [i \in DOMAIN Iter |-> [account |-> queue[Iter[i]].account,
                                          amount  |-> queue[Iter[i]].amount]]'
    BY DEF Requests, RequestAt
<1> HIDE DEF Requests
<1> QED BY <1>3, <1>6, <1>7, <1>8 DEF Fifo!Submit, Fifo!Waiting

\* A new account goes to the back (insert_or_update).
LEMMA AddIsSubmit ==
    ASSUME QueueInv, QueueInv', NEW a \in Accounts, NEW x \in Amounts, AddNew(a, x)
    PROVE  Fifo!Submit(a, x)
<1> DEFINE new == [account |-> a, amount |-> x]
<1>0. PICK id : id = next_queue_node_id
    OBVIOUS
<1>1. /\ a \notin DOMAIN entries /\ id \in Nat /\ id \notin Live
      /\ \A n \in Live : n < id
      /\ queue_tail # NoNode => queue_tail \in Live
    BY <1>0, QueueAssumption DEF AddNew, QueueInv, TypeOK, ListInOrder, IsPredecessor, NodeIds
<1>2. /\ Live' = Live \cup {id}
      /\ RequestAt(id)' = new
      /\ \A n \in Live : RequestAt(n)' = RequestAt(n)
    <2> DEFINE linked == SetExistingNodeNext(queue, queue_tail, id)
               node == [account |-> a, amount |-> x, prev |-> queue_tail, next |-> NoNode]
    <2>1. queue' = Insert(linked, id, node)
        BY <1>0 DEF AddNew
    <2>2. \A n \in Live : queue[n] \in Nodes
        BY DEF QueueInv, TypeOK
    <2>3. /\ DOMAIN linked = Live
          /\ \A n \in Live : /\ linked[n].account = queue[n].account
                             /\ linked[n].amount = queue[n].amount
        BY <1>1, <2>2 DEF SetExistingNodeNext, Live, Nodes
    <2> HIDE DEF linked
    <2>4. /\ Live' = Live \cup {id} /\ queue'[id] = node
          /\ \A n \in Live : queue'[n] = linked[n]
        BY <1>1, <2>1, <2>3 DEF Insert, Live
    <2> QED BY <2>3, <2>4 DEF RequestAt
<1>3. Iter' = Append(Iter, id)
    <2>1. Lists(Append(Iter, id), Live \cup {id})
        BY <1>1, WalksOfStep, ListAppend
    <2> QED BY <1>2, <2>1, WalksOfStep, ListUnique, Zenon
<1>4. /\ Iter \in Seq(Live) /\ Len(Iter) \in Nat /\ DOMAIN Iter = 1..Len(Iter)
      /\ \A i \in DOMAIN Iter : Iter[i] \in Live
    BY WalksOfStep, ListPlaces, Zenon
<1> HIDE DEF new
<1>5. /\ DOMAIN Iter' = 1..(Len(Iter) + 1) /\ Iter'[Len(Iter) + 1] = id
      /\ \A i \in 1..Len(Iter) : Iter'[i] = Iter[i]
    BY <1>3, <1>4
<1>6. Requests' = [i \in 1..(Len(Iter) + 1) |->
                        IF i = Len(Iter) + 1 THEN new ELSE Requests[i]]
    <2>1. \A i \in 1..Len(Iter) : Requests[i] = RequestAt(Iter[i]) /\ Iter[i] \in Live
        BY <1>4 DEF Requests
    <2>2. \A i \in DOMAIN Iter' : Requests'[i] = RequestAt(Iter[i])'
        BY DEF Requests
    <2>3. ASSUME NEW i \in 1..(Len(Iter) + 1)
          PROVE  Requests'[i] = IF i = Len(Iter) + 1 THEN new ELSE Requests[i]
        <3>1. CASE i = Len(Iter) + 1
            <4>1. Requests'[i] = RequestAt(Iter[i])' /\ Iter'[i] = id
                BY <1>5, <2>2, <3>1
            <4>2. RequestAt(Iter[i])' = RequestAt(id)'
                BY <4>1 DEF RequestAt
            <4> QED BY <1>2, <3>1, <4>1, <4>2
        <3>2. CASE i \in 1..Len(Iter)
            <4>1. Requests'[i] = RequestAt(Iter[i])' /\ Iter'[i] = Iter[i] /\ Iter[i] \in Live
                BY <1>5, <2>1, <2>2, <3>2
            <4>2. RequestAt(Iter[i])' = RequestAt(Iter[i])
                BY <1>2, <4>1 DEF RequestAt
            <4> QED BY <1>4, <2>1, <3>2, <4>1, <4>2
        <3> QED BY <1>4, <3>1, <3>2
    <2>4. Requests' = [i \in 1..(Len(Iter) + 1) |-> Requests'[i]]
        BY <1>5 DEF Requests
    <2> QED BY <2>3, <2>4
<1>7. Requests' = Append(Requests, new)
    <2>1. Requests \in Seq(Fifo!Request) /\ Len(Requests) = Len(Iter)
        BY RequestsAreSequence
    <2> HIDE DEF Requests
    <2> DEFINE t == Append(Requests, new)
    <2>2. /\ t \in Seq(Fifo!Request \cup {new}) /\ Len(t) = Len(Iter) + 1
          /\ t[Len(Iter) + 1] = new /\ \A i \in 1..Len(Iter) : t[i] = Requests[i]
        BY <1>4, <2>1
    <2> HIDE DEF t
    <2>3. t \in [1..(Len(Iter) + 1) -> Fifo!Request \cup {new}]
        BY <2>2
    <2>4. \A i \in 1..(Len(Iter) + 1) : t[i] = IF i = Len(Iter) + 1 THEN new ELSE Requests[i]
        BY <1>4, <2>2
    <2> QED BY <1>6, <2>3, <2>4, Zenon DEF t
<1>8. a \notin {Requests[i].account : i \in DOMAIN Requests}
    BY <1>1, WaitingIsIndexed
<1>9. Requests = [i \in DOMAIN Iter |-> [account |-> queue[Iter[i]].account,
                                         amount  |-> queue[Iter[i]].amount]]
    BY DEF Requests, RequestAt
<1>10. Requests' = [i \in DOMAIN Iter |-> [account |-> queue[Iter[i]].account,
                                          amount  |-> queue[Iter[i]].amount]]'
    BY DEF Requests, RequestAt
<1> HIDE DEF Requests
<1> QED BY <1>7, <1>8, <1>9, <1>10, ZenonT(60) DEF Fifo!Submit, Fifo!Waiting, new

\* The walk starts at the head.
LEMMA HeadIsFirst ==
    ASSUME QueueInv, queue_head # NoNode
    PROVE  /\ queue_head \in Live /\ 1 \in DOMAIN Iter
           /\ \A i \in DOMAIN Iter : Iter[i] = queue_head <=> i = 1
<1>1. queue_head \in Live /\ (\A k \in Live : queue_head <= k) /\ queue_head \in Nat
    BY QueueAssumption DEF QueueInv, ListInOrder, IsSuccessor, TypeOK, NodeIds, NoNode
<1>2. Lists(Iter, Live) /\ Live \in SUBSET Nat
    BY QueueAssumption, IterListsLive DEF QueueInv, TypeOK, NodeIds
<1>3. PICK i \in DOMAIN Iter : Iter[i] = queue_head
    BY <1>1, <1>2 DEF Lists
<1>4. /\ Len(Iter) \in Nat /\ DOMAIN Iter = 1..Len(Iter)
      /\ \A j \in DOMAIN Iter : Iter[j] \in Live
      /\ \A j, k \in DOMAIN Iter : (j < k <=> Iter[j] < Iter[k]) /\ (Iter[j] = Iter[k] => j = k)
    BY <1>2, ListPlaces, Zenon
<1>5. 1 \in DOMAIN Iter
    BY <1>3, <1>4
<1>6. ~(1 < i)
    <2>1. Iter[1] \in Nat /\ queue_head <= Iter[1]
        BY <1>1, <1>2, <1>4, <1>5, Zenon
    <2> QED BY <1>1, <1>3, <1>4, <1>5, <2>1
<1>7. i = 1
    BY <1>3, <1>4, <1>6
<1> QED BY <1>1, <1>3, <1>4, <1>5, <1>7

\* Only the oldest request is partly served (mut_head).
LEMMA HeadIsReduced ==
    ASSUME QueueInv, QueueInv', NEW x \in Amounts, MutHead(x)
    PROVE  Fifo!Reduce(x)
<1>1. /\ queue_head \in Live /\ queue' = [queue EXCEPT ![queue_head].amount = x]
      /\ 1 \in DOMAIN Iter /\ \A i \in DOMAIN Iter : Iter[i] = queue_head <=> i = 1
    BY HeadIsFirst DEF MutHead
<1>3. Requests' = [i \in DOMAIN Requests |->
                        IF Iter[i] = queue_head THEN [Requests[i] EXCEPT !.amount = x]
                        ELSE Requests[i]]
    BY <1>1, AmountStep, Zenon
<1>4. DOMAIN Requests = DOMAIN Iter /\ Requests \in Seq(Fifo!Request) /\ Requests # <<>>
    BY <1>1, RequestsAreSequence DEF Requests
<1>5. Requests' = [Requests EXCEPT ![1].amount = x]
    <2>1. Requests' = [i \in DOMAIN Requests |->
                        IF i = 1 THEN [Requests[i] EXCEPT !.amount = x] ELSE Requests[i]]
        BY <1>1, <1>3, <1>4
    <2> QED BY <2>1
<1>6. Requests = [i \in DOMAIN Iter |-> [account |-> queue[Iter[i]].account,
                                         amount  |-> queue[Iter[i]].amount]]
    BY DEF Requests, RequestAt
<1>7. Requests' = [i \in DOMAIN Iter |-> [account |-> queue[Iter[i]].account,
                                          amount  |-> queue[Iter[i]].amount]]'
    BY DEF Requests, RequestAt
<1> HIDE DEF Requests
<1> QED BY <1>4, <1>5, <1>6, <1>7, ZenonT(60) DEF Fifo!Reduce

\* Taking a node out takes its request out and leaves the others in their order.
LEMMA RemovedRequest ==
    ASSUME QueueInv, QueueInv', NEW k \in DOMAIN Iter, Live' = Live \ {Iter[k]},
           \A n \in Live' : RequestAt(n)' = RequestAt(n)
    PROVE  /\ DOMAIN Requests' = 1..(Len(Iter) - 1)
           /\ \A i \in 1..(Len(Iter) - 1) :
                 Requests'[i] = IF i < k THEN Requests[i] ELSE Requests[i + 1]
<1> DEFINE t == [i \in 1..(Len(Iter) - 1) |-> IF i < k THEN Iter[i] ELSE Iter[i + 1]]
<1>1. /\ Len(Iter) \in Nat /\ DOMAIN Iter = 1..Len(Iter) /\ k \in 1..Len(Iter)
      /\ \A i \in DOMAIN Iter : Iter[i] \in Live
    BY WalksOfStep, ListPlaces, Zenon
<1>2. \A i \in 1..(Len(Iter) - 1) : (IF i < k THEN i ELSE i + 1) \in DOMAIN Iter
    BY <1>1
<1>3. /\ DOMAIN t = 1..(Len(Iter) - 1) /\ t \in Seq(Live)
      /\ \A i \in DOMAIN t : t[i] = IF i < k THEN Iter[i] ELSE Iter[i + 1]
    <2>1. t \in [1..(Len(Iter) - 1) -> Live] /\ Len(Iter) - 1 \in Nat
        BY <1>1, <1>2
    <2> QED BY <2>1
<1>4. Lists(t, Live \ {Iter[k]})
    <2> HIDE DEF t
    <2> QED BY <1>3, WalksOfStep, ListWithout, Zenon
<1>5. Iter' = t
    BY <1>4, WalksOfStep, ListUnique
<1>6. DOMAIN Requests' = 1..(Len(Iter) - 1)
    <2>1. DOMAIN Requests' = DOMAIN Iter'
        BY DEF Requests
    <2> QED BY <1>3, <1>5, <2>1
<1>7. ASSUME NEW i \in 1..(Len(Iter) - 1)
      PROVE  Requests'[i] = IF i < k THEN Requests[i] ELSE Requests[i + 1]
    <2> DEFINE j == IF i < k THEN i ELSE i + 1
    <2>1. j \in DOMAIN Iter /\ t[i] = Iter[j]
        BY <1>2, <1>3
    <2>2. PICK n : n = Iter[j]
        OBVIOUS
    <2>3. Requests[j] = RequestAt(n)
        BY <2>1, <2>2 DEF Requests
    <2>4. Requests'[i] = RequestAt(n)'
        BY <1>3, <1>5, <2>1, <2>2 DEF Requests, RequestAt
    <2>5. n \in Live'
        <3>1. i \in DOMAIN Iter' /\ Iter'[i] = n
            BY <1>3, <1>5, <2>1, <2>2
        <3> QED BY <3>1, WalksOfStep, ListPlaces, Zenon
    <2>6. Requests'[i] = Requests[j]
        BY <2>3, <2>4, <2>5
    <2> QED BY <2>6
<1> QED BY <1>6, <1>7

\* What remove leaves: the other nodes, with their requests.
LEMMA RemoveLeaves ==
    ASSUME QueueInv, QueueInv', NEW a \in Accounts, Remove(a)
    PROVE  /\ entries[a] \in Live /\ a \in DOMAIN entries
           /\ Live' = Live \ {entries[a]}
           /\ \A n \in Live' : RequestAt(n)' = RequestAt(n)
<1>0. PICK id : id = entries[a]
    OBVIOUS
<1> DEFINE prev == queue[id].prev
           next == queue[id].next
           kept == Without(queue, id)
           relinked == SetExistingNodePrev(kept, next, prev)
<1>1. /\ a \in DOMAIN entries /\ id \in Live
      /\ queue' = SetExistingNodeNext(relinked, prev, next)
    BY <1>0 DEF Remove, QueueInv, EntriesMatchNodes
<1>2. /\ prev # NoNode => prev \in Live \ {id}
      /\ next # NoNode => next \in Live \ {id}
    BY <1>1, QueueAssumption DEF QueueInv, TypeOK, ListInOrder, IsPredecessor, IsSuccessor, NodeIds
<1>3. /\ DOMAIN kept = Live \ {id}
      /\ \A n \in Live \ {id} : kept[n] = queue[n] /\ kept[n] \in Nodes
    BY DEF QueueInv, TypeOK, Live, Without, Restrict
<1> HIDE DEF kept, prev, next
<1>4. /\ DOMAIN relinked = Live \ {id}
      /\ \A n \in Live \ {id} : /\ relinked[n].account = queue[n].account
                                /\ relinked[n].amount = queue[n].amount
    BY <1>2, <1>3 DEF SetExistingNodePrev, Nodes
<1> HIDE DEF relinked
<1>5. /\ Live' = Live \ {id}
      /\ \A n \in Live \ {id} : /\ queue'[n].account = queue[n].account
                                /\ queue'[n].amount = queue[n].amount
    BY <1>1, <1>2, <1>4 DEF SetExistingNodeNext, Live
<1> QED BY <1>0, <1>1, <1>5 DEF RequestAt

\* An account gives its place up and nobody else moves (remove).
LEMMA RemoveIsCancel ==
    ASSUME QueueInv, QueueInv', NEW a \in Accounts, Remove(a)
    PROVE  Fifo!Cancel(a)
<1>1. /\ entries[a] \in Live /\ a \in DOMAIN entries /\ Live' = Live \ {entries[a]}
      /\ \A n \in Live' : RequestAt(n)' = RequestAt(n)
    BY RemoveLeaves
<1>2. PICK k \in DOMAIN Iter : Iter[k] = entries[a]
    BY <1>1, WalksOfStep DEF Lists
<1>3. /\ DOMAIN Requests' = 1..(Len(Iter) - 1)
      /\ \A i \in 1..(Len(Iter) - 1) :
             Requests'[i] = IF i < k THEN Requests[i] ELSE Requests[i + 1]
    BY <1>1, <1>2, RemovedRequest
<1>4. /\ Requests \in Seq(Fifo!Request) /\ Len(Requests) = Len(Iter)
      /\ Len(Iter) \in Nat /\ DOMAIN Requests = 1..Len(Iter) /\ DOMAIN Requests = DOMAIN Iter
    BY RequestsAreSequence DEF Requests
<1>5. k \in 1..Len(Iter) /\ Requests[k].account = a
    BY <1>1, <1>2, <1>4, WaitingIsIndexed
<1>6. Requests' = [i \in DOMAIN Requests' |-> Requests'[i]]
    BY DEF Requests
<1>7. Requests' = SubSeq(Requests, 1, k - 1) \o SubSeq(Requests, k + 1, Len(Requests))
    <2> HIDE DEF Requests
    <2> DEFINE l == SubSeq(Requests, 1, k - 1)
               r == SubSeq(Requests, k + 1, Len(Requests))
               t == l \o r
    <2>1. l \in Seq(Fifo!Request) /\ Len(l) = k - 1 /\ \A i \in 1..(k - 1) : l[i] = Requests[i]
        BY <1>4, <1>5
    <2>2. /\ r \in Seq(Fifo!Request) /\ Len(r) = Len(Iter) - k
          /\ \A i \in 1..(Len(Iter) - k) : r[i] = Requests[k + i]
        BY <1>4, <1>5
    <2> HIDE DEF l, r
    <2>3. /\ t \in Seq(Fifo!Request) /\ Len(t) = Len(Iter) - 1
          /\ \A i \in 1..(k - 1) : t[i] = l[i]
          /\ \A i \in k..(Len(Iter) - 1) : t[i] = r[i - (k - 1)]
        <3>1. /\ t \in Seq(Fifo!Request) /\ Len(t) = Len(l) + Len(r)
              /\ \A i \in 1..(Len(l) + Len(r)) :
                    t[i] = IF i <= Len(l) THEN l[i] ELSE r[i - Len(l)]
            BY <2>1, <2>2, ConcatProperties, Zenon
        <3>2. Len(l) + Len(r) = Len(Iter) - 1 /\ Len(l) = k - 1 /\ k \in Nat
            <4>1. Len(l) = k - 1 /\ Len(r) = Len(Iter) - k /\ Len(Iter) \in Nat
                BY <1>4, <2>1, <2>2
            <4>2. k \in 1..Len(Iter)
                BY <1>5
            <4> QED BY ONLY <4>1, <4>2
        <3> HIDE DEF t
        <3> QED BY <1>4, <3>1, <3>2
    <2> HIDE DEF t
    <2>4. ASSUME NEW i \in 1..(Len(Iter) - 1)
          PROVE  t[i] = IF i < k THEN Requests[i] ELSE Requests[i + 1]
        <3>1. CASE i < k
            BY <1>4, <1>5, <2>1, <2>3, <3>1
        <3>2. CASE ~(i < k)
            <4>1. i \in k..(Len(Iter) - 1) /\ i - (k - 1) \in 1..(Len(Iter) - k)
                  /\ k + (i - (k - 1)) = i + 1
                BY <1>4, <1>5, <3>2
            <4> QED BY <2>2, <2>3, <3>2, <4>1
        <3> QED BY <3>1, <3>2
    <2>5. t = [i \in 1..(Len(Iter) - 1) |-> t[i]]
        BY <2>3
    <2>6. t = Requests'
        BY <1>3, <1>6, <2>4, <2>5
    <2> QED BY <2>6, Zenon DEF t, l, r
<1>8. Requests = [i \in DOMAIN Iter |-> [account |-> queue[Iter[i]].account,
                                         amount  |-> queue[Iter[i]].amount]]
    BY DEF Requests, RequestAt
<1>9. Requests' = [i \in DOMAIN Iter |-> [account |-> queue[Iter[i]].account,
                                          amount  |-> queue[Iter[i]].amount]]'
    BY DEF Requests, RequestAt
<1> HIDE DEF Requests
<1> QED BY <1>4, <1>5, <1>7, <1>8, <1>9, ZenonT(60) DEF Fifo!Cancel

\* Only the oldest request is served (pop).
LEMMA PopIsServe ==
    ASSUME QueueInv, QueueInv', Pop
    PROVE  Fifo!Serve
<1>1. PICK a : a = queue[queue_head].account
    OBVIOUS
<1>2. a \in Accounts /\ Remove(a)
    BY <1>1, PopIsRemove
<1>3. queue_head \in Live /\ 1 \in DOMAIN Iter /\ Iter[1] = queue_head
    BY HeadIsFirst DEF Pop
<1>4. entries[a] = queue_head
    BY <1>1, <1>3 DEF QueueInv, EntriesMatchNodes
<1>5. Live' = Live \ {Iter[1]} /\ \A n \in Live' : RequestAt(n)' = RequestAt(n)
    BY <1>2, <1>3, <1>4, RemoveLeaves
<1>6. /\ DOMAIN Requests' = 1..(Len(Iter) - 1)
      /\ \A i \in 1..(Len(Iter) - 1) :
             Requests'[i] = IF i < 1 THEN Requests[i] ELSE Requests[i + 1]
    BY <1>3, <1>5, RemovedRequest
<1>7. /\ Requests \in Seq(Fifo!Request) /\ Len(Requests) = Len(Iter)
      /\ Len(Iter) \in Nat /\ DOMAIN Requests = 1..Len(Iter) /\ DOMAIN Requests = DOMAIN Iter
    BY RequestsAreSequence DEF Requests
<1>8. Requests' = [i \in DOMAIN Requests' |-> Requests'[i]]
    BY DEF Requests
<1>9. Requests # <<>> /\ Requests' = Tail(Requests)
    <2> HIDE DEF Requests
    <2>1. Requests # <<>> /\ Len(Requests) # 0
        BY <1>3, <1>7
    <2>2. /\ Tail(Requests) \in Seq(Fifo!Request) /\ Len(Tail(Requests)) = Len(Iter) - 1
          /\ \A i \in 1..(Len(Iter) - 1) : Tail(Requests)[i] = Requests[i + 1]
        BY <1>7, <2>1
    <2> DEFINE t == Tail(Requests)
    <2> HIDE DEF t
    <2>3. t \in Seq(Fifo!Request) /\ Len(t) = Len(Iter) - 1
        BY <2>2 DEF t
    <2>4. t = [i \in 1..(Len(Iter) - 1) |-> t[i]]
        BY <2>3
    <2>5. \A i \in 1..(Len(Iter) - 1) : t[i] = Requests[i + 1] /\ ~(i < 1)
        BY <1>7, <2>2 DEF t
    <2>6. Requests' = t
        BY <1>6, <1>8, <2>4, <2>5
    <2> QED BY <2>1, <2>6 DEF t
<1>10. Requests = [i \in DOMAIN Iter |-> [account |-> queue[Iter[i]].account,
                                         amount  |-> queue[Iter[i]].amount]]
    BY DEF Requests, RequestAt
<1>11. Requests' = [i \in DOMAIN Iter |-> [account |-> queue[Iter[i]].account,
                                          amount  |-> queue[Iter[i]].amount]]'
    BY DEF Requests, RequestAt
<1> HIDE DEF Requests
<1> QED BY <1>9, <1>10, <1>11, ZenonT(60) DEF Fifo!Serve

\* An empty list is an empty queue.
LEMMA InitIsEmpty == Init => Fifo!Init
<1> SUFFICES ASSUME Init PROVE Fifo!Init
    OBVIOUS
<1>1. QueueInv /\ Live = {}
    BY QueueInitInv DEF Init, Live
<1>2. Iter = <<>>
    BY <1>1, IterListsLive, EmptyList, ListUnique
<1> QED BY <1>2 DEF Fifo!Init

\* Every operation is one of the abstract queue's, or changes nothing it shows.
LEMMA StepIsFifo ==
    QueueInv /\ QueueInv' /\ [Next]_vars =>
        [Fifo!Next]_[i \in DOMAIN Iter |-> [account |-> queue[Iter[i]].account,
                                           amount  |-> queue[Iter[i]].amount]]
<1> SUFFICES ASSUME QueueInv, QueueInv', [Next]_vars
             PROVE  \/ Fifo!Next
                    \/ UNCHANGED [i \in DOMAIN Iter |-> [account |-> queue[Iter[i]].account,
                                                        amount  |-> queue[Iter[i]].amount]]
    OBVIOUS
<1>1. ASSUME NEW a \in Accounts, NEW x \in Amounts, InsertOrUpdate(a, x) PROVE Fifo!Next
    BY <1>1, UpdateIsSubmit, AddIsSubmit DEF InsertOrUpdate, Fifo!Next
<1>2. ASSUME NEW a \in Accounts, Remove(a) PROVE Fifo!Next
    BY <1>2, RemoveIsCancel DEF Fifo!Next
<1>3. ASSUME NEW x \in Amounts, MutHead(x) PROVE Fifo!Next
    BY <1>3, HeadIsReduced DEF Fifo!Next
<1>4. ASSUME Pop PROVE Fifo!Next
    BY <1>4, PopIsServe DEF Fifo!Next
<1>5. CASE UNCHANGED vars
    <2>1. Live' = Live /\ queue' = queue
        BY <1>5 DEF vars, Live
    <2>2. Iter' = Iter
        BY <2>1, WalksOfStep, ListUnique
    <2> QED BY <2>1, <2>2
<1> QED BY <1>1, <1>2, <1>3, <1>4, <1>5 DEF Next

\* The linked list implements a first-in first-out queue of one request per account.
THEOREM ListImplementsFifo == Spec => ImplementsFifo
BY QueueSafe, InitIsEmpty, StepIsFifo, PTL DEF Spec, ImplementsFifo, Fifo!Spec
=============================================================================
