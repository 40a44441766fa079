---------------------------- MODULE RequestFifo ----------------------------
(***************************************************************************)
(* What the supply withdrawal queue of a market promises, without saying   *)
(* how it is stored: one request per account, served strictly in the order *)
(* in which the accounts joined.  WithdrawalQueue implements it with a     *)
(* doubly linked list.                                                     *)
(***************************************************************************)
EXTENDS Naturals, Sequences

CONSTANTS Accounts,   \* accounts that may ask for a withdrawal
          Amounts     \* amounts a request may carry

VARIABLE requests     \* the requests, in order of arrival

Request == [account : Accounts, amount : Amounts]

Waiting == {requests[i].account : i \in DOMAIN requests}

Init == requests = <<>>

\* A new account goes to the back; an account already waiting keeps its place.
Submit(a, amount) ==
    requests' = IF a \in Waiting
                THEN [i \in DOMAIN requests |->
                        IF requests[i].account = a
                        THEN [requests[i] EXCEPT !.amount = amount]
                        ELSE requests[i]]
                ELSE Append(requests, [account |-> a, amount |-> amount])

\* Only the oldest request is served.
Serve == requests # <<>> /\ requests' = Tail(requests)

\* Only the oldest request is partly served.
Reduce(amount) ==
    /\ requests # <<>>
    /\ requests' = [requests EXCEPT ![1].amount = amount]

\* An account gives its place up; nobody else moves relative to the others.
Cancel(a) ==
    \E i \in DOMAIN requests :
        /\ requests[i].account = a
        /\ requests' = SubSeq(requests, 1, i - 1) \o SubSeq(requests, i + 1, Len(requests))

Next == \/ \E a \in Accounts, x \in Amounts : Submit(a, x)
        \/ \E a \in Accounts : Cancel(a)
        \/ \E x \in Amounts : Reduce(x)
        \/ Serve

Spec == Init /\ [][Next]_requests
=============================================================================
