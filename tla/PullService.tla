----------------------------- MODULE PullService -----------------------------
(***************************************************************************)
(* What the master promises consumers and producers: a consumer is sent    *)
(* work only when it has asked, once for each time it asked, and asking    *)
(* again is spared it when the producer that was to answer is lost.        *)
(***************************************************************************)
EXTENDS Integers, Sequences

CONSTANTS Producers, Consumers

VARIABLES
    credit,    \* consumer -> requests that are not answered
    answered,  \* consumer -> requests answered, and not given back
    orders     \* producer -> consumers it is told to serve, in order

vars == <<credit, answered, orders>>

Init ==
    /\ credit = [c \in Consumers |-> 0]
    /\ answered = [c \in Consumers |-> 0]
    /\ orders = [p \in Producers |-> <<>>]

Ask(c) ==
    /\ credit' = [credit EXCEPT ![c] = @ + 1]
    /\ UNCHANGED <<answered, orders>>

\* The request is answered, perhaps to a producer that is already gone.
Answer(c) ==
    /\ credit[c] > 0
    /\ credit' = [credit EXCEPT ![c] = @ - 1]
    /\ answered' = [answered EXCEPT ![c] = @ + 1]
    /\ \/ UNCHANGED orders
       \/ \E p \in Producers : orders' = [orders EXCEPT ![p] = Append(@, c)]

\* The producer is lost: the request is open again.
GiveBack(c) ==
    /\ answered[c] > 0
    /\ credit' = [credit EXCEPT ![c] = @ + 1]
    /\ answered' = [answered EXCEPT ![c] = @ - 1]
    /\ UNCHANGED orders

Serve(p) ==
    /\ orders[p] # <<>>
    /\ orders' = [orders EXCEPT ![p] = Tail(@)]
    /\ UNCHANGED <<credit, answered>>

Lose(p) ==
    /\ orders' = [orders EXCEPT ![p] = <<>>]
    /\ UNCHANGED <<credit, answered>>

Next ==
    \/ \E c \in Consumers : Ask(c) \/ Answer(c) \/ GiveBack(c)
    \/ \E p \in Producers : Serve(p) \/ Lose(p)

Spec == Init /\ [][Next]_vars
=============================================================================
