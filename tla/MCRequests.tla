------------------------------ MODULE MCRequests ------------------------------
(* Requests for TLC: a transaction that takes a key if it is free. *)
EXTENDS Requests

CONSTANTS k1, s1

MCKey == {k1}

TakeKey ==
    [compare |-> <<[key |-> k1, op |-> "equal", value |-> NoValue]>>,
     success |-> <<[type |-> "DELETE", key |-> k1], [type |-> "PUT", key |-> k1]>>,
     failure |-> <<>>]

MCTransaction == {TakeKey}

\* Servers are interchangeable, and before the first election requests only fail: s1 leads.
MCInit ==
    /\ log = [s \in Server |-> <<>>] /\ order = <<>>
    /\ leader = [s \in Server |-> s = s1] /\ active = s1 /\ elections = 1
    /\ ServerInit /\ RequestInit

MCSpec == MCInit /\ [][Next]_vars /\ Fairness

\* What the comparison of TakeKey asks holds where its operations take effect.  The code does
\* not keep it: the comparison reads one server's store, the operations are decided later.
TakenWhenFree ==
    \A i \in 1 .. Len(order) :
        order[i].req \notin Updater /\ order[i].op = 1 => LastWrite(order, k1, i - 1) = NoValue
=============================================================================
