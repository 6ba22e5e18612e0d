------------------------------ MODULE Consensus ------------------------------
(***************************************************************************)
(* What Raft promises to the server above it: one order of entries, of     *)
(* which the ready handler of each node is given a growing prefix.         *)
(***************************************************************************)
EXTENDS Naturals, Sequences

CONSTANTS Server, Entry

VARIABLES
    order,      \* the entries in the order in which they were decided
    delivered   \* what each node's ready handler was given so far

vars == <<order, delivered>>

TypeOK == order \in Seq(Entry) /\ delivered \in [Server -> Seq(Entry)]

Init == order = <<>> /\ delivered = [n \in Server |-> <<>>]

\* a is the beginning of b.
Begins(a, b) == Len(a) <= Len(b) /\ \A i \in 1 .. Len(a) : a[i] = b[i]

\* A node is given more entries.  If nobody had them before they are decided by that.
Deliver(n) ==
    LET more == delivered'[n] IN
    /\ delivered' = [delivered EXCEPT ![n] = more]
    /\ more \in Seq(Entry)
    /\ Len(more) > Len(delivered[n])
    /\ \/ Begins(more, order) /\ UNCHANGED order
       \/ Begins(order, more) /\ order' = more

Next == \E n \in Server : Deliver(n)

Spec == Init /\ [][Next]_vars

\* Of what two nodes were given, one is the beginning of the other (RaftReadyHandler runs
\* the same operations everywhere).
Agreement ==
    \A m, n \in Server : \/ Begins(delivered[m], delivered[n])
                         \/ Begins(delivered[n], delivered[m])
=============================================================================
