------------------------------ MODULE RaftLog ------------------------------
(***************************************************************************)
(* The in-memory replicated log of a node: class RaftLog (raft_log.h).     *)
(*                                                                         *)
(* A log is a record [first, entries]: first is first_index_, entries is   *)
(* entries_.  An entry carries its own index, as RaftEntry does, because   *)
(* the code mixes the two ways of finding an entry: LastIndex and the      *)
(* contiguity test of Append read the index FIELD of the last entry, while *)
(* TermAt, Slice, EntriesFrom and TruncateTo use its POSITION in the       *)
(* vector.  The two agree only as long as the log has no hole.             *)
(*                                                                         *)
(* Every method of the class takes the log's own mutex, so each operator   *)
(* below is evaluated, or assigned, in one step of the modules that use    *)
(* it; a sequence of two calls is two steps wherever the caller holds no   *)
(* lock that excludes the other writers.                                   *)
(***************************************************************************)
EXTENDS Naturals, Sequences

CONSTANT Value   \* payloads of client entries

kNoIndex == 0
kNoTerm  == 0

Index == Nat
Term  == Nat

RaftEntry == [term : Term, index : Index \ {0}, value : Value]
Log       == [first : Index \ {0}, entries : Seq(RaftEntry)]

EmptyLog == [first |-> 1, entries |-> <<>>]

-----------------------------------------------------------------------------
(* Readers *)

LastIndex(l) ==
    IF l.entries = <<>> THEN kNoIndex ELSE l.entries[Len(l.entries)].index

LastTerm(l) ==
    IF l.entries = <<>> THEN kNoTerm ELSE l.entries[Len(l.entries)].term

\* Position in the vector of index i, counted from 1.
Offset(l, i) == i - l.first + 1

Stored(l, i) == i >= l.first /\ Offset(l, i) <= Len(l.entries)

TermAt(l, i) == IF Stored(l, i) THEN l.entries[Offset(l, i)].term ELSE kNoTerm

LastIndexUnsafe(l) ==
    IF l.entries = <<>> THEN l.first - 1 ELSE l.entries[Len(l.entries)].index

AtLeastFirst(l, i) == IF i < l.first THEN l.first ELSE i

LesserOf(a, b) == IF a <= b THEN a ELSE b

EntriesFrom(l, start) ==
    LET from == AtLeastFirst(l, start) IN
    IF from > LastIndexUnsafe(l) THEN <<>>
    ELSE SubSeq(l.entries, Offset(l, from), Len(l.entries))

(***************************************************************************)
(* Slice(start, end): the half-open range.  When the log has a hole the    *)
(* upper clip, LastIndexUnsafe + 1, lies beyond the vector: the code reads *)
(* past the end.  The outcome kept here is that the copy stops at the last *)
(* real entry; the other one, the process dying, is a crash.               *)
(***************************************************************************)
Slice(l, start, end) ==
    LET from == AtLeastFirst(l, start)
        to   == LesserOf(end, LastIndexUnsafe(l) + 1)
    IN  IF from >= to THEN <<>>
        ELSE SubSeq(l.entries, Offset(l, from),
                    LesserOf(Offset(l, to) - 1, Len(l.entries)))

-----------------------------------------------------------------------------
(* Writers: each gives the log after the call *)

AppendEntry(l, e) == [l EXCEPT !.entries = Append(@, e)]

AppendExpects(l) ==
    IF l.entries = <<>> THEN l.first ELSE l.entries[Len(l.entries)].index + 1

\* A batch that does not follow the last entry is dropped, and no caller is told.
AppendBatch(l, es) ==
    IF es = <<>> \/ es[1].index # AppendExpects(l) THEN l
    ELSE [l EXCEPT !.entries = @ \o es]

TruncateTo(l, i) ==
    IF i < l.first THEN [first |-> i + 1, entries |-> <<>>]
    ELSE [l EXCEPT !.entries =
             IF Offset(l, i) >= Len(@) THEN @ ELSE SubSeq(@, 1, Offset(l, i))]

\* The log after a snapshot that covers everything up to last_index.
Restore(last_index) == [first |-> last_index + 1, entries |-> <<>>]

-----------------------------------------------------------------------------
(* FindConflictTermIndex of RaftNode: pure in the log *)

HasTerm(l, t) == \E i \in l.first .. LastIndex(l) : TermAt(l, i) = t

\* The binary search of the code: lo, hi range over the indices of the log.
LowerBound(l, t) ==
    LET search[lo \in Nat, hi \in Nat] ==
            LET mid == lo + (hi - lo) \div 2 IN
            IF lo >= hi THEN lo
            ELSE IF TermAt(l, mid) < t THEN search[mid + 1, hi]
            ELSE search[lo, mid]
    IN  search[l.first, LastIndex(l) + 1]

FindConflictTermIndex(l, t, hint) ==
    LET found == LowerBound(l, t)
    IN  IF HasTerm(l, t) /\ found \in l.first .. LastIndex(l) /\ TermAt(l, found) = t
        THEN found
        ELSE IF hint > 0 THEN hint
        ELSE IF HasTerm(l, t) THEN l.first ELSE 1

(***************************************************************************)
(* What a follower reports when the entry before the new ones does not     *)
(* match: one past the last index at or below prev whose term is not the   *)
(* term found at prev, or its first index if there is none.                *)
(***************************************************************************)
ConflictIndex(l, prev) ==
    LET below == {i \in l.first .. prev : TermAt(l, i) # TermAt(l, prev)} IN
    IF below = {} THEN l.first
    ELSE (CHOOSE i \in below : \A j \in below : j <= i) + 1
=============================================================================
