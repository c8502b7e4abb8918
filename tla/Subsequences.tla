----------------------------- MODULE Subsequences -----------------------------
(* What a filter leaves of a list.                                         *)
EXTENDS Integers, Sequences, FiniteSets

\* What stands at the places of a set, in the order of the places.  (TLC
\* computes what is bound once.)
SelectAt(s, at) ==
    CHOOSE o \in {[k \in 1..Cardinality(p) |-> t[CHOOSE i \in p : Cardinality({j \in p : j < i}) = k - 1]]
                    : t \in {s}, p \in {at}} : TRUE

\* What is in a set, in the order of the sequence.
SelectIn(s, S) == SelectAt(s, {i \in DOMAIN s : s[i] \in S})
=============================================================================
