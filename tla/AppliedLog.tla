------------------------------ MODULE AppliedLog ------------------------------
(***************************************************************************)
(* What a node's Paxos log promises to the state derived from it: an entry *)
(* is written once, in whatever order the entries arrive, and the entries  *)
(* are applied once each, in the order of their indices, as soon as all    *)
(* entries before them are there.                                          *)
(***************************************************************************)
EXTENDS Integers, Sequences

CONSTANTS Entry, MaxIndex

VARIABLES
    log,      \* index -> entry, for the indices written so far
    applied   \* the sequence of <<index, entry>> given to the derived state

vars == <<log, applied>>

Index == 0..MaxIndex

\* seq holds the longest prefix of l without a hole.
IsPrefixOf(seq, l) ==
    /\ \A k \in 1..Len(seq) : k - 1 \in DOMAIN l /\ seq[k] = <<k - 1, l[k - 1]>>
    /\ Len(seq) \notin DOMAIN l

Init == DOMAIN log = {} /\ applied = << >>

Write(i, e) ==
    /\ i \notin DOMAIN log
    /\ DOMAIN log' = DOMAIN log \cup {i}
    /\ log'[i] = e
    /\ \A k \in DOMAIN log : log'[k] = log[k]
    /\ Len(applied) <= Len(applied')
    /\ \A k \in 1..Len(applied) : applied'[k] = applied[k]
    /\ IsPrefixOf(applied', log')

Next == \E i \in Index, e \in Entry : Write(i, e)

Spec == Init /\ [][Next]_vars
=============================================================================
