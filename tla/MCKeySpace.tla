------------------------------ MODULE MCKeySpace ------------------------------
(***************************************************************************)
(* KeySpace for TLC.  The tables are interchangeable; the masters and the  *)
(* slaves are not, since the first of each is the one that gets messages.  *)
(***************************************************************************)
EXTENDS KeySpace, TLC

CONSTANT m1

\* Clients ask the other master only, so that its proposals race with the first's log.
OtherMasterAsked == findQueue'[m1] = << >>

TableSymmetry == Permutations(Table)
=============================================================================
