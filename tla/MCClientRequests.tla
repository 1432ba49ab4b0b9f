--------------------------- MODULE MCClientRequests ---------------------------
(***************************************************************************)
(* Instances of ClientRequests: one key, a first write, a read, and writes *)
(* before and after the read's timestamp.                                  *)
(***************************************************************************)
EXTENDS ClientRequests, TLC

CONSTANTS s1, w0, w1, w2, r1, k1, v0, v1, v2

MCRequest ==
    w0 :> [type |-> "WRITE", key |-> k1, value |-> v0, timestamp |-> 1] @@
    w1 :> [type |-> "WRITE", key |-> k1, value |-> v1, timestamp |-> 2] @@
    w2 :> [type |-> "WRITE", key |-> k1, value |-> v2, timestamp |-> 4] @@
    r1 :> [type |-> "READ", key |-> k1, value |-> v0, timestamp |-> 3]

\* The key exists: its first write has been decided.
KeyExists == <<w0>>
NothingDecided == << >>

\* The client does not send the first write again, which has been decided.
OldRequestsRest ==
    \A r \in Replica : w0 \notin {queue'[r][k].id : k \in DOMAIN queue'[r]}

\* Up to MaxQueue requests wait at the first replica, one at the others, and a write
\* waits in a queue once.  This bounds the clients only: no other step adds a task.
OneLongQueue ==
    \A r \in Replica :
        /\ r = s1 \/ Len(queue'[r]) <= 1
        /\ \A j, k \in DOMAIN queue'[r] :
               queue'[r][j].id = queue'[r][k].id /\ IsWrite(queue'[r][j].id) => j = k

Symmetry == Permutations(Replica)
=============================================================================
