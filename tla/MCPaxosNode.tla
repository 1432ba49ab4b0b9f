----------------------------- MODULE MCPaxosNode -----------------------------
EXTENDS PaxosNode

CONSTANTS e1, e2

\* e2 is a ReconfigStarted entry.
MCNewSlaves == [e \in {e2} |-> "second"]
=============================================================================
