--------------------------- MODULE MCSlaveMessages ---------------------------
(* A table whose key space arrives in two portions, messages of a slave to its *)
(* tablets, and a client that uses two of them.                                *)
EXTENDS SlaveMessages

Group(ranges) == [kind |-> "group", new_ranges |-> ranges, broadcast |-> << >>]
Request(k) == [kind |-> "request", table_id |-> "t", key |-> k, new_ranges |-> << >>, broadcast |-> << >>]
Tablet(r, broadcast) == [kind |-> "tablet", range |-> r, new_ranges |-> << >>, broadcast |-> broadcast]

MCMessage == {"change1", "change2", "paxos", "learn", "get", "put", "unknown"}
MCContent ==
    [m \in MCMessage |->
        CASE m = "change1" -> Group(<<"low">>)
          [] m = "change2" -> Group(<<"low", "high", "top">>)
          [] m = "paxos" -> Tablet("low", <<"learn">>)
          [] m = "learn" -> Tablet("low", << >>)
          [] m \in {"get", "put"} -> Request(2)
          [] OTHER -> [kind |-> "unknown", new_ranges |-> << >>, broadcast |-> << >>]]
MCScript == [p \in {"slave", "client"} |->
    IF p = "slave" THEN <<"change1", "paxos", "change2">> ELSE <<"put", "get">>]
MCRangeOf ==
    [t \in {"low", "high", "top"} |->
        CASE t = "low" -> [table_id |-> "t", start_key |-> {}, end_key |-> {2}]
          [] t = "high" -> [table_id |-> "t", start_key |-> {2}, end_key |-> {4}]
          [] t = "top" -> [table_id |-> "t", start_key |-> {4}, end_key |-> {}]]
=============================================================================
