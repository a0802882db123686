----------------------------- MODULE MCTemporalService -----------------------------
(* Requests on one temporal entity for TemporalService, and readers' filters. *)
EXTENDS TemporalService

CONSTANTS e1

Seen(t, v) == [observedAt |-> t, value |-> v]

Request(op) == [op |-> op, id |-> e1, payload |-> <<>>, attr |-> "a", instance |-> None,
                localOnly |-> FALSE]
AllRequests ==
    {[Request("upsert") EXCEPT !.payload = [a |-> Seen(1, 5), b |-> [observedAt |-> 2]]],
     [Request("upsert") EXCEPT !.payload = [a |-> [createdAt |-> 2, value |-> 1]],
                               !.localOnly = TRUE],
     [Request("appendAttrs") EXCEPT !.payload = [a |-> Seen(3, 2)]],
     [Request("appendAttrs") EXCEPT !.payload =
        [a |-> [observedAt |-> 2, value |-> 9, instanceId |-> <<<<0, "client">>, "a">>]]],
     Request("deleteAttr"),
     [Request("patchInstance") EXCEPT !.payload = [a |-> [value |-> 7]]],
     Request("deleteInstance"),
     Request("deleteEntity")}

Filter(property, rel, timeAt, endTimeAt, lastN) ==
    [property |-> property, rel |-> rel, timeAt |-> timeAt, endTimeAt |-> endTimeAt, lastN |-> lastN]
AllFilters ==
    {Filter("observedAt", "after", 1, -1, -1), Filter("observedAt", "before", 3, -1, 1),
     Filter("observedAt", "between", 1, 3, 2), Filter("modifiedAt", "after", 1, -1, -1),
     Filter("createdAt", "between", 2, 2, 1), Filter("observedAt", "between", 1, 2, 0)}
=============================================================================
