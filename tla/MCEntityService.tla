------------------------------ MODULE MCEntityService ------------------------------
(* Requests on two entities for EntityService. *)
EXTENDS EntityService

CONSTANTS e1, e2

Attr(x) == [value |-> x]
Entity(id) == [id |-> id, type |-> "T", a |-> Attr(1)]
Stored == [id |-> e1, type |-> "T", createdAt |-> 1, modifiedAt |-> 1, a |-> Attr(0)]

\* Empty, or with e1 in it.
EmptyOrOne == {[id \in Ids |-> NoDoc], [id \in Ids |-> IF id = e1 THEN Stored ELSE NoDoc]}

One(op, payload) ==
    [op |-> op, items |-> <<[id |-> e1, payload |-> payload]>>, attr |-> "none",
     type |-> NoType, flag |-> FALSE, localOnly |-> FALSE]
OnAttr(op, attr, value) == [One(op, attr :> value) EXCEPT !.attr = attr]
Many(op, items) == [One(op, <<>>) EXCEPT !.items = items]
Of(id) == [id |-> id, payload |-> Entity(id)]
Invalid == [id |-> e2, payload |-> [id |-> e2, a |-> Attr(1)]]

SingleRequests ==
    {One("create", Entity(e1)),
     [One("create", Entity(e1)) EXCEPT !.localOnly = TRUE],
     Many("create", <<Invalid>>),
     One("delete", <<>>),
     [One("delete", <<>>) EXCEPT !.type = "U"],
     One("merge", [a |-> Null, b |-> [value |-> 1, unit |-> Null], createdAt |-> 2]),
     One("merge", [id |-> e2, a |-> Attr(2)]),
     One("replace", [type |-> "T", b |-> Attr(2)]),
     One("replace", [b |-> Attr(2)]),
     One("appendAttrs", [a |-> Attr(3), b |-> Attr(3), createdAt |-> 2]),
     [One("appendAttrs", [a |-> Attr(4)]) EXCEPT !.flag = TRUE],
     One("updateAttrs", [a |-> Attr(5), c |-> Attr(5)]),
     OnAttr("patchAttr", "a", [unit |-> 1]),
     OnAttr("deleteAttr", "a", Null),
     OnAttr("deleteAttr", "createdAt", Null),
     OnAttr("deleteAttr", "id", Null),
     OnAttr("patchAttr", "id", e2),
     OnAttr("replaceAttr", "b", Attr(6))}
BatchRequests ==
    {Many("batchCreate", <<Of(e1), Invalid, Of(e2)>>),
     Many("batchUpsert", <<Of(e2), Of(e1)>>),
     [Many("batchUpsert", <<Of(e1)>>) EXCEPT !.flag = TRUE],
     Many("batchUpdate", <<Of(e1), Of(e2)>>),
     [Many("batchUpdate", <<Of(e1)>>) EXCEPT !.flag = TRUE],
     Many("batchMerge", <<Of(e1), Invalid, Of(e2)>>),
     Many("batchDelete", <<Of(e1), Of(e2)>>)}
AllRequests == SingleRequests \cup BatchRequests
=============================================================================
