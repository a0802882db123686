------------------------------ MODULE TemporalHistory ------------------------------
(***************************************************************************)
(* The records of a temporal history, and what a reader selects, groups    *)
(* and aggregates of them.  Times are numbers; 0 stands for Option::None   *)
(* and for a text that is no time, and compares like None.                 *)
(***************************************************************************)
EXTENDS Integers, Sequences, FiniteSets, SequencesExt, FiniteSetsExt

\* The elements of s at the chosen positions, in their order.
Picked(s, chosen) ==
    LET picked[k \in 0 .. Len(s)] ==
            IF k = 0 THEN <<>>
            ELSE IF k \in chosen THEN Append(picked[k - 1], s[k]) ELSE picked[k - 1]
    IN picked[Len(s)]

\* The elements that pass (retain, filter).
Where(s, Test(_)) == Picked(s, {k \in DOMAIN s : Test(s[k])})

\* A value is a function from sub-members ("value", "observedAt", "instanceId", ...).
At(value, member) == IF member \in DOMAIN value THEN value[member] ELSE 0

\* A value without instanceId gets a random one: a name no other value has.
make_temporal_instance(attr, value, fresh) ==
    [attr |-> attr,
     instance |-> IF "instanceId" \in DOMAIN value THEN value["instanceId"] ELSE fresh,
     observedAt |-> At(value, "observedAt"),
     createdAt |-> At(value, "createdAt"),
     modifiedAt |-> At(value, "modifiedAt"),
     deletedAt |-> At(value, "deletedAt"),
     value |-> value]

temporal_history_from_entity(payload, origin) ==
    LET attrs == SetToSeq(DOMAIN payload)
    IN [k \in DOMAIN attrs |->
          make_temporal_instance(attrs[k], payload[attrs[k]], <<origin, attrs[k]>>)]

-----------------------------------------------------------------------------
(* Selection.  A filter is [property, rel, timeAt, endTimeAt, lastN], where  *)
(* lastN is -1 if it is absent.                                              *)

\* TemporalFilter::from_query.
from_query(f) ==
    /\ f.rel # "none"
    /\ f.timeAt # -1
    /\ f.rel = "between" => f.endTimeAt # -1

temporal_record_time(record, f) ==
    CASE f.property = "createdAt" -> record.createdAt
      [] f.property = "modifiedAt" -> record.modifiedAt
      [] f.property = "deletedAt" -> record.deletedAt
      [] OTHER -> IF record.observedAt # 0 THEN record.observedAt ELSE record.createdAt

temporal_matches(record, f) ==
    LET reference == temporal_record_time(record, f) IN
    /\ reference # 0
    /\ f.timeAt > 0
    /\ \/ f.rel = "before" /\ reference < f.timeAt
       \/ f.rel = "after" /\ reference > f.timeAt
       \/ f.rel = "between" /\ f.endTimeAt > 0 /\ f.timeAt <= reference /\ reference <= f.endTimeAt

Truncate(s, n) == SubSeq(s, 1, Min({n, Len(s)}))

\* s by its times, the latest first; elements of one time stay in their order (sort_by).
LatestFirst(s, times) ==
    LET Ahead(i) == {j \in DOMAIN s : times[j] > times[i] \/ (times[j] = times[i] /\ j < i)}
        ranks == {<<i, Cardinality(Ahead(i)) + 1>> : i \in DOMAIN s}
    IN [k \in DOMAIN s |-> s[CHOOSE i \in DOMAIN s : <<i, k>> \in ranks]]

\* Mutant: with lastN the earliest come first.
SelectEarliest(history, f) ==
    LET selected == Where(history, LAMBDA r : temporal_matches(r, f))
        times == [k \in DOMAIN selected |-> -temporal_record_time(selected[k], f)]
    IN IF f.lastN = -1 THEN selected ELSE Truncate(LatestFirst(selected, times), f.lastN)

select_temporal_history(history, f) ==
    LET selected == Where(history, LAMBDA r : temporal_matches(r, f))
        times == [k \in DOMAIN selected |-> temporal_record_time(selected[k], f)]
    IN IF f.lastN = -1 THEN selected ELSE Truncate(LatestFirst(selected, times), f.lastN)

-----------------------------------------------------------------------------
(* Aggregation.                                                            *)

\* The numbers of an attribute; a record without a numeric value has none.
Numbers(history, attr) ==
    LET numeric == Where(history, LAMBDA r : r.attr = attr /\ "value" \in DOMAIN r.value)
    IN [k \in DOMAIN numeric |-> numeric[k].value["value"]]
Total(numbers) == FoldLeft(LAMBDA sum, number : sum + number, 0, numbers)

\* An average is the pair of its sum and its count.
aggregate_temporal_history(history) ==
    [attr \in {a \in {history[k].attr : k \in DOMAIN history} : Numbers(history, a) # <<>>} |->
        LET numbers == Numbers(history, attr)
            sum == Total(numbers)
        IN [sum |-> sum, avg |-> <<sum, Len(numbers)>>,
            min |-> Min(ToSet(numbers)), max |-> Max(ToSet(numbers)), totalCount |-> Len(numbers)]]

-----------------------------------------------------------------------------
(* Responses.                                                              *)

\* attrs of the projection, none if empty; the selected history replaces the current
\* value of its attribute, also of one that was not asked for.
project_entity(attrs, picked) ==
    [a \in (IF picked = {} THEN DOMAIN attrs ELSE DOMAIN attrs \cap picked) |->
        [kind |-> "current", items |-> <<attrs[a]>>]]
\* Mutant: the history of an attribute that was not asked for is left out.
ResponseOfPicked(attrs, history, picked) ==
    LET projected == project_entity(attrs, picked)
    IN [a \in DOMAIN projected |->
          IF \E k \in DOMAIN history : history[k].attr = a
          THEN [kind |-> "history", items |-> Where(history, LAMBDA r : r.attr = a)]
          ELSE projected[a]]

temporal_entity_to_response(attrs, history, picked) ==
    LET projected == project_entity(attrs, picked)
        grouped == {history[k].attr : k \in DOMAIN history}
    IN [a \in DOMAIN projected \cup grouped |->
          IF a \in grouped
          THEN [kind |-> "history", items |-> Where(history, LAMBDA r : r.attr = a)]
          ELSE projected[a]]

get_attrs(doc, f, picked) ==
    temporal_entity_to_response(doc.attrs, select_temporal_history(doc.history, f), picked)

\* The first of the selected records with that id, as a sequence of at most one.
get_attr_instance(doc, attr, instance, f) ==
    Truncate(Where(select_temporal_history(doc.history, f),
                       LAMBDA r : r.attr = attr /\ r.instance = instance), 1)
=============================================================================
