------------------------------ MODULE TemporalService ------------------------------
(***************************************************************************)
(* The temporal handlers of one broker: the history of an entity's         *)
(* attributes, how requests change it, what peers are told of it, and what *)
(* a reader sees of it through a temporal filter.                          *)
(*                                                                         *)
(* A document and its history are stored together.  A handler reads the    *)
(* whole, changes it and writes it back; the write first looks whether the *)
(* document exists, to answer whether it was created.  Times are numbers,  *)
(* and None is the time 0, which compares like Option::None.               *)
(***************************************************************************)
EXTENDS TemporalHistory

CONSTANTS
    Ids,         \* temporal entity ids
    Handlers,    \* requests in progress at one time
    Requests,    \* the requests that clients send
    Filters,     \* the temporal filters that readers send
    MaxRequests, \* bound: requests
    MaxTime,     \* bound: readings of the clock
    MaxFaults,   \* bound: failed calls
    NoDoc,       \* no document under an id
    None         \* no instance named

Operations ==
    {"upsert", "appendAttrs", "deleteAttr", "patchInstance", "deleteInstance", "deleteEntity"}

ASSUME BoundAssumption ==
    /\ MaxRequests \in Nat
    /\ MaxTime \in Nat \ {0}
    /\ MaxFaults \in Nat

Times == {"observedAt", "createdAt", "modifiedAt", "deletedAt"}

\* A payload is a JSON object of attributes; a fragment is that of the attribute named.
ASSUME RequestAssumption ==
    \A req \in Requests :
        /\ DOMAIN req = {"op", "id", "payload", "attr", "instance", "localOnly"}
        /\ req.op \in Operations
        /\ req.id \in Ids
        /\ IsFiniteSet(DOMAIN req.payload)
        /\ \A attr \in DOMAIN req.payload :
              /\ \A m \in Times \cap DOMAIN req.payload[attr] : req.payload[attr][m] \in Nat
              /\ "value" \in DOMAIN req.payload[attr] => req.payload[attr]["value"] \in Int
        /\ req.op = "patchInstance" => req.attr \in DOMAIN req.payload

ASSUME FilterAssumption ==
    \A f \in Filters :
        /\ from_query(f)
        /\ {f.timeAt, f.endTimeAt} \subseteq Nat \cup {-1}
        /\ f.lastN \in Nat \cup {-1}

VARIABLES
    temporals, \* [id -> document with history]: collection "temporal_entities"
    handler,   \* [handler -> its request]
    now,       \* the clock
    requests,  \* the requests so far
    faults,    \* faults so far
    answers,   \* [request -> answer]
    writes,    \* history: every write, with what it replaced
    log,       \* collection "swarm_mutations", in the order of recording
    raced      \* history: entities two requests worked on at one time

vars == <<temporals, handler, now, requests, faults, answers, writes, log, raced>>

-----------------------------------------------------------------------------
(* What a handler does with the document it has read.                      *)

Over(new, old) ==
    [m \in DOMAIN new \cup DOMAIN old |-> IF m \in DOMAIN new THEN new[m] ELSE old[m]]

\* A document: its attributes, a function to their current values, and their history.
Document(attrs, history, createdAt, modifiedAt) ==
    [attrs |-> attrs, history |-> history, createdAt |-> createdAt, modifiedAt |-> modifiedAt]

append_attrs(doc, req, num, at) ==
    [doc EXCEPT !.history = @ \o temporal_history_from_entity(req.payload, <<num, "stored">>),
                !.attrs = Over(req.payload, @), !.modifiedAt = at]

delete_attr(doc, req, at) ==
    [doc EXCEPT !.history = Where(@, LAMBDA r : r.attr # req.attr),
                !.attrs = [a \in DOMAIN @ \ {req.attr} |-> @[a]], !.modifiedAt = at]

Named(req, r) == r.attr = req.attr /\ r.instance = req.instance

\* Only the record's value and modifiedAt change: neither its observedAt nor the
\* document's attribute follows.
Patched(r, fragment, at) == [r EXCEPT !.value = Over(fragment, @), !.modifiedAt = at]
patch_instance(doc, req, at) ==
    LET One(r) == IF Named(req, r) THEN Patched(r, req.payload[req.attr], at) ELSE r
    IN [doc EXCEPT !.history = [k \in DOMAIN @ |-> One(@[k])], !.modifiedAt = at]

\* Mutant: every instance of the attribute goes.
DeleteInstances(doc, req, at) ==
    [doc EXCEPT !.history = Where(@, LAMBDA r : r.attr # req.attr), !.modifiedAt = at]

delete_instance(doc, req, at) ==
    [doc EXCEPT !.history = Where(@, LAMBDA r : ~Named(req, r)), !.modifiedAt = at]

Found(doc, req) == \E k \in DOMAIN doc.history : Named(req, doc.history[k])

\* The document to write, or NoDoc where the request is refused.
Changed(doc, req, num, at) ==
    IF doc = NoDoc \/ (req.op \in {"patchInstance", "deleteInstance"} /\ ~Found(doc, req))
    THEN NoDoc
    ELSE CASE req.op = "appendAttrs" -> append_attrs(doc, req, num, at)
           [] req.op = "deleteAttr" -> delete_attr(doc, req, at)
           [] req.op = "patchInstance" -> patch_instance(doc, req, at)
           [] req.op = "deleteInstance" -> delete_instance(doc, req, at)

-----------------------------------------------------------------------------
(* The steps of a handler.                                                 *)

Idle == [pc |-> "idle"]
Active(h) == handler[h] # Idle
Waiting == [status |-> 0, created |-> FALSE]

End(h, status, created) ==
    /\ handler' = [handler EXCEPT ![h] = Idle]
    /\ answers' = [answers EXCEPT ![handler[h].num] = [status |-> status, created |-> created]]

FirstStep(op) ==
    CASE op = "upsert" -> "exists" [] op = "deleteEntity" -> "delete" [] OTHER -> "read"

\* An upsert prepares the whole document, history included, before it reads anything.
Start(h, req) ==
    LET num == Len(requests) + 1
        doc == IF req.op = "upsert"
               THEN Document(req.payload, temporal_history_from_entity(req.payload, <<num, "stored">>), now, now)
               ELSE NoDoc
    IN /\ ~Active(h)
       /\ num <= MaxRequests
       /\ requests' = Append(requests, req)
       /\ handler' = [handler EXCEPT ![h] =
             [pc |-> FirstStep(req.op), num |-> num, req |-> req, doc |-> doc, created |-> FALSE]]
       /\ raced' = IF \E o \in Handlers : Active(o) /\ handler[o].req.id = req.id
                   THEN raced \cup {req.id} ELSE raced
       /\ UNCHANGED <<temporals, now, faults, answers, writes, log>>

Read(h) ==
    LET st == handler[h]
        doc == Changed(temporals[st.req.id], st.req, st.num, now)
    IN /\ st.pc = "read"
       /\ IF doc = NoDoc THEN End(h, 404, FALSE)
          ELSE /\ handler' = [handler EXCEPT ![h].pc = "exists", ![h].doc = doc]
               /\ UNCHANGED answers
       /\ UNCHANGED <<temporals, now, requests, faults, writes, log, raced>>

\* Mutant: created if there was one.
LookExistsInverted(h) ==
    /\ handler[h].pc = "exists"
    /\ handler' = [handler EXCEPT ![h].pc = "write",
                                  ![h].created = temporals[handler[h].req.id] # NoDoc]
    /\ UNCHANGED <<temporals, now, requests, faults, answers, writes, log, raced>>

\* The repository's upsert is a find and a replace: whether it created is what the
\* find saw.
LookExists(h) ==
    /\ handler[h].pc = "exists"
    /\ handler' = [handler EXCEPT ![h].pc = "write",
                                  ![h].created = temporals[handler[h].req.id] = NoDoc]
    /\ UNCHANGED <<temporals, now, requests, faults, answers, writes, log, raced>>

Store(h, doc) ==
    LET id == handler[h].req.id IN
    /\ temporals' = [temporals EXCEPT ![id] = doc]
    /\ writes' = Append(writes, [num |-> handler[h].num, id |-> id, old |-> temporals[id],
                                 new |-> doc])

AfterWrite(h) ==
    IF handler[h].req.localOnly THEN End(h, 200, handler[h].created)
    ELSE handler' = [handler EXCEPT ![h].pc = "log"] /\ UNCHANGED answers

WriteTemporal(h) ==
    /\ handler[h].pc = "write"
    /\ Store(h, handler[h].doc)
    /\ AfterWrite(h)
    /\ UNCHANGED <<now, requests, faults, log, raced>>

delete_entity(h) ==
    /\ handler[h].pc = "delete"
    /\ IF temporals[handler[h].req.id] = NoDoc
       THEN End(h, 404, FALSE) /\ UNCHANGED <<temporals, writes>>
       ELSE Store(h, NoDoc) /\ AfterWrite(h)
    /\ UNCHANGED <<now, requests, faults, log, raced>>

\* Mutant: the history is not sent.
SnapshotWithoutHistory(st) == IF st.doc = NoDoc THEN NoDoc ELSE [st.doc EXCEPT !.history = <<>>]

\* What an upsert records is made anew from the payload: the random instance ids are
\* not those it stored.  The handlers of instances and deletions take the version from
\* the clock, the others from the document.
temporal_snapshot(st) ==
    IF st.req.op = "upsert"
    THEN [st.doc EXCEPT !.history = temporal_history_from_entity(st.req.payload, <<st.num, "sent">>)]
    ELSE st.doc

\* Mutant: the version is that of the creation.
MutationAsCreated(st) ==
    [num |-> st.num, id |-> st.req.id,
     version |-> IF st.doc = NoDoc THEN now ELSE st.doc.createdAt,
     snapshot |-> temporal_snapshot(st)]

Mutation(st) ==
    [num |-> st.num, id |-> st.req.id,
     version |-> IF st.req.op \in {"patchInstance", "deleteInstance", "deleteEntity"} THEN now
                 ELSE st.doc.modifiedAt,
     snapshot |-> temporal_snapshot(st)]

RecordMutation(h) ==
    /\ handler[h].pc = "log"
    /\ log' = Append(log, Mutation(handler[h]))
    /\ End(h, 200, handler[h].created)
    /\ UNCHANGED <<temporals, now, requests, faults, writes, raced>>

\* A call to the database fails, or publishing a mutation that is recorded.
Fail(h) ==
    /\ Active(h)
    /\ faults < MaxFaults
    /\ faults' = faults + 1
    /\ \/ UNCHANGED log
       \/ handler[h].pc = "log" /\ log' = Append(log, Mutation(handler[h]))
    /\ End(h, 500, FALSE)
    /\ UNCHANGED <<temporals, now, requests, writes, raced>>

Tick ==
    /\ now < MaxTime
    /\ now' = now + 1
    /\ UNCHANGED <<temporals, handler, requests, faults, answers, writes, log, raced>>

Init ==
    /\ temporals = [id \in Ids |-> NoDoc]
    /\ handler = [h \in Handlers |-> Idle]
    /\ now = 1
    /\ requests = <<>>
    /\ faults = 0
    /\ answers = [n \in 1 .. MaxRequests |-> Waiting]
    /\ writes = <<>>
    /\ log = <<>>
    /\ raced = {}

\* A client names instances it was given or made up.
Instances == {None} \cup UNION
    {{temporals[id].history[k].instance : k \in DOMAIN temporals[id].history} :
        id \in {i \in Ids : temporals[i] # NoDoc}}
Sendable ==
    UNION {IF req.op \in {"patchInstance", "deleteInstance"}
           THEN {[req EXCEPT !.instance = i] : i \in Instances} ELSE {req} : req \in Requests}

Next ==
    \/ \E h \in Handlers :
          \/ \E req \in Sendable : Start(h, req)
          \/ Read(h) \/ LookExists(h) \/ WriteTemporal(h) \/ delete_entity(h)
          \/ RecordMutation(h)
          \/ Fail(h)
    \/ Tick

Spec == Init /\ [][Next]_vars

-----------------------------------------------------------------------------
(* Properties.                                                             *)

\* A record leaves the history of an entity only where a deletion names its attribute
\* or the record itself, or an upsert replaces the whole; requests that do not race
\* lose no record of each other ("Deletes one temporal attribute instance").
Kept(req, record) ==
    CASE req.op = "upsert" -> FALSE
      [] req.op = "deleteAttr" -> record.attr # req.attr
      [] req.op = "deleteInstance" -> ~Named(req, record)
      [] OTHER -> TRUE
Identity(record) == <<record.attr, record.instance, record.observedAt>>
HistoryKept ==
    [][writes' # writes =>
          LET w == Last(writes') IN
          w.id \in raced \/ w.old = NoDoc \/ w.new = NoDoc \/
          \A k \in DOMAIN w.old.history :
              Kept(requests[w.num], w.old.history[k]) =>
                  \E j \in DOMAIN w.new.history :
                      Identity(w.new.history[j]) = Identity(w.old.history[k])]_vars

\* A request is told that it created the entity exactly if there was none, unless
\* requests raced between the find and the replace of the upsert.
CreatedIfAbsent ==
    \A w \in DOMAIN writes :
        LET num == writes[w].num IN
        (answers[num].status = 200 /\ writes[w].id \notin raced) =>
            (answers[num].created <=> writes[w].old = NoDoc)

\* What a peer holds that has applied the mutations in the order of the log.
apply_temporal_mutation(doc, mutation) ==
    IF doc # NoDoc /\ mutation.version < doc.modifiedAt THEN doc ELSE mutation.snapshot
ReplayOne(id, doc, mutation) ==
    IF mutation.id = id THEN apply_temporal_mutation(doc, mutation) ELSE doc
Replayed(id) == FoldLeft(LAMBDA doc, m : ReplayOne(id, doc, m), NoDoc, log)

\* A broker at rest holds what its log makes of an entity, histories included, but for
\* the ids of the instances that an upsert made up.  Not so after a local write, a
\* failed call, or a race.
Nameless(doc) ==
    [doc EXCEPT !.history = [k \in DOMAIN @ |-> [@[k] EXCEPT !.instance = None]]]
AtRest == faults = 0 /\ \A h \in Handlers : ~Active(h)
SameButNames(doc, other) ==
    IF doc = NoDoc \/ other = NoDoc THEN doc = other ELSE Nameless(doc) = Nameless(other)
ReplayedLogIsStore ==
    AtRest => \A id \in Ids \ raced :
        \/ \E w \in DOMAIN writes : writes[w].id = id /\ requests[writes[w].num].localOnly
        \/ SameButNames(temporals[id], Replayed(id))

\* Whatever clocks the handlers read, a document is not modified before it was created
\* nor after now, and the version of a mutation is never older than its snapshot, though
\* the handlers of instances read the clock again after the write.
TimesAgree ==
    /\ \A id \in Ids : temporals[id] # NoDoc =>
         /\ temporals[id].createdAt \in 1 .. now
         /\ temporals[id].modifiedAt \in temporals[id].createdAt .. now
    /\ \A k \in DOMAIN log : log[k].snapshot # NoDoc =>
         log[k].version >= log[k].snapshot.modifiedAt

Present == {id \in Ids : temporals[id] # NoDoc}
History(id) == temporals[id].history

\* A reader is given the records of the window, and with lastN the latest of them
\* ("Filters temporal history and applies lastN semantics").
WindowAndLastN ==
    \A id \in Present, f \in Filters :
        LET selected == select_temporal_history(History(id), f)
            matching == Where(History(id), LAMBDA r : temporal_matches(r, f))
        IN /\ Len(selected) = IF f.lastN = -1 THEN Len(matching) ELSE Min({f.lastN, Len(matching)})
           /\ ToSet(selected) \subseteq ToSet(matching)
           /\ \A r \in ToSet(matching) \ ToSet(selected), s \in ToSet(selected) :
                 temporal_record_time(r, f) <= temporal_record_time(s, f)

\* What can be retrieved as an instance is listed under its attribute, and the other way.
ListedAs(attrs, attr, instance) ==
    /\ attr \in DOMAIN attrs
    /\ LET listed == attrs[attr] IN
       /\ listed.kind = "history"
       /\ \E k \in DOMAIN listed.items : listed.items[k].instance = instance
InstancesAreListed ==
    \A id \in Present, f \in Filters :
        LET doc == temporals[id]
            responses == {get_attrs(doc, f, picked) : picked \in {{}, {"a"}}}
        IN \A k \in DOMAIN doc.history :
              LET r == doc.history[k]
                  retrieved == get_attr_instance(doc, r.attr, r.instance, f) # <<>>
              IN \A attrs \in responses : retrieved <=> ListedAs(attrs, r.attr, r.instance)

\* The aggregates of an attribute agree with each other, and none is made of nothing.
AggregatesAgree ==
    \A id \in Present, f \in Filters :
        LET metrics == aggregate_temporal_history(select_temporal_history(History(id), f)) IN
        \A a \in DOMAIN metrics :
            LET m == metrics[a] IN
            /\ m.totalCount > 0
            /\ m.min * m.totalCount <= m.sum
            /\ m.sum <= m.max * m.totalCount
            /\ m.avg[1] * m.totalCount = m.sum * m.avg[2]

\* The ways to read a history agree: entity, instance and aggregates.
ReadersAgree == InstancesAreListed /\ AggregatesAgree
=============================================================================
