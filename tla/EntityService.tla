------------------------------- MODULE EntityService -------------------------------
(***************************************************************************)
(* The entity handlers of one broker: what each of them reads, writes,     *)
(* tells its subscribers and records for its peers, and in which order.    *)
(*                                                                         *)
(* A handler works on one entity, or on the items of a batch one after the *)
(* other.  For each item it reads the stored document, works out the next  *)
(* one, and writes it; then it enqueues the notifications and records the  *)
(* mutation.  There is an await at each of these steps, so handlers        *)
(* interleave there, and each step can fail.                               *)
(***************************************************************************)
EXTENDS Naturals, Sequences, FiniteSets, SequencesExt

CONSTANTS
    Ids,         \* entity ids
    Handlers,    \* requests in progress at one time
    Requests,    \* the requests that clients send
    Stores,      \* what the collection holds at the start
    MaxRequests, \* bound: requests
    MaxTime,     \* bound: readings of the clock
    MaxFaults,   \* bound: failed calls and crashes
    NoDoc,       \* no document under an id
    NoType,      \* the request asks for no entity type
    Null         \* JSON null

Operations ==
    {"create", "delete", "merge", "replace", "appendAttrs", "updateAttrs", "patchAttr",
     "deleteAttr", "replaceAttr", "batchCreate", "batchUpsert", "batchUpdate", "batchMerge",
     "batchDelete"}
\* Handlers that write all items first; a batch merge is a merge per item.
Collecting == {"batchCreate", "batchUpsert", "batchUpdate", "batchDelete"}
Batch == Collecting \cup {"batchMerge"}

ASSUME BoundAssumption ==
    /\ IsFiniteSet(Ids)
    /\ MaxRequests \in Nat
    /\ MaxTime \in Nat \ {0}
    /\ MaxFaults \in Nat
    /\ Null \notin Nat

\* A request without items reads and writes nothing.  Creations and batches find the id
\* of an item in its payload.
ASSUME RequestAssumption ==
    \A req \in Requests :
        /\ req.op \in Operations
        /\ req.items # <<>>
        /\ req.items \in Seq(ToSet(req.items))
        /\ \A item \in ToSet(req.items) :
              /\ item.id \in Ids
              /\ (req.op \in {"create"} \cup Batch /\ "id" \in DOMAIN item.payload) =>
                    item.payload["id"] = item.id

\* What is stored under an id came from a creation, and the clock has not gone back since.
ASSUME StoreAssumption ==
    \A s \in Stores :
        /\ DOMAIN s = Ids
        /\ \A id \in Ids : s[id] # NoDoc => /\ "modifiedAt" \in DOMAIN s[id]
                                            /\ s[id]["modifiedAt"] \in 0 .. 1
                                            /\ "id" \in DOMAIN s[id]
                                            /\ s[id]["id"] = id

VARIABLES
    store,    \* [id -> document]: collection "entities"
    handler,  \* [handler -> its request]
    now,      \* the clock
    requests, \* the requests so far
    faults,   \* faults so far
    answers,  \* [request -> answer]
    writes,   \* history: every write of the collection
    told,     \* history: every event handed to enqueue_notifications
    log,      \* collection "swarm_mutations", in the order of recording
    raced     \* history: entities two requests worked on at one time

vars == <<store, handler, now, requests, faults, answers, writes, told, log, raced>>

-----------------------------------------------------------------------------
(* Documents are functions from members to values.                         *)

reserved_member == {"id", "type", "scope", "@context", "createdAt", "modifiedAt", "deletedAt"}
changed_attribute_names(doc) == DOMAIN doc \ reserved_member
editable_fragment_members(fragment) ==
    [m \in DOMAIN fragment \ reserved_member |-> fragment[m]]

Over(new, old) ==
    [m \in DOMAIN new \cup DOMAIN old |-> IF m \in DOMAIN new THEN new[m] ELSE old[m]]
With(doc, m, v) == [k \in DOMAIN doc \cup {m} |-> IF k = m THEN v ELSE doc[k]]
Without(doc, members) == [m \in DOMAIN doc \ members |-> doc[m]]

\* RFC 7386 on a document whose attributes are objects of scalars.
MergeObject(object, patch) ==
    Without(Over(patch, object), {m \in DOMAIN patch : patch[m] = Null})
MergeMember(doc, m, patch) ==
    IF m \in reserved_member \/ patch = Null THEN patch
    ELSE MergeObject(IF m \in DOMAIN doc /\ doc[m] # Null THEN doc[m] ELSE <<>>, patch)
apply_merge_patch(doc, patch) ==
    MergeObject(doc, [m \in DOMAIN patch |-> MergeMember(doc, m, patch[m])])

validate_entity(payload) ==
    /\ {"id", "type"} \subseteq DOMAIN payload
    /\ payload["id"] # Null
    /\ payload["type"] # Null

\* Mutant: leaves modifiedAt to the client.
PrepareWithoutModifiedAt(payload, at) == Without(With(payload, "createdAt", at), {"deletedAt"})
prepare_entity_for_create(payload, at) ==
    Without(With(With(payload, "createdAt", at), "modifiedAt", at), {"deletedAt"})

prepare_entity_for_replace(payload, id, existing, at) ==
    LET own == With(payload, "id", id)
        created == IF "createdAt" \in DOMAIN existing
                   THEN With(own, "createdAt", existing["createdAt"]) ELSE own
    IN Without(With(created, "modifiedAt", at), {"deletedAt"})

ensure_requested_type(doc, type) ==
    type = NoType \/ ("type" \in DOMAIN doc /\ doc["type"] = type)
ensure_fragment_id_matches(fragment, id) ==
    ~("id" \in DOMAIN fragment /\ fragment["id"] \notin {id, Null})

-----------------------------------------------------------------------------
(* What a handler does with the document it has read.                      *)

Refused(status) == [write |-> "none", status |-> status]

\* The document to write, the event it makes, and whether it is told and recorded.
Plan(write, id, doc, kind, changed) ==
    [write |-> write, id |-> id, doc |-> doc, kind |-> kind, changed |-> changed]

Updated(id, doc, changed) == Plan("replace", id, doc, "Updated", changed)

\* Refusals before anything is read.
Precheck(req, item) ==
    CASE req.op \in {"create", "batchCreate", "batchUpsert", "batchMerge"} ->
            IF validate_entity(item.payload) THEN 0 ELSE 400
      [] req.op \in {"merge", "appendAttrs", "updateAttrs"} ->
            IF ensure_fragment_id_matches(item.payload, item.id) THEN 0 ELSE 400
      [] req.op = "batchUpdate" ->
            IF "id" \in DOMAIN item.payload THEN 0 ELSE 400
      [] OTHER -> 0

create(item, existing, at) ==
    LET doc == prepare_entity_for_create(item.payload, at)
    IN IF existing # NoDoc THEN Refused(409)
       ELSE Plan("insert", item.id, doc, "Created", changed_attribute_names(doc))

delete(item, existing) ==
    Plan("delete", item.id, existing, "Deleted", changed_attribute_names(existing))

merge(item, existing, at) ==
    Updated(item.id,
            With(With(apply_merge_patch(existing, item.payload), "id", item.id), "modifiedAt", at),
            changed_attribute_names(item.payload))

replace(item, existing, at) ==
    LET doc == prepare_entity_for_replace(item.payload, item.id, existing, at)
    IN IF ~validate_entity(doc) THEN Refused(400)
       ELSE Updated(item.id, doc, changed_attribute_names(doc))

\* Mutant: reserved members are appended like attributes.
AppendReserved(item, existing, noOverwrite, at) ==
    LET added == Without(item.payload, IF noOverwrite THEN DOMAIN existing ELSE {})
    IN Updated(item.id, With(Over(added, existing), "modifiedAt", at), DOMAIN added)

\* The document is written with a new modifiedAt also when no attribute is updated.
append_attrs(item, existing, noOverwrite, at) ==
    LET attrs == editable_fragment_members(item.payload)
        added == Without(attrs, IF noOverwrite THEN DOMAIN existing ELSE {})
    IN Updated(item.id, With(Over(added, existing), "modifiedAt", at), DOMAIN added)

update_attrs(item, existing, at) ==
    LET attrs == editable_fragment_members(item.payload)
        known == Without(attrs, DOMAIN attrs \ DOMAIN existing)
    IN Updated(item.id, With(Over(known, existing), "modifiedAt", at), DOMAIN known)

\* The attribute may be any member of the document, reserved ones included.
ensure_attribute_exists(doc, attr) == attr \in DOMAIN doc

patch_attr(item, existing, attr, at) ==
    LET patched == MergeMember(existing, attr, item.payload[attr])
    IN Updated(item.id, With(With(existing, attr, patched), "modifiedAt", at), {attr})

delete_attr(item, existing, attr, at) ==
    Updated(item.id, With(Without(existing, {attr}), "modifiedAt", at), {attr})

replace_attr(item, existing, attr, at) ==
    Updated(item.id, With(With(existing, attr, item.payload[attr]), "modifiedAt", at), {attr})

\* Both branches start from the payload prepared for creation, so an update brings
\* a new createdAt with it.
batch_upsert(item, existing, updateMode, prepared, at) ==
    LET payload == prepare_entity_for_create(item.payload, prepared)
        doc == IF updateMode THEN apply_merge_patch(existing, payload)
               ELSE prepare_entity_for_replace(payload, item.id, existing, at)
    IN IF existing = NoDoc THEN Plan("insert", item.id, payload, "Updated", changed_attribute_names(payload))
       ELSE Updated(item.id, doc, changed_attribute_names(doc))

batch_update(item, existing, noOverwrite, at) ==
    LET doc == append_attrs(item, existing, noOverwrite, at).doc
    IN Updated(item.id, doc, changed_attribute_names(doc))

\* The handlers of what must exist, after their look-ups.
Edited(req, item, existing, at) ==
    CASE req.op = "delete" -> delete(item, existing)
      [] req.op \in {"merge", "batchMerge"} -> merge(item, existing, at)
      [] req.op = "replace" -> replace(item, existing, at)
      [] req.op = "appendAttrs" -> append_attrs(item, existing, req.flag, at)
      [] req.op = "batchUpdate" -> batch_update(item, existing, req.flag, at)
      [] req.op = "updateAttrs" -> update_attrs(item, existing, at)
      [] req.op = "patchAttr" -> patch_attr(item, existing, req.attr, at)
      [] req.op = "deleteAttr" -> delete_attr(item, existing, req.attr, at)
      [] req.op = "replaceAttr" -> replace_attr(item, existing, req.attr, at)

NotFound(req, existing) ==
    \/ existing = NoDoc
    \/ req.op \notin Batch /\ ~ensure_requested_type(existing, req.type)
    \/ /\ req.op \in {"patchAttr", "deleteAttr", "replaceAttr"}
       /\ ~ensure_attribute_exists(existing, req.attr)

\* The dispatch on the operation, with the refusals that need the stored document.
\* prepared is the time the payload was prepared, at the time after the read.
Outcome(req, item, existing, prepared, at) ==
    CASE req.op \in {"create", "batchCreate"} -> create(item, existing, prepared)
      [] req.op = "batchUpsert" -> batch_upsert(item, existing, req.flag, prepared, at)
      [] OTHER -> IF NotFound(req, existing) THEN Refused(404) ELSE Edited(req, item, existing, at)

-----------------------------------------------------------------------------
(* The steps of a handler.                                                 *)

\* Which events are told to the subscribers: no batch but create and merge tells any.
Tells(req, plan) ==
    /\ req.op \notin {"batchUpsert", "batchUpdate", "batchDelete"}
    /\ req.op \in {"appendAttrs", "updateAttrs"} => plan.changed # {}
\* Mutant: peers are told what subscribers are told.
RecordsWhatItTells(req, plan) == ~req.localOnly /\ Tells(req, plan)
Records(req, plan) ==
    /\ ~req.localOnly
    /\ req.op \in {"appendAttrs", "updateAttrs"} => plan.changed # {}

Idle == [pc |-> "idle"]
NoPlan == [write |-> "none"]
Active(h) == handler[h] # Idle
IdsOf(req) == {req.items[k].id : k \in DOMAIN req.items}

\* A batch treats its items alike, and any other handler has written at most one.
AllDone(st, Test(_, _)) == \A k \in DOMAIN st.done : Test(st.req, st.done[k])

\* The writes done are due to be told and recorded.
Due(st) ==
    [st EXCEPT !.tell = @ \o IF AllDone(st, Tells) THEN st.done ELSE <<>>,
               !.log = @ \o IF AllDone(st, Records) THEN st.done ELSE <<>>,
               !.done = <<>>]
Through(st) ==
    IF st.plan = NoPlan THEN st
    ELSE [st EXCEPT !.success = Append(@, st.plan.id), !.plan = NoPlan]

\* Once the items are through (one by one for a batch merge), the events are told,
\* then the mutations recorded, then the item or the request is finished.
Settled(st) ==
    LET due == Due(st)
    IN CASE st.req.op \in Collecting /\ st.todo # <<>> -> [st EXCEPT !.pc = "read", !.at = now]
         [] OTHER ->
              IF due.tell # <<>> THEN [due EXCEPT !.pc = "tell"]
              ELSE IF due.log # <<>> THEN [due EXCEPT !.pc = "log"]
              ELSE IF st.todo # <<>> THEN [Through(due) EXCEPT !.pc = "read", !.at = now]
              ELSE [Through(due) EXCEPT !.pc = "answer"]

Answer(st) ==
    [status |-> CASE st.errors = <<>> -> 200
                  [] st.errors # <<>> /\ st.req.op \in Batch -> 207
                  [] OTHER -> st.errors[1].status,
     success |-> st.success, errors |-> st.errors]
ServerError == [status |-> 500, success |-> <<>>, errors |-> <<>>]
Waiting == [status |-> 0, success |-> <<>>, errors |-> <<>>]

End(h, answer) ==
    /\ handler' = [handler EXCEPT ![h] = Idle]
    /\ answers' = [answers EXCEPT ![handler[h].num] = answer]
Continue(h, st) ==
    LET next == Settled(st) IN
    IF next.pc = "answer" THEN End(h, Answer(next))
    ELSE handler' = [handler EXCEPT ![h] = next] /\ UNCHANGED answers

Item(h) == Head(handler[h].todo)
Read(h) ==
    LET st == handler[h] IN Outcome(st.req, Item(h), store[Item(h).id], st.at, now)

Start(h, req) ==
    /\ ~Active(h)
    /\ Len(requests) < MaxRequests
    /\ requests' = Append(requests, req)
    /\ handler' = [handler EXCEPT ![h] =
          [pc |-> "read", num |-> Len(requests) + 1, req |-> req, at |-> now, todo |-> req.items,
           plan |-> NoPlan, done |-> <<>>, tell |-> <<>>, log |-> <<>>,
           success |-> <<>>, errors |-> <<>>]]
    /\ raced' = raced \cup UNION {IdsOf(req) \cap IdsOf(handler[o].req) : o \in {o \in Handlers : Active(o)}}
    /\ UNCHANGED <<store, now, faults, answers, writes, told, log>>

\* Mutant: a refused item is left out of the report.
SkipSilently(h, id, status) ==
    /\ Continue(h, [handler[h] EXCEPT !.todo = Tail(@)])
    /\ UNCHANGED <<store, now, requests, faults, writes, told, log, raced>>

\* A single request ends with its refusal; a batch notes it and goes on.
Skip(h, id, status) ==
    /\ Continue(h, [handler[h] EXCEPT !.todo = Tail(@),
                        !.errors = Append(@, [id |-> id, status |-> status])])
    /\ UNCHANGED <<store, now, requests, faults, writes, told, log, raced>>

Refuse(h) ==
    /\ handler[h].pc = "read"
    /\ Precheck(handler[h].req, Item(h)) # 0
    /\ Skip(h, IF handler[h].req.op \in Collecting THEN "unknown" ELSE Item(h).id,
            Precheck(handler[h].req, Item(h)))

Reads(h) ==
    /\ handler[h].pc = "read"
    /\ handler[h].req.op # "batchDelete"
    /\ Precheck(handler[h].req, Item(h)) = 0

ReadRefused(h) ==
    /\ Reads(h)
    /\ Read(h).write = "none"
    /\ Skip(h, Item(h).id, Read(h).status)

ReadEntity(h) ==
    /\ Reads(h)
    /\ Read(h).write # "none"
    /\ handler' = [handler EXCEPT ![h].pc = "write", ![h].plan = Read(h)]
    /\ UNCHANGED <<store, now, requests, faults, answers, writes, told, log, raced>>

\* insert_one is refused by the unique index, replace_one upserts, and
\* find_one_and_delete of nothing is no error.
Write(plan, num) ==
    LET doc == IF plan.write = "delete" THEN NoDoc ELSE plan.doc IN
    /\ store' = [store EXCEPT ![plan.id] = doc]
    /\ writes' = Append(writes, [num |-> num, id |-> plan.id, doc |-> doc,
                              by |-> plan.write, changed |-> plan.changed])
\* Mutant: an insert overwrites.
AlwaysInsertable(plan) == TRUE
Insertable(plan) == plan.write = "insert" => store[plan.id] = NoDoc

Written(st, plan) ==
    [st EXCEPT !.todo = Tail(@), !.done = Append(@, plan),
               !.plan = IF st.req.op \in Collecting THEN NoPlan ELSE plan,
               !.success = IF st.req.op \in Collecting THEN Append(@, plan.id) ELSE @]

WriteEntity(h) ==
    LET st == handler[h] IN
    /\ st.pc = "write"
    /\ Insertable(st.plan)
    /\ Write(st.plan, st.num)
    /\ Continue(h, Written(st, st.plan))
    /\ UNCHANGED <<now, requests, faults, told, log, raced>>

\* batch_delete deletes without reading.
batch_delete(h) ==
    LET st == handler[h] IN
    /\ st.pc = "read"
    /\ st.req.op = "batchDelete"
    /\ IF store[Item(h).id] = NoDoc THEN Skip(h, Item(h).id, 404)
       ELSE /\ Write(Plan("delete", Item(h).id, NoDoc, "Deleted", {}), st.num)
            /\ Continue(h, Written(st, Plan("delete", Item(h).id, NoDoc, "Deleted", {})))
            /\ UNCHANGED <<now, requests, faults, told, log, raced>>

Event(st) ==
    LET plan == Head(st.tell)
    IN [num |-> st.num, id |-> plan.id, doc |-> plan.doc, kind |-> plan.kind, changed |-> plan.changed]

Notify(h) ==
    /\ handler[h].pc = "tell"
    /\ told' = Append(told, Event(handler[h]))
    /\ Continue(h, [handler[h] EXCEPT !.tell = Tail(@)])
    /\ UNCHANGED <<store, now, requests, faults, writes, log, raced>>

\* A batch names an entity by the member "id" of its document, which a request on the
\* attribute "id" may have changed or removed: then by another text, or by none.
recorded_id(doc) ==
    IF doc # NoDoc /\ "id" \in DOMAIN doc /\ doc["id"] \in Ids THEN doc["id"] ELSE ""

entity_id(st) ==
    LET plan == Head(st.log) IN
    IF plan.write # "delete" /\ st.req.op \in Collecting THEN recorded_id(plan.doc)
    ELSE plan.id

\* Mutant: the version of a mutation is the time it is recorded.
MutationAtNow(st) ==
    LET plan == Head(st.log) IN
    [num |-> st.num, id |-> entity_id(st), version |-> now,
     snapshot |-> IF plan.write = "delete" THEN NoDoc ELSE plan.doc]

\* A deletion carries the modifiedAt of the document it read, but in a batch the time
\* it is recorded.
Mutation(st) ==
    LET plan == Head(st.log) IN
    [num |-> st.num, id |-> entity_id(st),
     version |-> IF st.req.op = "batchDelete" THEN now ELSE plan.doc["modifiedAt"],
     snapshot |-> IF plan.write = "delete" THEN NoDoc ELSE plan.doc]

RecordMutation(h) ==
    /\ handler[h].pc = "log"
    /\ log' = Append(log, Mutation(handler[h]))
    /\ Continue(h, [handler[h] EXCEPT !.log = Tail(@)])
    /\ UNCHANGED <<store, now, requests, faults, writes, told, raced>>

-----------------------------------------------------------------------------
(* Failures.                                                               *)

\* An error ends the request, or the item of a batch merge.
Abort(h) ==
    LET st == handler[h] IN
    IF st.req.op # "batchMerge" THEN End(h, ServerError)
    ELSE LET id == IF st.plan = NoPlan THEN Item(h).id ELSE st.plan.id IN
         Continue(h, [st EXCEPT !.plan = NoPlan, !.done = <<>>, !.tell = <<>>, !.log = <<>>,
                          !.todo = IF st.pc \in {"read", "write"} THEN Tail(@) ELSE @,
                          !.errors = Append(@, [id |-> id, status |-> 500])])

DuplicateKey(h) ==
    /\ handler[h].pc = "write"
    /\ ~Insertable(handler[h].plan)
    /\ Abort(h)
    /\ UNCHANGED <<store, now, requests, faults, writes, told, log, raced>>

\* A call to the database or the queue fails, or publishing a mutation that is recorded.
Fail(h) ==
    /\ faults < MaxFaults
    /\ faults' = faults + 1
    /\ Active(h)
    /\ handler[h].pc = "read" => Precheck(handler[h].req, Item(h)) = 0
    /\ \/ UNCHANGED log
       \/ handler[h].pc = "log" /\ log' = Append(log, Mutation(handler[h]))
    /\ Abort(h)
    /\ UNCHANGED <<store, now, requests, writes, told, raced>>

Crash ==
    /\ faults < MaxFaults
    /\ faults' = faults + 1
    /\ \E h \in Handlers : Active(h)
    /\ handler' = [h \in Handlers |-> Idle]
    /\ UNCHANGED <<store, now, requests, answers, writes, told, log, raced>>

Tick ==
    /\ now < MaxTime
    /\ now' = now + 1
    /\ UNCHANGED <<store, handler, requests, faults, answers, writes, told, log, raced>>

\* What the collection holds at the start was written and recorded before.
Init ==
    /\ store \in Stores
    /\ handler = [h \in Handlers |-> Idle]
    /\ now = 1
    /\ requests = <<>>
    /\ faults = 0
    /\ answers = [n \in 1 .. MaxRequests |-> Waiting]
    /\ writes = SetToSeq({[num |-> 0, id |-> id, doc |-> store[id], by |-> "insert",
                           changed |-> changed_attribute_names(store[id])] :
                             id \in {i \in Ids : store[i] # NoDoc}})
    /\ told = <<>>
    /\ log = SetToSeq({[num |-> 0, id |-> id, version |-> store[id]["modifiedAt"],
                        snapshot |-> store[id]] : id \in {i \in Ids : store[i] # NoDoc}})
    /\ raced = {}

Next ==
    \/ \E h \in Handlers :
          \/ \E req \in Requests : Start(h, req)
          \/ Refuse(h) \/ ReadRefused(h) \/ ReadEntity(h)
          \/ WriteEntity(h) \/ DuplicateKey(h) \/ batch_delete(h)
          \/ Notify(h) \/ RecordMutation(h)
          \/ Fail(h)
    \/ Crash
    \/ Tick

Spec == Init /\ [][Next]_vars

-----------------------------------------------------------------------------
(* Properties.                                                             *)

TypeOK ==
    /\ \A id \in Ids : store[id] # NoDoc => "modifiedAt" \in DOMAIN store[id]
    /\ now \in 1 .. MaxTime
    /\ \A h \in Handlers : Active(h) =>
         /\ handler[h].pc \in {"read", "write", "tell", "log"}
         /\ handler[h].num \in 1 .. Len(requests)
         /\ handler[h].at \in 1 .. now
         /\ handler[h].pc = "read" => handler[h].todo # <<>>
         /\ handler[h].pc = "write" => handler[h].plan.write # "none" /\ handler[h].todo # <<>>
         /\ handler[h].pc = "tell" => handler[h].tell # <<>>
         /\ handler[h].pc = "log" => handler[h].tell = <<>> /\ handler[h].log # <<>>
    /\ raced \subseteq Ids

WroteBy(num, id) == {k \in DOMAIN writes : writes[k].num = num /\ writes[k].id = id}

\* What a mutation of a write may call the entity: the id it is stored under, or the one
\* in the document written.
NamesOf(write) == {write.id, recorded_id(write.doc)}

\* Subscribers and peers only ever hear of what the broker stored: every event and
\* every recorded mutation carries a document that its request had written before,
\* and a mutation the version of its snapshot ("Creates new entity, notifies
\* subscriptions, and records swarm mutation").
EffectsFollowStore ==
    /\ \A k \in DOMAIN told : \E w \in WroteBy(told[k].num, told[k].id) :
          writes[w].doc = IF told[k].kind = "Deleted" THEN NoDoc ELSE told[k].doc
    /\ \A k \in DOMAIN log : \E w \in DOMAIN writes :
          /\ writes[w].num = log[k].num
          /\ log[k].id \in NamesOf(writes[w])
          /\ writes[w].doc = log[k].snapshot
          /\ log[k].snapshot # NoDoc => log[k].version = log[k].snapshot["modifiedAt"]

Answered(num) == num \in DOMAIN requests /\ answers[num].status \in {200, 207}
Failed(num) == {answers[num].errors[k].id : k \in DOMAIN answers[num].errors}

\* A write of which the peers are not told: a local one, or an append or update that
\* updates no attribute.
Silent(w) ==
    /\ writes[w].num > 0
    /\ LET req == requests[writes[w].num] IN
       \/ req.localOnly
       \/ req.op \in {"appendAttrs", "updateAttrs"} /\ writes[w].changed = {}

\* What a client is told has succeeded was stored and recorded for the peers, also
\* when calls fail in the middle of a batch.
SuccessIsStoredAndRecorded ==
    \A num \in DOMAIN requests : Answered(num) =>
        \A id \in ToSet(answers[num].success) : \E w \in WroteBy(num, id) :
            \/ Silent(w)
            \/ \E k \in DOMAIN log : /\ log[k].num = num
                                     /\ log[k].id \in NamesOf(writes[w])
                                     /\ log[k].snapshot = writes[w].doc

\* A batch report names every item once, and what it reports as failed was not
\* written, but for a merge whose notification or recording failed ("Creates batch of
\* entities and returns partial failure report when needed").
BatchReportsEveryItem ==
    \A num \in DOMAIN requests : Answered(num) =>
        /\ Len(answers[num].success) + Len(answers[num].errors) = Len(requests[num].items)
        /\ \A id \in (Failed(num) \cap Ids) \ ToSet(answers[num].success) :
              \/ WroteBy(num, id) = {}
              \/ requests[num].op = "batchMerge" /\ faults > 0

\* Mutant: of two mutations of one time the first stays.
ApplyStrictlyNewer(doc, mutation) ==
    IF doc # NoDoc /\ mutation.version <= doc["modifiedAt"] THEN doc ELSE mutation.snapshot

\* What a peer holds that has applied the mutations in the order of the log
\* (apply_entity_mutation).
apply_entity_mutation(doc, mutation) ==
    IF doc # NoDoc /\ mutation.version < doc["modifiedAt"] THEN doc ELSE mutation.snapshot
ReplayOne(id, doc, mutation) ==
    IF mutation.id = id THEN apply_entity_mutation(doc, mutation) ELSE doc
Replayed(id) == FoldLeft(LAMBDA doc, m : ReplayOne(id, doc, m), NoDoc, log)

\* A broker at rest holds what its log makes of an entity, but for modifiedAt, which an
\* append that appends nothing moves on.  Not so where a write was local, a request ended
\* in an error (a batch creation does so when it loses the race for one of its entities),
\* or two requests raced: they may record in the other order than they wrote, and under
\* one timestamp, so that the peers keep for ever what the broker has overwritten.  Nor
\* where a document was stored without its own id: a batch that writes it again records
\* it under the name it then bears, or under none.
Misnamed ==
    UNION {NamesOf(writes[w]) :
             w \in {w \in DOMAIN writes : writes[w].doc # NoDoc
                                        /\ recorded_id(writes[w].doc) # writes[w].id}}
AtRest ==
    /\ faults = 0
    /\ \A h \in Handlers : ~Active(h)
    /\ \A num \in DOMAIN requests : answers[num] # ServerError
ReplayedLogIsStore ==
    AtRest =>
    \A id \in Ids \ (raced \cup Misnamed) :
        \/ \E w \in DOMAIN writes : writes[w].id = id /\ writes[w].num > 0
                                    /\ requests[writes[w].num].localOnly
        \/ store[id] = NoDoc /\ Replayed(id) = NoDoc
        \/ /\ store[id] # NoDoc
           /\ Replayed(id) # NoDoc
           /\ Without(store[id], {"modifiedAt"}) = Without(Replayed(id), {"modifiedAt"})
           /\ Replayed(id)["modifiedAt"] <= store[id]["modifiedAt"]

\* Of creations that race only one succeeds: an entity is created again only after it
\* was deleted.
CreatedOnce ==
    \A v, w \in DOMAIN writes :
        v < w /\ writes[v].id = writes[w].id /\ writes[w].by = "insert" =>
            \E k \in v .. w : writes[k].id = writes[v].id /\ writes[k].doc = NoDoc

\* Requests that do not race lose nothing of each other: a write changes only the
\* attributes that its event names, or those a replacement leaves out, and a createdAt
\* only where the request names it or an upsert merges a payload prepared for creation
\* ("Replaces entire entity document while preserving fixed metadata").
Value(doc, m) == IF m \in DOMAIN doc THEN <<doc[m]>> ELSE <<>>
Differ(old, new) == {m \in DOMAIN old \cup DOMAIN new : Value(old, m) # Value(new, m)}
Names(req, m) ==
    \/ m = req.attr
    \/ req.op \in {"merge", "batchMerge"} /\ \E k \in DOMAIN req.items : m \in DOMAIN req.items[k].payload
    \/ req.op = "batchUpsert" /\ req.flag
NothingElseChanged(old, w) ==
    LET req == requests[w.num]
        differ == Differ(old, w.doc)
    IN /\ \A m \in differ \ reserved_member :
             \/ m \in w.changed
             \/ req.op \in {"replace", "batchUpsert"} /\ m \notin DOMAIN w.doc
       /\ "createdAt" \in differ \cap DOMAIN old => Names(req, "createdAt")
WritesChangeWhatTheyName ==
    [][writes' # writes =>
          LET w == Last(writes') IN
          w.id \in raced \/ w.doc = NoDoc \/ store[w.id] = NoDoc
            \/ NothingElseChanged(store[w.id], w)]_vars
=============================================================================
