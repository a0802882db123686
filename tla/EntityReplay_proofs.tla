---------------------------- MODULE EntityReplay_proofs ----------------------------
(***************************************************************************)
(* A broker at rest holds what its log makes of an entity.  The mutations  *)
(* of a request follow its writes, and a peer drops the older of two: the  *)
(* proof is about the times of documents, which are read from the clock at *)
(* different steps, and about what the log still owes its readers while a  *)
(* handler is between its writes and its records.                          *)
(***************************************************************************)
EXTENDS EntityService_proofs

Replay == INSTANCE SequenceFolds WITH Base <- NoDoc, Op <- ReplayOne

\* The mark of an absent document is no document.
NoDocIsNone == "modifiedAt" \notin DOMAIN NoDoc
-----------------------------------------------------------------------------
(* Times. *)

\* The time of a document, which an absent one does not have.
Timed(doc, time) == "modifiedAt" \in DOMAIN doc /\ doc["modifiedAt"] \in 0 .. time

\* Plans whose documents were made one after the other.  A batch delete makes none.
Ordered(req, plans, time) ==
    req.op # "batchDelete" =>
        /\ \A k \in DOMAIN plans : Timed(plans[k].doc, time)
        /\ \A j, k \in DOMAIN plans :
              j < k => plans[j].doc["modifiedAt"] <= plans[k].doc["modifiedAt"]

\* The document is not older than any of these plans.
After(req, time, plans) ==
    req.op # "batchDelete" => \A k \in DOMAIN plans : plans[k].doc["modifiedAt"] <= time

SameBut(doc, other) == Without(doc, {"modifiedAt"}) = Without(other, {"modifiedAt"})

\* What is read and written is not older than what it replaces.
HandlerTimes(h) ==
    LET st == handler[h] IN
    /\ Ordered(st.req, st.done, now) /\ Ordered(st.req, st.log, now)
    /\ st.pc = "read" =>
         /\ After(st.req, st.at, st.done)
         /\ \A id \in IdsOf(st.req) \ raced :
               store[id] # NoDoc => store[id]["modifiedAt"] <= st.at
    /\ st.pc = "write" =>
         /\ Timed(st.plan.doc, now)
         /\ After(st.req, st.plan.doc["modifiedAt"], st.done)
         /\ st.plan.write = "insert" => st.req.op \in {"create", "batchCreate", "batchUpsert"}
         /\ st.plan.id \notin raced =>
              /\ store[st.plan.id] # NoDoc =>
                    store[st.plan.id]["modifiedAt"] <= st.plan.doc["modifiedAt"]
              /\ ~st.req.localOnly /\ ~Records(st.req, st.plan) =>
                    /\ store[st.plan.id] # NoDoc /\ SameBut(store[st.plan.id], st.plan.doc)
                    /\ st.plan.write # "delete"

TimesInv ==
    /\ \A id \in Ids : store[id] # NoDoc => Timed(store[id], now)
    /\ \A id \in Ids : Replayed(id) # NoDoc => Timed(Replayed(id), now)
    /\ \A h \in Handlers : Active(h) => HandlerTimes(h)
-----------------------------------------------------------------------------
(* What the log still owes. *)

\* What a peer holds that the log has told everything.
Same(doc, held) ==
    IF doc = NoDoc \/ held = NoDoc THEN doc = held
    ELSE SameBut(doc, held) /\ held["modifiedAt"] <= doc["modifiedAt"]

\* The plans of which the log has not told yet.
Unsent(st) == IF st.done # <<>> THEN st.done ELSE st.log

\* The last of the plans leaves what is stored, and none is older than what a peer holds.
Owes(req, plans, id, doc, held) ==
    /\ (\A k \in DOMAIN plans : plans[k].id # id) => Same(doc, held)
    /\ \A k \in DOMAIN plans :
          plans[k].id = id /\ (\A j \in DOMAIN plans : plans[j].id = id => j <= k) =>
              PlanDoc(plans[k]) = doc
    /\ req.op # "batchDelete" /\ held # NoDoc =>
          \A k \in DOMAIN plans :
              plans[k].id = id => held["modifiedAt"] <= plans[k].doc["modifiedAt"]

WorksOn(h, id) == Active(h) /\ id \in IdsOf(handler[h].req)
Agrees(id) ==
    /\ \A h \in Handlers : WorksOn(h, id) =>
          Owes(handler[h].req, Unsent(handler[h]), id, store[id], Replayed(id))
    /\ (\A h \in Handlers : ~WorksOn(h, id)) => Same(store[id], Replayed(id))

\* No call failed, and no request.
Quiet == faults = 0 /\ \A num \in DOMAIN requests : answers[num] # ServerError
WrittenLocally(id) ==
    \E w \in DOMAIN writes : writes[w].id = id /\ writes[w].num > 0
                             /\ requests[writes[w].num].localOnly
ReplayInv ==
    Quiet => /\ TimesInv
             /\ \A id \in Ids \ (raced \cup Misnamed) : WrittenLocally(id) \/ Agrees(id)
-----------------------------------------------------------------------------
(* The log, told one mutation after the other. *)

LEMMA ReplayedIsFold == \A id : Replayed(id) = Replay!Fold(id, log)
BY DEF Replayed, Replay!Fold, FoldLeft, Replay!FoldLeft, MapThenFoldSet, Replay!MapThenFoldSet,
       Max, Replay!Max

LEMMA ReplayedAppends ==
    ASSUME log \in Seq(ToSet(log)), NEW m, log' = Append(log, m), NEW id
    PROVE  Replayed(id)' = ReplayOne(id, Replayed(id), m)
<1>1. Replayed(id)' = Replay!Fold(id, log')
  BY DEF Replayed, Replay!Fold, FoldLeft, Replay!FoldLeft, MapThenFoldSet,
         Replay!MapThenFoldSet, Max, Replay!Max
<1>2. Replay!Fold(id, Append(log, m)) = ReplayOne(id, Replay!Fold(id, log), m)
  BY Replay!FoldOfAppend
<1>. QED  BY <1>1, <1>2, ReplayedIsFold

LEMMA ReplayedStays ==
    ASSUME log' = log, NEW id
    PROVE  Replayed(id)' = Replayed(id)
<1>1. Replayed(id)' = Replay!Fold(id, log')
  BY DEF Replayed, Replay!Fold, FoldLeft, Replay!FoldLeft, MapThenFoldSet,
         Replay!MapThenFoldSet, Max, Replay!Max
<1>. QED  BY <1>1, ReplayedIsFold

-----------------------------------------------------------------------------
(* The times of what is written. *)

LEMMA OutcomeIsTimed ==
    ASSUME NEW req \in Requests, req.op # "batchDelete",
           NEW item \in ToSet(req.items), Precheck(req, item) = 0,
           NEW existing, NEW prepared \in Nat, NEW at \in Nat,
           Outcome(req, item, existing, prepared, at).write # "none"
    PROVE  LET p == Outcome(req, item, existing, prepared, at) IN
           /\ \/ p.write # "delete" /\ p.doc["modifiedAt"] \in {prepared, at}
              \/ p.write = "delete" /\ p.doc = existing /\ existing # NoDoc /\ req.op = "delete"
           /\ req.op \in {"appendAttrs", "updateAttrs"} /\ p.changed = {} =>
                 existing # NoDoc /\ SameBut(existing, p.doc) /\ p.write # "delete"
           /\ p.write = "insert" => req.op \in {"create", "batchCreate", "batchUpsert"}
<1>. DEFINE p == Outcome(req, item, existing, prepared, at)
            Silently(q) == req.op \in {"appendAttrs", "updateAttrs"} /\ q.changed = {} =>
                             existing # NoDoc /\ SameBut(existing, q.doc) /\ q.write # "delete"
            Good(q) == q.write # "none" =>
                         /\ \/ q.write # "delete" /\ q.doc["modifiedAt"] \in {prepared, at}
                            \/ q.write = "delete" /\ q.doc = existing /\ existing # NoDoc /\ req.op = "delete"
                         /\ Silently(q)
                         /\ q.write = "insert" => req.op \in {"create", "batchCreate", "batchUpsert"}
<1>. SUFFICES Good(p)
  OBVIOUS
<1>1. \A status : Good(Refused(status))
  BY DEF Refused
<1>2. ASSUME NEW doc, NEW t, doc["modifiedAt"] = t, t \in {prepared, at},
             NEW changed, NEW write, write # "delete", NEW kind,
             req.op \notin {"appendAttrs", "updateAttrs"},
             write = "insert" => req.op \in {"create", "batchCreate", "batchUpsert"}
      PROVE  Good(Plan(write, item.id, doc, kind, changed))
  BY <1>2 DEF Plan
<1>3. ASSUME NEW doc, doc["modifiedAt"] = at, NEW changed,
             changed = {} => (existing # NoDoc /\ SameBut(existing, doc))
      PROVE  Good(Updated(item.id, doc, changed))
  BY <1>3 DEF Plan, Updated
<1>4. \A doc, t : With(doc, "modifiedAt", t)["modifiedAt"] = t
  BY DEF With
<1>5. \A payload, t : prepare_entity_for_create(payload, t)["modifiedAt"] = t
                      /\ "modifiedAt" \in DOMAIN prepare_entity_for_create(payload, t)
  BY DEF With, Without, prepare_entity_for_create
<1>6. \A payload, id, doc, t : prepare_entity_for_replace(payload, id, doc, t)["modifiedAt"] = t
  BY DEF With, Without, prepare_entity_for_replace
<1>. HIDE DEF Good
<1>7. CASE req.op \in {"create", "batchCreate"}
  <2>1. p = create(item, existing, prepared)
    BY <1>7 DEF Outcome
  <2>. QED  BY <1>1, <1>2, <1>5, <1>7, <2>1 DEF create
<1>8. CASE req.op = "batchUpsert"
  <2>. DEFINE payload == prepare_entity_for_create(item.payload, prepared)
  <2>1. p = batch_upsert(item, existing, req.flag, prepared, at)
    BY <1>8 DEF Outcome
  <2>2. apply_merge_patch(existing, payload)["modifiedAt"] = prepared
    <3>1. payload["modifiedAt"] = prepared /\ "modifiedAt" \in DOMAIN payload /\ prepared # Null
      BY <1>5, BoundAssumption
    <3>. HIDE DEF payload
    <3>. QED  BY <3>1 DEF apply_merge_patch, MergeObject, MergeMember, Over, Without, reserved_member
  <2>3. CASE existing = NoDoc
    BY <1>2, <1>5, <1>8, <2>1, <2>3 DEF batch_upsert
  <2>4. CASE existing # NoDoc /\ req.flag
    <3>. DEFINE doc == apply_merge_patch(existing, payload)
    <3>1. p = Plan("replace", item.id, doc, "Updated", changed_attribute_names(doc))
      BY <2>1, <2>4 DEF batch_upsert, Updated
    <3>. HIDE DEF doc, p
    <3>. QED  BY <1>2, <1>8, <2>2, <3>1 DEF doc
  <2>5. CASE existing # NoDoc /\ ~req.flag
    <3>. DEFINE doc == prepare_entity_for_replace(payload, item.id, existing, at)
    <3>1. p = Plan("replace", item.id, doc, "Updated", changed_attribute_names(doc))
      BY <2>1, <2>5 DEF batch_upsert, Updated
    <3>2. doc["modifiedAt"] = at
      BY <1>6
    <3>. HIDE DEF doc, p
    <3>. QED  BY <1>2, <1>8, <3>1, <3>2
  <2>. QED  BY <2>3, <2>4, <2>5
<1>9. CASE req.op \notin {"create", "batchCreate", "batchUpsert"}
  <2>1. \/ p = Refused(404)
        \/ p = Edited(req, item, existing, at) /\ existing # NoDoc
    BY <1>9 DEF Outcome, NotFound
  <2>2. SUFFICES ASSUME existing # NoDoc
                 PROVE  Good(Edited(req, item, existing, at))
    BY <1>1, <2>1
  <2>3. \A added : DOMAIN added = {} =>
            SameBut(existing, With(Over(added, existing), "modifiedAt", at))
    <3>. TAKE added
    <3>. SUFFICES ASSUME DOMAIN added = {}
                  PROVE  SameBut(existing, With(Over(added, existing), "modifiedAt", at))
      OBVIOUS
    <3>. DEFINE doc == With(Over(added, existing), "modifiedAt", at)
    <3>1. /\ DOMAIN doc \ {"modifiedAt"} = DOMAIN existing \ {"modifiedAt"}
          /\ \A m \in DOMAIN existing \ {"modifiedAt"} : doc[m] = existing[m]
      BY DEF With, Over
    <3>. HIDE DEF doc
    <3>2. SameBut(existing, doc)
      BY <3>1 DEF SameBut, Without
    <3>. QED  BY <3>2 DEF doc
  <2>4. ASSUME NEW added
        PROVE  /\ Good(Updated(item.id, With(Over(added, existing), "modifiedAt", at), DOMAIN added))
               /\ With(Over(added, existing), "modifiedAt", at)["modifiedAt"] = at
    BY <1>3, <1>4, <2>2, <2>3
  <2>5. Good(append_attrs(item, existing, req.flag, at)) /\ Good(update_attrs(item, existing, at))
    BY <2>4 DEF append_attrs, update_attrs
  <2>6. append_attrs(item, existing, req.flag, at).doc["modifiedAt"] = at
    BY <2>4 DEF append_attrs, Updated, Plan
  <2>7. ASSUME NEW doc, doc["modifiedAt"] = at, NEW changed,
               req.op \notin {"appendAttrs", "updateAttrs"}
        PROVE  Good(Updated(item.id, doc, changed))
    BY <1>2, <2>7 DEF Updated
  <2>8. req.op = "delete" => Good(delete(item, existing))
    BY <2>2 DEF delete, Plan, Good
  <2>9. req.op \in {"merge", "batchMerge"} => Good(merge(item, existing, at))
    BY <1>4, <2>7 DEF merge
  <2>10. req.op = "replace" => Good(replace(item, existing, at))
    BY <1>1, <1>6, <2>7 DEF replace
  <2>11. req.op = "batchUpdate" => Good(batch_update(item, existing, req.flag, at))
    BY <2>6, <2>7 DEF batch_update
  <2>12. req.op = "patchAttr" => Good(patch_attr(item, existing, req.attr, at))
    BY <1>4, <2>7 DEF patch_attr
  <2>13. req.op = "deleteAttr" => Good(delete_attr(item, existing, req.attr, at))
    BY <1>4, <2>7 DEF delete_attr
  <2>14. req.op = "replaceAttr" => Good(replace_attr(item, existing, req.attr, at))
    BY <1>4, <2>7 DEF replace_attr
  <2>15. req.op \in Operations
    BY ItemOfRequest
  <2>. QED  BY <1>9, <2>5, <2>8, <2>9, <2>10, <2>11, <2>12, <2>13, <2>14, <2>15 DEF Edited, Operations
<1>. QED  BY <1>7, <1>8, <1>9

-----------------------------------------------------------------------------
(* How a handler goes on. *)

LEMMA SettledUnsent ==
    ASSUME NEW st, NEW P, DOMAIN st = Fields, st.done \in Seq(P), st.log \in Seq(P),
           st.done = <<>> \/ st.log = <<>>
    PROVE  LET next == Settled(st) IN
           /\ next.req = st.req /\ next.pc # "write"
           /\ next.pc = "read" => next.at = now
           /\ next.done \in {<<>>, st.done} /\ next.log \in {<<>>, st.log, st.done}
           /\ \/ Unsent(next) = Unsent(st)
              \/ Unsent(next) = <<>> /\ ~AllDone(st, Records)
           /\ next.pc = "answer" => Unsent(next) = <<>>
<1>. DEFINE due == Due(st)
            through == Through(due)
<1>1. /\ DOMAIN due = Fields /\ due.req = st.req /\ due.done = <<>>
      /\ due.log = st.log \o IF AllDone(st, Records) THEN st.done ELSE <<>>
  BY DEF Due, Fields
<1>2. /\ due.log \in {<<>>, st.log, st.done}
      /\ due.log = Unsent(st) \/ (due.log = <<>> /\ ~AllDone(st, Records))
  <2>1. \A s \in Seq(P) : s \o <<>> = s /\ <<>> \o s = s
    BY ConcatEmptySeq
  <2>2. CASE st.done = <<>>
    BY <1>1, <2>1, <2>2 DEF Unsent
  <2>3. CASE st.done # <<>> /\ st.log = <<>>
    <3>1. <<>> \o <<>> = <<>> /\ <<>> \o st.done = st.done
      BY <2>1
    <3>. QED  BY <1>1, <2>3, <3>1 DEF Unsent
  <2>. QED  BY <2>2, <2>3
<1>. HIDE DEF due
<1>3. /\ DOMAIN through = Fields /\ through.req = st.req /\ through.done = <<>>
      /\ through.log = due.log
  BY <1>1 DEF Through, Fields
<1>. HIDE DEF through
<1>4. \/ Settled(st) = [st EXCEPT !.pc = "read", !.at = now]
      \/ Settled(st) = [due EXCEPT !.pc = "tell"]
      \/ Settled(st) = [due EXCEPT !.pc = "log"]
      \/ due.log = <<>> /\ Settled(st) = [through EXCEPT !.pc = "read", !.at = now]
      \/ due.log = <<>> /\ Settled(st) = [through EXCEPT !.pc = "answer"]
  BY SettledIs DEF due, through
<1>. DEFINE next == Settled(st)
<1>5. CASE next = [st EXCEPT !.pc = "read", !.at = now]
  <2>1. /\ next.req = st.req /\ next.pc = "read" /\ next.at = now
        /\ next.done = st.done /\ next.log = st.log
    BY <1>5 DEF Fields
  <2>. QED  BY <2>1 DEF Unsent
<1>6. CASE next = [due EXCEPT !.pc = "tell"] \/ next = [due EXCEPT !.pc = "log"]
  <2>1. /\ next.req = st.req /\ next.pc \in {"tell", "log"}
        /\ next.done = <<>> /\ next.log = due.log
    BY <1>1, <1>6 DEF Fields
  <2>. QED  BY <1>2, <2>1 DEF Unsent
<1>7. CASE /\ due.log = <<>>
           /\ \/ next = [through EXCEPT !.pc = "read", !.at = now]
              \/ next = [through EXCEPT !.pc = "answer"]
  <2>1. /\ next.req = st.req /\ next.pc \in {"read", "answer"} /\ (next.pc = "read" => next.at = now)
        /\ next.done = <<>> /\ next.log = due.log
    BY <1>3, <1>7 DEF Fields
  <2>. QED  BY <1>2, <1>7, <2>1 DEF Unsent
<1>. HIDE DEF next
<1>8. \/ next = [st EXCEPT !.pc = "read", !.at = now]
      \/ next = [due EXCEPT !.pc = "tell"] \/ next = [due EXCEPT !.pc = "log"]
      \/ /\ due.log = <<>>
         /\ \/ next = [through EXCEPT !.pc = "read", !.at = now]
            \/ next = [through EXCEPT !.pc = "answer"]
  BY <1>4 DEF next
<1>. QED  BY <1>5, <1>6, <1>7, <1>8 DEF next

\* What a handler owes the log, and nothing if it is not at work.
Debt(h) == IF Active(h) THEN Unsent(handler[h]) ELSE <<>>

\* A handler that goes on keeps what it owes, or drops what is not recorded.
LEMMA ContinuesUnsent ==
    ASSUME StateInv, NEW h \in Handlers, NEW st, NEW P, DOMAIN st = Fields,
           st.req = handler[h].req, st.done \in Seq(P), st.log \in Seq(P),
           st.done = <<>> \/ st.log = <<>>, Continue(h, st)
    PROVE  /\ \/ Debt(h)' = Unsent(st)
              \/ Debt(h)' = <<>> /\ ~AllDone(st, Records)
           /\ Active(h)' => /\ handler'[h] = Settled(st)
                            /\ handler'[h].req = handler[h].req
           /\ \A g \in Handlers : g # h => handler'[g] = handler[g]
<1>. DEFINE next == Settled(st)
<1>1. /\ next.req = st.req
      /\ \/ Unsent(next) = Unsent(st)
         \/ Unsent(next) = <<>> /\ ~AllDone(st, Records)
      /\ next.pc = "answer" => Unsent(next) = <<>>
  BY SettledUnsent
<1>2. CASE next.pc = "answer"
  <2>1. handler' = [handler EXCEPT ![h] = Idle]
    BY <1>2 DEF Continue, End
  <2>2. ~Active(h)' /\ \A g \in Handlers : g # h => handler'[g] = handler[g]
    BY <2>1 DEF Active, StateInv
  <2>. QED  BY <1>1, <1>2, <2>2 DEF Debt
<1>3. CASE next.pc # "answer"
  <2>1. handler' = [handler EXCEPT ![h] = next]
    BY <1>3 DEF Continue
  <2>2. handler'[h] = next /\ \A g \in Handlers : g # h => handler'[g] = handler[g]
    BY <2>1 DEF StateInv
  <2>3. next # Idle
    <3>1. next.pc # "idle"
      <4>1. next.pc \in {"read", "tell", "log"}
        BY <1>3 DEF Settled, Fields, Due, Through
      <4>. QED  BY <4>1
    <3>. QED  BY <3>1 DEF Idle
  <2>4. Active(h)'
    BY <2>2, <2>3 DEF Active
  <2>5. Debt(h)' = Unsent(next)
    BY <2>2, <2>4 DEF Debt
  <2>. HIDE DEF next
  <2>. QED  BY <1>1, <2>2, <2>5 DEF next
<1>. QED  BY <1>2, <1>3
-----------------------------------------------------------------------------
(* The steps of a handler in a run where no call fails. *)

\* An item is refused, or an event is told.
Passes(h) ==
    /\ UNCHANGED <<store, writes, log>>
    /\ handler[h].pc \in {"read", "tell"}
    /\ \E st : /\ DOMAIN st = Fields /\ st.req = handler[h].req
               /\ st.done = handler[h].done /\ st.log = handler[h].log
               /\ Continue(h, st)

Writes(h, plan) ==
    /\ PlanFor(handler[h].req, plan)
    /\ Write(plan, handler[h].num)
    /\ Continue(h, Written(handler[h], plan))
    /\ log' = log
    /\ \/ handler[h].pc = "write" /\ plan = handler[h].plan
       \/ handler[h].pc = "read" /\ handler[h].req.op = "batchDelete"

LEMMA SkipPasses ==
    ASSUME NEW h, DOMAIN handler[h] = Fields, handler[h].pc = "read",
           NEW id, NEW status, Skip(h, id, status)
    PROVE  Passes(h)
<1>. DEFINE st == [handler[h] EXCEPT !.todo = Tail(@),
                                    !.errors = Append(@, [id |-> id, status |-> status])]
<1>1. /\ DOMAIN st = Fields /\ st.req = handler[h].req
      /\ st.done = handler[h].done /\ st.log = handler[h].log
  BY DEF Fields
<1>2. Continue(h, st)
  BY DEF Skip
<1>. HIDE DEF st
<1>. QED  BY <1>1, <1>2 DEF Skip, Passes

LEMMA RequestsAnswered ==
    ASSUME StateInv
    PROVE  DOMAIN requests \subseteq DOMAIN answers
<1>1. /\ DOMAIN requests = 1 .. Len(requests) /\ DOMAIN answers = 1 .. MaxRequests
      /\ Len(requests) \in Nat /\ Len(requests) <= MaxRequests
  BY LenProperties DEF StateInv
<1>. QED  BY <1>1, BoundAssumption

\* Answers are given to requests in progress.
LEMMA QuietBefore ==
    ASSUME EntityInv, [Next]_vars, Quiet'
    PROVE  Quiet
<1>1. ASSUME NEW h \in Handlers, HandlerStep(h)
      PROVE  Quiet
  <2>1. Active(h)
    BY <1>1, HandlerStepIsActive
  <2>2. Moves(h) /\ requests' = requests
    BY <1>1, <2>1, HandlerStepIs DEF EntityInv
  <2>3. answers[handler[h].num] = Waiting
    BY <2>1 DEF EntityInv, HandlersInv, HandlerInv
  <2>4. DOMAIN answers = 1 .. MaxRequests
    BY DEF EntityInv, StateInv
  <2>5. \A num \in DOMAIN requests : num # handler[h].num => answers'[num] = answers[num]
    <3>1. DOMAIN requests \subseteq DOMAIN answers
      BY <2>4, RequestsAnswered DEF EntityInv
    <3>2. \/ answers' = answers
          \/ \E answer : answers' = [answers EXCEPT ![handler[h].num] = answer]
      BY <2>2, MovesIs
    <3>. QED  BY <3>1, <3>2
  <2>6. Waiting # ServerError
    BY DEF Waiting, ServerError
  <2>7. faults = 0
    BY <1>1 DEF HandlerStep, Quiet, EntityInv, StateInv, Refuse, ReadRefused, Skip, ReadEntity,
                WriteEntity, DuplicateKey, batch_delete, Notify, RecordMutation, Fail
  <2>. QED  BY <2>2, <2>3, <2>5, <2>6, <2>7 DEF Quiet
<1>2. ASSUME NEW h \in Handlers, NEW req \in Requests, Start(h, req)
      PROVE  Quiet
  <2>1. requests \in Seq(Requests) /\ requests' = Append(requests, req)
        /\ answers' = answers /\ faults' = faults
    BY <1>2 DEF Start, EntityInv, StateInv
  <2>2. DOMAIN requests \subseteq DOMAIN requests'
    BY <2>1, AppendProperties
  <2>. QED  BY <2>1, <2>2 DEF Quiet
<1>3. CASE Crash
  BY <1>3 DEF Crash, Quiet, EntityInv, StateInv
<1>4. CASE Tick \/ UNCHANGED vars
  BY <1>4 DEF Tick, vars, Quiet
<1>. QED  BY <1>1, <1>2, <1>3, <1>4 DEF Next, HandlerStep

\* In a quiet run a handler that reaches an insertion it may not make has failed.
LEMMA QuietStep ==
    ASSUME EntityInv, TimesInv, NEW h \in Handlers, Active(h), HandlerStep(h), Quiet'
    PROVE  \/ Passes(h) \/ ReadEntity(h) \/ RecordMutation(h)
           \/ \E plan : Writes(h, plan)
<1>0. DOMAIN handler[h] = Fields /\ Work(handler[h], now, writes) /\ AtStep(handler[h])
  BY HandlerAt DEF EntityInv
<1>1. CASE Refuse(h) \/ ReadRefused(h)
  BY <1>0, <1>1, SkipPasses DEF Refuse, ReadRefused, Reads
<1>2. CASE WriteEntity(h)
  BY <1>0, <1>2 DEF WriteEntity, Writes, Work, AtStep
<1>3. CASE DuplicateKey(h)
  <2>1. handler[h].plan.write = "insert" /\ handler[h].pc = "write"
    BY <1>3 DEF DuplicateKey, Insertable
  <2>2. handler[h].req.op \in {"create", "batchCreate", "batchUpsert"}
    BY <2>1 DEF TimesInv, HandlerTimes
  <2>3. End(h, ServerError) /\ requests' = requests
    BY <1>3, <2>2 DEF DuplicateKey, Abort
  <2>4. /\ handler[h].num \in DOMAIN requests /\ handler[h].num \in DOMAIN answers
    <3>1. handler[h].num \in 1 .. Len(requests) /\ requests \in Seq(Requests)
      BY HandlerAt DEF EntityInv, StateInv
    <3>2. handler[h].num \in DOMAIN requests
      BY <3>1, LenProperties
    <3>. QED  BY <3>2, RequestsAnswered DEF EntityInv
  <2>5. answers'[handler[h].num] = ServerError
    BY <2>3, <2>4 DEF End
  <2>. QED  BY <2>3, <2>4, <2>5 DEF Quiet
<1>4. CASE batch_delete(h)
  <2>1. CASE store[Item(h).id] = NoDoc
    BY <1>0, <1>4, <2>1, SkipPasses DEF batch_delete
  <2>2. CASE store[Item(h).id] # NoDoc
    <3>1. Item(h) \in ToSet(handler[h].req.items) /\ handler[h].req \in Requests
      BY <1>0, <1>4, TailIn DEF AtStep, Work, Item, batch_delete
    <3>2. PlanFor(handler[h].req, DeletePlan(Item(h).id))
      BY <3>1, ItemOfRequest DEF PlanFor, DeletePlan, Plan
    <3>3. Writes(h, DeletePlan(Item(h).id))
      BY <1>4, <2>2, <3>2 DEF batch_delete, Writes, DeletePlan
    <3>. QED  BY <3>3
  <2>. QED  BY <2>1, <2>2
<1>5. CASE Notify(h)
  <2>. DEFINE st == [handler[h] EXCEPT !.tell = Tail(@)]
  <2>1. DOMAIN st = Fields /\ st.req = handler[h].req /\ Continue(h, st)
        /\ st.done = handler[h].done /\ st.log = handler[h].log
    BY <1>0, <1>5 DEF Notify, Fields
  <2>. HIDE DEF st
  <2>. QED  BY <1>5, <2>1 DEF Notify, Passes
<1>6. CASE Fail(h)
  BY <1>6 DEF Fail, Quiet, EntityInv, StateInv
<1>. QED  BY <1>1, <1>2, <1>3, <1>4, <1>5, <1>6 DEF HandlerStep
-----------------------------------------------------------------------------
(* Times at every step. *)

LEMMA OrderedTail ==
    ASSUME NEW req, NEW P, NEW plans \in Seq(P), plans # <<>>, NEW time, Ordered(req, plans, time)
    PROVE  Ordered(req, Tail(plans), time)
<1>1. /\ Len(plans) \in Nat \ {0} /\ DOMAIN plans = 1 .. Len(plans)
      /\ DOMAIN Tail(plans) = 1 .. Len(plans) - 1
      /\ \A k \in 1 .. Len(plans) - 1 : Tail(plans)[k] = plans[k + 1]
  BY HeadTailProperties, LenProperties, TailIn
<1>2. \A k \in DOMAIN Tail(plans) : k + 1 \in DOMAIN plans /\ Tail(plans)[k] = plans[k + 1]
  BY <1>1
<1>3. \A j, k \in DOMAIN Tail(plans) : j < k => j + 1 < k + 1
  BY <1>1
<1>. QED  BY <1>2, <1>3 DEF Ordered

LEMMA OrderedAppend ==
    ASSUME NEW req, NEW P, NEW plans \in Seq(P), NEW plan, NEW time, Ordered(req, plans, time),
           req.op # "batchDelete" => Timed(plan.doc, time) /\ After(req, plan.doc["modifiedAt"], plans)
    PROVE  Ordered(req, Append(plans, plan), time)
<1>. DEFINE more == Append(plans, plan)
<1>1. /\ Len(plans) \in Nat /\ DOMAIN plans = 1 .. Len(plans) /\ DOMAIN more = 1 .. Len(plans) + 1
      /\ more[Len(plans) + 1] = plan /\ \A k \in 1 .. Len(plans) : more[k] = plans[k]
  BY AppendProperties, LenProperties
<1>. HIDE DEF more
<1>2. \A k \in DOMAIN more : k \in DOMAIN plans \/ k = Len(plans) + 1
  BY <1>1
<1>3. \A j, k \in DOMAIN more : j < k => j \in DOMAIN plans
  BY <1>1
<1>. QED  BY <1>1, <1>2, <1>3 DEF Ordered, After, more

LEMMA OrderedLater ==
    ASSUME NEW req, NEW plans, NEW time \in Nat, NEW later \in Nat, time <= later,
           Ordered(req, plans, time)
    PROVE  Ordered(req, plans, later)
<1>1. \A doc : Timed(doc, time) => Timed(doc, later)
  BY DEF Timed
<1>. QED  BY <1>1 DEF Ordered

LEMMA OrderedBefore ==
    ASSUME NEW req, NEW plans, NEW time \in Nat, Ordered(req, plans, time)
    PROVE  After(req, time, plans)
BY DEF Ordered, After, Timed

LEMMA NoneOrdered ==
    ASSUME NEW req, NEW time
    PROVE  Ordered(req, <<>>, time)
BY DEF Ordered

\* A handler that goes on reads the clock anew.
LEMMA ContinuesTimes ==
    ASSUME EntityInv, NEW h \in Handlers, NEW st, NEW P, DOMAIN st = Fields,
           st.req = handler[h].req, st.done \in Seq(P), st.log \in Seq(P),
           st.done = <<>> \/ st.log = <<>>, Continue(h, st), now' = now,
           Ordered(st.req, st.done, now), Ordered(st.req, st.log, now),
           handler[h].req \in Requests,
           \A id \in Ids : store'[id] # NoDoc => Timed(store'[id], now), Active(h)'
    PROVE  HandlerTimes(h)'
<1>. DEFINE next == Settled(st)
<1>1. handler'[h] = next
  BY ContinuesUnsent DEF EntityInv
<1>2. /\ next.req = st.req /\ next.pc # "write"
      /\ next.pc = "read" => next.at = now
      /\ next.done \in {<<>>, st.done} /\ next.log \in {<<>>, st.log, st.done}
  BY SettledUnsent
<1>. HIDE DEF next
<1>3. Ordered(next.req, next.done, now) /\ Ordered(next.req, next.log, now)
  BY <1>2, NoneOrdered
<1>4. now \in Nat
  BY DEF EntityInv, StateInv
<1>5. After(next.req, now, next.done)
  BY <1>3, <1>4, OrderedBefore
<1>6. \A id \in IdsOf(next.req) : id \in Ids
  BY <1>2, ItemOfRequest DEF IdsOf, ToSet
<1>7. \A id \in Ids : store'[id] # NoDoc => store'[id]["modifiedAt"] <= now
  BY <1>4 DEF Timed
<1>. QED  BY <1>1, <1>2, <1>3, <1>5, <1>6, <1>7 DEF HandlerTimes

LEMMA WorkSequences ==
    ASSUME NEW st, NEW time, NEW ws, Work(st, time, ws)
    PROVE  \E P : /\ st.done \in Seq(P) /\ st.log \in Seq(P)
                  /\ \A p \in P : PlanFor(st.req, p) /\ Wrote(ws, st.num, p)
BY DEF Work

LEMMA PassesTimes ==
    ASSUME EntityInv, TimesInv, NEW h \in Handlers, Active(h), Passes(h),
           now' = now, Active(h)'
    PROVE  HandlerTimes(h)'
<1>1. PICK st : /\ DOMAIN st = Fields /\ st.req = handler[h].req
                /\ st.done = handler[h].done /\ st.log = handler[h].log
                /\ Continue(h, st)
  BY DEF Passes
<1>2. Work(handler[h], now, writes) /\ AtStep(handler[h]) /\ handler[h].req \in Requests
  BY HandlerAt DEF EntityInv
<1>3. PICK P : st.done \in Seq(P) /\ st.log \in Seq(P)
  BY <1>1, <1>2, WorkSequences
<1>4. st.done = <<>> \/ st.log = <<>>
  BY <1>1, <1>2 DEF AtStep
<1>5. Ordered(st.req, st.done, now) /\ Ordered(st.req, st.log, now)
  BY <1>1 DEF TimesInv, HandlerTimes
<1>6. \A id \in Ids : store'[id] # NoDoc => Timed(store'[id], now)
  BY DEF Passes, TimesInv
<1>. QED  BY <1>1, <1>2, <1>3, <1>4, <1>5, <1>6, ContinuesTimes

LEMMA RecordTimes ==
    ASSUME EntityInv, TimesInv, NEW h \in Handlers, Active(h), RecordMutation(h), Active(h)'
    PROVE  HandlerTimes(h)'
<1>. DEFINE st == [handler[h] EXCEPT !.log = Tail(@)]
<1>1. /\ Work(handler[h], now, writes) /\ AtStep(handler[h]) /\ handler[h].req \in Requests
      /\ DOMAIN handler[h] = Fields
  BY HandlerAt DEF EntityInv
<1>2. handler[h].pc = "log" /\ Continue(h, st) /\ store' = store /\ now' = now
  BY DEF RecordMutation
<1>3. /\ DOMAIN st = Fields /\ st.req = handler[h].req /\ st.done = handler[h].done
      /\ st.log = Tail(handler[h].log)
  BY <1>1 DEF Fields
<1>. HIDE DEF st
<1>4. st.done = <<>> /\ handler[h].log # <<>>
  BY <1>1, <1>2, <1>3 DEF AtStep
<1>5. PICK P : handler[h].done \in Seq(P) /\ handler[h].log \in Seq(P)
  BY <1>1, WorkSequences
<1>6. st.done \in Seq(P) /\ st.log \in Seq(P)
  BY <1>3, <1>4, <1>5, TailIn
<1>7. Ordered(st.req, st.done, now) /\ Ordered(st.req, st.log, now)
  BY <1>3, <1>4, <1>5, OrderedTail, NoneOrdered DEF TimesInv, HandlerTimes
<1>8. \A id \in Ids : store'[id] # NoDoc => Timed(store'[id], now)
  BY <1>2 DEF TimesInv
<1>. QED  BY <1>1, <1>2, <1>3, <1>4, <1>6, <1>7, <1>8, ContinuesTimes

\* What is read next to what is done.
LEMMA ReadTimes ==
    ASSUME EntityInv, TimesInv, NEW h \in Handlers, Active(h), ReadEntity(h)
    PROVE  HandlerTimes(h)'
<1>. DEFINE st == handler[h]
            plan == Read(h)
            id == Item(h).id
<1>1. /\ Work(st, now, writes) /\ AtStep(st) /\ st.req \in Requests /\ DOMAIN st = Fields
      /\ now \in Nat \ {0}
  BY HandlerAt DEF EntityInv
<1>2. /\ st.pc = "read" /\ st.req.op # "batchDelete" /\ Precheck(st.req, Item(h)) = 0
      /\ plan.write # "none" /\ st.todo # <<>>
      /\ store' = store /\ now' = now /\ raced' = raced
      /\ handler'[h] = [st EXCEPT !.pc = "write", !.plan = plan]
  BY <1>1 DEF ReadEntity, Reads, AtStep, EntityInv, StateInv
<1>3. PlanFor(st.req, plan) /\ plan.id = id /\ id \in Ids
  <2>1. Reads(h)
    BY DEF ReadEntity
  <2>. QED  BY <1>2, <2>1, ReadOutcome DEF EntityInv
<1>4. Item(h) \in ToSet(st.req.items)
  BY <1>1, <1>2, TailIn DEF Work, Item
<1>5. plan = Outcome(st.req, Item(h), store[id], st.at, now) /\ st.at \in Nat /\ st.at <= now
  BY <1>1 DEF Read, Work
<1>6. /\ \/ plan.write # "delete" /\ plan.doc["modifiedAt"] \in {st.at, now}
         \/ plan.write = "delete" /\ plan.doc = store[id] /\ store[id] # NoDoc /\ st.req.op = "delete"
      /\ st.req.op \in {"appendAttrs", "updateAttrs"} /\ plan.changed = {} =>
            store[id] # NoDoc /\ SameBut(store[id], plan.doc) /\ plan.write # "delete"
      /\ plan.write = "insert" => st.req.op \in {"create", "batchCreate", "batchUpsert"}
  BY <1>1, <1>2, <1>4, <1>5, OutcomeIsTimed
<1>7. /\ handler'[h].req = st.req /\ handler'[h].pc = "write" /\ handler'[h].plan = plan
      /\ handler'[h].done = st.done /\ handler'[h].log = st.log
  BY <1>1, <1>2 DEF Fields
<1>8. /\ Ordered(st.req, st.done, now) /\ Ordered(st.req, st.log, now)
      /\ After(st.req, st.at, st.done)
      /\ id \notin raced /\ store[id] # NoDoc => store[id]["modifiedAt"] <= st.at
      /\ store[id] # NoDoc => Timed(store[id], now)
  <2>1. HandlerTimes(h)
    BY DEF TimesInv
  <2>2. id \in IdsOf(st.req)
    BY <1>1, <1>4, ItemOfRequest
  <2>. QED  BY <1>2, <1>3, <2>1, <2>2 DEF HandlerTimes, TimesInv
<1>. HIDE DEF plan, id
<1>9. Timed(plan.doc, now)
  <2>1. CASE plan.write # "delete" /\ plan.doc["modifiedAt"] \in {st.at, now}
    <3>1. "modifiedAt" \in DOMAIN plan.doc
      BY <1>3, <2>1 DEF PlanFor, Dated
    <3>. QED  BY <1>1, <1>5, <2>1, <3>1 DEF Timed
  <2>2. CASE plan.doc = store[id] /\ store[id] # NoDoc
    BY <1>8, <2>2
  <2>. QED  BY <1>6, <2>1, <2>2
<1>10. After(st.req, plan.doc["modifiedAt"], st.done)
  <2>1. CASE plan.doc["modifiedAt"] = st.at
    BY <1>8, <2>1
  <2>2. CASE plan.doc["modifiedAt"] = now
    BY <1>1, <1>8, <2>2, OrderedBefore
  <2>3. CASE st.req.op = "delete"
    <3>1. st.done = <<>>
      BY <1>1, <1>2, <2>3 DEF AtStep, Collecting
    <3>. QED  BY <3>1 DEF After
  <2>. QED  BY <1>6, <2>1, <2>2, <2>3
<1>11. id \notin raced /\ store[id] # NoDoc => store[id]["modifiedAt"] <= plan.doc["modifiedAt"]
  <2>. SUFFICES ASSUME id \notin raced, store[id] # NoDoc
                PROVE  store[id]["modifiedAt"] <= plan.doc["modifiedAt"]
    OBVIOUS
  <2>1. store[id]["modifiedAt"] \in Nat /\ store[id]["modifiedAt"] <= st.at
        /\ store[id]["modifiedAt"] <= now
    BY <1>1, <1>8 DEF Timed
  <2>. QED  BY <1>6, <2>1
<1>12. ~st.req.localOnly /\ ~Records(st.req, plan) =>
          store[id] # NoDoc /\ SameBut(store[id], plan.doc) /\ plan.write # "delete"
  BY <1>6 DEF Records
<1>. HIDE DEF st
<1>. QED  BY <1>2, <1>3, <1>6, <1>7, <1>8, <1>9, <1>10, <1>11, <1>12 DEF HandlerTimes

LEMMA WrittenIs ==
    ASSUME NEW st, DOMAIN st = Fields, NEW plan
    PROVE  /\ DOMAIN Written(st, plan) = Fields /\ Written(st, plan).req = st.req
           /\ Written(st, plan).done = Append(st.done, plan) /\ Written(st, plan).log = st.log
BY DEF Written, Fields

\* What the store holds after a write.
LEMMA WriteTimes ==
    ASSUME EntityInv, TimesInv, NEW h \in Handlers, Active(h), NEW plan, Writes(h, plan)
    PROVE  /\ plan.id \in Ids /\ plan.id \in IdsOf(handler[h].req)
           /\ store'[plan.id] = PlanDoc(plan)
           /\ \A id \in Ids : id # plan.id => store'[id] = store[id]
           /\ \A id \in Ids : store'[id] # NoDoc => Timed(store'[id], now)
           /\ Wrote(writes', handler[h].num, plan) /\ Extends(writes, writes')
           /\ handler[h].req.op # "batchDelete" =>
                 /\ handler[h].pc = "write" /\ plan = handler[h].plan /\ Timed(plan.doc, now)
<1>1. /\ Work(handler[h], now, writes) /\ AtStep(handler[h]) /\ handler[h].req \in Requests
  BY HandlerAt DEF EntityInv
<1>2. PlanFor(handler[h].req, plan) /\ Write(plan, handler[h].num)
  BY DEF Writes
<1>3. plan.id \in Ids /\ plan.id \in IdsOf(handler[h].req)
  BY <1>1, <1>2, ItemOfRequest DEF PlanFor, IdsOf, ToSet
<1>4. /\ store'[plan.id] = PlanDoc(plan)
      /\ \A id \in Ids : id # plan.id => store'[id] = store[id]
      /\ Wrote(writes', handler[h].num, plan) /\ Extends(writes, writes')
  BY <1>2, <1>3, WriteRecords DEF EntityInv
<1>5. handler[h].req.op # "batchDelete" =>
         handler[h].pc = "write" /\ plan = handler[h].plan /\ Timed(plan.doc, now)
  BY DEF Writes, TimesInv, HandlerTimes
<1>6. store'[plan.id] # NoDoc => Timed(store'[plan.id], now)
  BY <1>2, <1>4, <1>5 DEF PlanDoc, PlanFor
<1>7. \A id \in Ids : store'[id] # NoDoc => Timed(store'[id], now)
  BY <1>4, <1>6 DEF TimesInv
<1>. QED  BY <1>3, <1>4, <1>5, <1>7

LEMMA WritesTimes ==
    ASSUME EntityInv, TimesInv, NEW h \in Handlers, Active(h), NEW plan, Writes(h, plan),
           now' = now, Active(h)'
    PROVE  HandlerTimes(h)'
<1>. DEFINE st == Written(handler[h], plan)
<1>1. /\ Work(handler[h], now, writes) /\ AtStep(handler[h]) /\ handler[h].req \in Requests
      /\ DOMAIN handler[h] = Fields
  BY HandlerAt DEF EntityInv
<1>2. Continue(h, st) /\ handler[h].pc \in {"read", "write"}
  BY DEF Writes
<1>3. /\ DOMAIN st = Fields /\ st.req = handler[h].req
      /\ st.done = Append(handler[h].done, plan) /\ st.log = handler[h].log
  BY <1>1, WrittenIs
<1>. HIDE DEF st
<1>4. st.log = <<>>
  BY <1>1, <1>2, <1>3 DEF AtStep
<1>5. PICK P : handler[h].done \in Seq(P) /\ handler[h].log \in Seq(P)
  BY <1>1, WorkSequences
<1>. DEFINE Q == P \cup {plan}
<1>6. st.done \in Seq(Q) /\ st.log \in Seq(Q)
  <2>1. handler[h].done \in Seq(Q) /\ plan \in Q
    BY <1>5, SeqMonotonic
  <2>. HIDE DEF Q
  <2>. QED  BY <1>3, <1>4, <2>1
<1>. HIDE DEF Q
<1>7. Ordered(st.req, st.done, now) /\ Ordered(st.req, st.log, now)
  <2>1. HandlerTimes(h)
    BY DEF TimesInv
  <2>2. st.req.op # "batchDelete" => /\ Timed(plan.doc, now)
                                     /\ After(st.req, plan.doc["modifiedAt"], handler[h].done)
    BY <1>3, <2>1, WriteTimes DEF HandlerTimes
  <2>3. Ordered(st.req, handler[h].done, now)
    BY <1>3, <2>1 DEF HandlerTimes
  <2>. QED  BY <1>3, <1>4, <1>5, <2>2, <2>3, OrderedAppend, NoneOrdered
<1>8. \A id \in Ids : store'[id] # NoDoc => Timed(store'[id], now)
  BY WriteTimes
<1>. QED  BY <1>1, <1>2, <1>3, <1>4, <1>6, <1>7, <1>8, ContinuesTimes

\* A step of one handler leaves to the others what they work on, but for what they
\* race for.
LEMMA OthersTimes ==
    ASSUME EntityInv, RacesAreNoted, TimesInv, NEW h \in Handlers, Active(h), Puts(h),
           UNCHANGED <<now, raced>>,
           NEW g \in Handlers, g # h, handler'[g] = handler[g], Active(g)'
    PROVE  HandlerTimes(g)'
<1>1. Active(g)
  BY DEF Active
<1>2. HandlerTimes(g)
  BY <1>1 DEF TimesInv
<1>3. /\ Work(handler[g], now, writes) /\ AtStep(handler[g])
      /\ handler[g].req \in Requests /\ handler[h].req \in Requests
  BY <1>1, HandlerAt DEF EntityInv
<1>4. \A id \in IdsOf(handler[g].req) \ raced : store'[id] = store[id]
  <2>. SUFFICES ASSUME NEW id \in IdsOf(handler[g].req) \ raced
                PROVE  store'[id] = store[id]
    OBVIOUS
  <2>1. id \in Ids /\ id \notin IdsOf(handler[h].req)
    BY <1>1, <1>3, ItemOfRequest DEF RacesAreNoted, IdsOf, ToSet
  <2>. QED  BY <2>1 DEF Puts, PlanFor, Write, EntityInv, StateInv
<1>5. handler[g].pc = "write" => handler[g].plan.id \in IdsOf(handler[g].req)
  BY <1>3 DEF Work, AtStep, PlanFor
<1>. QED  BY <1>2, <1>4, <1>5 DEF HandlerTimes

\* What the log tells next, under a name that only documents with their own id share.
LEMMA MutationIsNext ==
    ASSUME EntityInv, NEW h \in Handlers, Active(h), handler[h].pc = "log"
    PROVE  LET st == handler[h] IN
           /\ st.log # <<>> /\ st.done = <<>>
           /\ PlanFor(st.req, Head(st.log)) /\ Wrote(writes, st.num, Head(st.log))
           /\ NoDocIsNone => \A id : id \notin Misnamed =>
                 (Mutation(st).id = id <=> Head(st.log).id = id)
           /\ Mutation(st).snapshot = PlanDoc(Head(st.log))
           /\ Mutation(st).version =
                 IF st.req.op = "batchDelete" THEN now ELSE Head(st.log).doc["modifiedAt"]
<1>1. /\ Work(handler[h], now, writes) /\ AtStep(handler[h]) /\ now \in Nat
  BY HandlerAt DEF EntityInv
<1>2. handler[h].log # <<>> /\ handler[h].done = <<>>
  BY <1>1 DEF AtStep
<1>3. PlanFor(handler[h].req, Head(handler[h].log)) /\ Wrote(writes, handler[h].num, Head(handler[h].log))
  BY <1>1, <1>2, NextIsWritten
<1>4. /\ Mutation(handler[h]).id \in {Head(handler[h].log).id,
                                     recorded_id(PlanDoc(Head(handler[h].log)))}
      /\ Mutation(handler[h]).snapshot = PlanDoc(Head(handler[h].log))
  BY <1>1, <1>2, MutationIsWritten
<1>5. Mutation(handler[h]).version =
         IF handler[h].req.op = "batchDelete" THEN now ELSE Head(handler[h].log).doc["modifiedAt"]
  BY DEF Mutation
<1>6. ASSUME NoDocIsNone, NEW id, id \notin Misnamed
      PROVE  Mutation(handler[h]).id = id <=> Head(handler[h].log).id = id
  <2>. DEFINE plan == Head(handler[h].log)
  <2>1. CASE plan.write = "delete"
    <3>1. Mutation(handler[h]).id = plan.id
      BY <2>1 DEF Mutation, entity_id
    <3>. QED  BY <3>1
  <2>2. CASE plan.write # "delete"
    <3>1. PlanDoc(plan) = plan.doc /\ plan.doc # NoDoc
      BY <1>3, <1>6, <2>2 DEF PlanDoc, PlanFor, Dated, NoDocIsNone
    <3>2. PICK w \in DOMAIN writes : writes[w].id = plan.id /\ writes[w].doc = plan.doc
      BY <1>3, <3>1 DEF Wrote
    <3>3. CASE recorded_id(plan.doc) # plan.id
      <4>1. {plan.id, recorded_id(plan.doc)} \subseteq Misnamed
        BY <3>1, <3>2, <3>3 DEF Misnamed, NamesOf
      <4>. QED  BY <1>4, <1>6, <3>1, <4>1
    <3>4. CASE recorded_id(plan.doc) = plan.id
      BY <1>4, <3>1, <3>4
    <3>. QED  BY <3>3, <3>4
  <2>. QED  BY <2>1, <2>2
<1>. QED  BY <1>2, <1>3, <1>4, <1>5, <1>6

LEMMA ReplayTimes ==
    ASSUME EntityInv, TimesInv, NEW h \in Handlers, Active(h),
           \/ log' = log
           \/ handler[h].pc = "log" /\ log' = Append(log, Mutation(handler[h])),
           NEW id \in Ids, Replayed(id)' # NoDoc
    PROVE  Timed(Replayed(id)', now)
<1>1. CASE log' = log
  BY <1>1, ReplayedStays DEF TimesInv
<1>2. CASE handler[h].pc = "log" /\ log' = Append(log, Mutation(handler[h]))
  <2>. DEFINE st == handler[h]
              m == Mutation(st)
  <2>1. log \in Seq(ToSet(log))
    BY DEF EntityInv, StateInv
  <2>2. Replayed(id)' = ReplayOne(id, Replayed(id), m)
    BY <1>2, <2>1, ReplayedAppends
  <2>3. Replayed(id)' \in {Replayed(id), m.snapshot}
    BY <2>2 DEF ReplayOne, apply_entity_mutation
  <2>4. m.snapshot = PlanDoc(Head(st.log)) /\ PlanFor(st.req, Head(st.log)) /\ st.log # <<>>
    BY <1>2, MutationIsNext
  <2>5. m.snapshot # NoDoc => Timed(m.snapshot, now)
    <3>1. Work(st, now, writes)
      BY HandlerAt DEF EntityInv
    <3>2. PICK P : st.log \in Seq(P)
      BY <3>1, WorkSequences
    <3>3. 1 \in DOMAIN st.log /\ Head(st.log) = st.log[1]
      BY <2>4, <3>2, HeadTailProperties, LenProperties, TailIn
    <3>4. Ordered(st.req, st.log, now)
      BY DEF TimesInv, HandlerTimes
    <3>. QED  BY <2>4, <3>3, <3>4 DEF Ordered, PlanDoc, PlanFor
  <2>. HIDE DEF m
  <2>. QED  BY <2>3, <2>5 DEF TimesInv
<1>. QED  BY <1>1, <1>2

LEMMA HandlerStepTimes ==
    ASSUME EntityInv, RacesAreNoted, TimesInv,
           NEW h \in Handlers, Active(h), HandlerStep(h), Quiet'
    PROVE  TimesInv'
<1>1. /\ Moves(h) /\ Puts(h) /\ UNCHANGED <<now, raced>>
      /\ \/ log' = log
         \/ handler[h].pc = "log" /\ log' = Append(log, Mutation(handler[h]))
  BY HandlerStepIs DEF EntityInv
<1>2. \/ Passes(h) \/ ReadEntity(h) \/ RecordMutation(h)
      \/ \E plan : Writes(h, plan)
  BY QuietStep
<1>3. \A id \in Ids : store'[id] # NoDoc => Timed(store'[id], now)
  <2>1. CASE store' = store
    BY <2>1 DEF TimesInv
  <2>2. ASSUME NEW plan, Writes(h, plan)
        PROVE  \A id \in Ids : store'[id] # NoDoc => Timed(store'[id], now)
    BY <2>2, WriteTimes
  <2>. QED  BY <1>2, <2>1, <2>2 DEF Passes, ReadEntity, RecordMutation
<1>4. \A id \in Ids : Replayed(id)' # NoDoc => Timed(Replayed(id)', now)
  BY <1>1, ReplayTimes
<1>5. ASSUME NEW g \in Handlers, Active(g)'
      PROVE  HandlerTimes(g)'
  <2>1. CASE g = h
    BY <1>1, <1>2, <1>5, <2>1, PassesTimes, ReadTimes, RecordTimes, WritesTimes
  <2>2. CASE g # h
    <3>1. handler'[g] = handler[g]
      <4>1. DOMAIN handler[h] = Fields
        BY HandlerAt DEF EntityInv
      <4>. QED  BY <1>1, <2>2, <4>1, MovesHandler DEF EntityInv
    <3>. QED  BY <1>1, <1>5, <2>2, <3>1, OthersTimes
  <2>. QED  BY <2>1, <2>2
<1>. QED  BY <1>1, <1>3, <1>4, <1>5 DEF TimesInv

LEMMA StartTimes ==
    ASSUME EntityInv, TimesInv, NEW h \in Handlers, NEW req \in Requests, Start(h, req)
    PROVE  TimesInv'
<1>1. /\ UNCHANGED <<store, now, log>> /\ raced \subseteq raced'
      /\ \A g \in Handlers : g # h => handler'[g] = handler[g]
      /\ handler'[h].pc = "read" /\ handler'[h].req = req /\ handler'[h].at = now
      /\ handler'[h].done = <<>> /\ handler'[h].log = <<>>
      /\ now \in Nat
  BY DEF Start, EntityInv, StateInv
<1>2. HandlerTimes(h)'
  <2>1. Ordered(req, <<>>, now) /\ After(req, now, <<>>)
    BY <1>1, NoneOrdered, OrderedBefore
  <2>2. \A id \in IdsOf(req) : id \in Ids
    BY ItemOfRequest DEF IdsOf, ToSet
  <2>3. \A id \in Ids : store[id] # NoDoc => store[id]["modifiedAt"] <= now
    BY <1>1 DEF TimesInv, Timed
  <2>. QED  BY <1>1, <2>1, <2>2, <2>3 DEF HandlerTimes
<1>3. ASSUME NEW g \in Handlers, g # h, Active(g)'
      PROVE  HandlerTimes(g)'
  <2>1. Active(g) /\ handler'[g] = handler[g]
    BY <1>1, <1>3 DEF Active
  <2>2. HandlerTimes(g)
    BY <2>1 DEF TimesInv
  <2>. QED  BY <1>1, <2>1, <2>2 DEF HandlerTimes
<1>4. \A id \in Ids : Replayed(id)' = Replayed(id)
  BY <1>1, ReplayedStays
<1>. QED  BY <1>1, <1>2, <1>3, <1>4 DEF TimesInv

LEMMA TickTimes ==
    ASSUME EntityInv, TimesInv, UNCHANGED <<store, handler, log, raced>>, now' \in Nat, now <= now'
    PROVE  TimesInv'
<1>1. now \in Nat
  BY DEF EntityInv, StateInv
<1>2. \A doc : Timed(doc, now) => Timed(doc, now')
  BY <1>1 DEF Timed
<1>3. \A id \in Ids : Replayed(id)' = Replayed(id)
  BY ReplayedStays
<1>4. ASSUME NEW g \in Handlers, Active(g)'
      PROVE  HandlerTimes(g)'
  <2>1. HandlerTimes(g)
    BY <1>4 DEF Active, TimesInv
  <2>2. /\ Ordered(handler[g].req, handler[g].done, now') /\ Ordered(handler[g].req, handler[g].log, now')
    BY <1>1, <2>1, OrderedLater DEF HandlerTimes
  <2>. QED  BY <1>2, <2>1, <2>2 DEF HandlerTimes
<1>. QED  BY <1>2, <1>3, <1>4 DEF TimesInv
-----------------------------------------------------------------------------
(* What is owed at every step. *)

LEMMA OwesNothing ==
    ASSUME NEW req, NEW id, NEW doc, NEW held
    PROVE  Owes(req, <<>>, id, doc, held) <=> Same(doc, held)
BY DEF Owes

\* The write of a further plan.
LEMMA OwesMore ==
    ASSUME NEW req, NEW P, NEW plans \in Seq(P), NEW plan, NEW id, NEW doc, NEW new, NEW held,
           NEW time \in Nat, Owes(req, plans, id, doc, held), Ordered(req, plans, time),
           doc # NoDoc => Timed(doc, time), held # NoDoc => Timed(held, time),
           IF plan.id = id THEN new = PlanDoc(plan) ELSE new = doc,
           req.op # "batchDelete" =>
               /\ Timed(plan.doc, time) /\ After(req, plan.doc["modifiedAt"], plans)
               /\ plan.id = id /\ doc # NoDoc => doc["modifiedAt"] <= plan.doc["modifiedAt"]
    PROVE  Owes(req, Append(plans, plan), id, new, held)
<1>. DEFINE more == Append(plans, plan)
            n == Len(plans) + 1
<1>1. /\ Len(plans) \in Nat /\ DOMAIN plans = 1 .. Len(plans) /\ DOMAIN more = 1 .. n
      /\ more[n] = plan /\ \A k \in 1 .. Len(plans) : more[k] = plans[k]
  BY AppendProperties, LenProperties
<1>. HIDE DEF more
<1>2. /\ \A k \in DOMAIN more : k \in DOMAIN plans \/ k = n
      /\ DOMAIN plans \subseteq DOMAIN more /\ n \in DOMAIN more
      /\ \A k \in DOMAIN plans : more[k] = plans[k] /\ ~(n <= k) /\ k <= n
  BY <1>1
<1>3. more[n] = plan
  BY <1>1
<1>. HIDE DEF n
<1>4. CASE plan.id # id
  BY <1>2, <1>3, <1>4 DEF Owes, more
<1>5. CASE plan.id = id
  <2>1. ASSUME NEW k \in DOMAIN more, more[k].id = id,
               \A j \in DOMAIN more : more[j].id = id => j <= k
        PROVE  PlanDoc(more[k]) = new
    BY <1>2, <1>3, <1>5, <2>1
  <2>2. ASSUME req.op # "batchDelete", held # NoDoc, NEW k \in DOMAIN more, more[k].id = id
        PROVE  held["modifiedAt"] <= more[k].doc["modifiedAt"]
    <3>1. CASE k \in DOMAIN plans
      BY <1>2, <2>2, <3>1 DEF Owes
    <3>2. CASE k = n /\ \E j \in DOMAIN plans : plans[j].id = id
      <4>1. PICK j \in DOMAIN plans : plans[j].id = id
        BY <3>2
      <4>2. /\ held["modifiedAt"] <= plans[j].doc["modifiedAt"]
            /\ plans[j].doc["modifiedAt"] <= plan.doc["modifiedAt"]
        BY <2>2, <4>1 DEF Owes, After
      <4>3. /\ held["modifiedAt"] \in Nat /\ plans[j].doc["modifiedAt"] \in Nat
            /\ plan.doc["modifiedAt"] \in Nat
        BY <2>2, <4>1 DEF Ordered, Timed
      <4>. QED  BY <1>3, <3>2, <4>2, <4>3
    <3>3. CASE k = n /\ \A j \in DOMAIN plans : plans[j].id # id
      <4>1. Same(doc, held)
        BY <3>3 DEF Owes
      <4>2. doc # NoDoc /\ held["modifiedAt"] <= doc["modifiedAt"]
        BY <2>2, <4>1 DEF Same
      <4>3. /\ held["modifiedAt"] \in Nat /\ doc["modifiedAt"] \in Nat
            /\ plan.doc["modifiedAt"] \in Nat /\ doc["modifiedAt"] <= plan.doc["modifiedAt"]
        BY <1>5, <2>2, <4>2 DEF Timed
      <4>. QED  BY <1>3, <3>3, <4>2, <4>3
    <3>. QED  BY <1>2, <3>1, <3>2, <3>3
  <2>3. ~ \A k \in DOMAIN more : more[k].id # id
    BY <1>2, <1>3, <1>5
  <2>. QED  BY <2>1, <2>2, <2>3 DEF Owes, more
<1>. QED  BY <1>4, <1>5

\* The log tells of the first plan.
LEMMA OwesLess ==
    ASSUME NEW req, NEW P, NEW plans \in Seq(P), plans # <<>>, NEW id, NEW doc, NEW held,
           NEW time \in Nat, Owes(req, plans, id, doc, held), Ordered(req, plans, time),
           doc # NoDoc => Timed(doc, time), held # NoDoc => Timed(held, time),
           NEW mutation, mutation.id = id <=> plans[1].id = id, mutation.snapshot = PlanDoc(plans[1]),
           mutation.version = IF req.op = "batchDelete" THEN time ELSE plans[1].doc["modifiedAt"]
    PROVE  Owes(req, Tail(plans), id, doc, ReplayOne(id, held, mutation))
<1>. DEFINE rest == Tail(plans)
            now_held == ReplayOne(id, held, mutation)
<1>1. /\ Len(plans) \in Nat \ {0} /\ DOMAIN plans = 1 .. Len(plans)
      /\ DOMAIN rest = 1 .. Len(plans) - 1
      /\ \A k \in 1 .. Len(plans) - 1 : rest[k] = plans[k + 1]
  BY HeadTailProperties, LenProperties, TailIn
<1>. HIDE DEF rest
<1>2. /\ 1 \in DOMAIN plans
      /\ \A k \in DOMAIN rest : k + 1 \in DOMAIN plans /\ rest[k] = plans[k + 1] /\ 1 < k + 1
      /\ \A k \in DOMAIN plans : k # 1 => k - 1 \in DOMAIN rest /\ rest[k - 1] = plans[k]
  <2>1. \A k \in DOMAIN plans : k # 1 => k - 1 \in DOMAIN rest /\ (k - 1) + 1 = k
    BY <1>1
  <2>2. \A k \in DOMAIN rest : k + 1 \in DOMAIN plans /\ 1 < k + 1
    BY <1>1
  <2>. QED  BY <1>1, <2>1, <2>2
<1>3. \A j, k \in DOMAIN rest : j \in Int /\ k \in Int
  BY <1>1
<1>4. \A k \in DOMAIN rest : rest[k].id = id /\ (\A j \in DOMAIN rest : rest[j].id = id => j <= k)
                                => PlanDoc(rest[k]) = doc
  <2>. SUFFICES ASSUME NEW k \in DOMAIN rest, rest[k].id = id,
                       \A j \in DOMAIN rest : rest[j].id = id => j <= k
                PROVE  PlanDoc(rest[k]) = doc
    OBVIOUS
  <2>1. \A j \in DOMAIN plans : plans[j].id = id => j <= k + 1
    <3>. SUFFICES ASSUME NEW j \in DOMAIN plans, plans[j].id = id
                  PROVE  j <= k + 1
      OBVIOUS
    <3>1. CASE j = 1
      BY <1>1, <1>2, <3>1
    <3>2. CASE j # 1
      <4>1. j - 1 \in DOMAIN rest /\ j - 1 <= k /\ j \in Int /\ k \in Int
        BY <1>1, <1>2, <3>2
      <4>. QED  BY <4>1
    <3>. QED  BY <3>1, <3>2
  <2>. QED  BY <1>2, <2>1 DEF Owes
<1>5. CASE plans[1].id # id
  <2>1. now_held = held
    BY <1>5 DEF ReplayOne
  <2>2. (\A k \in DOMAIN rest : rest[k].id # id) => \A k \in DOMAIN plans : plans[k].id # id
    BY <1>2, <1>5
  <2>. HIDE DEF now_held
  <2>. QED  BY <1>2, <1>4, <2>1, <2>2 DEF Owes, rest, now_held
<1>6. CASE plans[1].id = id
  <2>1. now_held = PlanDoc(plans[1])
    <3>1. held # NoDoc => ~(mutation.version < held["modifiedAt"])
      <4>. SUFFICES ASSUME held # NoDoc
                    PROVE  ~(mutation.version < held["modifiedAt"])
        OBVIOUS
      <4>1. held["modifiedAt"] \in Nat /\ held["modifiedAt"] <= time
        BY DEF Timed
      <4>2. CASE req.op = "batchDelete"
        BY <4>1, <4>2
      <4>3. CASE req.op # "batchDelete"
        <5>1. held["modifiedAt"] <= plans[1].doc["modifiedAt"] /\ plans[1].doc["modifiedAt"] \in Nat
          BY <1>2, <1>6, <4>3 DEF Owes, Ordered, Timed
        <5>. QED  BY <4>1, <4>3, <5>1
      <4>. QED  BY <4>2, <4>3
    <3>. QED  BY <1>6, <3>1 DEF ReplayOne, apply_entity_mutation
  <2>2. (\A k \in DOMAIN rest : rest[k].id # id) => Same(doc, now_held)
    <3>. SUFFICES ASSUME \A k \in DOMAIN rest : rest[k].id # id
                  PROVE  Same(doc, now_held)
      OBVIOUS
    <3>1. \A j \in DOMAIN plans : plans[j].id = id => j <= 1
      BY <1>2
    <3>2. now_held = doc
      BY <1>2, <1>6, <2>1, <3>1 DEF Owes
    <3>3. doc # NoDoc => doc["modifiedAt"] <= doc["modifiedAt"]
      BY DEF Timed
    <3>. HIDE DEF now_held
    <3>. QED  BY <3>2, <3>3 DEF Same, SameBut
  <2>3. ASSUME req.op # "batchDelete", now_held # NoDoc, NEW k \in DOMAIN rest, rest[k].id = id
        PROVE  now_held["modifiedAt"] <= rest[k].doc["modifiedAt"]
    <3>1. now_held = plans[1].doc
      BY <2>1, <2>3 DEF PlanDoc
    <3>2. plans[1].doc["modifiedAt"] <= plans[k + 1].doc["modifiedAt"]
      BY <1>2, <2>3 DEF Ordered
    <3>. QED  BY <1>2, <3>1, <3>2
  <2>. HIDE DEF now_held
  <2>. QED  BY <1>4, <2>2, <2>3 DEF Owes, rest, now_held
<1>. QED  BY <1>5, <1>6

\* What a local request has written it has written locally.
LEMMA LocalPlans ==
    ASSUME EntityInv, NEW h \in Handlers, Active(h), handler[h].req.localOnly,
           requests' = requests, NEW plan, Wrote(writes', handler[h].num, plan)
    PROVE  WrittenLocally(plan.id)'
<1>1. handler[h].num \in 1 .. Len(requests) /\ requests[handler[h].num] = handler[h].req
      /\ Len(requests) \in Nat
  BY HandlerAt DEF EntityInv
<1>2. handler[h].num > 0
  BY <1>1
<1>. QED  BY <1>1, <1>2 DEF Wrote, WrittenLocally

LEMMA PassesOwes ==
    ASSUME EntityInv, NEW h \in Handlers, Active(h), Passes(h), requests' = requests, NEW id,
           Owes(handler[h].req, Unsent(handler[h]), id, store[id], Replayed(id)),
           ~WrittenLocally(id)'
    PROVE  Owes(handler[h].req, Debt(h)', id, store'[id], Replayed(id)')
<1>1. PICK st : /\ DOMAIN st = Fields /\ st.req = handler[h].req
                /\ st.done = handler[h].done /\ st.log = handler[h].log
                /\ Continue(h, st)
  BY DEF Passes
<1>2. Work(handler[h], now, writes) /\ AtStep(handler[h])
  BY HandlerAt DEF EntityInv
<1>3. PICK P : /\ handler[h].done \in Seq(P) /\ handler[h].log \in Seq(P)
               /\ \A p \in P : Wrote(writes, handler[h].num, p)
  BY <1>2, WorkSequences
<1>4. /\ store' = store /\ writes' = writes /\ Replayed(id)' = Replayed(id)
  BY ReplayedStays DEF Passes
<1>5. Unsent(st) = Unsent(handler[h]) /\ (st.done = <<>> \/ st.log = <<>>)
  BY <1>1, <1>2 DEF Unsent, AtStep
<1>6. \/ Debt(h)' = Unsent(st)
      \/ Debt(h)' = <<>> /\ ~AllDone(st, Records)
  BY <1>1, <1>3, <1>5, ContinuesUnsent DEF EntityInv
<1>7. CASE Debt(h)' = Unsent(st)
  BY <1>4, <1>5, <1>7
<1>8. CASE Debt(h)' = <<>> /\ ~AllDone(st, Records)
  <2>1. PICK k \in DOMAIN st.done : ~Records(st.req, st.done[k])
    BY <1>8 DEF AllDone
  <2>2. st.req.op \in Collecting /\ st.done # <<>>
    BY <1>1, <1>2, <2>1 DEF AtStep, Passes
  <2>3. st.req.localOnly
    BY <2>1, <2>2 DEF Records, Collecting
  <2>4. \A j \in DOMAIN st.done : st.done[j].id # id
    <3>. SUFFICES ASSUME NEW j \in DOMAIN st.done, st.done[j].id = id
                  PROVE  FALSE
      OBVIOUS
    <3>1. Wrote(writes', handler[h].num, st.done[j])
      BY <1>1, <1>3, <1>4
    <3>. QED  BY <1>1, <2>3, <3>1, LocalPlans
  <2>5. Unsent(st) = st.done
    BY <2>2 DEF Unsent
  <2>6. Same(store[id], Replayed(id))
    BY <1>1, <1>5, <2>4, <2>5 DEF Owes
  <2>. QED  BY <1>4, <1>8, <2>6, OwesNothing
<1>. QED  BY <1>6, <1>7, <1>8

LEMMA ReadOwes ==
    ASSUME EntityInv, NEW h \in Handlers, Active(h), ReadEntity(h), NEW id,
           Owes(handler[h].req, Unsent(handler[h]), id, store[id], Replayed(id))
    PROVE  Owes(handler[h].req, Debt(h)', id, store'[id], Replayed(id)')
<1>1. DOMAIN handler[h] = Fields
  BY HandlerAt DEF EntityInv
<1>2. /\ handler'[h] = [handler[h] EXCEPT !.pc = "write", !.plan = Read(h)]
      /\ store' = store /\ log' = log
  BY <1>1 DEF ReadEntity, EntityInv, StateInv
<1>3. handler'[h].done = handler[h].done /\ handler'[h].log = handler[h].log
      /\ handler'[h].pc = "write"
  BY <1>1, <1>2 DEF Fields
<1>4. Active(h)'
  BY <1>3 DEF Active, Idle
<1>5. Debt(h)' = Unsent(handler[h])
  BY <1>3, <1>4 DEF Debt, Unsent
<1>. QED  BY <1>2, <1>5, ReplayedStays

LEMMA RecordOwes ==
    ASSUME NoDocIsNone, EntityInv, TimesInv, NEW h \in Handlers, Active(h), RecordMutation(h),
           NEW id \in Ids \ Misnamed,
           Owes(handler[h].req, Unsent(handler[h]), id, store[id], Replayed(id))
    PROVE  Owes(handler[h].req, Debt(h)', id, store'[id], Replayed(id)')
<1>. DEFINE st == [handler[h] EXCEPT !.log = Tail(@)]
            m == Mutation(handler[h])
<1>1. /\ Work(handler[h], now, writes) /\ DOMAIN handler[h] = Fields /\ now \in Nat
  BY HandlerAt DEF EntityInv
<1>2. handler[h].pc = "log" /\ Continue(h, st) /\ store' = store /\ log' = Append(log, m)
  BY DEF RecordMutation
<1>3. /\ DOMAIN st = Fields /\ st.req = handler[h].req /\ st.done = handler[h].done
      /\ st.log = Tail(handler[h].log)
  BY <1>1 DEF Fields
<1>. HIDE DEF st
<1>4. PICK P : handler[h].done \in Seq(P) /\ handler[h].log \in Seq(P)
  BY <1>1, WorkSequences
<1>5. /\ handler[h].log # <<>> /\ handler[h].done = <<>>
      /\ m.id = id <=> Head(handler[h].log).id = id
      /\ m.snapshot = PlanDoc(Head(handler[h].log))
      /\ m.version = IF handler[h].req.op = "batchDelete" THEN now
                     ELSE Head(handler[h].log).doc["modifiedAt"]
  BY <1>2, MutationIsNext
<1>6. Head(handler[h].log) = handler[h].log[1] /\ Tail(handler[h].log) \in Seq(P)
  BY <1>4, <1>5, HeadTailProperties, TailIn
<1>7. Unsent(handler[h]) = handler[h].log /\ Unsent(st) = Tail(handler[h].log)
  BY <1>3, <1>5 DEF Unsent
<1>8. Debt(h)' = Unsent(st)
  <2>1. st.done \in Seq(P) /\ st.log \in Seq(P) /\ st.done = <<>> /\ AllDone(st, Records)
    BY <1>3, <1>4, <1>5, <1>6 DEF AllDone
  <2>. QED  BY <1>2, <1>3, <2>1, ContinuesUnsent DEF EntityInv
<1>. HIDE DEF m
<1>9. Replayed(id)' = ReplayOne(id, Replayed(id), m)
  BY <1>2, ReplayedAppends DEF EntityInv, StateInv
<1>10. /\ Ordered(handler[h].req, handler[h].log, now)
       /\ store[id] # NoDoc => Timed(store[id], now)
       /\ Replayed(id) # NoDoc => Timed(Replayed(id), now)
  BY DEF TimesInv, HandlerTimes
<1>11. Owes(handler[h].req, Tail(handler[h].log), id, store[id], ReplayOne(id, Replayed(id), m))
  BY <1>1, <1>4, <1>5, <1>6, <1>7, <1>10, OwesLess
<1>. QED  BY <1>2, <1>7, <1>8, <1>9, <1>11

LEMMA WritesOwes ==
    ASSUME NoDocIsNone, EntityInv, TimesInv, NEW h \in Handlers, Active(h),
           NEW plan, Writes(h, plan), requests' = requests, NEW id \in Ids \ raced,
           Owes(handler[h].req, Unsent(handler[h]), id, store[id], Replayed(id)),
           ~WrittenLocally(id)'
    PROVE  Owes(handler[h].req, Debt(h)', id, store'[id], Replayed(id)')
<1>. DEFINE st == Written(handler[h], plan)
            req == handler[h].req
            done == handler[h].done
<1>1. /\ Work(handler[h], now, writes) /\ AtStep(handler[h]) /\ DOMAIN handler[h] = Fields
      /\ now \in Nat
  BY HandlerAt DEF EntityInv
<1>2. Continue(h, st) /\ handler[h].pc \in {"read", "write"} /\ log' = log
  BY DEF Writes
<1>3. /\ DOMAIN st = Fields /\ st.req = handler[h].req
      /\ st.done = Append(handler[h].done, plan) /\ st.log = handler[h].log
  BY <1>1, WrittenIs
<1>. HIDE DEF st
<1>4. handler[h].log = <<>>
  BY <1>1, <1>2 DEF AtStep
<1>5. PICK P : /\ done \in Seq(P) /\ handler[h].log \in Seq(P)
               /\ \A p \in P : Wrote(writes, handler[h].num, p)
  BY <1>1, WorkSequences
<1>6. /\ store'[plan.id] = PlanDoc(plan)
      /\ \A i \in Ids : i # plan.id => store'[i] = store[i]
      /\ Wrote(writes', handler[h].num, plan) /\ Extends(writes, writes')
      /\ req.op # "batchDelete" =>
            /\ handler[h].pc = "write" /\ plan = handler[h].plan /\ Timed(plan.doc, now)
  BY WriteTimes
<1>7. /\ Len(st.done) \in Nat \ {0} /\ DOMAIN st.done = 1 .. Len(done) + 1 /\ Len(done) \in Nat
      /\ DOMAIN done = 1 .. Len(done)
      /\ st.done[Len(done) + 1] = plan /\ \A k \in DOMAIN done : st.done[k] = done[k]
  BY <1>3, <1>5, AppendProperties, LenProperties
<1>. DEFINE Q == P \cup {plan}
<1>8. st.done \in Seq(Q) /\ st.log \in Seq(Q)
  <2>1. done \in Seq(Q) /\ plan \in Q
    BY <1>5, SeqMonotonic
  <2>. HIDE DEF Q
  <2>. QED  BY <1>3, <1>4, <2>1
<1>. HIDE DEF Q
<1>9. Unsent(st) = st.done /\ Unsent(handler[h]) = done
  <2>1. st.done # <<>>
    BY <1>7
  <2>. QED  BY <1>4, <2>1 DEF Unsent
<1>10. Replayed(id)' = Replayed(id)
  BY <1>2, ReplayedStays
<1>11. /\ Ordered(req, done, now)
       /\ store[id] # NoDoc => Timed(store[id], now)
       /\ Replayed(id) # NoDoc => Timed(Replayed(id), now)
       /\ req.op # "batchDelete" =>
            /\ After(req, plan.doc["modifiedAt"], done)
            /\ plan.id = id /\ store[id] # NoDoc => store[id]["modifiedAt"] <= plan.doc["modifiedAt"]
            /\ plan.id = id /\ ~req.localOnly /\ ~Records(req, plan) =>
                  store[id] # NoDoc /\ SameBut(store[id], plan.doc) /\ plan.write # "delete"
  <2>1. HandlerTimes(h)
    BY DEF TimesInv
  <2>. QED  BY <1>6, <2>1 DEF HandlerTimes, TimesInv
<1>12. Owes(req, st.done, id, store'[id], Replayed(id))
  <2>1. IF plan.id = id THEN store'[id] = PlanDoc(plan) ELSE store'[id] = store[id]
    BY <1>6
  <2>2. Owes(req, done, id, store[id], Replayed(id))
    BY <1>9
  <2>. DEFINE doc == store[id]
              new == store'[id]
              held == Replayed(id)
  <2>3. /\ IF plan.id = id THEN new = PlanDoc(plan) ELSE new = doc
        /\ Owes(req, done, id, doc, held)
        /\ done \in Seq(P) /\ now \in Nat /\ Ordered(req, done, now)
        /\ doc # NoDoc => Timed(doc, now)
        /\ held # NoDoc => Timed(held, now)
        /\ req.op # "batchDelete" =>
               /\ Timed(plan.doc, now) /\ After(req, plan.doc["modifiedAt"], done)
               /\ plan.id = id /\ doc # NoDoc => doc["modifiedAt"] <= plan.doc["modifiedAt"]
    BY <1>1, <1>5, <1>6, <1>11, <2>1, <2>2
  <2>. HIDE DEF req, done, doc, new, held
  <2>4. Owes(req, Append(done, plan), id, new, held)
    BY <2>3, OwesMore
  <2>. QED  BY <1>3, <2>4 DEF done, doc, new, held
<1>13. \/ Debt(h)' = st.done
       \/ Debt(h)' = <<>> /\ ~AllDone(st, Records)
  BY <1>2, <1>3, <1>4, <1>8, <1>9, ContinuesUnsent DEF EntityInv
<1>14. CASE Debt(h)' = st.done
  BY <1>10, <1>12, <1>14
<1>15. CASE Debt(h)' = <<>> /\ ~AllDone(st, Records)
  <2>1. SUFFICES Same(store'[id], Replayed(id))
    BY <1>10, <1>15, OwesNothing
  <2>2. PICK k \in DOMAIN st.done : ~Records(req, st.done[k])
    BY <1>3, <1>15 DEF AllDone
  <2>3. CASE \A j \in DOMAIN st.done : st.done[j].id # id
    BY <1>12, <2>3 DEF Owes
  <2>4. CASE req.localOnly /\ \E j \in DOMAIN st.done : st.done[j].id = id
    <3>1. PICK j \in DOMAIN st.done : st.done[j].id = id
      BY <2>4
    <3>2. Wrote(writes', handler[h].num, st.done[j])
      <4>1. CASE j \in DOMAIN done
        <5>1. Wrote(writes, handler[h].num, st.done[j])
          BY <1>5, <1>7, <4>1
        <5>. QED  BY <1>6, <5>1 DEF Wrote, Extends
      <4>2. CASE j = Len(done) + 1
        BY <1>6, <1>7, <4>2
      <4>. QED  BY <1>7, <4>1, <4>2
    <3>. QED  BY <2>4, <3>1, <3>2, LocalPlans
  <2>5. CASE ~req.localOnly /\ \E j \in DOMAIN st.done : st.done[j].id = id
    <3>1. req.op \in {"appendAttrs", "updateAttrs"}
      BY <2>2, <2>5 DEF Records
    <3>2. done = <<>> /\ req.op # "batchDelete"
      BY <1>1, <3>1 DEF AtStep, Collecting
    <3>3. st.done[k] = plan /\ plan.id = id
      BY <1>7, <2>2, <2>5, <3>2
    <3>4. Same(store[id], Replayed(id))
      BY <1>9, <3>2, OwesNothing
    <3>5. /\ store[id] # NoDoc /\ SameBut(store[id], plan.doc)
          /\ store[id]["modifiedAt"] <= plan.doc["modifiedAt"]
          /\ store'[id] = plan.doc
      BY <1>6, <1>11, <2>2, <2>5, <3>2, <3>3 DEF PlanDoc
    <3>6. /\ Replayed(id) # NoDoc /\ SameBut(store[id], Replayed(id))
          /\ Replayed(id)["modifiedAt"] <= store[id]["modifiedAt"]
      BY <3>4, <3>5 DEF Same
    <3>7. /\ Replayed(id)["modifiedAt"] \in Nat /\ store[id]["modifiedAt"] \in Nat
          /\ plan.doc["modifiedAt"] \in Nat /\ "modifiedAt" \in DOMAIN plan.doc
      BY <1>6, <1>11, <3>2, <3>5, <3>6 DEF Timed
    <3>8. plan.doc # NoDoc
      BY <3>7 DEF NoDocIsNone
    <3>9. SameBut(plan.doc, Replayed(id)) /\ Replayed(id)["modifiedAt"] <= plan.doc["modifiedAt"]
      BY <3>5, <3>6, <3>7 DEF SameBut
    <3>. QED  BY <3>5, <3>6, <3>8, <3>9 DEF Same
  <2>. QED  BY <2>3, <2>4, <2>5
<1>. QED  BY <1>13, <1>14, <1>15

LEMMA HandlerStepAgrees ==
    ASSUME NoDocIsNone, EntityInv, RacesAreNoted, TimesInv,
           NEW h \in Handlers, Active(h), HandlerStep(h), Quiet',
           NEW id \in Ids \ (raced \cup Misnamed), Agrees(id), ~WrittenLocally(id)'
    PROVE  Agrees(id)'
<1>1. /\ Moves(h) /\ Puts(h) /\ requests' = requests
      /\ \/ log' = log
         \/ handler[h].pc = "log" /\ log' = Append(log, Mutation(handler[h]))
  BY HandlerStepIs DEF EntityInv
<1>2. /\ \A g \in Handlers : g # h => handler'[g] = handler[g]
      /\ Active(h)' => handler'[h].req = handler[h].req
  <2>1. DOMAIN handler[h] = Fields
    BY HandlerAt DEF EntityInv
  <2>. QED  BY <1>1, <2>1, MovesHandler DEF EntityInv
<1>3. \A g \in Handlers : g # h => (WorksOn(g, id)' <=> WorksOn(g, id))
  BY <1>2 DEF WorksOn, Active
<1>4. WorksOn(h, id)' => WorksOn(h, id)
  BY <1>2 DEF WorksOn
<1>5. CASE id \notin IdsOf(handler[h].req)
  <2>1. store'[id] = store[id]
    BY <1>1, <1>5 DEF Puts, PlanFor, Write, EntityInv, StateInv
  <2>2. Replayed(id)' = Replayed(id)
    <3>1. CASE log' = log
      BY <3>1, ReplayedStays
    <3>2. CASE handler[h].pc = "log" /\ log' = Append(log, Mutation(handler[h]))
      <4>1. Mutation(handler[h]).id # id
        BY <1>5, <3>2, MutationIsNext DEF PlanFor
      <4>2. Replayed(id)' = ReplayOne(id, Replayed(id), Mutation(handler[h]))
        BY <3>2, ReplayedAppends DEF EntityInv, StateInv
      <4>. QED  BY <4>1, <4>2 DEF ReplayOne
    <3>. QED  BY <1>1, <3>1, <3>2
  <2>3. ~WorksOn(h, id) /\ ~WorksOn(h, id)'
    BY <1>4, <1>5 DEF WorksOn
  <2>. QED  BY <1>2, <1>3, <2>1, <2>2, <2>3 DEF Agrees
<1>6. CASE id \in IdsOf(handler[h].req)
  <2>1. Owes(handler[h].req, Unsent(handler[h]), id, store[id], Replayed(id))
    BY <1>6 DEF Agrees, WorksOn
  <2>2. Owes(handler[h].req, Debt(h)', id, store'[id], Replayed(id)')
    <3>1. \/ Passes(h) \/ ReadEntity(h) \/ RecordMutation(h)
          \/ \E plan : Writes(h, plan)
      BY QuietStep
    <3>. QED  BY <1>1, <2>1, <3>1, PassesOwes, ReadOwes, RecordOwes, WritesOwes
  <2>3. \A g \in Handlers : g # h => ~WorksOn(g, id)
    BY <1>6 DEF WorksOn, RacesAreNoted
  <2>4. Active(h)' => WorksOn(h, id)' /\ Debt(h)' = Unsent(handler'[h])
    BY <1>2, <1>6 DEF WorksOn, Debt
  <2>5. ~Active(h)' => Same(store'[id], Replayed(id)')
    BY <2>2, OwesNothing DEF Debt
  <2>. QED  BY <1>2, <1>3, <2>2, <2>3, <2>4, <2>5 DEF Agrees, WorksOn
<1>. QED  BY <1>5, <1>6

\* Whoever comes later works on what is agreed, or races.
LEMMA StartAgrees ==
    ASSUME EntityInv, NEW h \in Handlers, NEW req \in Requests, Start(h, req),
           NEW id \in Ids \ raced', Agrees(id)
    PROVE  Agrees(id)'
<1>1. /\ ~Active(h) /\ store' = store /\ log' = log
      /\ \A g \in Handlers : g # h => handler'[g] = handler[g]
      /\ handler'[h].req = req /\ handler'[h].done = <<>> /\ handler'[h].log = <<>>
      /\ \A o \in Handlers : Active(o) => IdsOf(req) \cap IdsOf(handler[o].req) \subseteq raced'
  BY DEF Start, EntityInv, StateInv
<1>2. Replayed(id)' = Replayed(id)
  BY <1>1, ReplayedStays
<1>3. \A g \in Handlers : g # h => (WorksOn(g, id)' <=> WorksOn(g, id))
  BY <1>1 DEF WorksOn, Active
<1>4. ~WorksOn(h, id)
  BY <1>1 DEF WorksOn
<1>5. ASSUME WorksOn(h, id)'
      PROVE  Owes(req, Unsent(handler'[h]), id, store[id], Replayed(id))
  <2>1. \A g \in Handlers : ~WorksOn(g, id)
    BY <1>1, <1>4, <1>5 DEF WorksOn
  <2>2. Same(store[id], Replayed(id))
    BY <2>1 DEF Agrees
  <2>3. Unsent(handler'[h]) = <<>>
    BY <1>1 DEF Unsent
  <2>. QED  BY <2>2, <2>3, OwesNothing
<1>6. ASSUME NEW g \in Handlers, WorksOn(g, id)'
      PROVE  Owes(handler'[g].req, Unsent(handler'[g]), id, store'[id], Replayed(id)')
  BY <1>1, <1>2, <1>3, <1>5, <1>6 DEF Agrees
<1>7. (\A g \in Handlers : ~WorksOn(g, id)') => Same(store'[id], Replayed(id)')
  BY <1>1, <1>2, <1>3, <1>4 DEF Agrees
<1>. QED  BY <1>6, <1>7 DEF Agrees

LEMMA WritesStay ==
    ASSUME EntityInv, [Next]_vars
    PROVE  Extends(writes, writes')
<1>1. writes \in Seq(ToSet(writes))
  BY DEF EntityInv, StateInv
<1>2. CASE UNCHANGED <<store, writes>>
  BY <1>2 DEF Extends
<1>3. ASSUME NEW plan, NEW num, Write(plan, num)
      PROVE  Extends(writes, writes')
  BY <1>1, <1>3, AppendExtends DEF Write
<1>. QED  BY <1>2, <1>3, NextWrites DEF Puts

LEMMA MisnamedStays ==
    ASSUME EntityInv, [Next]_vars
    PROVE  Misnamed \subseteq Misnamed'
BY WritesStay DEF Extends, Misnamed, NamesOf

LEMMA LocallyStays ==
    ASSUME EntityInv, [Next]_vars, NEW id, WrittenLocally(id)
    PROVE  WrittenLocally(id)'
<1>1. writes \in Seq(ToSet(writes)) /\ requests \in Seq(Requests)
      /\ \A w \in DOMAIN writes : writes[w].num \in 0 .. Len(requests)
  BY DEF EntityInv, StateInv
<1>2. Extends(writes, writes')
  BY WritesStay
<1>3. Extends(requests, requests')
  <2>1. ASSUME NEW h \in Handlers, NEW req \in Requests, Start(h, req)
        PROVE  Extends(requests, requests')
    BY <1>1, <2>1, AppendProperties DEF Start, Extends
  <2>2. ASSUME NEW h \in Handlers, HandlerStep(h)
        PROVE  requests' = requests
    <3>1. Active(h)
      BY <2>2, HandlerStepIsActive
    <3>. QED  BY <2>2, <3>1, HandlerStepIs DEF EntityInv
  <2>3. CASE Crash \/ Tick \/ UNCHANGED vars
    BY <2>3 DEF Crash, Tick, vars, Extends
  <2>. QED  BY <2>1, <2>2, <2>3 DEF Next, HandlerStep, Extends
<1>4. PICK w \in DOMAIN writes : /\ writes[w].id = id /\ writes[w].num > 0
                                 /\ requests[writes[w].num].localOnly
  BY DEF WrittenLocally
<1>5. writes[w].num \in DOMAIN requests
  BY <1>1, <1>4, LenProperties
<1>. QED  BY <1>2, <1>3, <1>4, <1>5 DEF WrittenLocally, Extends

LEMMA NextReplay ==
    ASSUME NoDocIsNone, EntityInv, RacesAreNoted, ReplayInv, [Next]_vars
    PROVE  ReplayInv'
<1>. DEFINE left == raced' \cup Misnamed'
<1>. SUFFICES ASSUME Quiet'
              PROVE  TimesInv' /\ \A id \in Ids \ left : WrittenLocally(id)' \/ Agrees(id)'
  BY DEF ReplayInv
<1>1. /\ TimesInv
      /\ \A id \in Ids \ (raced \cup Misnamed) : WrittenLocally(id)' \/ Agrees(id)
      /\ Misnamed \subseteq Misnamed'
  BY QuietBefore, LocallyStays, MisnamedStays DEF ReplayInv
<1>2. ASSUME NEW h \in Handlers, HandlerStep(h)
      PROVE  TimesInv' /\ \A id \in Ids \ left : WrittenLocally(id)' \/ Agrees(id)'
  <2>1. Active(h)
    BY <1>2, HandlerStepIsActive
  <2>2. raced' = raced
    BY <1>2, <2>1, HandlerStepIs DEF EntityInv
  <2>. QED  BY <1>1, <1>2, <2>1, <2>2, HandlerStepTimes, HandlerStepAgrees
<1>3. ASSUME NEW h \in Handlers, NEW req \in Requests, Start(h, req)
      PROVE  TimesInv' /\ \A id \in Ids \ left : WrittenLocally(id)' \/ Agrees(id)'
  <2>1. raced \subseteq raced'
    BY <1>3 DEF Start
  <2>. QED  BY <1>1, <1>3, <2>1, StartTimes, StartAgrees
<1>4. CASE Crash
  BY <1>4 DEF Crash, Quiet, EntityInv, StateInv
<1>5. CASE Tick \/ UNCHANGED vars
  <2>1. UNCHANGED <<store, handler, log, raced>> /\ now' \in Nat /\ now <= now'
    BY <1>5 DEF Tick, vars, EntityInv, StateInv
  <2>2. \A id : Agrees(id) => Agrees(id)'
    BY <2>1, ReplayedStays DEF Agrees, WorksOn, Active
  <2>. QED  BY <1>1, <2>1, <2>2, TickTimes
<1>. QED  BY <1>2, <1>3, <1>4, <1>5 DEF Next, HandlerStep
-----------------------------------------------------------------------------
(* The log at the start. *)

LEMMA InitReplayed ==
    ASSUME Init, NEW id \in Ids
    PROVE  Replayed(id) = store[id]
<1>1. /\ log \in Seq(ToSet(log))
      /\ \A k \in DOMAIN log : log[k].id = id => log[k].snapshot = store[id]
      /\ store[id] # NoDoc => \E k \in DOMAIN log : log[k].id = id
  BY InitSequences DEF FirstMutation, Present
<1>2. PICK g : Replay!Iterates(g, id, log, Len(log)) /\ Replay!Fold(id, log) = g[Len(log)]
  BY <1>1, Replay!FoldIsIterated
<1>3. PICK n \in Nat : n = Len(log) /\ DOMAIN log = 1 .. n
  BY <1>1, LenProperties
<1>. DEFINE S == {k \in 0 .. n : /\ g[k] \in {NoDoc, store[id]}
                                /\ \A j \in 1 .. k : log[j].id = id => g[k] = store[id]}
<1>4. 0 \in S
  BY <1>2, <1>3 DEF Replay!Iterates
<1>5. \A k \in 0 .. n - 1 : k \in S => k + 1 \in S
  <2>. SUFFICES ASSUME NEW k \in 0 .. n - 1, k \in S
                PROVE  k + 1 \in S
    OBVIOUS
  <2>1. k + 1 \in 1 .. n /\ (k + 1) - 1 = k /\ k + 1 \in 0 .. n
    OBVIOUS
  <2>2. g[k + 1] = ReplayOne(id, g[k], log[k + 1])
    BY <1>2, <1>3, <2>1 DEF Replay!Iterates
  <2>3. CASE log[k + 1].id # id
    <3>1. g[k + 1] = g[k]
      BY <2>2, <2>3 DEF ReplayOne
    <3>2. \A j \in 1 .. k + 1 : j \in 1 .. k \/ j = k + 1
      OBVIOUS
    <3>. QED  BY <2>1, <2>3, <3>1, <3>2
  <2>4. CASE log[k + 1].id = id
    <3>1. g[k + 1] = store[id]
      BY <1>1, <1>3, <2>1, <2>2, <2>4 DEF ReplayOne, apply_entity_mutation
    <3>. QED  BY <2>1, <3>1
  <2>. QED  BY <2>3, <2>4
<1>. HIDE DEF S
<1>6. n \in S
  BY <1>4, <1>5, Replay!InductionUpTo
<1>7. g[n] = store[id]
  BY <1>1, <1>3, <1>6 DEF S
<1>. QED  BY <1>2, <1>3, <1>7, ReplayedIsFold

LEMMA InitReplay == Init => ReplayInv
<1>. SUFFICES ASSUME Init
              PROVE  TimesInv /\ \A id \in Ids : Agrees(id)
  BY DEF ReplayInv
<1>1. store \in Stores /\ now = 1 /\ \A h \in Handlers : ~Active(h)
  BY DEF Init, Active
<1>2. \A id \in Ids : store[id] # NoDoc => Timed(store[id], now)
  BY <1>1, StoreAssumption DEF Timed
<1>3. \A id \in Ids : Replayed(id) = store[id]
  BY InitReplayed
<1>4. \A id \in Ids : Same(store[id], store[id])
  BY <1>1, <1>2 DEF Same, SameBut, Timed
<1>. QED  BY <1>1, <1>2, <1>3, <1>4 DEF TimesInv, Agrees, WorksOn

\* A broker at rest holds what its log makes of an entity, but for modifiedAt, unless a
\* write of the entity was local, a request ended in an error, two requests raced for it,
\* or it was stored without its own id.
THEOREM ReplayedLogsAreStores ==
    ASSUME NoDocIsNone
    PROVE  Spec => []ReplayedLogIsStore
<1>1. Init => RacesAreNoted /\ PlansAreFresh
  BY DEF Init, RacesAreNoted, PlansAreFresh, Active
<1>2. EntityInv /\ RacesAreNoted /\ PlansAreFresh /\ [Next]_vars => RacesAreNoted' /\ PlansAreFresh'
  BY NextFresh
<1>3. EntityInv /\ RacesAreNoted /\ ReplayInv /\ [Next]_vars => ReplayInv'
  BY NextReplay
<1>4. ReplayInv => ReplayedLogIsStore
  <2>. SUFFICES ASSUME ReplayInv, AtRest, NEW id \in Ids \ (raced \cup Misnamed),
                       ~WrittenLocally(id)
                PROVE  \/ store[id] = NoDoc /\ Replayed(id) = NoDoc
                       \/ /\ store[id] # NoDoc
                          /\ Replayed(id) # NoDoc
                          /\ Without(store[id], {"modifiedAt"}) = Without(Replayed(id), {"modifiedAt"})
                          /\ Replayed(id)["modifiedAt"] <= store[id]["modifiedAt"]
    BY DEF ReplayedLogIsStore, WrittenLocally
  <2>1. Agrees(id)
    BY DEF ReplayInv, AtRest, Quiet
  <2>2. Same(store[id], Replayed(id))
    BY <2>1 DEF AtRest, Agrees, WorksOn
  <2>. QED  BY <2>2 DEF Same, SameBut
<1>. QED  BY <1>1, <1>2, <1>3, <1>4, InitReplay, EntitiesAreKept, PTL DEF Spec
=============================================================================
