-------------------------- MODULE EntityService_proofs --------------------------
(* What the entity handlers of one broker keep, whatever the requests: their      *)
(* state between two awaits, what their effects say of the store, what a report   *)
(* says of its items, and that of racing creations one succeeds.                  *)
EXTENDS EntityService, Integers, FiniteSetTheorems, SequenceTheorems, TLAPS

-----------------------------------------------------------------------------
(* Sequences. *)

LEMMA AppendedOne ==
    ASSUME NEW s, s \in Seq(ToSet(s)), NEW x
    PROVE  /\ Append(s, x) \in Seq(ToSet(Append(s, x)))
           /\ DOMAIN Append(s, x) = DOMAIN s \cup {Len(s) + 1}
           /\ DOMAIN s = 1 .. Len(s)
           /\ Len(s) \in Nat
           /\ Len(Append(s, x)) = Len(s) + 1
           /\ Append(s, x)[Len(s) + 1] = x
           /\ \A k \in DOMAIN s : Append(s, x)[k] = s[k]
           /\ ToSet(Append(s, x)) = ToSet(s) \cup {x}
<1>1. Append(s, x) \in Seq(ToSet(s) \cup {x})
  <2>1. s \in Seq(ToSet(s) \cup {x})
    BY SeqMonotonic
  <2>. QED  BY <2>1
<1>2. /\ Len(s) \in Nat /\ DOMAIN s = 1 .. Len(s)
      /\ Len(Append(s, x)) = Len(s) + 1
      /\ DOMAIN Append(s, x) = 1 .. Len(s) + 1
      /\ Append(s, x)[Len(s) + 1] = x
      /\ \A k \in 1 .. Len(s) : Append(s, x)[k] = s[k]
  BY AppendProperties
<1>3. ToSet(Append(s, x)) = ToSet(s) \cup {x}
  BY <1>2 DEF ToSet
<1>. QED  BY <1>1, <1>2, <1>3

LEMMA ConcatIn ==
    ASSUME NEW P, NEW s \in Seq(P), NEW t \in Seq(P)
    PROVE  s \o t \in Seq(P)
BY ConcatProperties

LEMMA TailIn ==
    ASSUME NEW P, NEW s \in Seq(P), s # <<>>
    PROVE  /\ Tail(s) \in Seq(P)
           /\ Head(s) \in P
           /\ Len(Tail(s)) = Len(s) - 1
           /\ Len(s) \in Nat \ {0}
           /\ ToSet(s) = ToSet(Tail(s)) \cup {Head(s)}
<1>1. /\ Tail(s) \in Seq(P) /\ Head(s) \in P /\ Head(s) = s[1]
      /\ Len(s) \in Nat \ {0} /\ Len(Tail(s)) = Len(s) - 1
      /\ \A k \in 1 .. Len(Tail(s)) : Tail(s)[k] = s[k + 1]
  BY HeadTailProperties, LenProperties, EmptySeq
<1>2. DOMAIN s = 1 .. Len(s) /\ DOMAIN Tail(s) = 1 .. Len(s) - 1
  BY <1>1, LenProperties
<1>3. \A k \in 2 .. Len(s) : k - 1 \in 1 .. Len(s) - 1 /\ Tail(s)[k - 1] = s[k]
  <2>. SUFFICES ASSUME NEW k \in 2 .. Len(s)
                PROVE  k - 1 \in 1 .. Len(s) - 1 /\ Tail(s)[k - 1] = s[k]
    OBVIOUS
  <2>1. k - 1 \in 1 .. Len(s) - 1 /\ (k - 1) + 1 = k
    BY <1>1
  <2>. QED  BY <1>1, <2>1
<1>4. ToSet(s) \subseteq ToSet(Tail(s)) \cup {Head(s)}
  <2>. SUFFICES ASSUME NEW k \in 1 .. Len(s)
                PROVE  s[k] \in ToSet(Tail(s)) \cup {Head(s)}
    BY <1>2 DEF ToSet
  <2>1. CASE k = 1
    BY <2>1, <1>1
  <2>2. CASE k # 1
    <3>1. k \in 2 .. Len(s)
      BY <2>2, <1>1
    <3>. QED  BY <3>1, <1>2, <1>3 DEF ToSet
  <2>. QED  BY <2>1, <2>2
<1>5. ToSet(Tail(s)) \cup {Head(s)} \subseteq ToSet(s)
  <2>1. Head(s) \in ToSet(s)
    BY <1>1, <1>2 DEF ToSet
  <2>2. ASSUME NEW k \in 1 .. Len(s) - 1 PROVE Tail(s)[k] \in ToSet(s)
    <3>1. k \in 1 .. Len(Tail(s)) /\ k + 1 \in 1 .. Len(s)
      BY <1>1
    <3>. QED  BY <3>1, <1>1, <1>2 DEF ToSet
  <2>. QED  BY <1>2, <2>1, <2>2 DEF ToSet
<1>. QED  BY <1>1, <1>4, <1>5

LEMMA ConcatRange ==
    ASSUME NEW P, NEW s \in Seq(P), NEW t \in Seq(P)
    PROVE  ToSet(s \o t) = ToSet(s) \cup ToSet(t)
<1>1. ToSet(s) = Range(s) /\ ToSet(t) = Range(t) /\ ToSet(s \o t) = Range(s \o t)
  BY DEF ToSet, Range
<1>. QED  BY <1>1, RangeConcatenation

LEMMA InjectionIsOnto ==
    ASSUME NEW D, NEW S, IsFiniteSet(S), Cardinality(D) = Cardinality(S),
           NEW f \in [D -> S], \A i, j \in D : f[i] = f[j] => i = j
    PROVE  \A x \in S : \E d \in D : f[d] = x
<1>1. f \in Injection(D, S)
  BY DEF Injection, IsInjective
<1>2. f \in Surjection(D, S)
  BY <1>1, FS_Injection
<1>. QED  BY <1>2 DEF Surjection

\* Each element of a finite set once.
LEMMA SetToSeqIsInjection ==
    ASSUME NEW S, IsFiniteSet(S)
    PROVE  /\ SetToSeq(S) \in Seq(S)
           /\ \A i, j \in DOMAIN SetToSeq(S) : SetToSeq(S)[i] = SetToSeq(S)[j] => i = j
           /\ \A x \in S : \E i \in DOMAIN SetToSeq(S) : SetToSeq(S)[i] = x
<1>1. Cardinality(S) \in Nat /\ ExistsBijection(1 .. Cardinality(S), S)
  BY FS_CardinalityType
<1>2. \E f \in [1 .. Cardinality(S) -> S] : IsInjective(f)
  BY <1>1 DEF ExistsBijection, Bijection, Injection
<1>. DEFINE q == SetToSeq(S)
<1>3. q \in [1 .. Cardinality(S) -> S] /\ IsInjective(q)
  BY <1>2 DEF SetToSeq
<1>. HIDE DEF q
<1>4. q \in Seq(S)
  BY <1>1, <1>3
<1>5. \A i, j \in DOMAIN q : q[i] = q[j] => i = j
  BY <1>3 DEF IsInjective
<1>6. \A x \in S : \E i \in DOMAIN q : q[i] = x
  <2>1. IsFiniteSet(1 .. Cardinality(S)) /\ Cardinality(1 .. Cardinality(S)) = Cardinality(S)
    BY <1>1, FS_Interval
  <2>. DEFINE D == 1 .. Cardinality(S)
  <2>2. Cardinality(D) = Cardinality(S) /\ q \in [D -> S] /\ DOMAIN q = D
    BY <1>3, <2>1
  <2>. HIDE DEF D
  <2>3. \A x \in S : \E d \in D : q[d] = x
    BY <2>2, <1>5, InjectionIsOnto
  <2>. QED  BY <2>2, <2>3
<1>. QED  BY <1>4, <1>5, <1>6 DEF q
-----------------------------------------------------------------------------
(* What a handler plans to write. *)

\* A document as the store holds it.
Dated(doc) == "modifiedAt" \in DOMAIN doc

PlanFor(req, p) ==
    /\ p.id \in IdsOf(req)
    /\ p.write \in {"insert", "replace", "delete"}
    /\ p.kind = "Deleted" <=> p.write = "delete"
    /\ req.op = "batchDelete" => p.write = "delete"
    /\ p.write # "delete" => Dated(p.doc)

Statuses == {400, 404, 409, 500}

LEMMA ItemOfRequest ==
    ASSUME NEW req \in Requests, NEW item \in ToSet(req.items)
    PROVE  /\ item.id \in IdsOf(req)
           /\ item.id \in Ids
           /\ req.op \in Operations
BY RequestAssumption DEF IdsOf, ToSet

LEMMA PreparedForCreate ==
    ASSUME NEW payload, NEW at
    PROVE  /\ Dated(prepare_entity_for_create(payload, at))
           /\ prepare_entity_for_create(payload, at)["modifiedAt"] = at
BY DEF With, Without, Dated, prepare_entity_for_create

LEMMA PreparedForReplace ==
    ASSUME NEW payload, NEW id, NEW existing, NEW at
    PROVE  Dated(prepare_entity_for_replace(payload, id, existing, at))
BY DEF With, Without, Dated, prepare_entity_for_replace

\* A merge patch with a modifiedAt leaves it in the document.
LEMMA MergedUpsert ==
    ASSUME NEW existing, NEW patch, NEW at \in Nat, patch["modifiedAt"] = at, Dated(patch)
    PROVE  Dated(apply_merge_patch(existing, patch))
BY BoundAssumption
   DEF Dated, apply_merge_patch, MergeObject, MergeMember, Over, Without, reserved_member

\* What any handler makes of a stored document is a refusal or a document to store
\* under the item's id.
LEMMA OutcomeIsPlan ==
    ASSUME NEW req \in Requests, req.op # "batchDelete",
           NEW item \in ToSet(req.items), Precheck(req, item) = 0,
           NEW existing, existing = NoDoc \/ Dated(existing),
           NEW prepared \in Nat, NEW at
    PROVE  LET p == Outcome(req, item, existing, prepared, at) IN
           \/ p.write = "none" /\ p.status \in Statuses
           \/ PlanFor(req, p) /\ p.id = item.id
<1>. DEFINE p == Outcome(req, item, existing, prepared, at)
            Good(q) == \/ q.write = "none" /\ q.status \in Statuses
                       \/ PlanFor(req, q) /\ q.id = item.id
<1>. SUFFICES Good(p)
  OBVIOUS
<1>1. \A status \in Statuses : Good(Refused(status))
  BY DEF Refused
<1>2. ASSUME NEW doc, Dated(doc), NEW kind, kind # "Deleted", NEW changed,
             NEW write \in {"insert", "replace"}
      PROVE  Good(Plan(write, item.id, doc, kind, changed))
  BY <1>2, ItemOfRequest DEF Plan, PlanFor
<1>3. ASSUME NEW doc, Dated(doc), NEW changed
      PROVE  Good(Updated(item.id, doc, changed))
  BY <1>2, <1>3 DEF Updated
<1>4. Good(delete(item, existing))
  BY ItemOfRequest DEF delete, Plan, PlanFor
<1>. HIDE DEF Good
<1>5. Good(Refused(404)) /\ Good(Refused(409)) /\ Good(Refused(400))
  BY <1>1 DEF Statuses
<1>6. CASE req.op \in {"create", "batchCreate"}
  <2>1. p = create(item, existing, prepared)
    BY <1>6 DEF Outcome
  <2>3. Dated(prepare_entity_for_create(item.payload, prepared))
    BY PreparedForCreate
  <2>. QED  BY <1>2, <1>5, <2>1, <2>3 DEF create
<1>7. CASE req.op = "batchUpsert"
  <2>. DEFINE payload == prepare_entity_for_create(item.payload, prepared)
  <2>1. p = batch_upsert(item, existing, req.flag, prepared, at)
    BY <1>7 DEF Outcome
  <2>3. Dated(payload) /\ payload["modifiedAt"] = prepared
    BY PreparedForCreate
  <2>. HIDE DEF payload
  <2>5. Dated(apply_merge_patch(existing, payload))
    BY <2>3, MergedUpsert
  <2>6. Dated(prepare_entity_for_replace(payload, item.id, existing, at))
    BY PreparedForReplace
  <2>. USE DEF payload
  <2>7. CASE existing = NoDoc
    BY <1>2, <2>1, <2>3, <2>7 DEF batch_upsert
  <2>8. CASE existing # NoDoc
    BY <1>3, <2>1, <2>5, <2>6, <2>8 DEF batch_upsert
  <2>. QED  BY <2>7, <2>8
<1>8. CASE req.op \notin {"create", "batchCreate", "batchUpsert"} /\ existing = NoDoc
  <2>1. p = Refused(404)
    BY <1>8 DEF Outcome, NotFound
  <2>. QED  BY <1>5, <2>1
<1>9. CASE req.op \notin {"create", "batchCreate", "batchUpsert"} /\ existing # NoDoc
  <2>1. Dated(existing)
    BY <1>9
  <2>2. Good(merge(item, existing, at))
    <3>1. Dated(With(With(apply_merge_patch(existing, item.payload), "id", item.id), "modifiedAt", at))
      BY DEF Dated, With
    <3>. QED  BY <1>3, <3>1 DEF merge
  <2>3. \A doc : Dated(With(doc, "modifiedAt", at))
    BY DEF Dated, With
  <2>5. ASSUME NEW noOverwrite
        PROVE  /\ Good(append_attrs(item, existing, noOverwrite, at))
               /\ Dated(append_attrs(item, existing, noOverwrite, at).doc)
    BY <1>3, <2>3 DEF append_attrs, Updated, Plan
  <2>6. Good(update_attrs(item, existing, at))
    BY <1>3, <2>3 DEF update_attrs
  <2>7. Good(batch_update(item, existing, req.flag, at))
    BY <1>3, <2>5 DEF batch_update
  <2>8. Good(replace(item, existing, at))
    BY <1>3, <1>5, PreparedForReplace DEF replace
  <2>11. Good(patch_attr(item, existing, req.attr, at))
    BY <1>3, <2>3 DEF patch_attr
  <2>12. Good(replace_attr(item, existing, req.attr, at))
    BY <1>3, <2>3 DEF replace_attr
  <2>13. Good(delete_attr(item, existing, req.attr, at))
    BY <1>3, <2>3 DEF delete_attr
  <2>14. \/ p = Refused(404)
         \/ p = Edited(req, item, existing, at)
    BY <1>9 DEF Outcome
  <2>. HIDE DEF p
  <2>15. p = Edited(req, item, existing, at) =>
         \/ p = delete(item, existing) \/ p = merge(item, existing, at)
         \/ p = replace(item, existing, at) \/ p = append_attrs(item, existing, req.flag, at)
         \/ p = update_attrs(item, existing, at) \/ p = batch_update(item, existing, req.flag, at)
         \/ p = delete_attr(item, existing, req.attr, at)
         \/ p = patch_attr(item, existing, req.attr, at)
         \/ p = replace_attr(item, existing, req.attr, at)
    <3>1. req.op \in Operations
      BY ItemOfRequest
    <3>. QED  BY <1>9, <3>1 DEF Edited, Operations
  <2>. QED  BY <1>4, <1>5, <2>14, <2>2, <2>5, <2>6, <2>7, <2>8, <2>11, <2>12, <2>13, <2>15
<1>. QED  BY <1>6, <1>7, <1>8, <1>9
-----------------------------------------------------------------------------
(* What a handler holds between two awaits. *)

Fields == {"pc", "num", "req", "at", "todo", "plan", "done", "tell", "log", "success", "errors"}
Error == [id : Ids \cup {"unknown"}, status : Statuses]

\* The document a plan leaves.
PlanDoc(p) == IF p.write = "delete" THEN NoDoc ELSE p.doc

\* Request num has written what p planned.
Wrote(ws, num, p) ==
    \E w \in DOMAIN ws : /\ ws[w].num = num
                         /\ ws[w].id = p.id
                         /\ ws[w].doc = PlanDoc(p)
                         /\ ws[w].changed = p.changed

\* What is done, and what is still to be told and recorded, is written.
Work(st, time, ws) ==
    /\ DOMAIN st = Fields
    /\ st.req \in Requests
    /\ st.at \in 1 .. time
    /\ st.todo \in Seq(ToSet(st.req.items))
    /\ st.plan # NoPlan => PlanFor(st.req, st.plan)
    /\ st.success \in Seq(Ids)
    /\ st.errors \in Seq(Error)
    /\ \E P : /\ {st.done, st.tell, st.log} \subseteq Seq(P)
              /\ \A p \in P : PlanFor(st.req, p) /\ Wrote(ws, st.num, p)

\* Before a handler goes on to its next step.
Ready(st) ==
    /\ st.req.op \in Collecting => st.plan = NoPlan
    /\ st.req.op \in Collecting /\ st.todo # <<>> => st.tell = <<>> /\ st.log = <<>>
    /\ st.req.op \notin Collecting => Len(st.done) <= 1
    /\ st.req.op \notin Collecting /\ st.plan = NoPlan =>
          st.done = <<>> /\ st.tell = <<>> /\ st.log = <<>>

AtStep(st) ==
    /\ st.pc \in {"read", "write", "tell", "log"}
    /\ st.pc \in {"read", "write"} => st.todo # <<>> /\ st.tell = <<>> /\ st.log = <<>>
    /\ st.pc = "read" => st.plan = NoPlan
    /\ st.pc = "write" => st.plan # NoPlan /\ st.plan.id = Head(st.todo).id
    /\ st.pc = "tell" => st.tell # <<>>
    /\ st.pc = "log" => st.tell = <<>> /\ st.log # <<>>
    /\ st.pc \in {"tell", "log"} \/ st.req.op \notin Collecting => st.done = <<>>
    /\ st.pc \in {"tell", "log"} /\ st.req.op \in Collecting => st.todo = <<>>
    /\ st.pc # "write" /\ st.req.op \in Collecting => st.plan = NoPlan
    /\ st.pc \in {"tell", "log"} /\ st.req.op \notin Collecting => st.plan # NoPlan

\* Nothing is left to do.
Finished(st) ==
    /\ st.pc = "answer"
    /\ st.todo = <<>> /\ st.plan = NoPlan
    /\ st.done = <<>> /\ st.tell = <<>> /\ st.log = <<>>

LEMMA SettledIs ==
    ASSUME NEW st
    PROVE  \/ /\ st.req.op \in Collecting /\ st.todo # <<>>
              /\ Settled(st) = [st EXCEPT !.pc = "read", !.at = now]
           \/ /\ ~(st.req.op \in Collecting /\ st.todo # <<>>)
              /\ \/ Due(st).tell # <<>> /\ Settled(st) = [Due(st) EXCEPT !.pc = "tell"]
                 \/ /\ Due(st).tell = <<>> /\ Due(st).log # <<>>
                    /\ Settled(st) = [Due(st) EXCEPT !.pc = "log"]
                 \/ /\ Due(st).tell = <<>> /\ Due(st).log = <<>>
                    /\ \/ /\ st.todo # <<>>
                          /\ Settled(st) = [Through(Due(st)) EXCEPT !.pc = "read", !.at = now]
                       \/ /\ st.todo = <<>>
                          /\ Settled(st) = [Through(Due(st)) EXCEPT !.pc = "answer"]
BY DEF Settled

LEMMA DueWork ==
    ASSUME NEW st, NEW ws, NEW time, Work(st, time, ws)
    PROVE  /\ Work(Due(st), time, ws)
           /\ Due(st).num = st.num /\ Due(st).req = st.req /\ Due(st).at = st.at
           /\ Due(st).todo = st.todo /\ Due(st).plan = st.plan
           /\ Due(st).success = st.success /\ Due(st).errors = st.errors
           /\ Due(st).done = <<>>
<1>. DEFINE due == Due(st)
<1>1. PICK P : /\ {st.done, st.tell, st.log} \subseteq Seq(P)
               /\ \A p \in P : PlanFor(st.req, p) /\ Wrote(ws, st.num, p)
  BY DEF Work
<1>2. DOMAIN st = Fields
  BY DEF Work
<1>3. /\ DOMAIN due = Fields
      /\ due.num = st.num /\ due.req = st.req /\ due.at = st.at /\ due.todo = st.todo
      /\ due.plan = st.plan /\ due.success = st.success /\ due.errors = st.errors
      /\ due.done = <<>>
      /\ due.tell = st.tell \o IF AllDone(st, Tells) THEN st.done ELSE <<>>
      /\ due.log = st.log \o IF AllDone(st, Records) THEN st.done ELSE <<>>
  BY <1>2 DEF Due, Fields
<1>. HIDE DEF due
<1>4. \A s, q \in Seq(P) : s \o q \in Seq(P)
  BY ConcatIn
<1>5. <<>> \in Seq(P)
  OBVIOUS
<1>6. {due.done, due.tell, due.log} \subseteq Seq(P)
  BY <1>1, <1>3, <1>4, <1>5
<1>7. Work(due, time, ws)
  BY <1>1, <1>3, <1>6 DEF Work
<1>. QED  BY <1>3, <1>7 DEF due

LEMMA ThroughWork ==
    ASSUME NEW st, NEW ws, NEW time, Work(st, time, ws)
    PROVE  /\ Work(Through(st), time, ws)
           /\ Through(st).num = st.num /\ Through(st).req = st.req
           /\ Through(st).todo = st.todo /\ Through(st).plan = NoPlan
           /\ Through(st).errors = st.errors /\ Through(st).done = st.done
           /\ Through(st).tell = st.tell /\ Through(st).log = st.log
           /\ st.plan = NoPlan => Through(st) = st
           /\ st.plan # NoPlan => Through(st).success = Append(st.success, st.plan.id)
<1>. DEFINE new == Through(st)
<1>1. CASE st.plan = NoPlan
  BY <1>1 DEF Through
<1>2. CASE st.plan # NoPlan
  <2>1. DOMAIN st = Fields
    BY DEF Work
  <2>2. new = [st EXCEPT !.success = Append(@, st.plan.id), !.plan = NoPlan]
    BY <1>2 DEF Through
  <2>3. /\ DOMAIN new = Fields
        /\ new.num = st.num /\ new.req = st.req /\ new.at = st.at /\ new.todo = st.todo
        /\ new.plan = NoPlan /\ new.errors = st.errors /\ new.done = st.done
        /\ new.tell = st.tell /\ new.log = st.log
        /\ new.success = Append(st.success, st.plan.id)
    BY <2>1, <2>2 DEF Fields
  <2>. HIDE DEF new
  <2>4. st.plan.id \in Ids
    BY <1>2, ItemOfRequest DEF Work, PlanFor, IdsOf, ToSet
  <2>5. new.success \in Seq(Ids)
    BY <2>3, <2>4 DEF Work
  <2>6. Work(new, time, ws)
    BY <2>3, <2>5 DEF Work
  <2>. QED  BY <1>2, <2>3, <2>6 DEF new
<1>. QED  BY <1>1, <1>2

LEMMA PcWork ==
    ASSUME NEW st, NEW ws, NEW time, time \in Nat \ {0}, Work(st, time, ws), NEW pc,
           NEW new, new = [st EXCEPT !.pc = pc] \/ new = [st EXCEPT !.pc = pc, !.at = time]
    PROVE  Work(new, time, ws)
<1>1. DOMAIN st = Fields /\ st.at \in 1 .. time /\ time \in 1 .. time
  BY DEF Work
<1>2. /\ DOMAIN new = Fields /\ new.at \in 1 .. time
      /\ new.num = st.num /\ new.req = st.req /\ new.todo = st.todo
      /\ new.plan = st.plan /\ new.errors = st.errors /\ new.done = st.done
      /\ new.tell = st.tell /\ new.log = st.log /\ new.success = st.success
  BY <1>1 DEF Fields
<1>. QED  BY <1>2 DEF Work

\* A handler that goes on stays one, in order.
LEMMA SettledWork ==
    ASSUME NEW st, NEW ws, now \in Nat \ {0}, Work(st, now, ws), Ready(st)
    PROVE  /\ Work(Settled(st), now, ws)
           /\ Settled(st).num = st.num /\ Settled(st).req = st.req
           /\ Settled(st).errors = st.errors
           /\ Settled(st).pc = "answer" \/ AtStep(Settled(st))
           /\ Settled(st).pc = "answer" => Finished(Settled(st))
           /\ Settled(st).pc # "write"
           /\ Settled(st).todo = st.todo
           /\ \/ Settled(st).plan = st.plan /\ Settled(st).success = st.success
              \/ /\ st.plan # NoPlan /\ Settled(st).plan = NoPlan
                 /\ Settled(st).success = Append(st.success, st.plan.id)
                 /\ Due(st).log = <<>>
           /\ \/ Settled(st).done = st.done /\ Settled(st).log = st.log
                 /\ st.req.op \in Collecting
              \/ Settled(st).done = <<>> /\ Settled(st).log = Due(st).log
<1>. DEFINE new == Settled(st)
            due == Due(st)
            th == Through(due)
<1>1. CASE st.req.op \in Collecting /\ st.todo # <<>>
  <2>1. new = [st EXCEPT !.pc = "read", !.at = now]
    BY <1>1, SettledIs
  <2>2. Work(new, now, ws)
    BY <2>1, PcWork
  <2>3. /\ new.pc = "read" /\ new.num = st.num /\ new.req = st.req /\ new.todo = st.todo
        /\ new.plan = st.plan /\ new.errors = st.errors /\ new.done = st.done
        /\ new.tell = st.tell /\ new.log = st.log /\ new.success = st.success
    BY <2>1 DEF Work, Fields
  <2>. HIDE DEF new
  <2>4. AtStep(new)
    BY <1>1, <2>3 DEF AtStep, Ready
  <2>. QED  BY <1>1, <2>2, <2>3, <2>4 DEF new
<1>3. st.req.op \notin Collecting /\ st.plan = NoPlan => due.tell = <<>> /\ due.log = <<>>
  <2>. SUFFICES ASSUME st.done = <<>>, st.tell = <<>>, st.log = <<>>
                PROVE  due.tell = <<>> /\ due.log = <<>>
    BY DEF Ready
  <2>1. DOMAIN st = Fields
    BY DEF Work
  <2>2. due.tell = <<>> \o <<>> /\ due.log = <<>> \o <<>>
    BY <2>1 DEF Due, Fields
  <2>3. <<>> \o <<>> = <<>>
    BY ConcatEmptySeq
  <2>. QED  BY <2>2, <2>3
<1>2. CASE ~(st.req.op \in Collecting /\ st.todo # <<>>)
  <2>1. /\ Work(due, now, ws)
        /\ due.num = st.num /\ due.req = st.req /\ due.at = st.at
        /\ due.todo = st.todo /\ due.plan = st.plan
        /\ due.success = st.success /\ due.errors = st.errors
        /\ due.done = <<>>
    BY DueWork
  <2>2. /\ DOMAIN due = Fields
        /\ Work(th, now, ws) /\ DOMAIN th = Fields
        /\ th.num = st.num /\ th.req = st.req
        /\ th.todo = st.todo /\ th.plan = NoPlan
        /\ th.errors = st.errors /\ th.done = <<>>
        /\ th.tell = due.tell /\ th.log = due.log
        /\ st.plan = NoPlan => th.success = st.success
        /\ st.plan # NoPlan => th.success = Append(st.success, st.plan.id)
    <3>. HIDE DEF due
    <3>1. /\ Work(th, now, ws)
          /\ th.num = due.num /\ th.req = due.req
          /\ th.todo = due.todo /\ th.plan = NoPlan
          /\ th.errors = due.errors /\ th.done = due.done
          /\ th.tell = due.tell /\ th.log = due.log
          /\ due.plan = NoPlan => th.success = due.success
          /\ due.plan # NoPlan => th.success = Append(due.success, due.plan.id)
      BY <2>1, ThroughWork
    <3>2. DOMAIN due = Fields /\ DOMAIN th = Fields
      BY <2>1, <3>1 DEF Work
    <3>. QED  BY <2>1, <3>1, <3>2
  <2>3. CASE due.tell # <<>>
    <3>1. new = [due EXCEPT !.pc = "tell"]
      BY <1>2, <2>3, SettledIs
    <3>2. Work(new, now, ws)
      BY <2>1, <3>1, PcWork
    <3>3. /\ new.pc = "tell" /\ new.num = st.num /\ new.req = st.req /\ new.todo = st.todo
          /\ new.plan = st.plan /\ new.errors = st.errors /\ new.done = <<>>
          /\ new.tell # <<>> /\ new.log = due.log /\ new.success = st.success
      BY <2>1, <2>2, <2>3, <3>1 DEF Fields
    <3>. HIDE DEF new
    <3>4. AtStep(new)
      BY <1>2, <1>3, <2>3, <3>3 DEF AtStep, Ready
    <3>. QED  BY <3>2, <3>3, <3>4 DEF new
  <2>4. CASE due.tell = <<>> /\ due.log # <<>>
    <3>1. new = [due EXCEPT !.pc = "log"]
      BY <1>2, <2>4, SettledIs
    <3>2. Work(new, now, ws)
      BY <2>1, <3>1, PcWork
    <3>3. /\ new.pc = "log" /\ new.num = st.num /\ new.req = st.req /\ new.todo = st.todo
          /\ new.plan = st.plan /\ new.errors = st.errors /\ new.done = <<>>
          /\ new.tell = <<>> /\ new.log # <<>> /\ new.log = due.log /\ new.success = st.success
      BY <2>1, <2>2, <2>4, <3>1 DEF Fields
    <3>. HIDE DEF new
    <3>4. AtStep(new)
      BY <1>2, <1>3, <2>4, <3>3 DEF AtStep, Ready
    <3>. QED  BY <3>2, <3>3, <3>4 DEF new
  <2>5. CASE due.tell = <<>> /\ due.log = <<>> /\ st.todo # <<>>
    <3>1. new = [th EXCEPT !.pc = "read", !.at = now]
      BY <1>2, <2>5, SettledIs
    <3>. HIDE DEF th
    <3>2. Work(new, now, ws)
      BY <2>2, <3>1, PcWork
    <3>3. /\ new.pc = "read" /\ new.num = st.num /\ new.req = st.req /\ new.todo = st.todo
          /\ new.plan = NoPlan /\ new.errors = st.errors /\ new.done = <<>>
          /\ new.tell = <<>> /\ new.log = <<>> /\ new.log = due.log /\ new.success = th.success
      BY <2>2, <2>5, <3>1 DEF Fields
    <3>. HIDE DEF new
    <3>4. AtStep(new)
      BY <2>5, <3>3 DEF AtStep
    <3>. QED  BY <2>2, <2>5, <3>2, <3>3, <3>4 DEF new
  <2>6. CASE due.tell = <<>> /\ due.log = <<>> /\ st.todo = <<>>
    <3>1. new = [th EXCEPT !.pc = "answer"]
      BY <1>2, <2>6, SettledIs
    <3>. HIDE DEF th
    <3>2. Work(new, now, ws)
      BY <2>2, <3>1, PcWork
    <3>3. /\ new.pc = "answer" /\ new.num = st.num /\ new.req = st.req /\ new.todo = st.todo
          /\ new.plan = NoPlan /\ new.errors = st.errors /\ new.done = <<>>
          /\ new.tell = <<>> /\ new.log = <<>> /\ new.log = due.log /\ new.success = th.success
      BY <2>2, <2>6, <3>1 DEF Fields
    <3>. HIDE DEF new
    <3>4. Finished(new)
      BY <2>6, <3>3 DEF Finished
    <3>. QED  BY <2>2, <2>6, <3>2, <3>3, <3>4 DEF new
  <2>. QED  BY <2>3, <2>4, <2>5, <2>6
<1>. QED  BY <1>1, <1>2
-----------------------------------------------------------------------------
(* The books of a handler: each item is still to do, in hand, or in the report.   *)

SilentFor(req, w) ==
    req.localOnly \/ (req.op \in {"appendAttrs", "updateAttrs"} /\ w.changed = {})

Logged(lg, num, id, doc) ==
    \E k \in DOMAIN lg : /\ lg[k].num = num
                         /\ lg[k].id \in {id, recorded_id(doc)}
                         /\ lg[k].snapshot = doc

\* Request num has written the entity, and the peers have heard of it or need not.
Heard(req, num, id, ws, lg) ==
    \E w \in DOMAIN ws :
        /\ ws[w].num = num
        /\ ws[w].id = id
        /\ SilentFor(req, ws[w]) \/ Logged(lg, num, id, ws[w].doc)

\* They have heard of it or will.
Accounted(st, id, ws, lg) ==
    \/ Heard(st.req, st.num, id, ws, lg)
    \/ \E w \in DOMAIN ws, p \in ToSet(st.done) \cup ToSet(st.log) :
          /\ ws[w].num = st.num
          /\ ws[w].id = id
          /\ p.id = id /\ PlanDoc(p) = ws[w].doc /\ p.changed = ws[w].changed

InHand(st) == IF st.plan = NoPlan THEN {} ELSE {st.plan.id}

\* hand is what is written and not reported yet.
Books(st, hand, ws, lg, failures) ==
    /\ \A id \in ToSet(st.success) \cup hand : Accounted(st, id, ws, lg)
    /\ st.req.op \notin Collecting =>
          \A id \in ToSet(st.success) : Heard(st.req, st.num, id, ws, lg)
    /\ \A w \in DOMAIN ws : ws[w].num = st.num =>
          \/ ws[w].id \in ToSet(st.success) \cup hand
          \/ st.req.op = "batchMerge" /\ failures > 0
    /\ Len(st.success) + Len(st.errors) + Len(st.todo) + (IF hand = {} THEN 0 ELSE 1)
          = Len(st.req.items)

\* What the answer to a request says.
Report(req, num, answer, ws, lg, failures) ==
    answer.status \in {200, 207} =>
        /\ \A id \in ToSet(answer.success) : Heard(req, num, id, ws, lg)
        /\ \A w \in DOMAIN ws : ws[w].num = num =>
              \/ ws[w].id \in ToSet(answer.success)
              \/ req.op = "batchMerge" /\ failures > 0
        /\ Len(answer.success) + Len(answer.errors) = Len(req.items)

\* What is recorded of a write.
Recorded(m, ws) ==
    \E w \in DOMAIN ws :
        /\ ws[w].num = m.num
        /\ m.id \in NamesOf(ws[w])
        /\ ws[w].doc = m.snapshot
        /\ m.snapshot # NoDoc => m.version = m.snapshot["modifiedAt"]

HandlerInv(h) ==
    /\ handler[h].num \in 1 .. Len(requests)
    /\ requests[handler[h].num] = handler[h].req
    /\ answers[handler[h].num] = Waiting
    /\ Work(handler[h], now, writes)
    /\ AtStep(handler[h])
    /\ Books(handler[h], IF handler[h].pc = "write" THEN {} ELSE InHand(handler[h]),
             writes, log, faults)

StateInv ==
    /\ DOMAIN store = Ids
    /\ \A id \in Ids : store[id] # NoDoc => Dated(store[id])
    /\ DOMAIN handler = Handlers
    /\ now \in 1 .. MaxTime
    /\ requests \in Seq(Requests)
    /\ Len(requests) <= MaxRequests
    /\ faults \in Nat
    /\ DOMAIN answers = 1 .. MaxRequests
    /\ \A num \in (1 .. MaxRequests) \ (1 .. Len(requests)) : answers[num] = Waiting
    /\ writes \in Seq(ToSet(writes)) /\ log \in Seq(ToSet(log)) /\ told \in Seq(ToSet(told))
    /\ \A w \in DOMAIN writes : writes[w].num \in 0 .. Len(requests)
    /\ raced \subseteq Ids

HandlersInv ==
    /\ \A h \in Handlers : Active(h) => HandlerInv(h)
    /\ \A g, h \in Handlers : Active(g) /\ Active(h) /\ g # h => handler[g].num # handler[h].num

ReportsInv ==
    \A num \in 1 .. Len(requests) :
        Report(requests[num], num, answers[num], writes, log, faults)

EffectsInv ==
    /\ \A k \in DOMAIN told : \E w \in DOMAIN writes :
          /\ writes[w].num = told[k].num
          /\ writes[w].id = told[k].id
          /\ writes[w].doc = IF told[k].kind = "Deleted" THEN NoDoc ELSE told[k].doc
    /\ \A k \in DOMAIN log : Recorded(log[k], writes)

EntityInv == StateInv /\ HandlersInv /\ ReportsInv /\ EffectsInv

\* What is done is recorded, or silent.
LEMMA DueIsAccounted ==
    ASSUME NEW st, NEW ws, NEW lg, NEW time, Work(st, time, ws), Ready(st),
           NEW new, new.num = st.num, new.req = st.req,
           \/ new.done = st.done /\ new.log = st.log
           \/ new.done = <<>> /\ new.log = Due(st).log,
           NEW id, Accounted(st, id, ws, lg)
    PROVE  Accounted(new, id, ws, lg)
<1>1. CASE new.done = st.done /\ new.log = st.log
  BY <1>1 DEF Accounted
<1>2. CASE new.done = <<>> /\ new.log = Due(st).log
  <2>. DEFINE add == IF AllDone(st, Records) THEN st.done ELSE <<>>
  <2>1. PICK P : {st.done, st.tell, st.log} \subseteq Seq(P)
    BY DEF Work
  <2>2. DOMAIN st = Fields
    BY DEF Work
  <2>3. new.log = st.log \o add
    BY <1>2, <2>2 DEF Due, Fields
  <2>4. add \in Seq(P)
    BY <2>1
  <2>5. ToSet(new.log) = ToSet(st.log) \cup ToSet(add)
    <3>. HIDE DEF add
    <3>. QED  BY <2>1, <2>3, <2>4, ConcatRange
  <2>6. CASE Heard(st.req, st.num, id, ws, lg)
    BY <2>6 DEF Accounted
  <2>7. ASSUME NEW w \in DOMAIN ws, NEW p \in ToSet(st.done) \cup ToSet(st.log),
               ws[w].num = st.num, ws[w].id = id,
               p.id = id, PlanDoc(p) = ws[w].doc, p.changed = ws[w].changed
        PROVE  Accounted(new, id, ws, lg)
    <3>1. CASE p \in ToSet(new.log)
      BY <2>7, <3>1 DEF Accounted
    <3>2. CASE p \in ToSet(st.done) /\ ~AllDone(st, Records)
      <4>1. PICK k \in DOMAIN st.done : ~Records(st.req, st.done[k])
        BY <3>2 DEF AllDone
      <4>2. CASE st.req.localOnly
        BY <2>7, <4>2 DEF Accounted, Heard, SilentFor
      <4>3. CASE st.req.op \in {"appendAttrs", "updateAttrs"} /\ st.done[k].changed = {}
        <5>1. Len(st.done) <= 1 /\ DOMAIN st.done = 1 .. Len(st.done) /\ Len(st.done) \in Nat
          BY <2>1, <4>3, LenProperties DEF Ready, Collecting
        <5>2. PICK j \in DOMAIN st.done : p = st.done[j]
          BY <3>2 DEF ToSet
        <5>3. j = k
          BY <5>1, <5>2
        <5>. QED  BY <2>7, <4>3, <5>2, <5>3 DEF Accounted, Heard, SilentFor
      <4>. QED  BY <4>1, <4>2, <4>3 DEF Records
    <3>. QED  BY <2>5, <2>7, <3>1, <3>2
  <2>. QED  BY <2>6, <2>7 DEF Accounted
<1>. QED  BY <1>1, <1>2

LEMMA SettledBooks ==
    ASSUME NEW st, NEW ws, NEW lg, NEW failures, now \in Nat \ {0}, Work(st, now, ws), Ready(st),
           Books(st, InHand(st), ws, lg, failures)
    PROVE  Books(Settled(st), InHand(Settled(st)), ws, lg, failures)
<1>. DEFINE new == Settled(st)
<1>1. /\ new.num = st.num /\ new.req = st.req /\ new.todo = st.todo /\ new.errors = st.errors
      /\ \/ new.plan = st.plan /\ new.success = st.success
         \/ st.plan # NoPlan /\ new.plan = NoPlan /\ new.success = Append(st.success, st.plan.id)
      /\ \/ new.done = st.done /\ new.log = st.log
         \/ new.done = <<>> /\ new.log = Due(st).log
  BY SettledWork
<1>. HIDE DEF new
<1>2. st.success \in Seq(Ids) /\ st.success \in Seq(ToSet(st.success))
  <2>1. st.success \in Seq(Ids)
    BY DEF Work
  <2>. QED  BY <2>1, SeqOfRange DEF ToSet, Range
<1>3. /\ ToSet(new.success) \cup InHand(new) = ToSet(st.success) \cup InHand(st)
      /\ Len(new.success) + (IF InHand(new) = {} THEN 0 ELSE 1)
           = Len(st.success) + (IF InHand(st) = {} THEN 0 ELSE 1)
  <2>1. CASE new.plan = st.plan /\ new.success = st.success
    BY <2>1 DEF InHand
  <2>2. CASE st.plan # NoPlan /\ new.plan = NoPlan /\ new.success = Append(st.success, st.plan.id)
    <3>1. /\ Len(new.success) = Len(st.success) + 1 /\ Len(st.success) \in Nat
          /\ ToSet(new.success) = ToSet(st.success) \cup {st.plan.id}
      BY <1>2, <2>2, AppendedOne
    <3>2. InHand(new) = {} /\ InHand(st) = {st.plan.id}
      BY <2>2 DEF InHand
    <3>3. ToSet(new.success) \cup InHand(new) = ToSet(st.success) \cup InHand(st)
      BY <3>1, <3>2
    <3>4. {st.plan.id} # {}
      OBVIOUS
    <3>5. Len(new.success) + 0 = Len(st.success) + 1
      BY <3>1
    <3>. QED  BY <3>2, <3>3, <3>4, <3>5
  <2>. QED  BY <1>1, <2>1, <2>2
<1>4. ASSUME NEW id, Accounted(st, id, ws, lg)
      PROVE  Accounted(new, id, ws, lg)
  BY <1>1, <1>4, DueIsAccounted
<1>5. /\ Len(st.success) \in Nat /\ Len(st.errors) \in Nat /\ Len(st.todo) \in Nat
      /\ Len(new.success) \in Nat /\ Len(st.req.items) \in Nat
  <2>1. /\ st.success \in Seq(Ids) /\ st.errors \in Seq(Error)
        /\ st.req.items \in Seq(ToSet(st.req.items)) /\ st.todo \in Seq(ToSet(st.req.items)) /\ new.success \in Seq(Ids)
    BY SettledWork, RequestAssumption DEF Work, new
  <2>. QED  BY <2>1, LenProperties
<1>6. Len(new.success) + Len(new.errors) + Len(new.todo) + (IF InHand(new) = {} THEN 0 ELSE 1)
        = Len(new.req.items)
  <2>. DEFINE c == IF InHand(st) = {} THEN 0 ELSE 1
              d == IF InHand(new) = {} THEN 0 ELSE 1
  <2>1. Len(st.success) + Len(st.errors) + Len(st.todo) + c = Len(st.req.items)
    BY DEF Books
  <2>2. c \in Nat /\ d \in Nat /\ Len(new.success) + d = Len(st.success) + c
    BY <1>3
  <2>. DEFINE e == Len(st.errors)
              s == Len(st.success)
              n == Len(new.success)
              q == Len(st.todo)
              i == Len(st.req.items)
  <2>3. s + e + q + c = i /\ n + d = s + c
    BY <2>1, <2>2
  <2>4. s \in Nat /\ e \in Nat /\ q \in Nat /\ n \in Nat /\ i \in Nat /\ c \in Nat /\ d \in Nat
    BY <1>5, <2>2
  <2>. HIDE DEF c, d, e, s, n, q, i
  <2>5. n + e + q + d = i
    BY <2>3, <2>4
  <2>6. Len(new.success) + Len(st.errors) + Len(st.todo) + d = Len(st.req.items)
    BY <2>5 DEF e, s, n, q, i
  <2>. QED  BY <1>1, <2>6 DEF d
<1>7. \A w \in DOMAIN ws : ws[w].num = new.num =>
          \/ ws[w].id \in ToSet(new.success) \cup InHand(new)
          \/ new.req.op = "batchMerge" /\ failures > 0
  BY <1>1, <1>3 DEF Books
<1>8. \A id \in ToSet(new.success) \cup InHand(new) : Accounted(new, id, ws, lg)
  BY <1>3, <1>4 DEF Books
<1>9. new.req.op \notin Collecting =>
        \A id \in ToSet(new.success) : Heard(new.req, new.num, id, ws, lg)
  <2>. SUFFICES ASSUME st.req.op \notin Collecting, NEW id \in ToSet(new.success)
                PROVE  Heard(st.req, st.num, id, ws, lg)
    BY <1>1
  <2>1. CASE id \in ToSet(st.success)
    BY <2>1 DEF Books
  <2>2. CASE id \notin ToSet(st.success)
    <3>1. new.success # st.success
      BY <2>2
    <3>2. Due(st).log = <<>> /\ new.done = <<>> /\ new.log = <<>>
      BY <3>1, SettledWork DEF new
    <3>3. ToSet(new.done) \cup ToSet(new.log) = {}
      BY <3>2 DEF ToSet
    <3>. QED  BY <1>1, <1>8, <3>3 DEF Accounted
  <2>. QED  BY <2>1, <2>2
<1>. QED  BY <1>6, <1>7, <1>8, <1>9 DEF Books, new

LEMMA FinishedReport ==
    ASSUME NEW st, NEW ws, NEW lg, NEW failures, Work(st, now, ws), Finished(st),
           Books(st, InHand(st), ws, lg, failures)
    PROVE  Report(st.req, st.num, Answer(st), ws, lg, failures)
<1>1. /\ Answer(st).success = st.success /\ Answer(st).errors = st.errors
      /\ InHand(st) = {} /\ Len(st.todo) = 0
  BY DEF Answer, Finished, InHand
<1>2. /\ Len(st.success) \in Nat /\ Len(st.errors) \in Nat /\ Len(st.req.items) \in Nat
  <2>1. st.success \in Seq(Ids) /\ st.errors \in Seq(Error)
        /\ st.req.items \in Seq(ToSet(st.req.items))
    BY RequestAssumption DEF Work
  <2>. QED  BY <2>1, LenProperties
<1>3. ToSet(st.done) = {} /\ ToSet(st.log) = {}
  BY DEF Finished, ToSet
<1>4. Len(st.success) + Len(st.errors) = Len(st.req.items)
  <2>1. Len(st.success) + Len(st.errors) + Len(st.todo)
          + (IF InHand(st) = {} THEN 0 ELSE 1) = Len(st.req.items)
    BY DEF Books
  <2>. DEFINE s == Len(st.success)
              e == Len(st.errors)
              i == Len(st.req.items)
  <2>2. s + e + 0 + 0 = i /\ s \in Nat /\ e \in Nat /\ i \in Nat
    BY <1>1, <1>2, <2>1
  <2>. HIDE DEF s, e, i
  <2>3. s + e = i
    BY <2>2
  <2>. QED  BY <2>3 DEF s, e, i
<1>5. \A w \in DOMAIN ws : ws[w].num = st.num =>
          ws[w].id \in ToSet(st.success) \/ (st.req.op = "batchMerge" /\ failures > 0)
  BY <1>1 DEF Books
<1>6. \A id \in ToSet(st.success) : Heard(st.req, st.num, id, ws, lg)
  BY <1>3 DEF Books, Accounted
<1>. QED  BY <1>1, <1>4, <1>5, <1>6 DEF Report
-----------------------------------------------------------------------------
(* What the steps of one handler leave to the others. *)

Extends(s, t) == DOMAIN s \subseteq DOMAIN t /\ \A k \in DOMAIN s : t[k] = s[k]
NewOf(s, t, num) == \A k \in DOMAIN t \ DOMAIN s : t[k].num = num

LEMMA WorkGrows ==
    ASSUME NEW st, NEW time, NEW later, NEW ws, NEW more, Work(st, time, ws),
           time \in Nat, later \in Nat, time <= later, Extends(ws, more)
    PROVE  Work(st, later, more)
<1>1. \A p : Wrote(ws, st.num, p) => Wrote(more, st.num, p)
  BY DEF Wrote, Extends
<1>2. st.at \in 1 .. later
  BY DEF Work
<1>3. \E P : /\ {st.done, st.tell, st.log} \subseteq Seq(P)
            /\ \A p \in P : PlanFor(st.req, p) /\ Wrote(more, st.num, p)
  BY <1>1 DEF Work
<1>. QED  BY <1>2, <1>3 DEF Work

LEMMA HeardGrows ==
    ASSUME NEW req, NEW num, NEW id, NEW ws, NEW more, NEW lg, NEW mlg,
           Heard(req, num, id, ws, lg), Extends(ws, more), Extends(lg, mlg)
    PROVE  Heard(req, num, id, more, mlg)
<1>1. PICK w \in DOMAIN ws : /\ ws[w].num = num
                             /\ ws[w].id = id
                             /\ SilentFor(req, ws[w]) \/ Logged(lg, num, id, ws[w].doc)
  BY DEF Heard
<1>2. w \in DOMAIN more /\ more[w] = ws[w]
  BY DEF Extends
<1>3. Logged(lg, num, id, ws[w].doc) => Logged(mlg, num, id, ws[w].doc)
  BY DEF Logged, Extends
<1>. QED  BY <1>1, <1>2, <1>3 DEF Heard

LEMMA BooksGrow ==
    ASSUME NEW st, NEW hand, NEW ws, NEW more, NEW lg, NEW mlg, NEW failures, NEW mfailures,
           Books(st, hand, ws, lg, failures), Extends(ws, more), Extends(lg, mlg),
           NEW num, NewOf(ws, more, num), num # st.num,
           failures \in Nat, mfailures \in Nat, failures <= mfailures
    PROVE  Books(st, hand, more, mlg, mfailures)
<1>1. \A id : Heard(st.req, st.num, id, ws, lg) => Heard(st.req, st.num, id, more, mlg)
  BY HeardGrows
<1>2. \A id : Accounted(st, id, ws, lg) => Accounted(st, id, more, mlg)
  BY <1>1 DEF Accounted, Extends
<1>3. \A w \in DOMAIN more : more[w].num = st.num => w \in DOMAIN ws /\ more[w] = ws[w]
  BY DEF Extends, NewOf
<1>4. failures > 0 => mfailures > 0
  OBVIOUS
<1>. QED  BY <1>1, <1>2, <1>3, <1>4 DEF Books

LEMMA ReportGrows ==
    ASSUME NEW req, NEW num, NEW answer, NEW ws, NEW more, NEW lg, NEW mlg, NEW failures,
           NEW mfailures, Report(req, num, answer, ws, lg, failures),
           Extends(ws, more), Extends(lg, mlg),
           NEW other, NewOf(ws, more, other), other # num,
           failures \in Nat, mfailures \in Nat, failures <= mfailures
    PROVE  Report(req, num, answer, more, mlg, mfailures)
<1>1. \A id : Heard(req, num, id, ws, lg) => Heard(req, num, id, more, mlg)
  BY HeardGrows
<1>2. \A w \in DOMAIN more : more[w].num = num => w \in DOMAIN ws /\ more[w] = ws[w]
  BY DEF Extends, NewOf
<1>3. \A w \in DOMAIN ws : w \in DOMAIN more /\ more[w] = ws[w]
  BY DEF Extends
<1>4. failures > 0 => mfailures > 0
  OBVIOUS
<1>. SUFFICES ASSUME answer.status \in {200, 207}
              PROVE  Report(req, num, answer, more, mlg, mfailures)
  BY DEF Report
<1>5. \A id \in ToSet(answer.success) : Heard(req, num, id, more, mlg)
  BY <1>1 DEF Report
<1>6. \A w \in DOMAIN more : more[w].num = num =>
          \/ more[w].id \in ToSet(answer.success)
          \/ req.op = "batchMerge" /\ mfailures > 0
  <2>. SUFFICES ASSUME NEW w \in DOMAIN more, more[w].num = num
                PROVE  \/ more[w].id \in ToSet(answer.success)
                       \/ req.op = "batchMerge" /\ mfailures > 0
    OBVIOUS
  <2>1. w \in DOMAIN ws /\ more[w] = ws[w]
    BY <1>2
  <2>2. \/ ws[w].id \in ToSet(answer.success)
        \/ req.op = "batchMerge" /\ failures > 0
    BY <2>1 DEF Report
  <2>. QED  BY <1>4, <2>1, <2>2
<1>. QED  BY <1>5, <1>6 DEF Report

\* The report of a request that is not answered says nothing.
LEMMA WaitingReport ==
    ASSUME NEW req, NEW num, NEW ws, NEW lg, NEW failures
    PROVE  Report(req, num, Waiting, ws, lg, failures)
           /\ Report(req, num, ServerError, ws, lg, failures)
BY DEF Report, Waiting, ServerError

LEMMA OthersKeep ==
    ASSUME StateInv, HandlersInv, NEW h \in Handlers, NEW num,
           handler[h].num = num \/ writes' = writes,
           Extends(writes, writes'), NewOf(writes, writes', num), Extends(log, log'),
           requests' = requests, now' \in Nat, now <= now', faults' \in Nat, faults <= faults',
           NEW g \in Handlers, Active(g), (g # h /\ Active(h)) \/ writes' = writes,
           handler'[g] = handler[g], answers'[handler[g].num] = Waiting
    PROVE  HandlerInv(g)'
<1>. DEFINE st == handler[g]
            hand == IF st.pc = "write" THEN {} ELSE InHand(st)
<1>1. HandlerInv(g)
  BY DEF HandlersInv
<1>2. now \in Nat /\ faults \in Nat
  BY DEF StateInv
<1>3. Work(st, now', writes')
  BY <1>1, <1>2, WorkGrows DEF HandlerInv
<1>4. Books(st, hand, writes', log', faults')
  <2>1. Books(st, hand, writes, log, faults)
    BY <1>1 DEF HandlerInv
  <2>2. CASE g # h /\ Active(h) /\ handler[h].num = num
    <3>1. num # st.num
      BY <2>2 DEF HandlersInv
    <3>. HIDE DEF st, hand
    <3>. QED  BY <1>2, <2>1, <3>1, BooksGrow
  <2>3. CASE writes' = writes
    <3>. HIDE DEF st, hand
    <3>1. \A other : NewOf(writes, writes', other)
      BY <2>3 DEF NewOf
    <3>2. \E other : other # st.num
      OBVIOUS
    <3>. QED  BY <1>2, <2>1, <3>1, <3>2, BooksGrow
  <2>. QED  BY <2>2, <2>3
<1>. QED  BY <1>1, <1>3, <1>4 DEF HandlerInv

\* A step of a request adds to what is written and recorded, under its number.
StepOf(h) ==
    /\ Extends(writes, writes')
    /\ NewOf(writes, writes', handler[h].num)
    /\ Extends(log, log')
    /\ requests' = requests /\ now' = now
    /\ faults' \in Nat /\ faults <= faults'

LEMMA ReportsKeep ==
    ASSUME StateInv, HandlersInv, ReportsInv, NEW h \in Handlers, Active(h), StepOf(h),
           \A num \in 1 .. Len(requests) : num # handler[h].num => answers'[num] = answers[num],
           Report(handler[h].req, handler[h].num, answers'[handler[h].num], writes', log', faults')
    PROVE  ReportsInv'
<1>. DEFINE own == handler[h].num
<1>1. faults \in Nat /\ own \in 1 .. Len(requests) /\ requests[own] = handler[h].req
  BY DEF StateInv, HandlersInv, HandlerInv
<1>. SUFFICES ASSUME NEW num \in 1 .. Len(requests)
              PROVE  Report(requests[num], num, answers'[num], writes', log', faults')
  BY DEF ReportsInv, StepOf
<1>2. CASE num = own
  BY <1>1, <1>2
<1>3. CASE num # own
  <2>1. Report(requests[num], num, answers[num], writes, log, faults)
    BY DEF ReportsInv
  <2>2. answers'[num] = answers[num]
    BY <1>3
  <2>3. Report(requests[num], num, answers[num], writes', log', faults')
    BY <1>1, <1>3, <2>1, ReportGrows DEF StepOf
  <2>. QED  BY <2>2, <2>3
<1>. QED  BY <1>2, <1>3

LEMMA HandlerEnds ==
    ASSUME StateInv, HandlersInv, ReportsInv, NEW h \in Handlers, Active(h), StepOf(h),
           NEW answer, End(h, answer),
           Report(handler[h].req, handler[h].num, answer, writes', log', faults')
    PROVE  HandlersInv' /\ ReportsInv'
<1>1. /\ handler' = [handler EXCEPT ![h] = Idle]
      /\ answers' = [answers EXCEPT ![handler[h].num] = answer]
  BY DEF End
<1>2. /\ DOMAIN handler = Handlers /\ DOMAIN answers = 1 .. MaxRequests
      /\ handler[h].num \in 1 .. MaxRequests
  <2>1. handler[h].num \in 1 .. Len(requests)
    BY DEF HandlersInv, HandlerInv
  <2>2. Len(requests) \in Nat /\ Len(requests) <= MaxRequests /\ MaxRequests \in Nat
    BY BoundAssumption, LenProperties DEF StateInv
  <2>. QED  BY <2>1, <2>2 DEF StateInv
<1>3. handler'[h] = Idle /\ \A g \in Handlers : g # h => handler'[g] = handler[g]
  BY <1>1, <1>2
<1>4. /\ answers'[handler[h].num] = answer
      /\ \A num \in 1 .. Len(requests) : num # handler[h].num => answers'[num] = answers[num]
  <2>1. Len(requests) \in Nat /\ Len(requests) <= MaxRequests /\ MaxRequests \in Nat
    BY BoundAssumption, LenProperties DEF StateInv
  <2>. QED  BY <1>1, <1>2, <2>1
<1>5. ReportsInv'
  BY <1>4, ReportsKeep
<1>6. ASSUME NEW g \in Handlers, Active(g)'
      PROVE  g # h /\ Active(g) /\ handler'[g] = handler[g] /\ HandlerInv(g)'
  <2>1. g # h /\ Active(g) /\ handler'[g] = handler[g]
    BY <1>3, <1>6 DEF Active
  <2>2. handler[g].num # handler[h].num /\ answers[handler[g].num] = Waiting
        /\ handler[g].num \in 1 .. Len(requests)
    BY <2>1 DEF HandlersInv, HandlerInv
  <2>3. answers'[handler[g].num] = Waiting
    BY <1>4, <2>2
  <2>4. HandlerInv(g)'
    BY <2>1, <2>3, OthersKeep DEF StepOf, StateInv
  <2>. QED  BY <2>1, <2>4
<1>7. HandlersInv'
  BY <1>6 DEF HandlersInv
<1>. QED  BY <1>5, <1>7

LEMMA HandlerGoesOn ==
    ASSUME StateInv, HandlersInv, ReportsInv, NEW h \in Handlers, Active(h), StepOf(h),
           NEW new, handler' = [handler EXCEPT ![h] = new], answers' = answers,
           new.num = handler[h].num, new.req = handler[h].req,
           Work(new, now, writes'), AtStep(new),
           Books(new, IF new.pc = "write" THEN {} ELSE InHand(new), writes', log', faults')
    PROVE  HandlersInv' /\ ReportsInv'
<1>1. HandlerInv(h) /\ DOMAIN handler = Handlers
  BY DEF HandlersInv, StateInv
<1>2. handler'[h] = new /\ \A g \in Handlers : g # h => handler'[g] = handler[g]
  BY <1>1
<1>3. ReportsInv'
  <2>1. Report(handler[h].req, handler[h].num, answers'[handler[h].num], writes', log', faults')
    BY <1>1, WaitingReport DEF HandlerInv
  <2>. QED  BY <2>1, ReportsKeep
<1>4. HandlerInv(h)'
  BY <1>1, <1>2 DEF HandlerInv, StepOf
<1>5. ASSUME NEW g \in Handlers, Active(g)', g # h
      PROVE  Active(g) /\ HandlerInv(g)'
  <2>1. Active(g) /\ handler'[g] = handler[g]
    BY <1>2, <1>5 DEF Active
  <2>2. answers'[handler[g].num] = Waiting
    BY <2>1 DEF HandlersInv, HandlerInv
  <2>3. HandlerInv(g)'
    BY <1>5, <2>1, <2>2, OthersKeep DEF StepOf, StateInv
  <2>. QED  BY <2>1, <2>3
<1>6. \A g \in Handlers : Active(g)' => Active(g) /\ handler'[g].num = handler[g].num
  BY <1>2, <1>5
<1>7. HandlersInv'
  BY <1>4, <1>5, <1>6 DEF HandlersInv
<1>. QED  BY <1>3, <1>7

LEMMA Continues ==
    ASSUME StateInv, HandlersInv, ReportsInv, NEW h \in Handlers, Active(h), StepOf(h),
           NEW st, Continue(h, st), st.num = handler[h].num, st.req = handler[h].req,
           Work(st, now, writes'), Ready(st), Books(st, InHand(st), writes', log', faults')
    PROVE  HandlersInv' /\ ReportsInv'
<1>. DEFINE new == Settled(st)
<1>1. now \in Nat \ {0}
  BY DEF StateInv
<1>2. /\ Work(new, now, writes') /\ new.num = st.num /\ new.req = st.req
      /\ new.pc = "answer" \/ AtStep(new)
      /\ new.pc = "answer" => Finished(new)
      /\ new.pc # "write"
  BY <1>1, SettledWork
<1>3. Books(new, InHand(new), writes', log', faults')
  BY <1>1, SettledBooks
<1>4. CASE new.pc = "answer"
  <2>1. End(h, Answer(new))
    BY <1>4 DEF Continue
  <2>2. Report(new.req, new.num, Answer(new), writes', log', faults')
    BY <1>2, <1>3, <1>4, FinishedReport
  <2>. QED  BY <1>2, <2>1, <2>2, HandlerEnds
<1>5. CASE new.pc # "answer"
  <2>1. handler' = [handler EXCEPT ![h] = new] /\ answers' = answers
    BY <1>5 DEF Continue
  <2>. HIDE DEF new
  <2>. QED  BY <1>2, <1>3, <1>5, <2>1, HandlerGoesOn
<1>. QED  BY <1>4, <1>5

\* A handler between two awaits.
LEMMA HandlerAt ==
    ASSUME StateInv, HandlersInv, NEW h \in Handlers, Active(h)
    PROVE  LET st == handler[h] IN
           /\ Work(st, now, writes) /\ AtStep(st) /\ DOMAIN st = Fields
           /\ Books(st, IF st.pc = "write" THEN {} ELSE InHand(st), writes, log, faults)
           /\ st.num \in 1 .. Len(requests) /\ requests[st.num] = st.req /\ st.req \in Requests
           /\ now \in Nat \ {0}
           /\ Len(requests) \in Nat /\ Len(requests) <= MaxRequests
           /\ Len(st.todo) \in Nat /\ Len(st.success) \in Nat /\ Len(st.errors) \in Nat
           /\ Len(st.req.items) \in Nat
<1>. DEFINE st == handler[h]
<1>1. HandlerInv(h)
  BY DEF HandlersInv
<1>2. /\ st.todo \in Seq(ToSet(st.req.items)) /\ st.success \in Seq(Ids) /\ st.errors \in Seq(Error)
      /\ st.req \in Requests /\ DOMAIN st = Fields
  BY <1>1 DEF HandlerInv, Work
<1>3. st.req.items \in Seq(ToSet(st.req.items))
  BY <1>2, RequestAssumption
<1>4. /\ Len(st.todo) \in Nat /\ Len(st.success) \in Nat /\ Len(st.errors) \in Nat
      /\ Len(st.req.items) \in Nat
  BY <1>2, <1>3, LenProperties
<1>5. now \in Nat \ {0} /\ Len(requests) \in Nat /\ Len(requests) <= MaxRequests
  BY LenProperties DEF StateInv
<1>. QED  BY <1>1, <1>2, <1>4, <1>5 DEF HandlerInv

LEMMA SameSequences == Extends(writes, writes) /\ Extends(log, log) /\ \A num : NewOf(writes, writes, num)
BY DEF Extends, NewOf

\* One more record.
LEMMA AppendExtends ==
    ASSUME NEW s, s \in Seq(ToSet(s)), NEW r
    PROVE  /\ Extends(s, Append(s, r)) /\ NewOf(s, Append(s, r), r.num)
           /\ Append(s, r) \in Seq(ToSet(Append(s, r)))
           /\ \A k \in DOMAIN Append(s, r) : k \in DOMAIN s \/ Append(s, r)[k] = r
BY AppendedOne DEF Extends, NewOf

Adds(success, errors, todo, total) == Len(success) + Len(errors) + Len(todo) + 0 = total

LEMMA AccountedSame ==
    ASSUME NEW st, NEW new, new.num = st.num, new.req = st.req, new.done = st.done, new.log = st.log,
           NEW id, NEW ws, NEW lg
    PROVE  Accounted(st, id, ws, lg) <=> Accounted(new, id, ws, lg)
BY DEF Accounted

\* The handler that reports an item as failed.
LEMMA ItemFailed ==
    ASSUME NEW st, NEW new, NEW ws, NEW lg, NEW failures, NEW time, Work(st, time, ws),
           st.todo # <<>>, Books(st, {}, ws, lg, failures), NEW line \in Error,
           DOMAIN new = Fields, new.num = st.num, new.req = st.req, new.at = st.at,
           new.plan = NoPlan, new.success = st.success, new.tell = st.tell,
           new.done = st.done, new.log = st.log,
           new.todo = Tail(st.todo), new.errors = Append(st.errors, line)
    PROVE  Work(new, time, ws) /\ Books(new, {}, ws, lg, failures)
<1>1. PICK items, total : items = ToSet(st.req.items) /\ total = Len(st.req.items)
  OBVIOUS
<1>2. /\ new.errors \in Seq(Error) /\ new.todo \in Seq(items)
      /\ Adds(st.success, new.errors, new.todo, total)
  <2>1. /\ st.todo \in Seq(items) /\ st.errors \in Seq(Error) /\ st.success \in Seq(Ids)
        /\ Adds(st.success, st.errors, st.todo, total)
    BY <1>1 DEF Work, Books, Adds
  <2>2. Tail(st.todo) \in Seq(items) /\ Len(Tail(st.todo)) = Len(st.todo) - 1
    BY <2>1, TailIn
  <2>3. new.errors \in Seq(Error) /\ Len(new.errors) = Len(st.errors) + 1
    BY <2>1, AppendProperties
  <2>4. Len(st.success) \in Nat /\ Len(st.errors) \in Nat /\ Len(st.todo) \in Nat
    BY <2>1, LenProperties
  <2>5. PICK a, b, c, d, e :
           /\ a = Len(st.success) /\ b = Len(st.errors) /\ c = Len(st.todo)
           /\ d = Len(new.errors) /\ e = Len(new.todo)
    OBVIOUS
  <2>6. a \in Nat /\ b \in Nat /\ c \in Nat /\ d = b + 1 /\ e = c - 1 /\ a + b + c + 0 = total
    BY <2>1, <2>2, <2>3, <2>4, <2>5 DEF Adds
  <2>7. a + d + e + 0 = total
    BY ONLY <2>6
  <2>. QED  BY <2>2, <2>3, <2>5, <2>7 DEF Adds
<1>3. Work(new, time, ws)
  BY <1>1, <1>2 DEF Work
<1>4. \A i : Accounted(st, i, ws, lg) => Accounted(new, i, ws, lg)
  BY AccountedSame
<1>5. Books(new, {}, ws, lg, failures)
  BY <1>1, <1>2, <1>4 DEF Books, Adds
<1>. QED  BY <1>3, <1>5

LEMMA SkipKeeps ==
    ASSUME StateInv, HandlersInv, ReportsInv, NEW h \in Handlers, Active(h),
           handler[h].pc = "read", NEW id \in Ids \cup {"unknown"}, NEW status \in Statuses,
           Skip(h, id, status)
    PROVE  HandlersInv' /\ ReportsInv'
<1>. DEFINE st == handler[h]
            line == [id |-> id, status |-> status]
            new == [st EXCEPT !.todo = Tail(@), !.errors = Append(@, line)]
<1>1. /\ Work(st, now, writes) /\ AtStep(st) /\ DOMAIN st = Fields
      /\ Books(st, {}, writes, log, faults)
      /\ st.plan = NoPlan /\ st.todo # <<>> /\ st.tell = <<>> /\ st.log = <<>>
  BY HandlerAt DEF AtStep, InHand
<1>2. line \in Error
  BY DEF Error
<1>. HIDE DEF line
<1>3. /\ new.num = st.num /\ new.req = st.req /\ new.at = st.at /\ new.plan = st.plan
      /\ new.done = st.done /\ new.tell = st.tell /\ new.log = st.log /\ new.success = st.success
      /\ new.todo = Tail(st.todo) /\ new.errors = Append(st.errors, line)
      /\ DOMAIN new = Fields
  BY <1>1 DEF Fields
<1>4. Continue(h, new)
  BY DEF Skip, line
<1>. HIDE DEF new
<1>5. Work(new, now, writes) /\ Books(new, {}, writes, log, faults)
  BY <1>1, <1>2, <1>3, ItemFailed
<1>6. Ready(new) /\ InHand(new) = {}
  <2>1. st.req.op \notin Collecting => st.done = <<>> /\ Len(st.done) <= 1
    BY <1>1 DEF AtStep
  <2>. QED  BY <1>1, <1>3, <2>1 DEF Ready, InHand
<1>7. StepOf(h) /\ writes' = writes /\ log' = log /\ faults' = faults
  <2>1. faults \in Nat
    BY DEF StateInv
  <2>. QED  BY <2>1, SameSequences DEF Skip, StepOf
<1>. QED  BY <1>3, <1>4, <1>5, <1>6, <1>7, Continues

\* The handler that has written its item.
LEMMA ItemWritten ==
    ASSUME NEW st, NEW ws, NEW more, NEW lg, NEW failures, NEW time, time \in Nat,
           Work(st, time, ws), st.todo # <<>>, Books(st, {}, ws, lg, failures),
           NEW plan, PlanFor(st.req, plan), plan # NoPlan,
           Extends(ws, more), Wrote(more, st.num, plan),
           \A k \in DOMAIN more \ DOMAIN ws : more[k].id = plan.id
    PROVE  /\ Work(Written(st, plan), time, more)
           /\ Books(Written(st, plan), InHand(Written(st, plan)), more, lg, failures)
<1>. DEFINE new == Written(st, plan)
<1>0. /\ new.num = st.num /\ new.req = st.req /\ new.at = st.at /\ new.errors = st.errors
      /\ new.done = Append(st.done, plan) /\ new.tell = st.tell /\ new.log = st.log
      /\ new.todo = Tail(st.todo)
      /\ \/ new.plan = plan /\ new.success = st.success
         \/ /\ st.req.op \in Collecting
            /\ new.plan = NoPlan /\ new.success = Append(st.success, plan.id)
      /\ DOMAIN new = Fields
  <2>1. DOMAIN st = Fields
    BY DEF Work
  <2>. QED  BY <2>1 DEF Fields, Written
<1>. HIDE DEF new
<1>1. PICK P : /\ {st.done, st.tell, st.log} \subseteq Seq(P)
               /\ \A p \in P : PlanFor(st.req, p) /\ Wrote(ws, st.num, p)
  BY DEF Work
<1>2. plan.id \in Ids
  BY ItemOfRequest DEF Work, PlanFor, IdsOf, ToSet
<1>3. /\ new.todo \in Seq(ToSet(st.req.items)) /\ Len(new.todo) = Len(st.todo) - 1
      /\ Len(st.todo) \in Nat /\ Len(st.success) \in Nat /\ Len(st.errors) \in Nat
  <2>1. /\ st.todo \in Seq(ToSet(st.req.items)) /\ st.success \in Seq(Ids)
        /\ st.errors \in Seq(Error)
    BY DEF Work
  <2>. QED  BY <1>0, <2>1, TailIn, LenProperties
<1>4. /\ Append(st.success, plan.id) \in Seq(Ids)
      /\ Len(Append(st.success, plan.id)) = Len(st.success) + 1
      /\ ToSet(Append(st.success, plan.id)) = ToSet(st.success) \cup {plan.id}
  <2>1. st.success \in Seq(Ids)
    BY DEF Work
  <2>2. st.success \in Seq(ToSet(st.success))
    BY <2>1, SeqOfRange DEF ToSet, Range
  <2>. QED  BY <1>2, <2>1, <2>2, AppendProperties, AppendedOne
<1>5. \A p : Wrote(ws, st.num, p) => Wrote(more, st.num, p)
  BY DEF Wrote, Extends
<1>6. \E Q : /\ {new.done, new.tell, new.log} \subseteq Seq(Q)
            /\ \A p \in Q : PlanFor(new.req, p) /\ Wrote(more, new.num, p)
  <2>1. st.done \in Seq(P \cup {plan}) /\ st.tell \in Seq(P \cup {plan})
        /\ st.log \in Seq(P \cup {plan})
    BY <1>1, SeqMonotonic
  <2>2. plan \in P \cup {plan}
    OBVIOUS
  <2>3. {new.done, new.tell, new.log} \subseteq Seq(P \cup {plan})
    BY <1>0, <2>1, <2>2, AppendProperties
  <2>4. \A p \in P \cup {plan} : PlanFor(new.req, p) /\ Wrote(more, new.num, p)
    BY <1>0, <1>1, <1>5
  <2>. QED  BY <2>3, <2>4
<1>7. Work(new, time, more)
  <2>1. new.success \in Seq(Ids)
    BY <1>0, <1>4 DEF Work
  <2>. QED  BY <1>0, <1>3, <1>6, <2>1 DEF Work
<1>8. ToSet(new.done) = ToSet(st.done) \cup {plan}
  <2>1. st.done \in Seq(ToSet(st.done))
    BY <1>1, SeqOfRange DEF ToSet, Range
  <2>. QED  BY <1>0, <2>1, AppendedOne
<1>9. ASSUME NEW id, Accounted(st, id, ws, lg)
      PROVE  Accounted(new, id, more, lg)
  BY <1>0, <1>8, <1>9, HeardGrows DEF Accounted, Extends
<1>10. Accounted(new, plan.id, more, lg)
  BY <1>0, <1>8 DEF Accounted, Wrote
<1>11. ToSet(new.success) \cup InHand(new) = ToSet(st.success) \cup {plan.id}
  BY <1>0, <1>4 DEF InHand
<1>12. Len(new.success) + Len(new.errors) + Len(new.todo) + (IF InHand(new) = {} THEN 0 ELSE 1)
         = Len(new.req.items)
  <2>. DEFINE hand == IF InHand(new) = {} THEN 0 ELSE 1
  <2>1. Len(new.success) + hand = Len(st.success) + 1 /\ hand \in Nat /\ Len(new.success) \in Nat
    <3>1. CASE new.plan = plan /\ new.success = st.success
      BY <1>3, <3>1 DEF InHand
    <3>2. CASE new.plan = NoPlan /\ new.success = Append(st.success, plan.id)
      BY <1>3, <1>4, <3>2 DEF InHand
    <3>. QED  BY <1>0, <3>1, <3>2
  <2>. HIDE DEF hand
  <2>2. Len(st.success) + Len(st.errors) + Len(st.todo) + 0 = Len(st.req.items)
    BY DEF Books
  <2>3. PICK a, b, c, d, e, t :
           /\ a = Len(st.success) /\ b = Len(st.errors) /\ c = Len(st.todo)
           /\ d = Len(new.success) /\ e = Len(new.todo) /\ t = Len(st.req.items)
    OBVIOUS
  <2>4. /\ a \in Nat /\ b \in Nat /\ c \in Nat /\ d \in Nat /\ e = c - 1
        /\ a + b + c + 0 = t /\ d + hand = a + 1 /\ hand \in Nat
    BY <1>0, <1>3, <2>1, <2>2, <2>3
  <2>5. d + b + e + hand = t
    BY ONLY <2>4
  <2>. QED  BY <1>0, <2>3, <2>5 DEF hand
<1>13. \A w \in DOMAIN more : more[w].num = new.num =>
          \/ more[w].id \in ToSet(new.success) \cup InHand(new)
          \/ new.req.op = "batchMerge" /\ failures > 0
  <2>. SUFFICES ASSUME NEW w \in DOMAIN more, more[w].num = new.num
                PROVE  \/ more[w].id \in ToSet(st.success) \cup {plan.id}
                       \/ st.req.op = "batchMerge" /\ failures > 0
    BY <1>0, <1>11
  <2>1. CASE w \in DOMAIN ws
    BY <1>0, <2>1 DEF Books, Extends
  <2>2. CASE w \notin DOMAIN ws
    BY <2>2
  <2>. QED  BY <2>1, <2>2
<1>14. \A id \in ToSet(new.success) \cup InHand(new) : Accounted(new, id, more, lg)
  BY <1>0, <1>9, <1>10, <1>11 DEF Books
<1>15. new.req.op \notin Collecting =>
         \A id \in ToSet(new.success) : Heard(new.req, new.num, id, more, lg)
  BY <1>0, HeardGrows DEF Books, Extends
<1>. QED  BY <1>0, <1>7, <1>12, <1>13, <1>14, <1>15 DEF Books, new

\* A write, and what it makes of the collection and of its history.
LEMMA WriteRecords ==
    ASSUME StateInv, NEW plan, plan.id \in Ids, NEW num, Write(plan, num)
    PROVE  /\ Extends(writes, writes') /\ NewOf(writes, writes', num)
           /\ writes' \in Seq(ToSet(writes'))
           /\ \A k \in DOMAIN writes' \ DOMAIN writes : writes'[k].id = plan.id
           /\ \A k \in DOMAIN writes' : k \in DOMAIN writes \/ writes'[k].num = num
           /\ Wrote(writes', num, plan)
           /\ DOMAIN store' = Ids
           /\ store'[plan.id] = PlanDoc(plan)
           /\ \A id \in Ids : id # plan.id => store'[id] = store[id]
<1>. DEFINE new == [num |-> num, id |-> plan.id, doc |-> PlanDoc(plan),
                    by |-> plan.write, changed |-> plan.changed]
<1>1. writes' = Append(writes, new) /\ store' = [store EXCEPT ![plan.id] = PlanDoc(plan)]
  BY DEF Write, PlanDoc
<1>2. /\ new.num = num /\ new.id = plan.id /\ new.doc = PlanDoc(plan)
      /\ new.changed = plan.changed
  OBVIOUS
<1>. HIDE DEF new
<1>3. writes \in Seq(ToSet(writes)) /\ DOMAIN store = Ids
  BY DEF StateInv
<1>4. /\ Extends(writes, writes') /\ NewOf(writes, writes', new.num)
      /\ writes' \in Seq(ToSet(writes'))
      /\ \A k \in DOMAIN writes' : k \in DOMAIN writes \/ writes'[k] = new
  BY <1>1, <1>3, AppendExtends
<1>5. Wrote(writes', num, plan)
  <2>1. writes'[Len(writes) + 1] = new /\ Len(writes) + 1 \in DOMAIN writes'
    BY <1>1, <1>3, AppendedOne
  <2>. QED  BY <1>2, <2>1 DEF Wrote
<1>6. /\ DOMAIN store' = Ids /\ store'[plan.id] = PlanDoc(plan)
      /\ \A id \in Ids : id # plan.id => store'[id] = store[id]
  BY <1>1, <1>3
<1>. QED  BY <1>2, <1>4, <1>5, <1>6

LEMMA WrittenKeeps ==
    ASSUME StateInv, HandlersInv, ReportsInv, NEW h \in Handlers, Active(h),
           handler[h].pc \in {"read", "write"},
           NEW plan, PlanFor(handler[h].req, plan), plan # NoPlan,
           Write(plan, handler[h].num), Continue(h, Written(handler[h], plan)),
           UNCHANGED <<now, requests, faults, told, log, raced>>
    PROVE  HandlersInv' /\ ReportsInv'
<1>. DEFINE st == handler[h]
            new == Written(st, plan)
<1>1. /\ Work(st, now, writes) /\ AtStep(st) /\ DOMAIN st = Fields
      /\ Books(st, {}, writes, log, faults)
      /\ st.todo # <<>> /\ st.tell = <<>> /\ st.log = <<>> /\ st.req \in Requests
  BY HandlerAt DEF AtStep, InHand
<1>2. /\ new.num = st.num /\ new.req = st.req /\ new.at = st.at /\ new.errors = st.errors
      /\ new.done = Append(st.done, plan) /\ new.tell = st.tell /\ new.log = st.log
      /\ new.todo = Tail(st.todo)
      /\ \/ new.plan = plan /\ new.success = st.success /\ st.req.op \notin Collecting
         \/ /\ new.plan = NoPlan /\ new.success = Append(st.success, plan.id)
            /\ st.req.op \in Collecting
      /\ DOMAIN new = Fields
  BY <1>1 DEF Fields, Written
<1>. HIDE DEF new
<1>3. plan.id \in Ids
  BY <1>1, ItemOfRequest DEF PlanFor, IdsOf, ToSet
<1>4. /\ Extends(writes, writes') /\ NewOf(writes, writes', st.num)
      /\ Wrote(writes', st.num, plan)
      /\ \A k \in DOMAIN writes' \ DOMAIN writes : writes'[k].id = plan.id
  BY <1>3, WriteRecords
<1>5. now \in Nat /\ faults \in Nat
  BY DEF StateInv
<1>6. Work(new, now, writes') /\ Books(new, InHand(new), writes', log, faults)
  BY <1>1, <1>4, <1>5, ItemWritten DEF new
<1>7. Ready(new)
  <2>1. st.req.op \notin Collecting => Len(new.done) <= 1
    <3>1. st.req.op \notin Collecting => st.done = <<>>
      BY <1>1 DEF AtStep
    <3>2. Len(Append(<<>>, plan)) = 1
      OBVIOUS
    <3>. QED  BY <1>2, <3>1, <3>2
  <2>. QED  BY <1>1, <1>2, <2>1 DEF Ready
<1>8. StepOf(h) /\ log' = log /\ faults' = faults
  BY <1>4, <1>5, SameSequences DEF StepOf
<1>. QED  BY <1>2, <1>6, <1>7, <1>8, Continues DEF new

-----------------------------------------------------------------------------
(* The actions. *)

LEMMA RefuseKeeps ==
    ASSUME StateInv, HandlersInv, ReportsInv, NEW h \in Handlers, Active(h), Refuse(h)
    PROVE  HandlersInv' /\ ReportsInv'
<1>. DEFINE st == handler[h]
            id == IF st.req.op \in Collecting THEN "unknown" ELSE Item(h).id
<1>1. st.pc = "read" /\ Precheck(st.req, Item(h)) # 0 /\ Skip(h, id, Precheck(st.req, Item(h)))
  BY DEF Refuse
<1>2. Item(h) \in ToSet(st.req.items) /\ st.req \in Requests
  BY <1>1, HandlerAt, TailIn DEF AtStep, Work, Item
<1>3. id \in Ids \cup {"unknown"}
  BY <1>2, ItemOfRequest
<1>4. Precheck(st.req, Item(h)) \in Statuses
  <2>1. Precheck(st.req, Item(h)) \in {0, 400}
    BY DEF Precheck
  <2>. QED  BY <1>1, <2>1 DEF Statuses
<1>. HIDE DEF id
<1>. QED  BY <1>1, <1>3, <1>4, SkipKeeps

\* What a handler makes of the document it reads.
LEMMA ReadOutcome ==
    ASSUME StateInv, HandlersInv, NEW h \in Handlers, Active(h), Reads(h)
    PROVE  /\ \/ Read(h).write = "none" /\ Read(h).status \in Statuses
              \/ PlanFor(handler[h].req, Read(h)) /\ Read(h).id = Item(h).id
           /\ Item(h).id \in Ids
<1>. DEFINE st == handler[h]
<1>1. st.pc = "read" /\ st.req.op # "batchDelete" /\ Precheck(st.req, Item(h)) = 0
  BY DEF Reads
<1>2. Item(h) \in ToSet(st.req.items) /\ st.req \in Requests /\ st.at \in Nat
  BY <1>1, HandlerAt, TailIn DEF AtStep, Work, Item
<1>3. Item(h).id \in Ids
  BY <1>2, ItemOfRequest
<1>4. store[Item(h).id] = NoDoc \/ Dated(store[Item(h).id])
  BY <1>3 DEF StateInv
<1>. DEFINE item == Item(h)
            existing == store[Item(h).id]
<1>. HIDE DEF item, existing
<1>5. Read(h) = Outcome(st.req, item, existing, st.at, now)
  BY DEF Read, item, existing
<1>6. /\ item \in ToSet(st.req.items) /\ Precheck(st.req, item) = 0
      /\ existing = NoDoc \/ Dated(existing)
  BY <1>1, <1>2, <1>4 DEF item, existing
<1>7. LET p == Outcome(st.req, item, existing, st.at, now) IN
      \/ p.write = "none" /\ p.status \in Statuses
      \/ PlanFor(st.req, p) /\ p.id = item.id
  BY <1>1, <1>2, <1>6, OutcomeIsPlan
<1>. QED  BY <1>3, <1>5, <1>7 DEF item

LEMMA ReadRefusedKeeps ==
    ASSUME StateInv, HandlersInv, ReportsInv, NEW h \in Handlers, Active(h), ReadRefused(h)
    PROVE  HandlersInv' /\ ReportsInv'
<1>1. Reads(h) /\ Read(h).write = "none" /\ Skip(h, Item(h).id, Read(h).status)
  BY DEF ReadRefused
<1>2. Item(h).id \in Ids /\ Read(h).status \in Statuses
  BY <1>1, ReadOutcome DEF PlanFor
<1>3. handler[h].pc = "read"
  BY <1>1 DEF Reads
<1>. QED  BY <1>1, <1>2, <1>3, SkipKeeps

LEMMA ReadEntityKeeps ==
    ASSUME StateInv, HandlersInv, ReportsInv, NEW h \in Handlers, Active(h), ReadEntity(h)
    PROVE  HandlersInv' /\ ReportsInv'
<1>. DEFINE st == handler[h]
            plan == Read(h)
            new == [st EXCEPT !.pc = "write", !.plan = plan]
<1>1. PlanFor(st.req, plan) /\ plan.id = Head(st.todo).id /\ plan # NoPlan
  <2>1. Reads(h) /\ plan.write # "none"
    BY DEF ReadEntity
  <2>2. PlanFor(st.req, plan) /\ plan.id = Item(h).id
    BY <2>1, ReadOutcome
  <2>. QED  BY <2>1, <2>2 DEF NoPlan, Item
<1>. HIDE DEF plan
<1>2. /\ Work(st, now, writes) /\ AtStep(st) /\ DOMAIN st = Fields
      /\ Books(st, {}, writes, log, faults)
      /\ st.pc = "read" /\ DOMAIN handler = Handlers /\ faults \in Nat
  BY HandlerAt DEF AtStep, InHand, ReadEntity, Reads, StateInv
<1>3. handler' = [handler EXCEPT ![h] = new] /\ answers' = answers
  BY <1>2 DEF ReadEntity, plan
<1>4. /\ new.pc = "write" /\ new.plan = plan /\ DOMAIN new = Fields
      /\ new.num = st.num /\ new.req = st.req /\ new.at = st.at /\ new.todo = st.todo
      /\ new.done = st.done /\ new.tell = st.tell /\ new.log = st.log
      /\ new.success = st.success /\ new.errors = st.errors
  BY <1>2 DEF Fields
<1>. HIDE DEF new
<1>5. Work(new, now, writes)
  BY <1>1, <1>2, <1>4 DEF Work
<1>6. AtStep(new)
  BY <1>1, <1>2, <1>4 DEF AtStep
<1>7. \A id : Accounted(st, id, writes, log) => Accounted(new, id, writes, log)
  BY <1>4, AccountedSame
<1>8. Books(new, {}, writes, log, faults)
  BY <1>2, <1>4, <1>7 DEF Books
<1>9. StepOf(h) /\ writes' = writes /\ log' = log /\ faults' = faults
  BY <1>2, SameSequences DEF ReadEntity, StepOf
<1>. QED  BY <1>3, <1>4, <1>5, <1>6, <1>8, <1>9, HandlerGoesOn

LEMMA WriteEntityKeeps ==
    ASSUME StateInv, HandlersInv, ReportsInv, NEW h \in Handlers, Active(h), WriteEntity(h)
    PROVE  HandlersInv' /\ ReportsInv'
<1>1. /\ handler[h].pc = "write" /\ Write(handler[h].plan, handler[h].num)
      /\ Continue(h, Written(handler[h], handler[h].plan))
      /\ UNCHANGED <<now, requests, faults, told, log, raced>>
  BY DEF WriteEntity
<1>2. PlanFor(handler[h].req, handler[h].plan) /\ handler[h].plan # NoPlan
  BY <1>1, HandlerAt DEF AtStep, Work
<1>. QED  BY <1>1, <1>2, WrittenKeeps

DeletePlan(id) == Plan("delete", id, NoDoc, "Deleted", {})

LEMMA BatchDeleteKeeps ==
    ASSUME StateInv, HandlersInv, ReportsInv, NEW h \in Handlers, Active(h), batch_delete(h)
    PROVE  HandlersInv' /\ ReportsInv'
<1>1. Item(h) \in ToSet(handler[h].req.items) /\ handler[h].req \in Requests /\ handler[h].pc = "read"
  BY HandlerAt, TailIn DEF AtStep, Work, Item, batch_delete
<1>2. Item(h).id \in Ids /\ Item(h).id \in IdsOf(handler[h].req)
  BY <1>1, ItemOfRequest
<1>3. CASE store[Item(h).id] = NoDoc
  <2>1. Skip(h, Item(h).id, 404)
    BY <1>3 DEF batch_delete
  <2>2. 404 \in Statuses
    BY DEF Statuses
  <2>. QED  BY <1>1, <1>2, <2>1, <2>2, SkipKeeps
<1>4. CASE store[Item(h).id] # NoDoc
  <2>. DEFINE plan == DeletePlan(Item(h).id)
  <2>1. PlanFor(handler[h].req, plan) /\ plan # NoPlan
    BY <1>2 DEF PlanFor, DeletePlan, Plan, NoPlan
  <2>2. /\ Write(plan, handler[h].num) /\ Continue(h, Written(handler[h], plan))
        /\ UNCHANGED <<now, requests, faults, told, log, raced>>
    BY <1>4 DEF batch_delete, DeletePlan
  <2>. HIDE DEF plan
  <2>. QED  BY <1>1, <2>1, <2>2, WrittenKeeps
<1>. QED  BY <1>3, <1>4
\* An error leaves no books but those of what was reported.
LEMMA ItemAborted ==
    ASSUME NEW st, NEW new, NEW ws, NEW lg, NEW mlg, NEW failures, NEW mfailures, NEW time,
           Work(st, time, ws), AtStep(st), st.req.op = "batchMerge",
           Books(st, IF st.pc = "write" THEN {} ELSE InHand(st), ws, lg, failures),
           Extends(lg, mlg), failures \in Nat, mfailures \in Nat, failures <= mfailures,
           st.pc \in {"read", "write"} \/ mfailures > 0,
           NEW line \in Error, DOMAIN new = Fields,
           new.num = st.num, new.req = st.req, new.at = st.at, new.plan = NoPlan,
           new.success = st.success, new.done = <<>>, new.tell = <<>>, new.log = <<>>,
           new.todo = IF st.pc \in {"read", "write"} THEN Tail(st.todo) ELSE st.todo,
           new.errors = Append(st.errors, line)
    PROVE  Work(new, time, ws) /\ Books(new, {}, ws, mlg, mfailures)
<1>. DEFINE hand == IF st.pc = "write" THEN {} ELSE InHand(st)
<1>1. PICK items, total : items = ToSet(st.req.items) /\ total = Len(st.req.items)
  OBVIOUS
<1>2. st.pc \in {"read", "write"} => hand = {} /\ st.todo # <<>>
  BY DEF AtStep, InHand
<1>3. st.pc \notin {"read", "write"} => hand # {} /\ mfailures > 0
  BY DEF AtStep, InHand, Collecting
<1>4. Books(st, hand, ws, lg, failures)
  OBVIOUS
<1>. HIDE DEF hand
<1>5. /\ new.errors \in Seq(Error) /\ new.todo \in Seq(items)
      /\ Adds(st.success, new.errors, new.todo, total)
  <2>1. /\ st.todo \in Seq(items) /\ st.errors \in Seq(Error) /\ st.success \in Seq(Ids)
        /\ Len(st.success) + Len(st.errors) + Len(st.todo) + (IF hand = {} THEN 0 ELSE 1) = total
    BY <1>1, <1>4 DEF Work, Books
  <2>2. new.errors \in Seq(Error) /\ Len(new.errors) = Len(st.errors) + 1
    BY <2>1, AppendProperties
  <2>3. Len(st.success) \in Nat /\ Len(st.errors) \in Nat /\ Len(st.todo) \in Nat
    BY <2>1, LenProperties
  <2>4. PICK a, b, c, d, e :
           /\ a = Len(st.success) /\ b = Len(st.errors) /\ c = Len(st.todo)
           /\ d = Len(new.errors) /\ e = Len(new.todo)
    OBVIOUS
  <2>5. CASE st.pc \in {"read", "write"}
    <3>1. Tail(st.todo) \in Seq(items) /\ Len(Tail(st.todo)) = Len(st.todo) - 1
      BY <1>2, <2>1, <2>5, TailIn
    <3>2. a \in Nat /\ b \in Nat /\ c \in Nat /\ d = b + 1 /\ e = c - 1 /\ a + b + c + 0 = total
      BY <1>2, <2>1, <2>2, <2>3, <2>4, <2>5, <3>1
    <3>3. a + d + e + 0 = total
      BY ONLY <3>2
    <3>. QED  BY <2>2, <2>4, <2>5, <3>1, <3>3 DEF Adds
  <2>6. CASE st.pc \notin {"read", "write"}
    <3>1. a \in Nat /\ b \in Nat /\ c \in Nat /\ d = b + 1 /\ e = c /\ a + b + c + 1 = total
      BY <1>3, <2>1, <2>2, <2>3, <2>4, <2>6
    <3>2. a + d + e + 0 = total
      BY ONLY <3>1
    <3>3. new.todo = st.todo
      BY <2>6
    <3>. QED  BY <2>1, <2>2, <2>4, <3>2, <3>3 DEF Adds
  <2>. QED  BY <2>5, <2>6
<1>6. \E P : /\ {new.done, new.tell, new.log} \subseteq Seq(P)
            /\ \A p \in P : PlanFor(new.req, p) /\ Wrote(ws, new.num, p)
  <2>1. PICK P : \A p \in P : PlanFor(st.req, p) /\ Wrote(ws, st.num, p)
    BY DEF Work
  <2>2. <<>> \in Seq(P)
    OBVIOUS
  <2>3. {new.done, new.tell, new.log} \subseteq Seq(P)
    BY <2>2
  <2>. QED  BY <2>1, <2>3
<1>7. Work(new, time, ws)
  BY <1>1, <1>5, <1>6 DEF Work
<1>8. \A id : Heard(st.req, st.num, id, ws, lg) => Heard(st.req, st.num, id, ws, mlg)
  <2>1. Extends(ws, ws)
    BY DEF Extends
  <2>. QED  BY <2>1, HeardGrows
<1>9. \A id \in ToSet(new.success) : Heard(new.req, new.num, id, ws, mlg)
  BY <1>4, <1>8 DEF Books, Collecting
<1>10. \A id \in ToSet(new.success) \cup {} : Accounted(new, id, ws, mlg)
  BY <1>9 DEF Accounted
<1>11. \A w \in DOMAIN ws : ws[w].num = new.num =>
          \/ ws[w].id \in ToSet(new.success) \cup {}
          \/ new.req.op = "batchMerge" /\ mfailures > 0
  <2>. SUFFICES ASSUME NEW w \in DOMAIN ws, ws[w].num = st.num
                PROVE  ws[w].id \in ToSet(st.success) \/ mfailures > 0
    OBVIOUS
  <2>1. ws[w].id \in ToSet(st.success) \cup hand \/ failures > 0
    BY <1>4 DEF Books
  <2>. QED  BY <1>2, <1>3, <2>1
<1>12. Len(new.success) + Len(new.errors) + Len(new.todo) + (IF {} = {} THEN 0 ELSE 1)
         = Len(new.req.items)
  BY <1>1, <1>5 DEF Adds
<1>13. Books(new, {}, ws, mlg, mfailures)
  BY <1>9, <1>10, <1>11, <1>12 DEF Books
<1>. QED  BY <1>7, <1>13

LEMMA AbortKeeps ==
    ASSUME StateInv, HandlersInv, ReportsInv, NEW h \in Handlers, Active(h), Abort(h),
           handler[h].pc = "write" \/ faults' > 0, StepOf(h), writes' = writes
    PROVE  HandlersInv' /\ ReportsInv'
<1>. DEFINE st == handler[h]
            id == IF st.plan = NoPlan THEN Item(h).id ELSE st.plan.id
            line == [id |-> id, status |-> 500]
            new == [st EXCEPT !.plan = NoPlan, !.done = <<>>, !.tell = <<>>, !.log = <<>>,
                              !.todo = IF st.pc \in {"read", "write"} THEN Tail(@) ELSE @,
                              !.errors = Append(@, line)]
<1>1. /\ Work(st, now, writes) /\ AtStep(st) /\ DOMAIN st = Fields /\ st.req \in Requests
      /\ Books(st, IF st.pc = "write" THEN {} ELSE InHand(st), writes, log, faults)
  BY HandlerAt
<1>2. CASE st.req.op # "batchMerge"
  <2>1. End(h, ServerError)
    BY <1>2 DEF Abort
  <2>2. Report(st.req, st.num, ServerError, writes', log', faults')
    BY WaitingReport
  <2>. QED  BY <2>1, <2>2, HandlerEnds
<1>3. CASE st.req.op = "batchMerge"
  <2>1. id \in Ids
    <3>1. CASE st.plan = NoPlan
      <4>1. st.pc \in {"read", "write"} /\ st.todo # <<>>
        BY <1>1, <1>3, <3>1 DEF AtStep, Collecting
      <4>2. Item(h) \in ToSet(st.req.items)
        BY <1>1, <4>1, TailIn DEF Work, Item
      <4>. QED  BY <1>1, <3>1, <4>2, ItemOfRequest
    <3>2. CASE st.plan # NoPlan
      BY <1>1, <3>2, ItemOfRequest DEF Work, PlanFor, IdsOf, ToSet
    <3>. QED  BY <3>1, <3>2
  <2>2. line \in Error
    BY <2>1 DEF Error, Statuses
  <2>3. Continue(h, new)
    BY <1>3 DEF Abort
  <2>. HIDE DEF line, id
  <2>4. /\ new.num = st.num /\ new.req = st.req /\ new.at = st.at /\ new.plan = NoPlan
        /\ new.success = st.success /\ new.done = <<>> /\ new.tell = <<>> /\ new.log = <<>>
        /\ new.todo = IF st.pc \in {"read", "write"} THEN Tail(st.todo) ELSE st.todo
        /\ new.errors = Append(st.errors, line)
        /\ DOMAIN new = Fields
    BY <1>1 DEF Fields
  <2>. HIDE DEF new
  <2>5. /\ faults \in Nat /\ faults' \in Nat /\ faults <= faults' /\ Extends(log, log')
        /\ st.pc \in {"read", "write"} \/ faults' > 0
    BY DEF StateInv, StepOf
  <2>6. Work(new, now, writes) /\ Books(new, {}, writes, log', faults')
    <3>. HIDE DEF st
    <3>. QED  BY <1>1, <1>3, <2>2, <2>4, <2>5, ItemAborted
  <2>7. Ready(new) /\ InHand(new) = {}
    BY <1>3, <2>4 DEF Ready, InHand, Collecting
  <2>. QED  BY <2>3, <2>4, <2>6, <2>7, Continues
<1>. QED  BY <1>2, <1>3

LEMMA DuplicateKeyKeeps ==
    ASSUME StateInv, HandlersInv, ReportsInv, NEW h \in Handlers, Active(h), DuplicateKey(h)
    PROVE  HandlersInv' /\ ReportsInv'
<1>1. StepOf(h) /\ writes' = writes
  BY SameSequences DEF DuplicateKey, StepOf, StateInv
<1>. QED  BY <1>1, AbortKeeps DEF DuplicateKey

LEMMA FailKeeps ==
    ASSUME StateInv, HandlersInv, ReportsInv, NEW h \in Handlers, Active(h), Fail(h)
    PROVE  HandlersInv' /\ ReportsInv'
<1>1. Extends(log, log')
  <2>1. CASE UNCHANGED log
    BY <2>1 DEF Extends
  <2>2. CASE log' = Append(log, Mutation(handler[h]))
    <3>1. log \in Seq(ToSet(log))
      BY DEF StateInv
    <3>. QED  BY <2>2, <3>1, AppendExtends
  <2>. QED  BY <2>1, <2>2 DEF Fail
<1>2. faults \in Nat /\ faults' = faults + 1 /\ faults' > 0 /\ faults' \in Nat /\ faults <= faults'
  BY DEF Fail, StateInv
<1>3. StepOf(h) /\ writes' = writes
  BY <1>1, <1>2, SameSequences DEF Fail, StepOf
<1>4. Abort(h)
  BY DEF Fail
<1>. QED  BY <1>2, <1>3, <1>4, AbortKeeps
\* The handler that tells or records says the next thing of what it has written.
LEMMA NextIsWritten ==
    ASSUME NEW st, NEW ws, NEW time, Work(st, time, ws), NEW s \in {st.tell, st.log}, s # <<>>
    PROVE  PlanFor(st.req, Head(s)) /\ Wrote(ws, st.num, Head(s))
<1>1. PICK P : /\ {st.done, st.tell, st.log} \subseteq Seq(P)
               /\ \A p \in P : PlanFor(st.req, p) /\ Wrote(ws, st.num, p)
  BY DEF Work
<1>2. Head(s) \in P
  BY <1>1, TailIn
<1>. QED  BY <1>1, <1>2

LEMMA WorkShrinks ==
    ASSUME NEW st, NEW new, NEW ws, NEW time, Work(st, time, ws), AtStep(st),
           st.pc \in {"tell", "log"}, DOMAIN new = Fields,
           new.num = st.num, new.req = st.req, new.at = st.at, new.todo = st.todo,
           new.plan = st.plan, new.success = st.success, new.errors = st.errors,
           new.done = st.done,
           new.tell = IF st.pc = "tell" THEN Tail(st.tell) ELSE st.tell,
           new.log = IF st.pc = "log" THEN Tail(st.log) ELSE st.log
    PROVE  Work(new, time, ws) /\ Ready(new) /\ InHand(new) = InHand(st)
<1>1. PICK P : /\ {st.done, st.tell, st.log} \subseteq Seq(P)
               /\ \A p \in P : PlanFor(st.req, p) /\ Wrote(ws, st.num, p)
  BY DEF Work
<1>2. {new.done, new.tell, new.log} \subseteq Seq(P)
  <2>1. st.pc = "tell" => Tail(st.tell) \in Seq(P)
    BY <1>1, TailIn DEF AtStep
  <2>2. st.pc = "log" => Tail(st.log) \in Seq(P)
    BY <1>1, TailIn DEF AtStep
  <2>. QED  BY <1>1, <2>1, <2>2
<1>3. Work(new, time, ws)
  BY <1>1, <1>2 DEF Work
<1>4. Ready(new)
  <2>1. st.req.op \notin Collecting => Len(new.done) <= 1 /\ new.plan # NoPlan
    BY DEF AtStep
  <2>2. st.req.op \in Collecting => new.plan = NoPlan /\ new.todo = <<>>
    BY DEF AtStep
  <2>. QED  BY <2>1, <2>2 DEF Ready
<1>. QED  BY <1>3, <1>4 DEF InHand

LEMMA NotifyKeeps ==
    ASSUME StateInv, HandlersInv, ReportsInv, NEW h \in Handlers, Active(h), Notify(h)
    PROVE  HandlersInv' /\ ReportsInv'
<1>. DEFINE st == handler[h]
            new == [st EXCEPT !.tell = Tail(@)]
<1>1. /\ Work(st, now, writes) /\ AtStep(st) /\ DOMAIN st = Fields /\ st.pc = "tell"
      /\ Books(st, InHand(st), writes, log, faults)
  BY HandlerAt DEF Notify
<1>2. Continue(h, new)
  BY DEF Notify
<1>3. /\ new.num = st.num /\ new.req = st.req /\ new.at = st.at /\ new.todo = st.todo
      /\ new.plan = st.plan /\ new.success = st.success /\ new.errors = st.errors
      /\ new.done = st.done /\ new.tell = Tail(st.tell) /\ new.log = st.log
      /\ DOMAIN new = Fields
  BY <1>1 DEF Fields
<1>. HIDE DEF new
<1>4. Work(new, now, writes) /\ Ready(new) /\ InHand(new) = InHand(st)
  <2>. HIDE DEF st
  <2>. QED  BY <1>1, <1>3, WorkShrinks
<1>5. \A id : Accounted(st, id, writes, log) => Accounted(new, id, writes, log)
  BY <1>3, AccountedSame
<1>6. Books(new, InHand(new), writes, log, faults)
  BY <1>1, <1>3, <1>4, <1>5 DEF Books
<1>7. StepOf(h) /\ writes' = writes /\ log' = log /\ faults' = faults
  BY SameSequences DEF Notify, StepOf, StateInv
<1>. QED  BY <1>2, <1>3, <1>4, <1>6, <1>7, Continues

\* The mutation of a write names its entity, and carries its document and its version.
LEMMA MutationIsWritten ==
    ASSUME NEW st, NEW ws, now \in Nat, Work(st, now, ws), st.log # <<>>
    PROVE  /\ Mutation(st).num = st.num
           /\ Mutation(st).id \in {Head(st.log).id, recorded_id(PlanDoc(Head(st.log)))}
           /\ Mutation(st).snapshot = PlanDoc(Head(st.log))
           /\ Recorded(Mutation(st), ws)
<1>. DEFINE plan == Head(st.log)
            m == Mutation(st)
<1>1. PlanFor(st.req, plan) /\ Wrote(ws, st.num, plan)
  BY NextIsWritten
<1>2. /\ m.num = st.num /\ m.snapshot = PlanDoc(plan)
      /\ m.id = entity_id(st)
      /\ m.version = IF st.req.op = "batchDelete" THEN now ELSE plan.doc["modifiedAt"]
  BY DEF Mutation, PlanDoc
<1>. HIDE DEF plan, m
<1>3. m.id \in {plan.id, recorded_id(PlanDoc(plan))}
  BY <1>2 DEF entity_id, PlanDoc, plan
<1>4. m.snapshot # NoDoc => m.version = m.snapshot["modifiedAt"]
  <2>1. plan.write = "delete" => m.snapshot = NoDoc
    BY <1>2 DEF PlanDoc
  <2>2. plan.write # "delete" => m.snapshot = plan.doc /\ st.req.op # "batchDelete"
    BY <1>1, <1>2 DEF PlanDoc, PlanFor
  <2>. QED  BY <1>2, <2>1, <2>2
<1>5. Recorded(m, ws)
  BY <1>1, <1>2, <1>3, <1>4 DEF Recorded, Wrote, NamesOf
<1>. QED  BY <1>2, <1>3, <1>5 DEF plan, m

LEMMA RecordMutationKeeps ==
    ASSUME StateInv, HandlersInv, ReportsInv, NEW h \in Handlers, Active(h), RecordMutation(h)
    PROVE  HandlersInv' /\ ReportsInv'
<1>. DEFINE st == handler[h]
            new == [st EXCEPT !.log = Tail(@)]
            plan == Head(st.log)
<1>1. /\ Work(st, now, writes) /\ AtStep(st) /\ DOMAIN st = Fields /\ st.pc = "log"
      /\ Books(st, InHand(st), writes, log, faults) /\ now \in Nat
      /\ log \in Seq(ToSet(log)) /\ faults \in Nat
  BY HandlerAt DEF RecordMutation, StateInv
<1>2. Continue(h, new) /\ log' = Append(log, Mutation(st))
  BY DEF RecordMutation
<1>3. /\ new.num = st.num /\ new.req = st.req /\ new.at = st.at /\ new.todo = st.todo
      /\ new.plan = st.plan /\ new.success = st.success /\ new.errors = st.errors
      /\ new.done = st.done /\ new.tell = st.tell /\ new.log = Tail(st.log)
      /\ DOMAIN new = Fields
  BY <1>1 DEF Fields
<1>. HIDE DEF new
<1>4. Work(new, now, writes) /\ Ready(new) /\ InHand(new) = InHand(st)
  <2>. HIDE DEF st
  <2>. QED  BY <1>1, <1>3, WorkShrinks
<1>5. Extends(log, log') /\ Extends(writes, writes)
  BY <1>1, <1>2, AppendExtends, SameSequences
<1>6. ToSet(st.log) = ToSet(new.log) \cup {plan}
  <2>1. PICK P : st.log \in Seq(P)
    BY <1>1 DEF Work
  <2>. QED  BY <1>1, <1>3, <2>1, TailIn DEF AtStep
<1>7. Logged(log', st.num, plan.id, PlanDoc(plan))
  <2>1. /\ Mutation(st).num = st.num /\ Mutation(st).snapshot = PlanDoc(plan)
        /\ Mutation(st).id \in {plan.id, recorded_id(PlanDoc(plan))}
    BY <1>1, MutationIsWritten DEF AtStep
  <2>2. Len(log) + 1 \in DOMAIN log' /\ log'[Len(log) + 1] = Mutation(st)
    BY <1>1, <1>2, AppendedOne
  <2>. HIDE DEF plan, st
  <2>. QED  BY <2>1, <2>2 DEF Logged
<1>8. ASSUME NEW id, Accounted(st, id, writes, log)
      PROVE  Accounted(new, id, writes, log')
  <2>1. CASE Heard(st.req, st.num, id, writes, log)
    <3>1. Heard(st.req, st.num, id, writes, log')
      BY <1>5, <2>1, HeardGrows
    <3>. QED  BY <1>3, <3>1 DEF Accounted
  <2>2. ASSUME NEW w \in DOMAIN writes, NEW p \in ToSet(st.done) \cup ToSet(st.log),
               writes[w].num = st.num, writes[w].id = id,
               p.id = id, PlanDoc(p) = writes[w].doc, p.changed = writes[w].changed
        PROVE  Accounted(new, id, writes, log')
    <3>1. CASE p = plan
      <4>1. Logged(log', st.num, id, writes[w].doc)
        BY <1>7, <1>8, <2>2, <3>1
      <4>2. Heard(st.req, st.num, id, writes, log')
        BY <2>2, <4>1 DEF Heard
      <4>. QED  BY <1>3, <4>2 DEF Accounted
    <3>2. CASE p # plan
      <4>1. p \in ToSet(new.done) \cup ToSet(new.log)
        BY <1>3, <1>6, <3>2
      <4>. QED  BY <1>3, <2>2, <4>1 DEF Accounted
    <3>. QED  BY <3>1, <3>2
  <2>. QED  BY <1>8, <2>1, <2>2 DEF Accounted
<1>9. \A id : Heard(st.req, st.num, id, writes, log) => Heard(st.req, st.num, id, writes, log')
  BY <1>5, HeardGrows
<1>10. Books(new, InHand(new), writes, log', faults)
  BY <1>1, <1>3, <1>4, <1>8, <1>9 DEF Books
<1>11. StepOf(h) /\ writes' = writes /\ faults' = faults
  BY <1>1, <1>5, SameSequences DEF RecordMutation, StepOf
<1>. QED  BY <1>2, <1>3, <1>4, <1>10, <1>11, Continues
LEMMA StartKeeps ==
    ASSUME StateInv, HandlersInv, ReportsInv, NEW h \in Handlers, NEW req \in Requests, Start(h, req)
    PROVE  HandlersInv' /\ ReportsInv'
<1>. DEFINE num == Len(requests) + 1
            new == [pc |-> "read", num |-> num, req |-> req, at |-> now, todo |-> req.items,
                    plan |-> NoPlan, done |-> <<>>, tell |-> <<>>, log |-> <<>>,
                    success |-> <<>>, errors |-> <<>>]
<1>1. /\ requests \in Seq(Requests) /\ Len(requests) \in Nat /\ Len(requests) < MaxRequests
      /\ MaxRequests \in Nat /\ now \in Nat \ {0} /\ faults \in Nat
  BY BoundAssumption, LenProperties DEF StateInv, Start
<1>2. /\ requests' = Append(requests, req) /\ Len(requests') = num
      /\ requests'[num] = req
      /\ \A n \in 1 .. Len(requests) : requests'[n] = requests[n]
  BY <1>1, AppendProperties DEF Start
<1>3. /\ UNCHANGED <<store, now, faults, answers, writes, told, log>>
      /\ handler'[h] = new
      /\ \A g \in Handlers : g # h => handler'[g] = handler[g]
  BY DEF Start, StateInv
<1>4. answers[num] = Waiting /\ num \in Nat \ {0} /\ num \notin 1 .. Len(requests)
  BY <1>1 DEF StateInv
<1>5. /\ new.num = num /\ new.req = req /\ new.pc = "read" /\ new.at = now
      /\ new.todo = req.items /\ new.plan = NoPlan
      /\ new.done = <<>> /\ new.tell = <<>> /\ new.log = <<>>
      /\ new.success = <<>> /\ new.errors = <<>>
      /\ DOMAIN new = Fields
  BY DEF Fields
<1>. HIDE DEF new
<1>6. req.items # <<>> /\ req.items \in Seq(ToSet(req.items))
  BY RequestAssumption
<1>7. Work(new, now, writes)
  <2>. DEFINE P == {}
  <2>1. \A p \in P : PlanFor(new.req, p) /\ Wrote(writes, new.num, p)
    OBVIOUS
  <2>. HIDE DEF P
  <2>2. <<>> \in Seq(P) /\ <<>> \in Seq(Ids) /\ <<>> \in Seq(Error)
    OBVIOUS
  <2>3. \E Q : /\ {new.done, new.tell, new.log} \subseteq Seq(Q)
              /\ \A p \in Q : PlanFor(new.req, p) /\ Wrote(writes, new.num, p)
    BY <1>5, <2>1, <2>2
  <2>. QED  BY <1>1, <1>5, <1>6, <2>2, <2>3 DEF Work
<1>8. AtStep(new)
  BY <1>5, <1>6 DEF AtStep
<1>9. Books(new, {}, writes, log, faults)
  <2>1. ToSet(new.success) \cup {} = {}
    BY <1>5 DEF ToSet
  <2>2. \A w \in DOMAIN writes : writes[w].num # new.num
    BY <1>1, <1>5 DEF StateInv
  <2>3. Len(new.success) + Len(new.errors) + Len(new.todo) + 0 = Len(new.req.items)
    <3>1. PICK n : n = Len(req.items)
      OBVIOUS
    <3>2. n \in Nat
      BY <1>6, <3>1, LenProperties
    <3>3. Len(<<>>) = 0
      OBVIOUS
    <3>4. 0 + 0 + n + 0 = n
      BY <3>2
    <3>. QED  BY <1>5, <3>1, <3>3, <3>4
  <2>. QED  BY <2>1, <2>2, <2>3 DEF Books
<1>10. HandlerInv(h)'
  <2>1. InHand(new) = {}
    BY <1>5 DEF InHand
  <2>. QED  BY <1>2, <1>3, <1>4, <1>5, <1>7, <1>8, <1>9, <2>1 DEF HandlerInv
<1>11. ASSUME NEW g \in Handlers, g # h, Active(g)'
       PROVE  Active(g) /\ HandlerInv(g)'
  <2>1. Active(g) /\ handler'[g] = handler[g]
    BY <1>3, <1>11 DEF Active
  <2>2. HandlerInv(g)
    BY <2>1 DEF HandlersInv
  <2>3. handler[g].num \in 1 .. Len(requests')
    BY <1>1, <1>2, <2>2 DEF HandlerInv
  <2>4. requests'[handler[g].num] = handler[g].req
    BY <1>2, <2>2 DEF HandlerInv
  <2>. QED  BY <1>3, <2>1, <2>2, <2>3, <2>4 DEF HandlerInv
<1>12. \A g \in Handlers : g # h /\ Active(g)' => handler'[g].num # num /\ handler'[g] = handler[g] /\ Active(g)
  BY <1>3, <1>4, <1>11 DEF HandlersInv, HandlerInv
<1>13. HandlersInv'
  <2>1. \A g \in Handlers : Active(g)' => HandlerInv(g)'
    BY <1>10, <1>11
  <2>2. ASSUME NEW f \in Handlers, NEW g \in Handlers, Active(f)', Active(g)', f # g
        PROVE  handler'[f].num # handler'[g].num
    BY <1>3, <1>5, <1>12, <2>2 DEF HandlersInv
  <2>. QED  BY <2>1, <2>2 DEF HandlersInv
<1>14. ReportsInv'
  <2>. SUFFICES ASSUME NEW n \in 1 .. num
                PROVE  Report(requests'[n], n, answers[n], writes, log, faults)
    BY <1>2, <1>3 DEF ReportsInv
  <2>1. CASE n \in 1 .. Len(requests)
    BY <1>2, <2>1 DEF ReportsInv
  <2>2. CASE n = num
    BY <1>4, <2>2, WaitingReport
  <2>. QED  BY <1>1, <2>1, <2>2
<1>. QED  BY <1>13, <1>14

LEMMA CrashKeeps ==
    ASSUME StateInv, HandlersInv, ReportsInv, Crash
    PROVE  HandlersInv' /\ ReportsInv'
<1>1. \A g \in Handlers : ~Active(g)'
  BY DEF Crash, Active
<1>2. /\ UNCHANGED <<requests, answers, writes, log>>
      /\ faults \in Nat /\ faults' = faults + 1 /\ faults' \in Nat /\ faults <= faults'
  BY DEF Crash, StateInv
<1>3. ASSUME NEW num \in 1 .. Len(requests), NEW req, NEW answer,
             Report(req, num, answer, writes, log, faults)
      PROVE  Report(req, num, answer, writes, log, faults')
  <2>1. Extends(writes, writes) /\ Extends(log, log) /\ \A other : NewOf(writes, writes, other)
    BY SameSequences
  <2>2. num + 1 # num
    BY LenProperties DEF StateInv
  <2>. QED  BY <1>2, <1>3, <2>1, <2>2, ReportGrows
<1>. QED  BY <1>1, <1>2, <1>3 DEF HandlersInv, ReportsInv

LEMMA TickKeeps ==
    ASSUME StateInv, HandlersInv, ReportsInv, Tick
    PROVE  HandlersInv' /\ ReportsInv'
<1>1. /\ UNCHANGED <<store, handler, requests, faults, answers, writes, told, log, raced>>
      /\ now \in Nat /\ now' \in Nat /\ now <= now'
  BY DEF Tick, StateInv
<1>2. ReportsInv'
  BY <1>1 DEF ReportsInv
<1>3. ASSUME NEW g \in Handlers, Active(g)
      PROVE  HandlerInv(g)'
  <2>1. HandlerInv(g)
    BY <1>3 DEF HandlersInv
  <2>2. Work(handler[g], now', writes)
    <3>1. Extends(writes, writes)
      BY SameSequences
    <3>2. Work(handler[g], now, writes)
      BY <2>1 DEF HandlerInv
    <3>. QED  BY <1>1, <3>1, <3>2, WorkGrows
  <2>. QED  BY <1>1, <2>1, <2>2 DEF HandlerInv
<1>. QED  BY <1>1, <1>2, <1>3 DEF HandlersInv, Active
-----------------------------------------------------------------------------
(* The collections. *)

Moves(h) ==
    \/ \E st : DOMAIN st = Fields /\ st.req = handler[h].req /\ Continue(h, st)
    \/ \E answer : End(h, answer)
    \/ ReadEntity(h)
Puts(h) ==
    \/ UNCHANGED <<store, writes>>
    \/ \E plan : /\ PlanFor(handler[h].req, plan)
                 /\ Insertable(plan)
                 /\ Write(plan, handler[h].num)
                 /\ \/ handler[h].pc = "write" /\ plan = handler[h].plan
                    \/ plan.write = "delete"
AddsTo(s, t) == t = s \/ \E r : t = Append(s, r)

LEMMA MovesIs ==
    ASSUME NEW h, Moves(h)
    PROVE  /\ \E st : handler' = [handler EXCEPT ![h] = st]
           /\ \/ answers' = answers
              \/ \E answer : answers' = [answers EXCEPT ![handler[h].num] = answer]
<1>1. \A answer : End(h, answer) =>
          /\ handler' = [handler EXCEPT ![h] = Idle]
          /\ answers' = [answers EXCEPT ![handler[h].num] = answer]
  BY DEF End
<1>2. ReadEntity(h) =>
          /\ handler' = [handler EXCEPT ![h] = [handler[h] EXCEPT !.pc = "write", !.plan = Read(h)]]
          /\ answers' = answers
  BY DEF ReadEntity
<1>. QED  BY <1>1, <1>2 DEF Moves, Continue

LEMMA StepState ==
    ASSUME StateInv, HandlersInv, NEW h \in Handlers, Active(h), Moves(h), Puts(h),
           UNCHANGED <<now, requests, raced>>, faults' \in Nat,
           AddsTo(told, told'), AddsTo(log, log')
    PROVE  StateInv' /\ Extends(writes, writes')
<1>1. /\ handler[h].num \in 1 .. Len(requests) /\ handler[h].req \in Requests
      /\ Len(requests) \in Nat
  BY HandlerAt
<1>2. DOMAIN handler' = Handlers /\ DOMAIN answers' = 1 .. MaxRequests
  BY MovesIs DEF StateInv
<1>3. \A num \in (1 .. MaxRequests) \ (1 .. Len(requests)) : answers'[num] = Waiting
  BY <1>1, MovesIs DEF StateInv
<1>4. told' \in Seq(ToSet(told'))
  <2>1. told \in Seq(ToSet(told))
    BY DEF StateInv
  <2>2. \A r : Append(told, r) \in Seq(ToSet(Append(told, r)))
    BY <2>1, AppendedOne
  <2>. QED  BY <2>1, <2>2 DEF AddsTo
<1>5. log' \in Seq(ToSet(log'))
  <2>1. log \in Seq(ToSet(log))
    BY DEF StateInv
  <2>2. \A r : Append(log, r) \in Seq(ToSet(Append(log, r)))
    BY <2>1, AppendedOne
  <2>. QED  BY <2>1, <2>2 DEF AddsTo
<1>6. /\ DOMAIN store' = Ids
      /\ \A id \in Ids : store'[id] # NoDoc => Dated(store'[id])
      /\ writes' \in Seq(ToSet(writes'))
      /\ \A w \in DOMAIN writes' : writes'[w].num \in 0 .. Len(requests)
      /\ Extends(writes, writes')
  <2>1. CASE UNCHANGED <<store, writes>>
    BY <2>1, SameSequences DEF StateInv
  <2>2. CASE \E plan : /\ PlanFor(handler[h].req, plan)
                       /\ Insertable(plan)
                       /\ Write(plan, handler[h].num)
                       /\ \/ handler[h].pc = "write" /\ plan = handler[h].plan
                          \/ plan.write = "delete"
    <3>1. PICK plan : PlanFor(handler[h].req, plan) /\ Write(plan, handler[h].num)
      BY <2>2
    <3>2. plan.id \in Ids
      BY <1>1, <3>1, ItemOfRequest DEF PlanFor, IdsOf, ToSet
    <3>3. /\ Extends(writes, writes')
          /\ writes' \in Seq(ToSet(writes'))
          /\ \A k \in DOMAIN writes' : k \in DOMAIN writes \/ writes'[k].num = handler[h].num
          /\ DOMAIN store' = Ids
          /\ store'[plan.id] = PlanDoc(plan)
          /\ \A id \in Ids : id # plan.id => store'[id] = store[id]
      BY <3>1, <3>2, WriteRecords
    <3>4. \A w \in DOMAIN writes' : writes'[w].num \in 0 .. Len(requests)
      BY <1>1, <3>3 DEF StateInv, Extends
    <3>5. PlanDoc(plan) # NoDoc => Dated(PlanDoc(plan))
      BY <3>1 DEF PlanDoc, PlanFor
    <3>6. \A id \in Ids : store'[id] # NoDoc => Dated(store'[id])
      BY <3>3, <3>5 DEF StateInv
    <3>. QED  BY <3>3, <3>4, <3>6
  <2>. QED  BY <2>1, <2>2 DEF Puts
<1>. QED  BY <1>2, <1>3, <1>4, <1>5, <1>6 DEF StateInv

\* What an event says its request has written.
Heralded(e, ws) ==
    \E w \in DOMAIN ws :
        /\ ws[w].num = e.num
        /\ ws[w].id = e.id
        /\ ws[w].doc = IF e.kind = "Deleted" THEN NoDoc ELSE e.doc

LEMMA StepEffects ==
    ASSUME StateInv, EffectsInv, Extends(writes, writes'),
           NEW e, told' = told \/ (told' = Append(told, e) /\ Heralded(e, writes)),
           NEW m, log' = log \/ (log' = Append(log, m) /\ Recorded(m, writes))
    PROVE  EffectsInv'
<1>1. \A r : Heralded(r, writes) => Heralded(r, writes')
  BY DEF Heralded, Extends
<1>2. \A r : Recorded(r, writes) => Recorded(r, writes')
  BY DEF Recorded, Extends
<1>3. \A k \in DOMAIN told' : Heralded(told'[k], writes)
  <2>1. told \in Seq(ToSet(told)) /\ \A k \in DOMAIN told : Heralded(told[k], writes)
    BY DEF StateInv, EffectsInv, Heralded
  <2>. QED  BY <2>1, AppendedOne
<1>4. \A k \in DOMAIN log' : Recorded(log'[k], writes)
  <2>1. log \in Seq(ToSet(log)) /\ \A k \in DOMAIN log : Recorded(log[k], writes)
    BY DEF StateInv, EffectsInv
  <2>. QED  BY <2>1, AppendedOne
<1>5. \A k \in DOMAIN told' : Heralded(told'[k], writes')
  BY <1>1, <1>3
<1>6. \A k \in DOMAIN log' : Recorded(log'[k], writes')
  BY <1>2, <1>4
<1>. QED  BY <1>5, <1>6 DEF EffectsInv, Heralded

\* The step of a handler at work.
HandlerStep(h) ==
    \/ Refuse(h) \/ ReadRefused(h) \/ ReadEntity(h)
    \/ WriteEntity(h) \/ DuplicateKey(h) \/ batch_delete(h)
    \/ Notify(h) \/ RecordMutation(h)
    \/ Fail(h)

LEMMA HandlerStepIsActive ==
    ASSUME NEW h, HandlerStep(h)
    PROVE  Active(h)
BY DEF HandlerStep, Refuse, ReadRefused, ReadEntity, Reads, WriteEntity, DuplicateKey,
       batch_delete, Notify, RecordMutation, Fail, Active, Idle

LEMMA SkipMoves ==
    ASSUME NEW h, DOMAIN handler[h] = Fields, NEW id, NEW status, Skip(h, id, status)
    PROVE  Moves(h) /\ UNCHANGED <<store, now, requests, faults, writes, told, log, raced>>
<1>. DEFINE st == [handler[h] EXCEPT !.todo = Tail(@),
                                    !.errors = Append(@, [id |-> id, status |-> status])]
<1>1. DOMAIN st = Fields /\ st.req = handler[h].req
  BY DEF Fields
<1>2. Continue(h, st)
  BY DEF Skip
<1>. HIDE DEF st
<1>. QED  BY <1>1, <1>2 DEF Skip, Moves

LEMMA AbortMoves ==
    ASSUME NEW h, DOMAIN handler[h] = Fields, Abort(h)
    PROVE  Moves(h)
<1>1. CASE handler[h].req.op # "batchMerge"
  BY <1>1 DEF Abort, Moves
<1>2. CASE handler[h].req.op = "batchMerge"
  <2>. DEFINE id == IF handler[h].plan = NoPlan THEN Item(h).id ELSE handler[h].plan.id
              st == [handler[h] EXCEPT !.plan = NoPlan, !.done = <<>>, !.tell = <<>>, !.log = <<>>,
                        !.todo = IF handler[h].pc \in {"read", "write"} THEN Tail(@) ELSE @,
                        !.errors = Append(@, [id |-> id, status |-> 500])]
  <2>1. DOMAIN st = Fields /\ st.req = handler[h].req
    BY DEF Fields
  <2>2. Continue(h, st)
    BY <1>2 DEF Abort
  <2>. HIDE DEF st
  <2>. QED  BY <2>1, <2>2 DEF Moves
<1>. QED  BY <1>1, <1>2

LEMMA WrittenMoves ==
    ASSUME NEW h, DOMAIN handler[h] = Fields, NEW plan, Continue(h, Written(handler[h], plan))
    PROVE  Moves(h)
<1>1. DOMAIN Written(handler[h], plan) = Fields /\ Written(handler[h], plan).req = handler[h].req
  BY DEF Written, Fields
<1>. QED  BY <1>1 DEF Moves

LEMMA HandlerStepIs ==
    ASSUME StateInv, HandlersInv, NEW h \in Handlers, Active(h), HandlerStep(h)
    PROVE  /\ Moves(h) /\ Puts(h) /\ UNCHANGED <<now, requests, raced>> /\ faults' \in Nat
           /\ \/ told' = told
              \/ handler[h].pc = "tell" /\ told' = Append(told, Event(handler[h]))
           /\ \/ log' = log
              \/ handler[h].pc = "log" /\ log' = Append(log, Mutation(handler[h]))
<1>. USE DEF StateInv
<1>0. DOMAIN handler[h] = Fields
  BY HandlerAt
<1>1. CASE Refuse(h)
  BY <1>0, <1>1, SkipMoves DEF Refuse, Puts
<1>2. CASE ReadRefused(h)
  BY <1>0, <1>2, SkipMoves DEF ReadRefused, Puts
<1>3. CASE ReadEntity(h)
  BY <1>3 DEF ReadEntity, Puts, Moves
<1>4. CASE WriteEntity(h)
  <2>1. PlanFor(handler[h].req, handler[h].plan) /\ Write(handler[h].plan, handler[h].num)
    BY <1>4, HandlerAt DEF AtStep, Work, WriteEntity
  <2>2. Moves(h)
    BY <1>0, <1>4, WrittenMoves DEF WriteEntity
  <2>. QED  BY <1>4, <2>1, <2>2 DEF WriteEntity, Puts
<1>5. CASE DuplicateKey(h)
  BY <1>0, <1>5, AbortMoves DEF DuplicateKey, Puts
<1>6. CASE batch_delete(h)
  <2>1. CASE store[Item(h).id] = NoDoc
    BY <1>0, <1>6, <2>1, SkipMoves DEF batch_delete, Puts
  <2>2. CASE store[Item(h).id] # NoDoc
    <3>. DEFINE plan == DeletePlan(Item(h).id)
    <3>1. Item(h) \in ToSet(handler[h].req.items) /\ handler[h].req \in Requests
      BY <1>6, HandlerAt, TailIn DEF AtStep, Work, Item, batch_delete
    <3>2. PlanFor(handler[h].req, plan) /\ Insertable(plan) /\ plan.write = "delete"
      BY <3>1, ItemOfRequest DEF PlanFor, DeletePlan, Plan, Insertable
    <3>3. /\ Write(plan, handler[h].num) /\ Continue(h, Written(handler[h], plan))
          /\ UNCHANGED <<now, requests, faults, told, log, raced>>
      BY <1>6, <2>2 DEF batch_delete, DeletePlan
    <3>. HIDE DEF plan
    <3>4. Moves(h)
      BY <1>0, <3>3, WrittenMoves
    <3>. QED  BY <3>2, <3>3, <3>4 DEF Puts
  <2>. QED  BY <2>1, <2>2
<1>7. CASE Notify(h)
  <2>1. \E st : DOMAIN st = Fields /\ st.req = handler[h].req /\ Continue(h, st)
    <3>. DEFINE st == [handler[h] EXCEPT !.tell = Tail(@)]
    <3>1. DOMAIN st = Fields /\ st.req = handler[h].req /\ Continue(h, st)
      BY <1>0, <1>7 DEF Notify, Fields
    <3>. QED  BY <3>1
  <2>. QED  BY <1>7, <2>1 DEF Notify, Puts, Moves
<1>8. CASE RecordMutation(h)
  <2>1. \E st : DOMAIN st = Fields /\ st.req = handler[h].req /\ Continue(h, st)
    <3>. DEFINE st == [handler[h] EXCEPT !.log = Tail(@)]
    <3>1. DOMAIN st = Fields /\ st.req = handler[h].req /\ Continue(h, st)
      BY <1>0, <1>8 DEF RecordMutation, Fields
    <3>. QED  BY <3>1
  <2>. QED  BY <1>8, <2>1 DEF RecordMutation, Puts, Moves
<1>9. CASE Fail(h)
  BY <1>0, <1>9, AbortMoves DEF Fail, Puts
<1>. QED  BY <1>1, <1>2, <1>3, <1>4, <1>5, <1>6, <1>7, <1>8, <1>9 DEF HandlerStep

LEMMA HandlerStepKeeps ==
    ASSUME EntityInv, NEW h \in Handlers, Active(h), HandlerStep(h)
    PROVE  EntityInv'
<1>1. HandlersInv' /\ ReportsInv'
  BY RefuseKeeps, ReadRefusedKeeps, ReadEntityKeeps, WriteEntityKeeps, DuplicateKeyKeeps,
     BatchDeleteKeeps, NotifyKeeps, RecordMutationKeeps, FailKeeps DEF HandlerStep, EntityInv
<1>2. StateInv' /\ Extends(writes, writes')
  <2>1. AddsTo(told, told') /\ AddsTo(log, log')
    BY HandlerStepIs DEF AddsTo, EntityInv
  <2>. QED  BY <2>1, HandlerStepIs, StepState DEF EntityInv
<1>3. EffectsInv'
  <2>. DEFINE st == handler[h]
  <2>1. Work(st, now, writes) /\ AtStep(st) /\ now \in Nat
    BY HandlerAt DEF EntityInv
  <2>2. st.pc = "tell" => Heralded(Event(st), writes)
    <3>. SUFFICES ASSUME st.pc = "tell"
                  PROVE  Heralded(Event(st), writes)
      OBVIOUS
    <3>. DEFINE plan == Head(st.tell)
    <3>1. PlanFor(st.req, plan) /\ Wrote(writes, st.num, plan)
      BY <2>1, NextIsWritten DEF AtStep
    <3>2. /\ Event(st).num = st.num /\ Event(st).id = plan.id
          /\ Event(st).doc = plan.doc /\ Event(st).kind = plan.kind
      BY DEF Event
    <3>. HIDE DEF plan
    <3>. QED  BY <3>1, <3>2 DEF Heralded, Wrote, PlanFor, PlanDoc
  <2>3. st.pc = "log" => Recorded(Mutation(st), writes)
    BY <2>1, MutationIsWritten DEF AtStep
  <2>4. /\ \/ told' = told
           \/ st.pc = "tell" /\ told' = Append(told, Event(st))
        /\ \/ log' = log
           \/ st.pc = "log" /\ log' = Append(log, Mutation(st))
    BY HandlerStepIs DEF EntityInv
  <2>5. PICK e, m : e = Event(st) /\ m = Mutation(st)
    OBVIOUS
  <2>. HIDE DEF st
  <2>6. told' = told \/ (told' = Append(told, e) /\ Heralded(e, writes))
    BY <2>2, <2>4, <2>5
  <2>7. log' = log \/ (log' = Append(log, m) /\ Recorded(m, writes))
    BY <2>3, <2>4, <2>5
  <2>. QED  BY <1>2, <2>6, <2>7, StepEffects DEF EntityInv
<1>. QED  BY <1>1, <1>2, <1>3 DEF EntityInv
-----------------------------------------------------------------------------
(* At the start, and at every step. *)

Present == {i \in Ids : store[i] # NoDoc}
FirstWrite(id) == [num |-> 0, id |-> id, doc |-> store[id], by |-> "insert",
                   changed |-> changed_attribute_names(store[id])]
FirstMutation(id) == [num |-> 0, id |-> id, version |-> store[id]["modifiedAt"],
                      snapshot |-> store[id]]

\* What is stored at the start is written and recorded once each.
LEMMA InitSequences ==
    ASSUME Init
    PROVE  /\ writes \in Seq(ToSet(writes)) /\ log \in Seq(ToSet(log))
           /\ \A k \in DOMAIN writes : writes[k].id \in Present /\ writes[k] = FirstWrite(writes[k].id)
           /\ \A k \in DOMAIN log : log[k].id \in Present /\ log[k] = FirstMutation(log[k].id)
           /\ \A id \in Present : \E k \in DOMAIN writes : writes[k] = FirstWrite(id)
           /\ \A id \in Present : \E k \in DOMAIN log : log[k] = FirstMutation(id)
           /\ \A j, k \in DOMAIN writes : writes[j].id = writes[k].id => j = k
<1>. DEFINE W == {FirstWrite(id) : id \in Present}
            L == {FirstMutation(id) : id \in Present}
<1>1. IsFiniteSet(Present)
  BY BoundAssumption, FS_Subset DEF Present
<1>2. IsFiniteSet(W)
  <2>1. [id \in Present |-> FirstWrite(id)] \in Surjection(Present, W)
    BY DEF Surjection
  <2>. HIDE DEF W
  <2>. QED  BY <1>1, <2>1, FS_Surjection
<1>3. IsFiniteSet(L)
  <2>1. [id \in Present |-> FirstMutation(id)] \in Surjection(Present, L)
    BY DEF Surjection
  <2>. HIDE DEF L
  <2>. QED  BY <1>1, <2>1, FS_Surjection
<1>4. writes = SetToSeq(W) /\ log = SetToSeq(L)
  BY DEF Init, Present, FirstWrite, FirstMutation
<1>5. /\ \A id : FirstWrite(id).id = id /\ FirstMutation(id).id = id
      /\ \A w \in W : w.id \in Present /\ w = FirstWrite(w.id)
      /\ \A m \in L : m.id \in Present /\ m = FirstMutation(m.id)
      /\ \A id \in Present : FirstWrite(id) \in W /\ FirstMutation(id) \in L
  BY DEF FirstWrite, FirstMutation
<1>. HIDE DEF W, L
<1>6. /\ writes \in Seq(W)
      /\ \A i, j \in DOMAIN writes : writes[i] = writes[j] => i = j
      /\ \A x \in W : \E i \in DOMAIN writes : writes[i] = x
  BY <1>2, <1>4, SetToSeqIsInjection
<1>7. log \in Seq(L) /\ \A x \in L : \E i \in DOMAIN log : log[i] = x
  BY <1>3, <1>4, SetToSeqIsInjection
<1>8. writes \in Seq(ToSet(writes)) /\ log \in Seq(ToSet(log))
  BY <1>6, <1>7, SeqOfRange DEF ToSet, Range
<1>9. \A k \in DOMAIN writes : writes[k] \in W
  BY <1>6
<1>10. \A k \in DOMAIN log : log[k] \in L
  BY <1>7
<1>11. \A id \in Present : \E k \in DOMAIN log : log[k] = FirstMutation(id)
  BY <1>5, <1>7
<1>. QED  BY <1>5, <1>6, <1>8, <1>9, <1>10, <1>11

LEMMA InitEntity == Init => EntityInv
<1>. SUFFICES ASSUME Init
              PROVE  EntityInv
  OBVIOUS
<1>1. /\ requests = <<>> /\ told = <<>> /\ raced = {} /\ now = 1 /\ faults = 0
      /\ store \in Stores
      /\ handler = [h \in Handlers |-> Idle]
      /\ answers = [n \in 1 .. MaxRequests |-> Waiting]
  BY DEF Init
<1>2. /\ DOMAIN store = Ids
      /\ \A id \in Ids : store[id] # NoDoc => Dated(store[id])
  BY <1>1, StoreAssumption DEF Dated
<1>3. /\ Len(requests) = 0 /\ requests \in Seq(Requests) /\ told \in Seq(ToSet(told))
      /\ DOMAIN told = {} /\ 1 .. Len(requests) = {} /\ 0 .. Len(requests) = {0}
  BY <1>1
<1>4. \A w \in DOMAIN writes : writes[w].num = 0
  BY InitSequences DEF FirstWrite
<1>5. StateInv
  BY <1>1, <1>2, <1>3, <1>4, InitSequences, BoundAssumption DEF StateInv
<1>6. HandlersInv
  BY <1>1 DEF HandlersInv, Active
<1>7. ReportsInv
  BY <1>3 DEF ReportsInv
<1>8. \A k \in DOMAIN log : Recorded(log[k], writes)
  <2>. SUFFICES ASSUME NEW k \in DOMAIN log
                PROVE  Recorded(log[k], writes)
    OBVIOUS
  <2>1. PICK id \in Present : log[k] = FirstMutation(id)
    BY InitSequences
  <2>2. PICK w \in DOMAIN writes : writes[w] = FirstWrite(id)
    BY InitSequences
  <2>. QED  BY <2>1, <2>2 DEF FirstMutation, FirstWrite, Recorded, NamesOf
<1>. QED  BY <1>3, <1>5, <1>6, <1>7, <1>8 DEF EntityInv, EffectsInv

LEMMA NextEntity == EntityInv /\ [Next]_vars => EntityInv'
<1>. SUFFICES ASSUME EntityInv, [Next]_vars
              PROVE  EntityInv'
  OBVIOUS
<1>1. ASSUME NEW h \in Handlers, NEW req \in Requests, Start(h, req)
      PROVE  EntityInv'
  <2>1. HandlersInv' /\ ReportsInv'
    BY <1>1, StartKeeps DEF EntityInv
  <2>2. UNCHANGED <<store, now, faults, answers, writes, told, log>>
    BY <1>1 DEF Start
  <2>3. EffectsInv'
    BY <2>2 DEF EffectsInv, EntityInv
  <2>4. /\ requests \in Seq(Requests) /\ Len(requests) \in Nat /\ Len(requests) < MaxRequests
        /\ MaxRequests \in Nat
    BY <1>1, BoundAssumption, LenProperties DEF StateInv, Start, EntityInv
  <2>5. /\ requests' \in Seq(Requests) /\ Len(requests') = Len(requests) + 1
    BY <1>1, <2>4, AppendProperties DEF Start
  <2>6. raced' \subseteq Ids
    <3>1. IdsOf(req) \subseteq Ids
      BY ItemOfRequest DEF IdsOf, ToSet
    <3>. QED  BY <1>1, <3>1 DEF Start, StateInv, EntityInv
  <2>7. DOMAIN handler' = Handlers
    BY <1>1 DEF Start, StateInv, EntityInv
  <2>8. /\ \A num \in (1 .. MaxRequests) \ (1 .. Len(requests')) : answers[num] = Waiting
        /\ \A w \in DOMAIN writes : writes[w].num \in 0 .. Len(requests')
        /\ Len(requests') <= MaxRequests
    BY <2>4, <2>5 DEF StateInv, EntityInv
  <2>9. StateInv'
    BY <2>2, <2>5, <2>6, <2>7, <2>8 DEF StateInv, EntityInv
  <2>. QED  BY <2>1, <2>3, <2>9 DEF EntityInv
<1>2. ASSUME NEW h \in Handlers, HandlerStep(h)
      PROVE  EntityInv'
  <2>1. Active(h)
    BY <1>2, HandlerStepIsActive
  <2>. QED  BY <1>2, <2>1, HandlerStepKeeps
<1>3. CASE Crash
  <2>1. HandlersInv' /\ ReportsInv'
    BY <1>3, CrashKeeps DEF EntityInv
  <2>2. StateInv' /\ EffectsInv'
    BY <1>3 DEF Crash, StateInv, EffectsInv, EntityInv
  <2>. QED  BY <2>1, <2>2 DEF EntityInv
<1>4. CASE Tick
  <2>1. HandlersInv' /\ ReportsInv'
    BY <1>4, TickKeeps DEF EntityInv
  <2>2. StateInv' /\ EffectsInv'
    BY <1>4, BoundAssumption DEF Tick, StateInv, EffectsInv, EntityInv
  <2>. QED  BY <2>1, <2>2 DEF EntityInv
<1>5. CASE UNCHANGED vars
  <2>. USE <1>5 DEF vars
  <2>1. StateInv' /\ EffectsInv' /\ ReportsInv'
    BY DEF StateInv, EffectsInv, ReportsInv, EntityInv
  <2>2. HandlersInv'
    BY DEF HandlersInv, HandlerInv, Active, EntityInv
  <2>. QED  BY <2>1, <2>2 DEF EntityInv
<1>. QED  BY <1>1, <1>2, <1>3, <1>4, <1>5 DEF Next, HandlerStep

\* What every reachable state of the handlers keeps.
THEOREM EntitiesAreKept == Spec => []EntityInv
BY InitEntity, NextEntity, PTL DEF Spec
-----------------------------------------------------------------------------
(* What it means for the clients, the subscribers and the peers. *)

\* Between two awaits a handler holds a request of the log, an item to work on, and
\* something to write, to tell or to record.
THEOREM HandlersAreTyped == Spec => []TypeOK
<1>1. EntityInv => TypeOK
  <2>. SUFFICES ASSUME EntityInv
                PROVE  TypeOK
    OBVIOUS
  <2>1. \A id \in Ids : store[id] # NoDoc => "modifiedAt" \in DOMAIN store[id]
    BY DEF EntityInv, StateInv, Dated
  <2>2. ASSUME NEW h \in Handlers, Active(h)
        PROVE  /\ handler[h].pc \in {"read", "write", "tell", "log"}
               /\ handler[h].num \in 1 .. Len(requests)
               /\ handler[h].at \in 1 .. now
               /\ handler[h].pc = "read" => handler[h].todo # <<>>
               /\ handler[h].pc = "write" => handler[h].plan.write # "none" /\ handler[h].todo # <<>>
               /\ handler[h].pc = "tell" => handler[h].tell # <<>>
               /\ handler[h].pc = "log" => handler[h].tell = <<>> /\ handler[h].log # <<>>
    <3>1. HandlerInv(h)
      BY <2>2 DEF EntityInv, HandlersInv
    <3>. QED  BY <3>1 DEF HandlerInv, Work, AtStep, PlanFor
  <2>. QED  BY <2>1, <2>2 DEF TypeOK, EntityInv, StateInv
<1>. QED  BY <1>1, EntitiesAreKept, PTL

\* Every event and every mutation carries a document that its request had written
\* before, and a mutation the version of its snapshot.
THEOREM EffectsAreOfTheStore == Spec => []EffectsFollowStore
<1>1. EntityInv => EffectsFollowStore
  BY DEF EntityInv, EffectsInv, Recorded, EffectsFollowStore, WroteBy
<1>. QED  BY <1>1, EntitiesAreKept, PTL

\* A batch report names every item once, and nothing as failed that was written, but
\* for merges whose notification or recording failed.
THEOREM BatchesReportEveryItem == Spec => []BatchReportsEveryItem
<1>1. EntityInv => BatchReportsEveryItem
  <2>. SUFFICES ASSUME EntityInv, NEW num \in DOMAIN requests, Answered(num)
                PROVE  /\ Len(answers[num].success) + Len(answers[num].errors) = Len(requests[num].items)
                       /\ \A id \in (Failed(num) \cap Ids) \ ToSet(answers[num].success) :
                             \/ WroteBy(num, id) = {}
                             \/ requests[num].op = "batchMerge" /\ faults > 0
    BY DEF BatchReportsEveryItem
  <2>1. num \in 1 .. Len(requests)
    BY LenProperties DEF EntityInv, StateInv
  <2>2. Report(requests[num], num, answers[num], writes, log, faults)
    BY <2>1 DEF EntityInv, ReportsInv
  <2>3. answers[num].status \in {200, 207}
    BY DEF Answered
  <2>. QED  BY <2>2, <2>3 DEF Report, WroteBy
<1>. QED  BY <1>1, EntitiesAreKept, PTL

\* What a client is told has succeeded was stored, and recorded for the peers unless
\* they need not hear of it.
THEOREM SuccessesAreStoredAndRecorded == Spec => []SuccessIsStoredAndRecorded
<1>1. EntityInv => SuccessIsStoredAndRecorded
  <2>. SUFFICES ASSUME EntityInv, NEW num \in DOMAIN requests, Answered(num),
                       NEW id \in ToSet(answers[num].success)
                PROVE  \E w \in WroteBy(num, id) :
                          \/ Silent(w)
                          \/ \E k \in DOMAIN log : /\ log[k].num = num
                                                   /\ log[k].id \in NamesOf(writes[w])
                                                   /\ log[k].snapshot = writes[w].doc
    BY DEF SuccessIsStoredAndRecorded
  <2>1. num \in 1 .. Len(requests) /\ num > 0
    BY LenProperties DEF EntityInv, StateInv
  <2>2. Report(requests[num], num, answers[num], writes, log, faults)
    BY <2>1 DEF EntityInv, ReportsInv
  <2>3. Heard(requests[num], num, id, writes, log)
    BY <2>2 DEF Answered, Report
  <2>4. PICK w \in DOMAIN writes :
           /\ writes[w].num = num
           /\ writes[w].id = id
           /\ SilentFor(requests[num], writes[w]) \/ Logged(log, num, id, writes[w].doc)
    BY <2>3 DEF Heard
  <2>5. w \in WroteBy(num, id)
    BY <2>4 DEF WroteBy
  <2>6. SilentFor(requests[num], writes[w]) => Silent(w)
    BY <2>1, <2>4 DEF SilentFor, Silent
  <2>. QED  BY <2>4, <2>5, <2>6 DEF Logged, NamesOf
<1>. QED  BY <1>1, EntitiesAreKept, PTL
-----------------------------------------------------------------------------
(* The writes of one entity, one after the other. *)

\* What is not stored was never written, or has been deleted.
GoneWasDeleted ==
    \A id \in Ids : store[id] = NoDoc =>
        \A v \in DOMAIN writes : writes[v].id = id =>
            \E k \in v .. Len(writes) : writes[k].id = id /\ writes[k].doc = NoDoc

LEMMA NextWrites ==
    ASSUME EntityInv, [Next]_vars
    PROVE  \/ UNCHANGED <<store, writes>>
           \/ \E h \in Handlers : Active(h) /\ Puts(h)
<1>1. ASSUME NEW h \in Handlers, NEW req \in Requests, Start(h, req)
      PROVE  UNCHANGED <<store, writes>>
  BY <1>1 DEF Start
<1>2. ASSUME NEW h \in Handlers, HandlerStep(h)
      PROVE  Active(h) /\ Puts(h)
  <2>1. Active(h)
    BY <1>2, HandlerStepIsActive
  <2>. QED  BY <1>2, <2>1, HandlerStepIs DEF EntityInv
<1>3. CASE Crash \/ Tick \/ UNCHANGED vars
  BY <1>3 DEF Crash, Tick, vars
<1>. QED  BY <1>1, <1>2, <1>3 DEF Next, HandlerStep

LEMMA WriteKeepsCreation ==
    ASSUME EntityInv, CreatedOnce, GoneWasDeleted, NEW plan, plan.id \in Ids,
           Insertable(plan), NEW num, Write(plan, num)
    PROVE  CreatedOnce' /\ GoneWasDeleted'
<1>. DEFINE new == [num |-> num, id |-> plan.id, doc |-> PlanDoc(plan),
                    by |-> plan.write, changed |-> plan.changed]
            last == Len(writes) + 1
<1>1. writes' = Append(writes, new) /\ store' = [store EXCEPT ![plan.id] = PlanDoc(plan)]
  BY DEF Write, PlanDoc
<1>2. new.id = plan.id /\ new.doc = PlanDoc(plan) /\ new.by = plan.write
  OBVIOUS
<1>. HIDE DEF new
<1>3. writes \in Seq(ToSet(writes)) /\ DOMAIN store = Ids
  BY DEF EntityInv, StateInv
<1>4. /\ DOMAIN writes' = DOMAIN writes \cup {last} /\ DOMAIN writes = 1 .. Len(writes)
      /\ Len(writes) \in Nat /\ Len(writes') = last
      /\ writes'[last] = new
      /\ \A k \in DOMAIN writes : writes'[k] = writes[k]
  BY <1>1, <1>3, AppendedOne
<1>5. \A v \in DOMAIN writes : \A k \in v .. Len(writes) : k \in DOMAIN writes /\ k \in v .. last
  BY <1>4
<1>6. CreatedOnce'
  <2>. SUFFICES ASSUME NEW v \in DOMAIN writes', NEW w \in DOMAIN writes', v < w,
                       writes'[v].id = writes'[w].id, writes'[w].by = "insert"
                PROVE  \E k \in v .. w : writes'[k].id = writes'[v].id /\ writes'[k].doc = NoDoc
    BY DEF CreatedOnce
  <2>1. v \in DOMAIN writes
    BY <1>4
  <2>2. CASE w \in DOMAIN writes
    <3>1. PICK k \in v .. w : writes[k].id = writes[v].id /\ writes[k].doc = NoDoc
      BY <1>4, <2>1, <2>2 DEF CreatedOnce
    <3>2. k \in DOMAIN writes
      BY <1>4, <2>1, <2>2
    <3>. QED  BY <1>4, <2>1, <3>1, <3>2
  <2>3. CASE w = last
    <3>1. store[plan.id] = NoDoc /\ writes[v].id = plan.id
      BY <1>2, <1>4, <2>1, <2>3 DEF Insertable
    <3>2. PICK k \in v .. Len(writes) : writes[k].id = plan.id /\ writes[k].doc = NoDoc
      BY <2>1, <3>1 DEF GoneWasDeleted
    <3>3. k \in DOMAIN writes /\ k \in v .. w
      BY <1>5, <2>1, <2>3
    <3>. QED  BY <1>4, <2>1, <3>1, <3>2, <3>3
  <2>. QED  BY <1>4, <2>2, <2>3
<1>7. GoneWasDeleted'
  <2>. SUFFICES ASSUME NEW id \in Ids, store'[id] = NoDoc, NEW v \in DOMAIN writes', writes'[v].id = id
                PROVE  \E k \in v .. last : writes'[k].id = id /\ writes'[k].doc = NoDoc
    BY <1>4 DEF GoneWasDeleted
  <2>1. CASE id = plan.id
    <3>1. new.doc = NoDoc
      BY <1>1, <1>2, <1>3, <2>1
    <3>2. last \in v .. last
      BY <1>4
    <3>. QED  BY <1>2, <1>4, <2>1, <3>1, <3>2
  <2>2. CASE id # plan.id
    <3>1. store[id] = NoDoc
      BY <1>1, <1>3, <2>2
    <3>2. v \in DOMAIN writes /\ writes[v].id = id
      BY <1>2, <1>4, <2>2
    <3>3. PICK k \in v .. Len(writes) : writes[k].id = id /\ writes[k].doc = NoDoc
      BY <3>1, <3>2 DEF GoneWasDeleted
    <3>. QED  BY <1>4, <1>5, <3>2, <3>3
  <2>. QED  BY <2>1, <2>2
<1>. QED  BY <1>6, <1>7

\* Of creations that race only one succeeds: an entity is created again only after it
\* was deleted.
THEOREM EntitiesAreCreatedOnce == Spec => []CreatedOnce
<1>1. Init => CreatedOnce /\ GoneWasDeleted
  <2>. SUFFICES ASSUME Init
                PROVE  CreatedOnce /\ GoneWasDeleted
    OBVIOUS
  <2>1. \A j, k \in DOMAIN writes : writes[j].id = writes[k].id => j = k
    BY InitSequences
  <2>2. DOMAIN writes = 1 .. Len(writes)
    BY InitSequences, LenProperties
  <2>3. CreatedOnce
    BY <2>1, <2>2 DEF CreatedOnce
  <2>4. GoneWasDeleted
    BY InitSequences DEF GoneWasDeleted, Present
  <2>. QED  BY <2>3, <2>4
<1>2. EntityInv /\ CreatedOnce /\ GoneWasDeleted /\ [Next]_vars => CreatedOnce' /\ GoneWasDeleted'
  <2>. SUFFICES ASSUME EntityInv, CreatedOnce, GoneWasDeleted, [Next]_vars
                PROVE  CreatedOnce' /\ GoneWasDeleted'
    OBVIOUS
  <2>1. CASE UNCHANGED <<store, writes>>
    BY <2>1 DEF CreatedOnce, GoneWasDeleted
  <2>2. ASSUME NEW h \in Handlers, Active(h), NEW plan, PlanFor(handler[h].req, plan),
               Insertable(plan), Write(plan, handler[h].num)
        PROVE  CreatedOnce' /\ GoneWasDeleted'
    <3>1. plan.id \in Ids
      <4>1. handler[h].req \in Requests
        BY <2>2, HandlerAt DEF EntityInv
      <4>. QED  BY <2>2, <4>1, ItemOfRequest DEF PlanFor, IdsOf, ToSet
    <3>. QED  BY <2>2, <3>1, WriteKeepsCreation
  <2>. QED  BY <2>1, <2>2, NextWrites DEF Puts
<1>. QED  BY <1>1, <1>2, EntitiesAreKept, PTL DEF Spec
-----------------------------------------------------------------------------
(* What a write changes. *)

\* The members in which a document differs from the one it replaces are the request's.
Named(req, old, new, changed) ==
    /\ \A m \in Differ(old, new) \ reserved_member :
          \/ m \in changed
          \/ req.op \in {"replace", "batchUpsert"} /\ m \notin DOMAIN new
    /\ "createdAt" \in Differ(old, new) \cap DOMAIN old => Names(req, "createdAt")

LEMMA DifferIs ==
    ASSUME NEW old, NEW new, NEW m \in Differ(old, new)
    PROVE  /\ m \in DOMAIN old \cup DOMAIN new
           /\ ~(m \in DOMAIN old /\ m \in DOMAIN new /\ old[m] = new[m])
BY DEF Differ, Value

LEMMA MergeIsNamed ==
    ASSUME NEW req \in Requests, req.op \in {"merge", "batchMerge"},
           NEW item \in ToSet(req.items), NEW existing, NEW at
    PROVE  Named(req, existing, merge(item, existing, at).doc, merge(item, existing, at).changed)
<1>. DEFINE patch == item.payload
            merged == apply_merge_patch(existing, patch)
            doc == With(With(merged, "id", item.id), "modifiedAt", at)
<1>1. merge(item, existing, at).doc = doc
      /\ merge(item, existing, at).changed = DOMAIN patch \ reserved_member
  BY DEF merge, Updated, Plan, changed_attribute_names
<1>2. \A m : m \notin DOMAIN patch =>
          /\ m \in DOMAIN merged <=> m \in DOMAIN existing
          /\ m \in DOMAIN existing => merged[m] = existing[m]
  BY DEF apply_merge_patch, MergeObject, Over, Without
<1>. HIDE DEF patch, merged
<1>3. \A m : m \notin DOMAIN patch /\ m \notin {"id", "modifiedAt"} =>
          /\ m \in DOMAIN doc <=> m \in DOMAIN existing
          /\ m \in DOMAIN existing => doc[m] = existing[m]
  BY <1>2 DEF With
<1>. HIDE DEF doc
<1>4. \A m \in Differ(existing, doc) : m \in DOMAIN patch \/ m \in {"id", "modifiedAt"}
  BY <1>3, DifferIs
<1>5. "createdAt" \in DOMAIN patch => Names(req, "createdAt")
  <2>1. PICK k \in DOMAIN req.items : item = req.items[k]
    BY DEF ToSet
  <2>. QED  BY <2>1 DEF Names, patch
<1>6. \A m \in Differ(existing, doc) \ reserved_member : m \in DOMAIN patch \ reserved_member
  BY <1>4 DEF reserved_member
<1>. QED  BY <1>1, <1>4, <1>5, <1>6 DEF Named

\* Attributes laid over a document change no others.
LEMMA OverIsNamed ==
    ASSUME NEW req, NEW existing, NEW attrs, DOMAIN attrs \cap reserved_member = {}, NEW at,
           NEW changed, DOMAIN attrs \subseteq changed
    PROVE  Named(req, existing, With(Over(attrs, existing), "modifiedAt", at), changed)
<1>. DEFINE doc == With(Over(attrs, existing), "modifiedAt", at)
<1>1. \A m : m \notin DOMAIN attrs /\ m # "modifiedAt" =>
          /\ m \in DOMAIN doc <=> m \in DOMAIN existing
          /\ m \in DOMAIN existing => doc[m] = existing[m]
  BY DEF With, Over
<1>. HIDE DEF doc
<1>2. \A m \in Differ(existing, doc) : m \in DOMAIN attrs \/ m = "modifiedAt"
  BY <1>1, DifferIs
<1>3. "modifiedAt" \in reserved_member /\ "createdAt" \in reserved_member
  BY DEF reserved_member
<1>. QED  BY <1>2, <1>3 DEF Named, doc

LEMMA EditIsNamed ==
    ASSUME NEW req, NEW existing, NEW attr, attr = req.attr, NEW doc,
           \A m : m \notin {attr, "modifiedAt"} =>
               /\ m \in DOMAIN doc <=> m \in DOMAIN existing
               /\ m \in DOMAIN existing => doc[m] = existing[m]
    PROVE  Named(req, existing, doc, {attr})
<1>1. \A m \in Differ(existing, doc) : m = attr \/ m = "modifiedAt"
  BY DifferIs
<1>2. "modifiedAt" \in reserved_member
  BY DEF reserved_member
<1>. QED  BY <1>1, <1>2 DEF Named, Names

LEMMA OutcomeIsNamed ==
    ASSUME NEW req \in Requests, req.op # "batchDelete",
           NEW item \in ToSet(req.items),
           NEW existing, existing # NoDoc, NEW prepared, NEW at,
           Outcome(req, item, existing, prepared, at).write \notin {"none", "delete"}
    PROVE  Named(req, existing, Outcome(req, item, existing, prepared, at).doc,
                 Outcome(req, item, existing, prepared, at).changed)
<1>. DEFINE p == Outcome(req, item, existing, prepared, at)
            Good(q) == q.write \notin {"none", "delete"} => Named(req, existing, q.doc, q.changed)
<1>. SUFFICES Good(p)
  OBVIOUS
<1>1. \A status : Good(Refused(status))
  BY DEF Refused
<1>2. \A id, doc, changed : Named(req, existing, doc, changed) => Good(Updated(id, doc, changed))
  BY DEF Updated, Plan
<1>3. Good(delete(item, existing))
  BY DEF delete, Plan
<1>4. \A q : Named(req, existing, q.doc, q.changed) => Good(q)
  OBVIOUS
<1>. HIDE DEF Good
<1>5. CASE req.op \in {"create", "batchCreate"}
  BY <1>1, <1>5 DEF Outcome, create
<1>6. \A doc : (req.op = "batchUpsert" /\ ("createdAt" \in Differ(existing, doc) \cap DOMAIN existing
                                           => Names(req, "createdAt")))
                => Named(req, existing, doc, changed_attribute_names(doc))
  BY DEF Named, changed_attribute_names
<1>7. ASSUME NEW payload, NEW id
      PROVE  "createdAt" \notin
                Differ(existing, prepare_entity_for_replace(payload, id, existing, at)) \cap DOMAIN existing
  <2>. DEFINE doc == prepare_entity_for_replace(payload, id, existing, at)
  <2>1. "createdAt" \in DOMAIN existing =>
            "createdAt" \in DOMAIN doc /\ doc["createdAt"] = existing["createdAt"]
    BY DEF prepare_entity_for_replace, With, Without
  <2>. HIDE DEF doc
  <2>2. "createdAt" \notin Differ(existing, doc) \cap DOMAIN existing
    BY <2>1, DifferIs
  <2>. QED  BY <2>2 DEF doc
<1>8. CASE req.op = "batchUpsert"
  <2>. DEFINE payload == prepare_entity_for_create(item.payload, prepared)
              doc == IF req.flag THEN apply_merge_patch(existing, payload)
                     ELSE prepare_entity_for_replace(payload, item.id, existing, at)
  <2>1. p = Updated(item.id, doc, changed_attribute_names(doc))
    BY <1>8 DEF Outcome, batch_upsert
  <2>2. "createdAt" \in Differ(existing, doc) \cap DOMAIN existing => Names(req, "createdAt")
    <3>1. CASE req.flag
      BY <1>8, <3>1 DEF Names
    <3>2. CASE ~req.flag
      <4>. HIDE DEF payload
      <4>. QED  BY <1>7, <3>2
    <3>. QED  BY <3>1, <3>2
  <2>. HIDE DEF doc
  <2>3. Named(req, existing, doc, changed_attribute_names(doc))
    BY <1>6, <1>8, <2>2
  <2>. HIDE DEF p
  <2>. QED  BY <1>2, <2>1, <2>3
<1>9. CASE req.op \notin {"create", "batchCreate", "batchUpsert"}
  <2>1. ASSUME NEW members
        PROVE  DOMAIN Without(editable_fragment_members(item.payload), members)
                   \cap reserved_member = {}
    BY DEF Without, editable_fragment_members
  <2>2. ASSUME NEW noOverwrite
        PROVE  /\ Good(append_attrs(item, existing, noOverwrite, at))
               /\ Named(req, existing, append_attrs(item, existing, noOverwrite, at).doc,
                        changed_attribute_names(append_attrs(item, existing, noOverwrite, at).doc))
    <3>. DEFINE attrs == editable_fragment_members(item.payload)
                added == Without(attrs, IF noOverwrite THEN DOMAIN existing ELSE {})
                doc == With(Over(added, existing), "modifiedAt", at)
    <3>1. append_attrs(item, existing, noOverwrite, at) = Updated(item.id, doc, DOMAIN added)
      BY DEF append_attrs
    <3>2. DOMAIN added \cap reserved_member = {}
      BY <2>1
    <3>. HIDE DEF attrs, added
    <3>3. DOMAIN added \subseteq changed_attribute_names(doc)
      BY <3>2 DEF changed_attribute_names, With, Over
    <3>4. Named(req, existing, doc, DOMAIN added) /\ Named(req, existing, doc, changed_attribute_names(doc))
      BY <3>2, <3>3, OverIsNamed
    <3>5. Updated(item.id, doc, DOMAIN added).doc = doc
      BY DEF Updated, Plan
    <3>. HIDE DEF doc
    <3>. QED  BY <1>2, <3>1, <3>4, <3>5
  <2>3. Good(update_attrs(item, existing, at))
    <3>. DEFINE attrs == editable_fragment_members(item.payload)
                known == Without(attrs, DOMAIN attrs \ DOMAIN existing)
    <3>1. update_attrs(item, existing, at)
            = Updated(item.id, With(Over(known, existing), "modifiedAt", at), DOMAIN known)
      BY DEF update_attrs
    <3>2. DOMAIN known \cap reserved_member = {}
      BY <2>1
    <3>. HIDE DEF known
    <3>. QED  BY <1>2, <3>1, <3>2, OverIsNamed
  <2>4. Good(batch_update(item, existing, req.flag, at))
    BY <1>2, <2>2 DEF batch_update
  <2>5. req.op \in {"merge", "batchMerge"} => Good(merge(item, existing, at))
    BY <1>4, MergeIsNamed
  <2>6. req.op = "replace" => Good(replace(item, existing, at))
    <3>. DEFINE doc == prepare_entity_for_replace(item.payload, item.id, existing, at)
    <3>1. \/ replace(item, existing, at) = Refused(400)
          \/ replace(item, existing, at) = Updated(item.id, doc, changed_attribute_names(doc))
      BY DEF replace
    <3>2. "createdAt" \notin Differ(existing, doc) \cap DOMAIN existing
      BY <1>7
    <3>. HIDE DEF doc
    <3>3. req.op = "replace" => Named(req, existing, doc, changed_attribute_names(doc))
      BY <3>2 DEF Named, changed_attribute_names
    <3>. QED  BY <1>1, <1>2, <3>1, <3>3
  <2>7. ASSUME NEW v
        PROVE  Named(req, existing, With(With(existing, req.attr, v), "modifiedAt", at), {req.attr})
    <3>. DEFINE doc == With(With(existing, req.attr, v), "modifiedAt", at)
    <3>1. \A m : m \notin {req.attr, "modifiedAt"} =>
             /\ m \in DOMAIN doc <=> m \in DOMAIN existing
             /\ m \in DOMAIN existing => doc[m] = existing[m]
      BY DEF With
    <3>. HIDE DEF doc
    <3>2. Named(req, existing, doc, {req.attr})
      BY <3>1, EditIsNamed
    <3>. QED  BY <3>2 DEF doc
  <2>8. Good(patch_attr(item, existing, req.attr, at))
    BY <1>2, <2>7 DEF patch_attr
  <2>9. Good(replace_attr(item, existing, req.attr, at))
    BY <1>2, <2>7 DEF replace_attr
  <2>10. Good(delete_attr(item, existing, req.attr, at))
    <3>. DEFINE doc == With(Without(existing, {req.attr}), "modifiedAt", at)
    <3>1. \A m : m \notin {req.attr, "modifiedAt"} =>
             /\ m \in DOMAIN doc <=> m \in DOMAIN existing
             /\ m \in DOMAIN existing => doc[m] = existing[m]
      BY DEF With, Without
    <3>. HIDE DEF doc
    <3>2. Named(req, existing, doc, {req.attr})
      BY <3>1, EditIsNamed
    <3>. QED  BY <1>2, <3>2 DEF delete_attr, doc
  <2>11. p = Refused(404) \/ p = Edited(req, item, existing, at)
    BY <1>9 DEF Outcome
  <2>. HIDE DEF p
  <2>12. p = Edited(req, item, existing, at) =>
         \/ p = delete(item, existing)
         \/ req.op \in {"merge", "batchMerge"} /\ p = merge(item, existing, at)
         \/ req.op = "replace" /\ p = replace(item, existing, at)
         \/ p = append_attrs(item, existing, req.flag, at)
         \/ p = update_attrs(item, existing, at) \/ p = batch_update(item, existing, req.flag, at)
         \/ p = delete_attr(item, existing, req.attr, at)
         \/ p = patch_attr(item, existing, req.attr, at)
         \/ p = replace_attr(item, existing, req.attr, at)
    <3>1. req.op \in Operations
      BY ItemOfRequest
    <3>. QED  BY <1>9, <3>1 DEF Edited, Operations
  <2>. QED  BY <1>1, <1>3, <2>2, <2>3, <2>4, <2>5, <2>6, <2>8, <2>9, <2>10, <2>11, <2>12
<1>. QED  BY <1>5, <1>8, <1>9
\* The entities of two requests in progress are raced for.
RacesAreNoted ==
    \A g, h \in Handlers : Active(g) /\ Active(h) /\ g # h =>
        IdsOf(handler[g].req) \cap IdsOf(handler[h].req) \subseteq raced

\* Where none races, a handler is about to write what it would make of what is stored.
PlansAreFresh ==
    \A h \in Handlers : Active(h) /\ handler[h].pc = "write" /\ handler[h].plan.id \notin raced =>
        \E prepared, at :
            handler[h].plan = Outcome(handler[h].req, Head(handler[h].todo),
                                      store[handler[h].plan.id], prepared, at)

LEMMA SettledFields ==
    ASSUME NEW st, DOMAIN st = Fields
    PROVE  Settled(st).req = st.req /\ Settled(st).pc # "write"
<1>1. DOMAIN Due(st) = Fields /\ Due(st).req = st.req
  BY DEF Due, Fields
<1>. DEFINE due == Due(st)
<1>. HIDE DEF due
<1>2. DOMAIN due = Fields /\ due.req = st.req
  BY <1>1 DEF due
<1>3. DOMAIN Through(due) = Fields /\ Through(due).req = st.req
  BY <1>2 DEF Through, Fields
<1>. DEFINE th == Through(due)
<1>. HIDE DEF th
<1>4. \/ Settled(st) = [st EXCEPT !.pc = "read", !.at = now]
      \/ Settled(st) = [due EXCEPT !.pc = "tell"]
      \/ Settled(st) = [due EXCEPT !.pc = "log"]
      \/ Settled(st) = [th EXCEPT !.pc = "read", !.at = now]
      \/ Settled(st) = [th EXCEPT !.pc = "answer"]
  BY SettledIs DEF due, th
<1>5. DOMAIN th = Fields /\ th.req = st.req
  BY <1>3 DEF th
<1>. QED  BY <1>2, <1>4, <1>5 DEF Fields

LEMMA MovesHandler ==
    ASSUME StateInv, NEW h \in Handlers, DOMAIN handler[h] = Fields, Moves(h)
    PROVE  /\ \A g \in Handlers : g # h => handler'[g] = handler[g]
           /\ Active(h)' => handler'[h].req = handler[h].req
           /\ Active(h)' /\ handler'[h].pc = "write" => ReadEntity(h)
<1>1. \A g \in Handlers : g # h => handler'[g] = handler[g]
  BY MovesIs DEF StateInv
<1>2. ASSUME NEW answer, End(h, answer)
      PROVE  ~Active(h)'
  BY <1>2 DEF End, StateInv, Active
<1>3. ASSUME NEW st, DOMAIN st = Fields, st.req = handler[h].req, Continue(h, st)
      PROVE  Active(h)' => handler'[h].req = handler[h].req /\ handler'[h].pc # "write"
  <2>1. CASE Settled(st).pc = "answer"
    BY <1>2, <1>3, <2>1 DEF Continue
  <2>2. CASE Settled(st).pc # "answer"
    <3>1. handler' = [handler EXCEPT ![h] = Settled(st)]
      BY <1>3, <2>2 DEF Continue
    <3>2. handler'[h] = Settled(st)
      BY <3>1 DEF StateInv
    <3>. QED  BY <1>3, <3>2, SettledFields
  <2>. QED  BY <2>1, <2>2
<1>4. ReadEntity(h) => handler'[h].req = handler[h].req
  BY DEF ReadEntity, StateInv, Fields
<1>. QED  BY <1>1, <1>2, <1>3, <1>4 DEF Moves

LEMMA HandlerStepFresh ==
    ASSUME EntityInv, RacesAreNoted, PlansAreFresh, NEW h \in Handlers, Active(h), HandlerStep(h)
    PROVE  RacesAreNoted' /\ PlansAreFresh'
<1>1. Moves(h) /\ Puts(h) /\ raced' = raced
  BY HandlerStepIs DEF EntityInv
<1>2. DOMAIN handler[h] = Fields
  BY HandlerAt DEF EntityInv
<1>3. /\ \A g \in Handlers : g # h => handler'[g] = handler[g]
      /\ Active(h)' => handler'[h].req = handler[h].req
      /\ Active(h)' /\ handler'[h].pc = "write" => ReadEntity(h)
  BY <1>1, <1>2, MovesHandler DEF EntityInv
<1>4. \A g \in Handlers : Active(g)' => Active(g) /\ handler'[g].req = handler[g].req
  BY <1>3 DEF Active
<1>5. RacesAreNoted'
  BY <1>1, <1>4 DEF RacesAreNoted
<1>6. ASSUME NEW g \in Handlers, Active(g)', handler'[g].pc = "write", handler'[g].plan.id \notin raced
      PROVE  \E prepared, at :
                handler'[g].plan = Outcome(handler'[g].req, Head(handler'[g].todo),
                                           store'[handler'[g].plan.id], prepared, at)
  <2>1. CASE g = h
    <3>1. Reads(h) /\ store' = store /\ handler'[h] = [handler[h] EXCEPT !.pc = "write", !.plan = Read(h)]
      BY <1>3, <1>6, <2>1 DEF ReadEntity, EntityInv, StateInv
    <3>2. /\ handler'[h].plan = Read(h) /\ handler'[h].req = handler[h].req
          /\ handler'[h].todo = handler[h].todo
      BY <1>2, <3>1 DEF Fields
    <3>3. Read(h) = Outcome(handler[h].req, Head(handler[h].todo), store[Item(h).id], handler[h].at, now)
      BY DEF Read, Item
    <3>4. Read(h).id = Item(h).id
      <4>1. Read(h).write # "none"
        BY <1>3, <1>6, <2>1 DEF ReadEntity
      <4>. QED  BY <3>1, <4>1, ReadOutcome DEF EntityInv
    <3>. QED  BY <2>1, <3>1, <3>2, <3>3, <3>4
  <2>2. CASE g # h
    <3>1. handler'[g] = handler[g] /\ Active(g)
      BY <1>3, <1>6, <2>2 DEF Active
    <3>2. PICK prepared, at : handler[g].plan = Outcome(handler[g].req, Head(handler[g].todo),
                                                        store[handler[g].plan.id], prepared, at)
      BY <1>6, <3>1 DEF PlansAreFresh
    <3>3. handler[g].req \in Requests /\ PlanFor(handler[g].req, handler[g].plan)
      BY <1>6, <3>1, HandlerAt DEF EntityInv, AtStep, Work
    <3>4. handler[g].plan.id \in IdsOf(handler[g].req) /\ handler[g].plan.id \in Ids
      BY <3>3, ItemOfRequest DEF PlanFor, IdsOf, ToSet
    <3>5. store'[handler[g].plan.id] = store[handler[g].plan.id]
      <4>1. CASE UNCHANGED <<store, writes>>
        BY <4>1
      <4>2. ASSUME NEW plan, PlanFor(handler[h].req, plan), Write(plan, handler[h].num)
            PROVE  store'[handler[g].plan.id] = store[handler[g].plan.id]
        <5>1. plan.id # handler[g].plan.id
          <6>1. plan.id \in IdsOf(handler[h].req)
            BY <4>2 DEF PlanFor
          <6>. QED  BY <1>6, <2>2, <3>1, <3>4, <6>1 DEF RacesAreNoted
        <5>. QED  BY <3>4, <4>2, <5>1 DEF Write, EntityInv, StateInv
      <4>. QED  BY <1>1, <4>1, <4>2 DEF Puts
    <3>. QED  BY <3>1, <3>2, <3>5
  <2>. QED  BY <2>1, <2>2
<1>7. PlansAreFresh'
  BY <1>1, <1>6 DEF PlansAreFresh
<1>. QED  BY <1>5, <1>7

LEMMA NextFresh ==
    ASSUME EntityInv, RacesAreNoted, PlansAreFresh, [Next]_vars
    PROVE  RacesAreNoted' /\ PlansAreFresh'
<1>1. ASSUME NEW h \in Handlers, NEW req \in Requests, Start(h, req)
      PROVE  RacesAreNoted' /\ PlansAreFresh'
  <2>1. /\ ~Active(h) /\ store' = store
        /\ \A g \in Handlers : g # h => handler'[g] = handler[g]
        /\ handler'[h].req = req /\ handler'[h].pc = "read"
        /\ \A o \in Handlers : Active(o) => IdsOf(req) \cap IdsOf(handler[o].req) \subseteq raced'
        /\ raced \subseteq raced'
    BY <1>1 DEF Start, EntityInv, StateInv
  <2>2. \A g \in Handlers : g # h /\ Active(g)' => Active(g) /\ handler'[g] = handler[g]
    BY <2>1 DEF Active
  <2>3. RacesAreNoted'
    <3>. SUFFICES ASSUME NEW f \in Handlers, NEW g \in Handlers, Active(f)', Active(g)', f # g
                  PROVE  IdsOf(handler'[f].req) \cap IdsOf(handler'[g].req) \subseteq raced'
      BY DEF RacesAreNoted
    <3>1. CASE f = h
      BY <2>1, <2>2, <3>1
    <3>2. CASE g = h
      BY <2>1, <2>2, <3>2
    <3>3. CASE f # h /\ g # h
      BY <2>1, <2>2, <3>3 DEF RacesAreNoted
    <3>. QED  BY <3>1, <3>2, <3>3
  <2>4. PlansAreFresh'
    BY <2>1, <2>2 DEF PlansAreFresh
  <2>. QED  BY <2>3, <2>4
<1>2. ASSUME NEW h \in Handlers, HandlerStep(h)
      PROVE  RacesAreNoted' /\ PlansAreFresh'
  <2>1. Active(h)
    BY <1>2, HandlerStepIsActive
  <2>. QED  BY <1>2, <2>1, HandlerStepFresh
<1>3. CASE Crash
  BY <1>3 DEF Crash, Active, RacesAreNoted, PlansAreFresh
<1>4. CASE Tick \/ UNCHANGED vars
  BY <1>4 DEF Tick, vars, Active, RacesAreNoted, PlansAreFresh
<1>. QED  BY <1>1, <1>2, <1>3, <1>4 DEF Next, HandlerStep

\* Requests that do not race lose nothing of each other: a write changes only what its
\* event names, what a replacement leaves out, and a createdAt only where the request
\* brings one.
THEOREM WritesAreNamed == Spec => WritesChangeWhatTheyName
<1>. DEFINE Step == writes' # writes =>
                      LET w == Last(writes') IN
                      w.id \in raced \/ w.doc = NoDoc \/ store[w.id] = NoDoc
                        \/ NothingElseChanged(store[w.id], w)
<1>1. Init => RacesAreNoted /\ PlansAreFresh
  BY DEF Init, RacesAreNoted, PlansAreFresh, Active
<1>2. EntityInv /\ RacesAreNoted /\ PlansAreFresh /\ [Next]_vars => RacesAreNoted' /\ PlansAreFresh'
  BY NextFresh
<1>3. EntityInv /\ PlansAreFresh /\ [Next]_vars => [Step]_vars
  <2>. SUFFICES ASSUME EntityInv, PlansAreFresh, [Next]_vars, writes' # writes
                PROVE  LET w == Last(writes') IN
                       w.id \in raced \/ w.doc = NoDoc \/ store[w.id] = NoDoc
                         \/ NothingElseChanged(store[w.id], w)
    OBVIOUS
  <2>1. PICK h \in Handlers : Active(h) /\ Puts(h)
    BY NextWrites
  <2>2. PICK plan : /\ PlanFor(handler[h].req, plan)
                    /\ Write(plan, handler[h].num)
                    /\ \/ handler[h].pc = "write" /\ plan = handler[h].plan
                       \/ plan.write = "delete"
    BY <2>1 DEF Puts
  <2>. DEFINE w == Last(writes')
              st == handler[h]
  <2>3. w = [num |-> st.num, id |-> plan.id, doc |-> PlanDoc(plan),
             by |-> plan.write, changed |-> plan.changed]
    <3>1. writes \in Seq(ToSet(writes))
      BY DEF EntityInv, StateInv
    <3>. QED  BY <2>2, <3>1, AppendedOne DEF Write, PlanDoc, Last
  <2>4. /\ w.num = st.num /\ w.id = plan.id /\ w.doc = PlanDoc(plan) /\ w.changed = plan.changed
    BY <2>3
  <2>. HIDE DEF w
  <2>5. CASE plan.write = "delete"
    BY <2>4, <2>5 DEF PlanDoc, w
  <2>6. CASE plan.write # "delete" /\ w.id \notin raced /\ store[w.id] # NoDoc
    <3>1. /\ st.pc = "write" /\ plan = st.plan
          /\ Work(st, now, writes) /\ AtStep(st) /\ requests[st.num] = st.req /\ st.req \in Requests
      BY <2>1, <2>2, <2>6, HandlerAt DEF EntityInv
    <3>2. Head(st.todo) \in ToSet(st.req.items)
      BY <3>1, TailIn DEF AtStep, Work
    <3>3. PICK prepared, at : plan = Outcome(st.req, Head(st.todo), store[plan.id], prepared, at)
      BY <2>1, <2>4, <2>6, <3>1 DEF PlansAreFresh
    <3>4. plan.write \notin {"none", "delete"} /\ st.req.op # "batchDelete"
      BY <2>2, <2>6 DEF PlanFor
    <3>5. Named(st.req, store[plan.id], plan.doc, plan.changed)
      BY <2>4, <2>6, <3>1, <3>2, <3>3, <3>4, OutcomeIsNamed
    <3>6. w.doc = plan.doc /\ requests[w.num] = st.req
      BY <2>4, <2>6, <3>1 DEF PlanDoc
    <3>7. NothingElseChanged(store[w.id], w)
      BY <2>4, <3>5, <3>6 DEF Named, NothingElseChanged
    <3>. QED  BY <3>7 DEF w
  <2>. QED  BY <2>5, <2>6 DEF w
<1>. QED  BY <1>1, <1>2, <1>3, EntitiesAreKept, PTL DEF Spec, WritesChangeWhatTheyName
=============================================================================
