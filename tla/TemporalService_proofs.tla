-------------------------- MODULE TemporalService_proofs --------------------------
(* What the temporal handlers of one broker keep, whatever the requests: what a   *)
(* request is told, the times of documents, the records that other requests made, *)
(* what a peer makes of the log, and what the readers of a history see of it.     *)
EXTENDS TemporalService, FiniteSetTheorems, SequenceTheorems, TLAPS

Replay == INSTANCE SequenceFolds WITH Base <- NoDoc, Op <- ReplayOne

-----------------------------------------------------------------------------
(* Sequences. *)

LEMMA AppendedOne ==
    ASSUME NEW s, s \in Seq(ToSet(s)), NEW x
    PROVE  /\ Append(s, x) \in Seq(ToSet(Append(s, x)))
           /\ DOMAIN Append(s, x) = DOMAIN s \cup {Len(s) + 1}
           /\ DOMAIN s = 1 .. Len(s)
           /\ Len(s) \in Nat
           /\ Len(Append(s, x)) = Len(s) + 1
           /\ Append(s, x)[Len(s) + 1] = x
           /\ \A k \in DOMAIN s : Append(s, x)[k] = s[k]
<1>1. Append(s, x) \in Seq(ToSet(s) \cup {x})
  <2>1. s \in Seq(ToSet(s) \cup {x})
    BY SeqMonotonic
  <2>. QED  BY <2>1
<1>2. /\ Len(s) \in Nat /\ DOMAIN s = 1 .. Len(s)
      /\ Len(Append(s, x)) = Len(s) + 1
      /\ DOMAIN Append(s, x) = 1 .. Len(s) + 1
      /\ Append(s, x)[Len(s) + 1] = x
      /\ \A k \in 1 .. Len(s) : Append(s, x)[k] = s[k]
  BY AppendProperties
<1>3. ToSet(Append(s, x)) = ToSet(s) \cup {x}
  BY <1>2 DEF ToSet
<1>. QED  BY <1>1, <1>2, <1>3

\* The elements of a finite set, in some order.
LEMMA SetToSeqIsOf ==
    ASSUME NEW S, IsFiniteSet(S)
    PROVE  SetToSeq(S) \in Seq(S)
<1>1. Cardinality(S) \in Nat /\ ExistsBijection(1 .. Cardinality(S), S)
  BY FS_CardinalityType
<1>2. \E f \in [1 .. Cardinality(S) -> S] : IsInjective(f)
  BY <1>1 DEF ExistsBijection, Bijection, Injection
<1>3. SetToSeq(S) \in [1 .. Cardinality(S) -> S]
  BY <1>2 DEF SetToSeq
<1>. QED  BY <1>1, <1>3

\* picked chooses the elements one position after the other.
Picks(picked, s, chosen, n) ==
    picked = [k \in 0 .. n |->
                IF k = 0 THEN <<>>
                ELSE IF k \in chosen THEN Append(picked[k - 1], s[k]) ELSE picked[k - 1]]

LEMMA PicksExist ==
    ASSUME NEW s, NEW chosen, NEW n \in Nat
    PROVE  \E picked : Picks(picked, s, chosen, n)
<1>. DEFINE S == {k \in Nat : \E picked : Picks(picked, s, chosen, k)}
<1>1. 0 \in S
  <2>1. Picks([k \in 0 .. 0 |-> <<>>], s, chosen, 0)
    BY DEF Picks
  <2>. QED  BY <2>1
<1>2. ASSUME NEW k \in Nat, k \in S
      PROVE  k + 1 \in S
  <2>1. PICK f : Picks(f, s, chosen, k)
    BY <1>2
  <2>. DEFINE g == [i \in 0 .. k + 1 |->
                      IF i = k + 1
                      THEN IF k + 1 \in chosen THEN Append(f[k], s[k + 1]) ELSE f[k]
                      ELSE f[i]]
  <2>2. \A i \in 0 .. k : g[i] = f[i]
    OBVIOUS
  <2>3. \A i \in 0 .. k : f[i] = IF i = 0 THEN <<>>
                                 ELSE IF i \in chosen THEN Append(f[i - 1], s[i]) ELSE f[i - 1]
    BY <2>1 DEF Picks
  <2>4. g[k + 1] = IF k + 1 \in chosen THEN Append(f[k], s[k + 1]) ELSE f[k]
    OBVIOUS
  <2>5. g = [i \in 0 .. k + 1 |-> g[i]]
    OBVIOUS
  <2>. HIDE DEF g
  <2>6. ASSUME NEW i \in 0 .. k + 1
        PROVE  g[i] = IF i = 0 THEN <<>>
                      ELSE IF i \in chosen THEN Append(g[i - 1], s[i]) ELSE g[i - 1]
    <3>1. CASE i = k + 1
      <4>1. i # 0 /\ i - 1 = k /\ k \in 0 .. k
        BY <3>1
      <4>. QED  BY <2>2, <2>4, <3>1, <4>1
    <3>2. CASE i \in 1 .. k
      <4>1. i - 1 \in 0 .. k /\ i \in 0 .. k /\ i # 0
        BY <3>2
      <4>. QED  BY <2>2, <2>3, <4>1
    <3>3. CASE i = 0
      BY <2>2, <2>3, <3>3
    <3>. QED  BY <3>1, <3>2, <3>3
  <2>7. Picks(g, s, chosen, k + 1)
    BY <2>5, <2>6 DEF Picks
  <2>. QED  BY <2>7
<1>. HIDE DEF S
<1>3. Nat \subseteq S
  BY <1>1, <1>2, Replay!InductionOnSet
<1>. QED  BY <1>3 DEF S

\* What is picked are the elements at the chosen positions.
LEMMA PickedAre ==
    ASSUME NEW X, NEW s \in Seq(X), NEW chosen
    PROVE  /\ Picked(s, chosen) \in Seq(X)
           /\ ToSet(Picked(s, chosen)) = {s[k] : k \in (DOMAIN s) \cap chosen}
<1>1. PICK n \in Nat : n = Len(s) /\ DOMAIN s = 1 .. n /\ \A k \in 1 .. n : s[k] \in X
  BY LenProperties
<1>2. PICK f : f = (CHOOSE picked : Picks(picked, s, chosen, n))
  OBVIOUS
<1>3. Picked(s, chosen) = f[n]
  BY <1>1, <1>2 DEF Picked, Picks
<1>4. Picks(f, s, chosen, n)
  BY <1>2, PicksExist
<1>. DEFINE S == {k \in 0 .. n : f[k] \in Seq(X) /\ ToSet(f[k]) = {s[i] : i \in (1 .. k) \cap chosen}}
<1>5. 0 \in S
  <2>1. f[0] = <<>>
    BY <1>4 DEF Picks
  <2>2. <<>> \in Seq(X) /\ DOMAIN <<>> = {} /\ 1 .. 0 = {}
    OBVIOUS
  <2>3. ToSet(<<>>) = {}
    BY <2>2 DEF ToSet
  <2>4. {s[i] : i \in (1 .. 0) \cap chosen} = {}
    BY <2>2
  <2>5. 0 \in 0 .. n
    OBVIOUS
  <2>. QED  BY <2>1, <2>2, <2>3, <2>4, <2>5
<1>6. \A k \in 0 .. n - 1 : k \in S => k + 1 \in S
  <2>. SUFFICES ASSUME NEW k \in 0 .. n - 1, k \in S
                PROVE  k + 1 \in S
    OBVIOUS
  <2>1. k + 1 \in 1 .. n /\ (k + 1) - 1 = k /\ k + 1 # 0 /\ k + 1 \in 0 .. n
    OBVIOUS
  <2>2. f[k + 1] = IF k + 1 \in chosen THEN Append(f[k], s[k + 1]) ELSE f[k]
    BY <1>4, <2>1 DEF Picks
  <2>3. \A i : i \in 1 .. k + 1 <=> i \in 1 .. k \/ i = k + 1
    BY <2>1
  <2>4. CASE k + 1 \notin chosen
    <3>1. {s[i] : i \in (1 .. k + 1) \cap chosen} = {s[i] : i \in (1 .. k) \cap chosen}
      BY <2>3, <2>4
    <3>. QED  BY <2>1, <2>2, <2>4, <3>1
  <2>5. CASE k + 1 \in chosen
    <3>1. {s[i] : i \in (1 .. k + 1) \cap chosen} = {s[i] : i \in (1 .. k) \cap chosen} \cup {s[k + 1]}
      BY <2>3, <2>5
    <3>2. Append(f[k], s[k + 1]) \in Seq(X)
      BY <1>1, <2>1
    <3>3. ToSet(Append(f[k], s[k + 1])) = ToSet(f[k]) \cup {s[k + 1]}
      <4>1. f[k] \in Seq(X) /\ s[k + 1] \in X
        BY <1>1, <2>1
      <4>2. /\ DOMAIN f[k] = 1 .. Len(f[k]) /\ Len(f[k]) \in Nat
            /\ DOMAIN Append(f[k], s[k + 1]) = 1 .. Len(f[k]) + 1
            /\ Append(f[k], s[k + 1])[Len(f[k]) + 1] = s[k + 1]
            /\ \A i \in 1 .. Len(f[k]) : Append(f[k], s[k + 1])[i] = f[k][i]
        BY <4>1, AppendProperties
      <4>. QED  BY <4>2 DEF ToSet
    <3>. QED  BY <2>1, <2>2, <2>5, <3>1, <3>2, <3>3
  <2>. QED  BY <2>4, <2>5
<1>. HIDE DEF S
<1>7. 0 .. n \subseteq S
  BY <1>5, <1>6, Replay!InductionUpTo
<1>8. n \in S
  BY <1>7
<1>. QED  BY <1>1, <1>3, <1>8 DEF S
-----------------------------------------------------------------------------
(* What a broker holds between two steps. *)

IsRequest(req) ==
    /\ DOMAIN req = {"op", "id", "payload", "attr", "instance", "localOnly"}
    /\ req.op \in Operations
    /\ req.id \in Ids
    /\ IsFiniteSet(DOMAIN req.payload)
    /\ \A attr \in DOMAIN req.payload :
          /\ \A m \in Times \cap DOMAIN req.payload[attr] : req.payload[attr][m] \in Nat
          /\ "value" \in DOMAIN req.payload[attr] => req.payload[attr]["value"] \in Int
    /\ req.op = "patchInstance" => req.attr \in DOMAIN req.payload

IsRecord(r) ==
    /\ DOMAIN r = Times \cup {"attr", "instance", "value"}
    /\ {r.observedAt, r.createdAt, r.modifiedAt, r.deletedAt} \subseteq Nat
    /\ "value" \in DOMAIN r.value => r.value["value"] \in Int

IsHistory(history) ==
    /\ history \in Seq(ToSet(history))
    /\ \A r \in ToSet(history) : IsRecord(r)

IsDocument(doc) ==
    /\ DOMAIN doc = {"attrs", "history", "createdAt", "modifiedAt"}
    /\ IsHistory(doc.history)

Timed(doc, time) ==
    /\ doc.createdAt \in 1 .. time
    /\ doc.modifiedAt \in doc.createdAt .. time

Fields == {"pc", "num", "req", "doc", "created"}

\* The history that an upsert stores is the one it prepared.
Prepared(st) ==
    st.req.op = "upsert" =>
        st.doc.history = temporal_history_from_entity(st.req.payload, <<st.num, "stored">>)

HandlerInv(h) ==
    LET st == handler[h] IN
    /\ DOMAIN st = Fields
    /\ st.num \in 1 .. Len(requests)
    /\ st.req = requests[st.num]
    /\ answers[st.num] = Waiting
    /\ st.created \in BOOLEAN
    /\ st.pc \in {"read", "exists", "write", "delete", "log"}
    /\ st.pc = "read" => st.req.op \notin {"upsert", "deleteEntity"}
    /\ st.pc = "delete" => st.req.op = "deleteEntity"
    /\ st.pc \in {"exists", "write"} => st.req.op # "deleteEntity"
    /\ st.req.op = "deleteEntity" => st.doc = NoDoc /\ ~st.created
    /\ st.req.op # "deleteEntity" /\ st.pc # "read" =>
          IsDocument(st.doc) /\ Timed(st.doc, now) /\ Prepared(st)

StoreInv ==
    /\ DOMAIN temporals = Ids
    /\ \A id \in Ids : temporals[id] # NoDoc =>
          IsDocument(temporals[id]) /\ Timed(temporals[id], now)

BrokerInv ==
    /\ DOMAIN handler = Handlers
    /\ now \in 1 .. MaxTime
    /\ faults \in Nat
    /\ requests \in Seq(ToSet(requests))
    /\ \A num \in DOMAIN requests : IsRequest(requests[num])
    /\ Len(requests) <= MaxRequests
    /\ DOMAIN answers = 1 .. MaxRequests
    /\ \A num \in (1 .. MaxRequests) \ (1 .. Len(requests)) : answers[num] = Waiting
    /\ writes \in Seq(ToSet(writes))
    /\ log \in Seq(ToSet(log))
    /\ raced \subseteq Ids

HandlersInv ==
    /\ \A h \in Handlers : Active(h) => HandlerInv(h)
    /\ \A g, h \in Handlers : Active(g) /\ Active(h) /\ g # h => handler[g].num # handler[h].num
    /\ \A g, h \in Handlers :
          Active(g) /\ Active(h) /\ g # h /\ handler[g].req.id = handler[h].req.id =>
              handler[h].req.id \in raced

\* A request writes once, and then has its write recorded.
WritesInv ==
    /\ \A w \in DOMAIN writes :
          /\ writes[w].num \in 1 .. Len(requests)
          /\ writes[w].id = requests[writes[w].num].id
    /\ \A v, w \in DOMAIN writes : writes[v].num = writes[w].num => v = w
    /\ \A h \in Handlers, w \in DOMAIN writes :
          Active(h) /\ writes[w].num = handler[h].num => handler[h].pc = "log"

TemporalInv == BrokerInv /\ StoreInv /\ HandlersInv /\ WritesInv

\* The mutations of the log are not older than their snapshots.
VersionsInv ==
    \A k \in DOMAIN log : log[k].snapshot # NoDoc => log[k].version >= log[k].snapshot.modifiedAt

\* While no other request works on the entity, what a handler's find saw is what its
\* replace replaces.
Saw(h) ==
    LET st == handler[h] IN
    Active(h) /\ st.req.id \notin raced =>
        /\ st.pc = "write" => (st.created <=> temporals[st.req.id] = NoDoc)
        /\ st.pc = "log" =>
              \A w \in DOMAIN writes :
                  writes[w].num = st.num => (st.created <=> writes[w].old = NoDoc)
CreatedInv == CreatedIfAbsent /\ \A h \in Handlers : Saw(h)

Keeps(req, old, new) ==
    \A k \in DOMAIN old.history :
        Kept(req, old.history[k]) =>
            \E j \in DOMAIN new.history : Identity(new.history[j]) = Identity(old.history[k])

KeepsInv ==
    \A h \in Handlers :
        LET st == handler[h] IN
        Active(h) /\ st.pc \in {"exists", "write"} /\ temporals[st.req.id] # NoDoc =>
            st.req.id \in raced \/ Keeps(st.req, temporals[st.req.id], st.doc)

-----------------------------------------------------------------------------
(* What a handler makes of a document. *)

\* Sequences of records are histories.
LEMMA IsHistoryOf ==
    ASSUME NEW X, NEW s \in Seq(X), \A r \in ToSet(s) : IsRecord(r)
    PROVE  IsHistory(s)
<1>1. s \in Seq(ToSet(s))
  BY LenProperties DEF ToSet
<1>. QED  BY <1>1 DEF IsHistory

LEMMA InstanceIsRecord ==
    ASSUME NEW req, IsRequest(req), NEW attr \in DOMAIN req.payload, NEW fresh
    PROVE  IsRecord(make_temporal_instance(attr, req.payload[attr], fresh))
<1>. DEFINE v == req.payload[attr]
<1>1. /\ \A m \in Times \cap DOMAIN v : v[m] \in Nat
      /\ "value" \in DOMAIN v => v["value"] \in Int
  BY DEF IsRequest
<1>. HIDE DEF v
<1>2. \A m \in Times : At(v, m) \in Nat
  BY <1>1 DEF At
<1>3. IsRecord(make_temporal_instance(attr, v, fresh))
  BY <1>1, <1>2 DEF IsRecord, make_temporal_instance, Times
<1>. QED  BY <1>3 DEF v

LEMMA PreparedIsHistory ==
    ASSUME NEW req, IsRequest(req), NEW origin
    PROVE  IsHistory(temporal_history_from_entity(req.payload, origin))
<1>. DEFINE attrs == SetToSeq(DOMAIN req.payload)
            history == temporal_history_from_entity(req.payload, origin)
            Record(k) == make_temporal_instance(attrs[k], req.payload[attrs[k]], <<origin, attrs[k]>>)
<1>1. attrs \in Seq(DOMAIN req.payload)
  BY SetToSeqIsOf DEF IsRequest
<1>2. history = [k \in DOMAIN attrs |-> Record(k)]
  BY DEF temporal_history_from_entity
<1>. HIDE DEF attrs
<1>3. PICK n \in Nat : DOMAIN attrs = 1 .. n /\ \A k \in 1 .. n : attrs[k] \in DOMAIN req.payload
  BY <1>1, LenProperties
<1>4. \A k \in 1 .. n : IsRecord(Record(k))
  BY <1>3, InstanceIsRecord
<1>. HIDE DEF history, Record
<1>5. history \in Seq({Record(k) : k \in 1 .. n})
  BY <1>2, <1>3
<1>6. \A r \in ToSet(history) : IsRecord(r)
  BY <1>2, <1>3, <1>4 DEF ToSet
<1>7. IsHistory(history)
  BY <1>5, <1>6, IsHistoryOf
<1>. QED  BY <1>7 DEF history

LEMMA ConcatIsHistory ==
    ASSUME NEW s, NEW t, IsHistory(s), IsHistory(t)
    PROVE  /\ IsHistory(s \o t)
           /\ \A k \in DOMAIN s : k \in DOMAIN (s \o t) /\ (s \o t)[k] = s[k]
<1>. DEFINE X == ToSet(s) \cup ToSet(t)
<1>1. s \in Seq(X) /\ t \in Seq(X)
  BY SeqMonotonic DEF IsHistory
<1>2. s \o t \in Seq(X) /\ \A r \in X : IsRecord(r)
  BY <1>1, ConcatProperties DEF IsHistory
<1>3. ToSet(s \o t) \subseteq X
  BY <1>2, LenProperties DEF ToSet
<1>. HIDE DEF X
<1>4. IsHistory(s \o t)
  BY <1>2, <1>3, IsHistoryOf
<1>5. \A k \in DOMAIN s : k \in DOMAIN (s \o t) /\ (s \o t)[k] = s[k]
  BY <1>1, ConcatProperties, LenProperties
<1>. QED  BY <1>4, <1>5

LEMMA PickedIsHistory ==
    ASSUME NEW s, IsHistory(s), NEW chosen
    PROVE  /\ IsHistory(Picked(s, chosen))
           /\ \A k \in (DOMAIN s) \cap chosen :
                 \E j \in DOMAIN Picked(s, chosen) : Picked(s, chosen)[j] = s[k]
<1>. DEFINE t == Picked(s, chosen)
<1>1. t \in Seq(ToSet(s)) /\ ToSet(t) = {s[k] : k \in (DOMAIN s) \cap chosen}
  BY PickedAre DEF IsHistory
<1>. HIDE DEF t
<1>2. ToSet(t) \subseteq ToSet(s)
  BY <1>1 DEF ToSet
<1>3. IsHistory(t)
  BY <1>1, <1>2, IsHistoryOf DEF IsHistory
<1>4. \A k \in (DOMAIN s) \cap chosen : \E j \in DOMAIN t : t[j] = s[k]
  BY <1>1 DEF ToSet
<1>. QED  BY <1>3, <1>4 DEF t

LEMMA PatchedIsRecord ==
    ASSUME NEW req, IsRequest(req), req.op = "patchInstance", NEW r, IsRecord(r), NEW at \in Nat
    PROVE  LET new == Patched(r, req.payload[req.attr], at) IN
           IsRecord(new) /\ Identity(new) = Identity(r)
<1>. DEFINE v == Over(req.payload[req.attr], r.value)
            new == [r EXCEPT !.value = v, !.modifiedAt = at]
<1>1. "value" \in DOMAIN v => v["value"] \in Int
  BY DEF IsRequest, IsRecord, Over
<1>. HIDE DEF v
<1>2. IsRecord(new) /\ Identity(new) = Identity(r)
  BY <1>1 DEF IsRecord, Identity, Times
<1>. QED  BY <1>2 DEF v, Patched

\* What a request makes of a document is a document of its time, with all the records
\* that the request does not name.
LEMMA ChangedIs ==
    ASSUME NEW req, IsRequest(req), req.op \notin {"upsert", "deleteEntity"},
           NEW num, NEW at \in Nat,
           NEW old, old # NoDoc => IsDocument(old) /\ Timed(old, at)
    PROVE  LET new == Changed(old, req, num, at) IN
           new # NoDoc =>
               /\ old # NoDoc
               /\ IsDocument(new) /\ Timed(new, at) /\ Keeps(req, old, new)
               /\ new.modifiedAt = at
<1>. DEFINE new == Changed(old, req, num, at)
            Good(doc) == IsDocument(doc) /\ Timed(doc, at) /\ Keeps(req, old, doc) /\ doc.modifiedAt = at
<1>. SUFFICES ASSUME new # NoDoc
              PROVE  old # NoDoc /\ Good(new)
  OBVIOUS
<1>1. old # NoDoc
  BY DEF Changed
<1>2. /\ DOMAIN old = {"attrs", "history", "createdAt", "modifiedAt"}
      /\ IsHistory(old.history)
      /\ old.createdAt \in 1 .. at
  BY <1>1 DEF IsDocument, Timed
<1>3. ASSUME NEW history, NEW attrs, IsHistory(history),
             \A k \in DOMAIN old.history :
                 Kept(req, old.history[k]) =>
                     \E j \in DOMAIN history : Identity(history[j]) = Identity(old.history[k])
      PROVE  /\ Good([old EXCEPT !.history = history, !.attrs = attrs, !.modifiedAt = at])
             /\ Good([old EXCEPT !.history = history, !.modifiedAt = at])
  BY <1>2, <1>3 DEF IsDocument, Timed, Keeps
<1>. HIDE DEF Good
<1>4. CASE req.op = "appendAttrs"
  <2>. DEFINE made == temporal_history_from_entity(req.payload, <<num, "stored">>)
              attrs == Over(req.payload, old.attrs)
  <2>1. new = [old EXCEPT !.history = old.history \o made, !.attrs = attrs, !.modifiedAt = at]
    BY <1>1, <1>4 DEF Changed, append_attrs
  <2>2. IsHistory(made)
    BY PreparedIsHistory
  <2>. HIDE DEF made, attrs
  <2>3. IsHistory(old.history \o made)
        /\ \A k \in DOMAIN old.history :
               k \in DOMAIN (old.history \o made) /\ (old.history \o made)[k] = old.history[k]
    BY <1>2, <2>2, ConcatIsHistory
  <2>4. Good([old EXCEPT !.history = old.history \o made, !.attrs = attrs, !.modifiedAt = at])
    <3>. DEFINE history == old.history \o made
    <3>. HIDE DEF history
    <3>1. IsHistory(history)
          /\ \A k \in DOMAIN old.history : k \in DOMAIN history /\ history[k] = old.history[k]
      BY <2>3 DEF history
    <3>. QED  BY <1>3, <3>1 DEF history
  <2>. QED  BY <1>1, <2>1, <2>4
<1>5. CASE req.op = "deleteAttr"
  <2>. DEFINE chosen == {k \in DOMAIN old.history : old.history[k].attr # req.attr}
              attrs == [a \in DOMAIN old.attrs \ {req.attr} |-> old.attrs[a]]
  <2>1. new = [old EXCEPT !.history = Picked(old.history, chosen), !.attrs = attrs, !.modifiedAt = at]
    BY <1>1, <1>5 DEF Changed, delete_attr, Where
  <2>2. \A k \in DOMAIN old.history : Kept(req, old.history[k]) => k \in chosen
    BY <1>5 DEF Kept
  <2>. HIDE DEF chosen, attrs
  <2>. DEFINE history == Picked(old.history, chosen)
  <2>3. /\ IsHistory(history)
        /\ \A k \in (DOMAIN old.history) \cap chosen :
               \E j \in DOMAIN history : history[j] = old.history[k]
    BY <1>2, PickedIsHistory
  <2>. HIDE DEF history
  <2>4. \A k \in DOMAIN old.history :
            Kept(req, old.history[k]) =>
                \E j \in DOMAIN history : Identity(history[j]) = Identity(old.history[k])
    BY <2>2, <2>3
  <2>5. Good([old EXCEPT !.history = history, !.attrs = attrs, !.modifiedAt = at])
    BY <1>3, <2>3, <2>4
  <2>. QED  BY <1>1, <2>1, <2>5 DEF history
<1>6. CASE req.op = "deleteInstance"
  <2>. DEFINE chosen == {k \in DOMAIN old.history : ~Named(req, old.history[k])}
  <2>1. new = [old EXCEPT !.history = Picked(old.history, chosen), !.modifiedAt = at]
    BY <1>1, <1>6 DEF Changed, delete_instance, Where
  <2>2. \A k \in DOMAIN old.history : Kept(req, old.history[k]) => k \in chosen
    BY <1>6 DEF Kept
  <2>. HIDE DEF chosen
  <2>. DEFINE history == Picked(old.history, chosen)
  <2>3. /\ IsHistory(history)
        /\ \A k \in (DOMAIN old.history) \cap chosen :
               \E j \in DOMAIN history : history[j] = old.history[k]
    BY <1>2, PickedIsHistory
  <2>. HIDE DEF history
  <2>4. \A k \in DOMAIN old.history :
            Kept(req, old.history[k]) =>
                \E j \in DOMAIN history : Identity(history[j]) = Identity(old.history[k])
    BY <2>2, <2>3
  <2>5. Good([old EXCEPT !.history = history, !.modifiedAt = at])
    BY <1>3, <2>3, <2>4
  <2>. QED  BY <1>1, <2>1, <2>5 DEF history
<1>7. CASE req.op = "patchInstance"
  <2>. DEFINE s == old.history
              One(r) == IF Named(req, r) THEN Patched(r, req.payload[req.attr], at) ELSE r
              history == [k \in DOMAIN s |-> One(s[k])]
  <2>1. new = [old EXCEPT !.history = history, !.modifiedAt = at]
    <3>1. new = patch_instance(old, req, at)
      BY <1>1, <1>7 DEF Changed
    <3>2. patch_instance(old, req, at) = [old EXCEPT !.history = history, !.modifiedAt = at]
      BY DEF patch_instance
    <3>. QED  BY <3>1, <3>2
  <2>2. PICK n \in Nat : DOMAIN s = 1 .. n
    BY <1>2, LenProperties DEF IsHistory
  <2>3. \A k \in 1 .. n : IsRecord(s[k])
    BY <1>2, <2>2 DEF IsHistory, ToSet
  <2>4. \A k \in 1 .. n : IsRecord(One(s[k])) /\ Identity(One(s[k])) = Identity(s[k])
    BY <1>7, <2>3, PatchedIsRecord
  <2>. HIDE DEF One, s
  <2>5. history \in Seq({One(s[k]) : k \in 1 .. n}) /\ DOMAIN history = 1 .. n
        /\ \A k \in 1 .. n : history[k] = One(s[k])
    BY <2>2
  <2>. HIDE DEF history
  <2>6. \A r \in ToSet(history) : IsRecord(r)
    BY <2>4, <2>5 DEF ToSet
  <2>7. IsHistory(history)
    BY <2>5, <2>6, IsHistoryOf
  <2>8. \A k \in DOMAIN old.history :
            \E j \in DOMAIN history : Identity(history[j]) = Identity(old.history[k])
    BY <2>2, <2>4, <2>5 DEF s
  <2>. QED  BY <1>1, <1>3, <2>1, <2>7, <2>8
<1>8. req.op \in Operations
  BY DEF IsRequest
<1>. QED  BY <1>4, <1>5, <1>6, <1>7, <1>8 DEF Operations
-----------------------------------------------------------------------------
(* The steps of a handler. *)

HandlerStep(h) ==
    \/ Read(h) \/ LookExists(h) \/ WriteTemporal(h) \/ delete_entity(h)
    \/ RecordMutation(h)
    \/ Fail(h)

\* The handler goes on with its request, or ends with an answer to it.
GoesOn(h) ==
    /\ handler'[h] # Idle
    /\ DOMAIN handler'[h] = Fields
    /\ handler'[h].num = handler[h].num
    /\ handler'[h].req = handler[h].req
    /\ answers' = answers
Ends(h, status, created) ==
    /\ handler'[h] = Idle
    /\ answers' = [answers EXCEPT ![handler[h].num] = [status |-> status, created |-> created]]

Moves(h) ==
    /\ Active(h)
    /\ DOMAIN handler' = Handlers
    /\ \A g \in Handlers \ {h} : handler'[g] = handler[g]
    /\ UNCHANGED <<requests, now, raced>>
    /\ GoesOn(h) \/ \E status, created : Ends(h, status, created)

LEMMA HandlerFieldsAt ==
    ASSUME TemporalInv, NEW h \in Handlers, Active(h)
    PROVE  /\ HandlerInv(h)
           /\ DOMAIN handler = Handlers
           /\ DOMAIN handler[h] = Fields
           /\ handler[h].req.id \in Ids
           /\ IsRequest(handler[h].req)
           /\ handler[h].num \in DOMAIN answers
           /\ handler[h].num \in DOMAIN requests
<1>1. HandlerInv(h) /\ DOMAIN handler = Handlers
  BY DEF TemporalInv, HandlersInv, BrokerInv
<1>2. DOMAIN requests = 1 .. Len(requests) /\ Len(requests) \in Nat /\ Len(requests) <= MaxRequests
  BY LenProperties DEF TemporalInv, BrokerInv
<1>3. handler[h].num \in DOMAIN requests /\ handler[h].num \in DOMAIN answers
  <2>1. handler[h].num \in 1 .. Len(requests)
    BY <1>1 DEF HandlerInv
  <2>2. DOMAIN answers = 1 .. MaxRequests
    BY DEF TemporalInv, BrokerInv
  <2>. QED  BY <1>2, <2>1, <2>2, BoundAssumption
<1>4. IsRequest(handler[h].req)
  BY <1>1, <1>3 DEF TemporalInv, BrokerInv, HandlerInv
<1>. QED  BY <1>1, <1>3, <1>4 DEF HandlerInv, IsRequest

LEMMA EndEnds ==
    ASSUME TemporalInv, NEW h \in Handlers, Active(h), NEW status, NEW created,
           End(h, status, created)
    PROVE  /\ Ends(h, status, created)
           /\ DOMAIN handler' = Handlers
           /\ \A g \in Handlers \ {h} : handler'[g] = handler[g]
BY HandlerFieldsAt DEF End, Ends

LEMMA EndMoves ==
    ASSUME TemporalInv, NEW h \in Handlers, Active(h), NEW status, NEW created,
           End(h, status, created), UNCHANGED <<requests, now, raced>>
    PROVE  Moves(h) /\ Ends(h, status, created)
<1>1. /\ Ends(h, status, created)
      /\ DOMAIN handler' = Handlers
      /\ \A g \in Handlers \ {h} : handler'[g] = handler[g]
  BY EndEnds
<1>. QED  BY <1>1 DEF Moves

LEMMA ActiveAt ==
    ASSUME NEW h, handler[h].pc # "idle"
    PROVE  Active(h)
BY DEF Active, Idle

LEMMA ReadMoves ==
    ASSUME TemporalInv, NEW h \in Handlers, Read(h)
    PROVE  /\ Moves(h) /\ UNCHANGED <<temporals, faults, writes, log>>
           /\ handler[h].pc = "read"
           /\ \/ Ends(h, 404, FALSE)
              \/ /\ GoesOn(h) /\ HandlerInv(h)'
                 /\ handler'[h].pc = "exists"
                 /\ LET doc == handler'[h].doc
                        old == temporals[handler[h].req.id]
                    IN old # NoDoc /\ Keeps(handler[h].req, old, doc) /\ doc.modifiedAt = now
<1>1. Active(h) /\ handler[h].pc = "read"
  BY ActiveAt DEF Read
<1>. DEFINE st == handler[h]
            old == temporals[st.req.id]
            doc == Changed(old, st.req, st.num, now)
<1>2. /\ IF doc = NoDoc THEN End(h, 404, FALSE)
         ELSE /\ handler' = [handler EXCEPT ![h].pc = "exists", ![h].doc = doc]
              /\ UNCHANGED answers
      /\ UNCHANGED <<temporals, now, requests, faults, writes, log, raced>>
  BY DEF Read
<1>3. /\ DOMAIN handler = Handlers /\ DOMAIN st = Fields /\ HandlerInv(h)
      /\ st.req.id \in Ids /\ IsRequest(st.req)
  BY <1>1, HandlerFieldsAt
<1>4. st.req.op \notin {"upsert", "deleteEntity"} /\ now \in Nat
  BY <1>1, <1>3 DEF HandlerInv, TemporalInv, BrokerInv
<1>5. doc # NoDoc => /\ old # NoDoc
                     /\ IsDocument(doc) /\ Timed(doc, now) /\ Keeps(st.req, old, doc)
                     /\ doc.modifiedAt = now
  <2>1. old # NoDoc => IsDocument(old) /\ Timed(old, now)
    BY <1>3 DEF TemporalInv, StoreInv
  <2>. HIDE DEF old
  <2>. QED  BY <1>3, <1>4, <2>1, ChangedIs
<1>. HIDE DEF doc
<1>6. CASE doc = NoDoc
  <2>1. End(h, 404, FALSE)
    BY <1>2, <1>6
  <2>. QED  BY <1>1, <1>2, <2>1, EndMoves
<1>7. CASE doc # NoDoc
  <2>1. handler' = [handler EXCEPT ![h].pc = "exists", ![h].doc = doc] /\ answers' = answers
    BY <1>2, <1>7
  <2>2. /\ DOMAIN handler'[h] = Fields
        /\ handler'[h].pc = "exists" /\ handler'[h].doc = doc
        /\ handler'[h].num = st.num /\ handler'[h].req = st.req
        /\ handler'[h].created = st.created
        /\ DOMAIN handler' = Handlers
        /\ \A g \in Handlers \ {h} : handler'[g] = handler[g]
    BY <1>3, <2>1 DEF Fields
  <2>3. GoesOn(h) /\ Moves(h)
    <3>1. handler'[h] # Idle
      BY <2>2 DEF Idle
    <3>2. GoesOn(h)
      BY <2>1, <2>2, <3>1 DEF GoesOn
    <3>. QED  BY <1>1, <1>2, <2>2, <3>2 DEF Moves
  <2>4. HandlerInv(h)'
    BY <1>2, <1>3, <1>4, <1>5, <1>7, <2>1, <2>2 DEF HandlerInv, Prepared
  <2>. QED  BY <1>1, <1>2, <1>5, <1>7, <2>2, <2>3, <2>4
<1>. QED  BY <1>6, <1>7

LEMMA ExistsMoves ==
    ASSUME TemporalInv, NEW h \in Handlers, LookExists(h)
    PROVE  /\ Moves(h) /\ UNCHANGED <<temporals, faults, writes, log>>
           /\ handler[h].pc = "exists"
           /\ GoesOn(h) /\ HandlerInv(h)'
           /\ handler'[h].pc = "write" /\ handler'[h].doc = handler[h].doc
           /\ handler'[h].created = (temporals[handler[h].req.id] = NoDoc)
<1>. DEFINE st == handler[h]
<1>1. /\ Active(h) /\ st.pc = "exists"
      /\ handler' = [handler EXCEPT ![h].pc = "write",
                                    ![h].created = temporals[st.req.id] = NoDoc]
      /\ UNCHANGED <<temporals, now, requests, faults, answers, writes, log, raced>>
  BY ActiveAt DEF LookExists
<1>2. DOMAIN handler = Handlers /\ DOMAIN st = Fields /\ HandlerInv(h)
  BY <1>1, HandlerFieldsAt
<1>3. /\ DOMAIN handler'[h] = Fields
      /\ handler'[h].pc = "write" /\ handler'[h].doc = st.doc
      /\ handler'[h].num = st.num /\ handler'[h].req = st.req
      /\ handler'[h].created = (temporals[st.req.id] = NoDoc)
      /\ DOMAIN handler' = Handlers
      /\ \A g \in Handlers \ {h} : handler'[g] = handler[g]
  BY <1>1, <1>2 DEF Fields
<1>4. GoesOn(h) /\ Moves(h)
  <2>1. handler'[h] # Idle
    BY <1>3 DEF Idle
  <2>2. GoesOn(h)
    BY <1>1, <1>3, <2>1 DEF GoesOn
  <2>. QED  BY <1>1, <1>3, <2>2 DEF Moves
<1>5. HandlerInv(h)'
  BY <1>1, <1>2, <1>3 DEF HandlerInv, Prepared
<1>. QED  BY <1>1, <1>3, <1>4, <1>5

\* A write, by which the request ends if it is local.
LEMMA StoreMoves ==
    ASSUME TemporalInv, NEW h \in Handlers, Active(h), handler[h].pc \in {"write", "delete"},
           Store(h, handler[h].doc), AfterWrite(h), UNCHANGED <<now, requests, faults, log, raced>>
    PROVE  /\ Moves(h)
           /\ \/ handler[h].req.localOnly /\ Ends(h, 200, handler[h].created)
              \/ /\ GoesOn(h) /\ HandlerInv(h)'
                 /\ handler'[h] = [handler[h] EXCEPT !.pc = "log"]
<1>. DEFINE st == handler[h]
<1>1. DOMAIN handler = Handlers /\ DOMAIN st = Fields /\ HandlerInv(h)
  BY HandlerFieldsAt
<1>2. CASE st.req.localOnly
  <2>1. End(h, 200, st.created)
    BY <1>2 DEF AfterWrite
  <2>. QED  BY <1>2, <2>1, EndMoves
<1>3. CASE ~st.req.localOnly
  <2>1. handler' = [handler EXCEPT ![h].pc = "log"] /\ answers' = answers
    BY <1>3 DEF AfterWrite
  <2>2. /\ DOMAIN handler'[h] = Fields
        /\ handler'[h].pc = "log" /\ handler'[h].doc = st.doc
        /\ handler'[h].num = st.num /\ handler'[h].req = st.req
        /\ handler'[h].created = st.created
        /\ handler'[h] = [st EXCEPT !.pc = "log"]
        /\ DOMAIN handler' = Handlers
        /\ \A g \in Handlers \ {h} : handler'[g] = handler[g]
    BY <1>1, <2>1 DEF Fields
  <2>3. GoesOn(h) /\ Moves(h)
    BY <2>1, <2>2 DEF GoesOn, Moves, Idle
  <2>4. HandlerInv(h)'
    <3>1. st.req.op # "deleteEntity" => IsDocument(st.doc) /\ Timed(st.doc, now) /\ Prepared(st)
      BY <1>1 DEF HandlerInv
    <3>. QED  BY <1>1, <2>1, <2>2, <3>1 DEF HandlerInv, Prepared
  <2>. QED  BY <2>2, <2>3, <2>4
<1>. QED  BY <1>2, <1>3

LEMMA WriteMoves ==
    ASSUME TemporalInv, NEW h \in Handlers, WriteTemporal(h)
    PROVE  /\ Moves(h) /\ Store(h, handler[h].doc) /\ UNCHANGED <<faults, log>>
           /\ handler[h].pc = "write"
           /\ \/ handler[h].req.localOnly /\ Ends(h, 200, handler[h].created)
              \/ /\ GoesOn(h) /\ HandlerInv(h)'
                 /\ handler'[h] = [handler[h] EXCEPT !.pc = "log"]
BY ActiveAt, StoreMoves DEF WriteTemporal

LEMMA DeleteMoves ==
    ASSUME TemporalInv, NEW h \in Handlers, delete_entity(h)
    PROVE  /\ Moves(h) /\ UNCHANGED <<faults, log>>
           /\ handler[h].pc = "delete"
           /\ \/ /\ Ends(h, 404, FALSE)
                 /\ temporals[handler[h].req.id] = NoDoc /\ UNCHANGED <<temporals, writes>>
              \/ /\ temporals[handler[h].req.id] # NoDoc
                 /\ Store(h, handler[h].doc)
                 /\ \/ handler[h].req.localOnly /\ Ends(h, 200, handler[h].created)
                    \/ /\ GoesOn(h) /\ HandlerInv(h)'
                       /\ handler'[h] = [handler[h] EXCEPT !.pc = "log"]
<1>1. Active(h) /\ handler[h].pc = "delete" /\ UNCHANGED <<now, requests, faults, log, raced>>
  BY ActiveAt DEF delete_entity
<1>2. handler[h].doc = NoDoc
  BY <1>1, HandlerFieldsAt DEF HandlerInv
<1>3. CASE temporals[handler[h].req.id] = NoDoc
  <2>1. End(h, 404, FALSE) /\ UNCHANGED <<temporals, writes>>
    BY <1>3 DEF delete_entity
  <2>2. Moves(h) /\ Ends(h, 404, FALSE)
    BY <1>1, <2>1, EndMoves
  <2>. QED  BY <1>1, <1>3, <2>1, <2>2
<1>4. CASE temporals[handler[h].req.id] # NoDoc
  <2>1. Store(h, handler[h].doc) /\ AfterWrite(h)
    BY <1>2, <1>4 DEF delete_entity
  <2>. QED  BY <1>1, <1>4, <2>1, StoreMoves
<1>. QED  BY <1>3, <1>4

LEMMA RecordMoves ==
    ASSUME TemporalInv, NEW h \in Handlers, RecordMutation(h)
    PROVE  /\ Moves(h) /\ UNCHANGED <<temporals, faults, writes>>
           /\ handler[h].pc = "log"
           /\ log' = Append(log, Mutation(handler[h]))
           /\ Ends(h, 200, handler[h].created)
BY ActiveAt, EndMoves DEF RecordMutation

LEMMA FailMoves ==
    ASSUME TemporalInv, NEW h \in Handlers, Fail(h)
    PROVE  /\ Moves(h) /\ UNCHANGED <<temporals, writes>>
           /\ faults' = faults + 1 /\ faults \in Nat
           /\ Ends(h, 500, FALSE)
           /\ \/ log' = log
              \/ handler[h].pc = "log" /\ log' = Append(log, Mutation(handler[h]))
<1>1. /\ Active(h) /\ End(h, 500, FALSE) /\ faults' = faults + 1
      /\ UNCHANGED <<temporals, now, requests, writes, raced>>
      /\ \/ log' = log
         \/ handler[h].pc = "log" /\ log' = Append(log, Mutation(handler[h]))
  BY DEF Fail
<1>2. Moves(h) /\ Ends(h, 500, FALSE)
  BY <1>1, EndMoves
<1>. QED  BY <1>1, <1>2 DEF TemporalInv, BrokerInv

\* What a step of a handler does to the store and to the history of writes.
Puts(h) ==
    \/ UNCHANGED <<temporals, writes>>
    \/ handler[h].pc \in {"write", "delete"} /\ Store(h, handler[h].doc)
Tells(h) ==
    \/ log' = log
    \/ handler[h].pc = "log" /\ log' = Append(log, Mutation(handler[h]))

LEMMA HandlerStepIs ==
    ASSUME TemporalInv, NEW h \in Handlers, HandlerStep(h)
    PROVE  /\ Moves(h) /\ Puts(h) /\ Tells(h)
           /\ faults' \in Nat
           /\ GoesOn(h) => HandlerInv(h)'
           /\ GoesOn(h) /\ ~UNCHANGED writes => handler'[h].pc = "log"
           /\ GoesOn(h) /\ UNCHANGED writes => handler[h].pc # "log"
<1>0. faults \in Nat
  BY DEF TemporalInv, BrokerInv
<1>1. ASSUME NEW status, NEW created, Ends(h, status, created)
      PROVE  ~GoesOn(h)
  BY <1>1 DEF Ends, GoesOn
<1>2. CASE Read(h)
  BY <1>0, <1>1, <1>2, ReadMoves DEF Puts, Tells
<1>3. CASE LookExists(h)
  BY <1>0, <1>3, ExistsMoves DEF Puts, Tells
<1>4. ASSUME handler[h].pc \in {"write", "delete"}, Store(h, handler[h].doc)
      PROVE  writes' # writes
  <2>. DEFINE w == [num |-> handler[h].num, id |-> handler[h].req.id,
                    old |-> temporals[handler[h].req.id], new |-> handler[h].doc]
  <2>1. writes' = Append(writes, w) /\ writes \in Seq(ToSet(writes))
    BY <1>4 DEF Store, TemporalInv, BrokerInv
  <2>. HIDE DEF w
  <2>2. Len(writes') = Len(writes) + 1 /\ Len(writes) \in Nat
    BY <2>1, AppendedOne
  <2>. QED  BY <2>2
<1>5. handler'[h] = [handler[h] EXCEPT !.pc = "log"] /\ GoesOn(h) => handler'[h].pc = "log"
  BY DEF GoesOn, Fields
<1>6. CASE WriteTemporal(h)
  <2>1. /\ Moves(h) /\ Store(h, handler[h].doc) /\ UNCHANGED <<faults, log>>
        /\ handler[h].pc = "write"
        /\ \/ Ends(h, 200, handler[h].created)
           \/ HandlerInv(h)' /\ handler'[h] = [handler[h] EXCEPT !.pc = "log"]
    BY <1>6, WriteMoves
  <2>. QED  BY <1>0, <1>1, <1>4, <1>5, <2>1 DEF Puts, Tells
<1>7. CASE delete_entity(h)
  <2>1. /\ Moves(h) /\ UNCHANGED <<faults, log>>
        /\ handler[h].pc = "delete"
        /\ \/ Ends(h, 404, FALSE) /\ UNCHANGED <<temporals, writes>>
           \/ /\ Store(h, handler[h].doc)
              /\ \/ Ends(h, 200, handler[h].created)
                 \/ HandlerInv(h)' /\ handler'[h] = [handler[h] EXCEPT !.pc = "log"]
    BY <1>7, DeleteMoves
  <2>. QED  BY <1>0, <1>1, <1>4, <1>5, <2>1 DEF Puts, Tells
<1>8. CASE RecordMutation(h)
  BY <1>0, <1>1, <1>8, RecordMoves DEF Puts, Tells
<1>9. CASE Fail(h)
  <2>1. /\ Moves(h) /\ UNCHANGED <<temporals, writes>>
        /\ faults' = faults + 1 /\ faults \in Nat
        /\ Ends(h, 500, FALSE)
        /\ \/ log' = log
           \/ handler[h].pc = "log" /\ log' = Append(log, Mutation(handler[h]))
    BY <1>9, FailMoves
  <2>2. ~GoesOn(h)
    BY <1>1, <2>1
  <2>3. faults' \in Nat
    BY <2>1
  <2>. QED  BY <2>1, <2>2, <2>3 DEF Puts, Tells
<1>. QED  BY <1>2, <1>3, <1>6, <1>7, <1>8, <1>9 DEF HandlerStep

-----------------------------------------------------------------------------
(* The state between two steps is kept. *)

LEMMA SendableIs ==
    ASSUME NEW req \in Sendable
    PROVE  IsRequest(req)
<1>1. \A r \in Requests : IsRequest(r)
  BY RequestAssumption DEF IsRequest
<1>2. PICK r \in Requests :
          req \in IF r.op \in {"patchInstance", "deleteInstance"}
                  THEN {[r EXCEPT !.instance = i] : i \in Instances} ELSE {r}
  BY DEF Sendable
<1>3. CASE req = r
  BY <1>1, <1>3
<1>4. ASSUME NEW i, req = [r EXCEPT !.instance = i]
      PROVE  IsRequest(req)
  <2>1. IsRequest(r)
    BY <1>1
  <2>2. DOMAIN req = DOMAIN r /\ req.op = r.op /\ req.id = r.id /\ req.payload = r.payload
        /\ req.attr = r.attr
    BY <1>4, <2>1 DEF IsRequest
  <2>. QED  BY <2>1, <2>2 DEF IsRequest
<1>. QED  BY <1>2, <1>3, <1>4

LEMMA InitKept == Init => TemporalInv
<1>. SUFFICES ASSUME Init
              PROVE  TemporalInv
  OBVIOUS
<1>1. BrokerInv
  <2>1. /\ requests = <<>> /\ writes = <<>> /\ log = <<>> /\ Len(<<>>) = 0 /\ DOMAIN <<>> = {}
        /\ <<>> \in Seq(ToSet(<<>>))
    BY DEF Init
  <2>. QED  BY <2>1, BoundAssumption DEF Init, BrokerInv
<1>2. StoreInv /\ HandlersInv
  BY DEF Init, StoreInv, HandlersInv, Active
<1>3. WritesInv
  <2>1. writes = <<>> /\ DOMAIN <<>> = {}
    BY DEF Init
  <2>. QED  BY <2>1 DEF WritesInv
<1>. QED  BY <1>1, <1>2, <1>3 DEF TemporalInv

LEMMA StartKept ==
    ASSUME TemporalInv, NEW h \in Handlers, NEW req \in Sendable, Start(h, req)
    PROVE  TemporalInv'
<1>. DEFINE num == Len(requests) + 1
            st == handler'[h]
            made == temporal_history_from_entity(req.payload, <<num, "stored">>)
            doc == IF req.op = "upsert" THEN Document(req.payload, made, now, now) ELSE NoDoc
<1>1. /\ ~Active(h) /\ num <= MaxRequests
      /\ requests' = Append(requests, req)
      /\ handler' = [handler EXCEPT ![h] =
            [pc |-> FirstStep(req.op), num |-> num, req |-> req, doc |-> doc, created |-> FALSE]]
      /\ raced' = IF \E o \in Handlers : Active(o) /\ handler[o].req.id = req.id
                  THEN raced \cup {req.id} ELSE raced
      /\ UNCHANGED <<temporals, now, faults, answers, writes, log>>
  BY DEF Start
<1>2. IsRequest(req)
  BY SendableIs
<1>3. BrokerInv /\ DOMAIN handler = Handlers /\ now \in Nat \ {0}
  BY DEF TemporalInv, BrokerInv
<1>4. IsHistory(made)
  BY <1>2, PreparedIsHistory
<1>. HIDE DEF made
<1>5. /\ st.pc = FirstStep(req.op) /\ st.num = num /\ st.req = req /\ st.doc = doc
      /\ st.created = FALSE /\ DOMAIN st = Fields
      /\ DOMAIN handler' = Handlers
      /\ \A g \in Handlers \ {h} : handler'[g] = handler[g]
  BY <1>1, <1>3 DEF Fields
<1>6. /\ requests' \in Seq(ToSet(requests'))
      /\ DOMAIN requests = 1 .. Len(requests) /\ Len(requests) \in Nat
      /\ Len(requests') = num
      /\ DOMAIN requests' = DOMAIN requests \cup {num}
      /\ requests'[num] = req
      /\ \A k \in DOMAIN requests : requests'[k] = requests[k]
  BY <1>1, <1>3, AppendedOne DEF BrokerInv
<1>7. BrokerInv'
  BY <1>1, <1>2, <1>3, <1>5, <1>6 DEF BrokerInv, IsRequest
<1>8. StoreInv'
  BY <1>1 DEF TemporalInv, StoreInv
<1>9. HandlerInv(h)'
  <2>1. req.op = "upsert" => IsDocument(doc) /\ Timed(doc, now) /\ doc.history = made
    <3>1. 1 \in Nat /\ now \in 1 .. now /\ now \in now .. now
      BY <1>3
    <3>. QED  BY <1>4, <3>1 DEF Document, IsDocument, Timed
  <2>2. answers[num] = Waiting
    <3>1. num \in (1 .. MaxRequests) \ (1 .. Len(requests))
      BY <1>1, <1>6, BoundAssumption
    <3>. QED  BY <1>3, <3>1 DEF BrokerInv
  <2>3. FirstStep(req.op) \in {"read", "exists", "delete"}
        /\ (FirstStep(req.op) = "read" <=> req.op \notin {"upsert", "deleteEntity"})
        /\ (FirstStep(req.op) = "delete" <=> req.op = "deleteEntity")
    BY DEF FirstStep
  <2>4. Prepared(st)
    BY <1>5, <2>1 DEF Prepared, made
  <2>5. /\ st.num \in 1 .. Len(requests') /\ st.req = requests'[st.num]
        /\ answers'[st.num] = Waiting
    BY <1>1, <1>5, <1>6, <2>2
  <2>6. req.op # "upsert" => doc = NoDoc
    OBVIOUS
  <2>7. now' = now
    BY <1>1
  <2>. HIDE DEF doc, num
  <2>. QED  BY <1>5, <2>1, <2>3, <2>4, <2>5, <2>6, <2>7 DEF HandlerInv
<1>10. HandlersInv'
  <2>1. ASSUME NEW g \in Handlers \ {h}, Active(g)
        PROVE  HandlerInv(g)'
    <3>1. HandlerInv(g) /\ handler[g].num \in DOMAIN requests
      BY <2>1, HandlerFieldsAt
    <3>2. handler'[g] = handler[g] /\ now' = now /\ answers' = answers
          /\ requests'[handler[g].num] = requests[handler[g].num]
          /\ handler[g].num \in 1 .. Len(requests')
      BY <1>1, <1>5, <1>6, <3>1
    <3>. QED  BY <3>1, <3>2 DEF HandlerInv, Prepared
  <2>2. \A g \in Handlers \ {h} : Active(g)' <=> Active(g)
    BY <1>5 DEF Active
  <2>3. \A g \in Handlers \ {h} : Active(g) => handler[g].num # num
    <3>. SUFFICES ASSUME NEW g \in Handlers \ {h}, Active(g)
                  PROVE  handler[g].num # num
      OBVIOUS
    <3>1. handler[g].num \in DOMAIN requests
      BY HandlerFieldsAt
    <3>. QED  BY <1>6, <3>1
  <2>4. \A g, f \in Handlers :
            Active(g)' /\ Active(f)' /\ g # f => handler'[g].num # handler'[f].num
    BY <1>5, <2>2, <2>3 DEF TemporalInv, HandlersInv
  <2>5. \A g, f \in Handlers :
            Active(g)' /\ Active(f)' /\ g # f /\ handler'[g].req.id = handler'[f].req.id =>
                handler'[f].req.id \in raced'
    BY <1>1, <1>5, <2>2 DEF TemporalInv, HandlersInv
  <2>. QED  BY <1>9, <2>1, <2>2, <2>4, <2>5 DEF HandlersInv
<1>11. WritesInv'
  <2>1. \A w \in DOMAIN writes :
            /\ writes[w].num \in DOMAIN requests /\ writes[w].num # num
            /\ writes[w].id = requests[writes[w].num].id
    BY <1>6 DEF TemporalInv, WritesInv
  <2>2. \A w \in DOMAIN writes :
            writes[w].num \in 1 .. Len(requests') /\ writes[w].id = requests'[writes[w].num].id
    BY <1>6, <2>1
  <2>3. \A g \in Handlers, w \in DOMAIN writes :
            Active(g)' /\ writes[w].num = handler'[g].num => handler'[g].pc = "log"
    <3>. SUFFICES ASSUME NEW g \in Handlers, NEW w \in DOMAIN writes,
                         Active(g)', writes[w].num = handler'[g].num
                  PROVE  handler'[g].pc = "log"
      OBVIOUS
    <3>1. g # h
      BY <1>5, <2>1
    <3>2. handler'[g] = handler[g] /\ Active(g)
      BY <1>5, <3>1 DEF Active
    <3>. QED  BY <3>2 DEF TemporalInv, WritesInv
  <2>4. writes' = writes
    BY <1>1
  <2>. HIDE DEF num
  <2>. QED  BY <2>2, <2>3, <2>4 DEF WritesInv, TemporalInv
<1>. QED  BY <1>7, <1>8, <1>10, <1>11 DEF TemporalInv

LEMMA HandlerStepKept ==
    ASSUME TemporalInv, NEW h \in Handlers, HandlerStep(h)
    PROVE  TemporalInv'
<1>. DEFINE st == handler[h]
<1>1. /\ Moves(h) /\ Puts(h) /\ Tells(h)
      /\ faults' \in Nat
      /\ GoesOn(h) => HandlerInv(h)'
      /\ GoesOn(h) /\ ~UNCHANGED writes => handler'[h].pc = "log"
      /\ GoesOn(h) /\ UNCHANGED writes => st.pc # "log"
  BY HandlerStepIs
<1>2. /\ Active(h) /\ DOMAIN handler' = Handlers
      /\ \A g \in Handlers \ {h} : handler'[g] = handler[g]
      /\ requests' = requests /\ now' = now /\ raced' = raced
      /\ GoesOn(h) \/ \E status, created : Ends(h, status, created)
  BY <1>1 DEF Moves
<1>3. /\ HandlerInv(h) /\ DOMAIN st = Fields /\ st.req.id \in Ids
      /\ st.num \in DOMAIN answers /\ st.num \in DOMAIN requests
  BY <1>2, HandlerFieldsAt
<1>4. /\ DOMAIN answers' = DOMAIN answers
      /\ \A num \in DOMAIN answers : num # st.num => answers'[num] = answers[num]
  BY <1>2, <1>3 DEF GoesOn, Ends
<1>5. /\ log' \in Seq(ToSet(log'))
      /\ writes' \in Seq(ToSet(writes'))
  <2>1. log \in Seq(ToSet(log)) /\ writes \in Seq(ToSet(writes))
    BY DEF TemporalInv, BrokerInv
  <2>2. log' = log \/ \E m : log' = Append(log, m)
    BY <1>1 DEF Tells
  <2>3. writes' = writes \/ \E w : writes' = Append(writes, w)
    BY <1>1 DEF Puts, Store
  <2>4. \A s : s \in Seq(ToSet(s)) => \A x : Append(s, x) \in Seq(ToSet(Append(s, x)))
    BY AppendedOne
  <2>. QED  BY <2>1, <2>2, <2>3, <2>4
<1>6. BrokerInv'
  <2>1. DOMAIN requests = 1 .. Len(requests)
    BY LenProperties DEF TemporalInv, BrokerInv
  <2>2. \A num \in (1 .. MaxRequests) \ (1 .. Len(requests)) : answers'[num] = Waiting
    BY <1>3, <1>4, <2>1 DEF TemporalInv, BrokerInv
  <2>. QED  BY <1>1, <1>2, <1>4, <1>5, <2>2 DEF TemporalInv, BrokerInv
<1>7. StoreInv'
  <2>1. CASE UNCHANGED <<temporals, writes>>
    BY <1>2, <2>1 DEF TemporalInv, StoreInv
  <2>2. CASE st.pc \in {"write", "delete"} /\ Store(h, st.doc)
    <3>1. temporals' = [temporals EXCEPT ![st.req.id] = st.doc]
      BY <2>2 DEF Store
    <3>2. st.doc = NoDoc \/ (IsDocument(st.doc) /\ Timed(st.doc, now))
      BY <1>3, <2>2 DEF HandlerInv
    <3>. QED  BY <1>2, <1>3, <3>1, <3>2 DEF TemporalInv, StoreInv
  <2>. QED  BY <1>1, <2>1, <2>2 DEF Puts
<1>8. \A g \in Handlers : Active(g)' => Active(g) /\ handler'[g].num = handler[g].num
                                               /\ handler'[g].req = handler[g].req
  BY <1>2 DEF Active, GoesOn, Ends
<1>9. \A g \in Handlers \ {h} : Active(g) => handler[g].num # st.num
  BY <1>2 DEF TemporalInv, HandlersInv
<1>10. HandlersInv'
  <2>1. ASSUME NEW g \in Handlers \ {h}, Active(g)
        PROVE  HandlerInv(g)'
    <3>1. HandlerInv(g) /\ handler[g].num \in DOMAIN answers
      BY <2>1, HandlerFieldsAt
    <3>2. answers'[handler[g].num] = answers[handler[g].num]
      BY <1>4, <1>9, <2>1, <3>1
    <3>. QED  BY <1>2, <3>1, <3>2 DEF HandlerInv, Prepared
  <2>2. Active(h)' => HandlerInv(h)'
    BY <1>1, <1>2 DEF Active, Ends
  <2>. QED  BY <1>2, <1>8, <2>1, <2>2 DEF TemporalInv, HandlersInv
<1>11. WritesInv'
  <2>1. CASE UNCHANGED <<temporals, writes>>
    <3>1. \A g \in Handlers, w \in DOMAIN writes :
              Active(g)' /\ writes[w].num = handler'[g].num => handler'[g].pc = "log"
      <4>. SUFFICES ASSUME NEW g \in Handlers, NEW w \in DOMAIN writes,
                           Active(g)', writes[w].num = handler'[g].num
                    PROVE  handler'[g].pc = "log"
        OBVIOUS
      <4>1. handler[g].pc = "log"
        BY <1>8 DEF TemporalInv, WritesInv
      <4>2. g # h
        BY <1>1, <1>2, <2>1, <4>1 DEF Active, Ends
      <4>. QED  BY <1>2, <4>1, <4>2
    <3>. QED  BY <1>2, <2>1, <3>1 DEF TemporalInv, WritesInv
  <2>2. CASE st.pc \in {"write", "delete"} /\ Store(h, st.doc)
    <3>. DEFINE w == [num |-> st.num, id |-> st.req.id,
                      old |-> temporals[st.req.id], new |-> st.doc]
    <3>1. writes' = Append(writes, w) /\ writes \in Seq(ToSet(writes))
      BY <2>2 DEF Store, TemporalInv, BrokerInv
    <3>2. w.num = st.num /\ w.id = st.req.id
      OBVIOUS
    <3>. HIDE DEF w
    <3>3. /\ DOMAIN writes' = DOMAIN writes \cup {Len(writes) + 1}
          /\ writes'[Len(writes) + 1] = w
          /\ \A k \in DOMAIN writes : writes'[k] = writes[k]
          /\ Len(writes') = Len(writes) + 1 /\ Len(writes) \in Nat
      BY <3>1, AppendedOne
    <3>4. \A k \in DOMAIN writes : writes[k].num # st.num
      BY <1>2, <2>2 DEF TemporalInv, WritesInv
    <3>5. st.num \in 1 .. Len(requests) /\ st.req = requests[st.num]
      BY <1>3 DEF HandlerInv
    <3>6. writes' # writes
      BY <3>3
    <3>7. \A g \in Handlers, k \in DOMAIN writes' :
              Active(g)' /\ writes'[k].num = handler'[g].num => handler'[g].pc = "log"
      <4>. SUFFICES ASSUME NEW g \in Handlers, NEW k \in DOMAIN writes',
                           Active(g)', writes'[k].num = handler'[g].num
                    PROVE  handler'[g].pc = "log"
        OBVIOUS
      <4>1. CASE g = h
        BY <1>1, <1>2, <3>6, <4>1 DEF Active, Ends
      <4>2. CASE g # h
        <5>1. Active(g) /\ handler'[g] = handler[g] /\ handler[g].num # st.num
          BY <1>2, <1>8, <1>9, <4>2
        <5>2. k \in DOMAIN writes
          BY <3>2, <3>3, <5>1
        <5>. QED  BY <3>3, <5>1, <5>2 DEF TemporalInv, WritesInv
      <4>. QED  BY <4>1, <4>2
    <3>. QED  BY <1>2, <3>2, <3>3, <3>4, <3>5, <3>7 DEF TemporalInv, WritesInv
  <2>. QED  BY <1>1, <2>1, <2>2 DEF Puts
<1>. QED  BY <1>6, <1>7, <1>10, <1>11 DEF TemporalInv

LEMMA NextKept == TemporalInv /\ [Next]_vars => TemporalInv'
<1>. SUFFICES ASSUME TemporalInv, [Next]_vars
              PROVE  TemporalInv'
  OBVIOUS
<1>1. ASSUME NEW h \in Handlers, HandlerStep(h)
      PROVE  TemporalInv'
  BY <1>1, HandlerStepKept
<1>2. ASSUME NEW h \in Handlers, NEW req \in Sendable, Start(h, req)
      PROVE  TemporalInv'
  BY <1>2, StartKept
<1>3. CASE Tick
  <2>1. /\ now < MaxTime /\ now' = now + 1
        /\ UNCHANGED <<temporals, handler, requests, faults, answers, writes, log, raced>>
    BY <1>3 DEF Tick
  <2>2. now \in 1 .. MaxTime
    BY DEF TemporalInv, BrokerInv
  <2>3. \A doc : Timed(doc, now) => Timed(doc, now')
    BY <2>1, <2>2 DEF Timed
  <2>4. BrokerInv'
    BY <2>1, <2>2, BoundAssumption DEF TemporalInv, BrokerInv
  <2>5. StoreInv'
    BY <2>1, <2>3 DEF TemporalInv, StoreInv
  <2>6. HandlersInv'
    <3>1. \A h \in Handlers : HandlerInv(h) => HandlerInv(h)'
      BY <2>1, <2>3 DEF HandlerInv, Prepared
    <3>. QED  BY <2>1, <3>1 DEF TemporalInv, HandlersInv, Active
  <2>7. WritesInv'
    BY <2>1 DEF TemporalInv, WritesInv, Active
  <2>. QED  BY <2>4, <2>5, <2>6, <2>7 DEF TemporalInv
<1>4. CASE UNCHANGED vars
  <2>1. UNCHANGED <<temporals, handler, now, requests, faults, answers, writes, log, raced>>
    BY <1>4 DEF vars
  <2>2. \A h \in Handlers : HandlerInv(h) => HandlerInv(h)'
    BY <2>1 DEF HandlerInv, Prepared
  <2>. QED  BY <2>1, <2>2 DEF TemporalInv, BrokerInv, StoreInv, HandlersInv, WritesInv, Active
<1>. QED  BY <1>1, <1>2, <1>3, <1>4 DEF Next, HandlerStep

\* What the broker holds between two steps is kept, whatever the requests.
THEOREM TemporalsAreKept == Spec => []TemporalInv
BY InitKept, NextKept, PTL DEF Spec
-----------------------------------------------------------------------------
(* What is recorded. *)

\* Made twice of one payload, a history differs in the ids of its instances alone.
LEMMA NamelessHistories ==
    ASSUME NEW payload, NEW origin, NEW other, NEW doc,
           DOMAIN doc = {"attrs", "history", "createdAt", "modifiedAt"},
           doc.history = temporal_history_from_entity(payload, origin)
    PROVE  Nameless([doc EXCEPT !.history = temporal_history_from_entity(payload, other)])
             = Nameless(doc)
<1>. DEFINE attrs == SetToSeq(DOMAIN payload)
            Record(from, k) == make_temporal_instance(attrs[k], payload[attrs[k]], <<from, attrs[k]>>)
            Bare(s) == [k \in DOMAIN s |-> [s[k] EXCEPT !.instance = None]]
            one == temporal_history_from_entity(payload, origin)
            two == temporal_history_from_entity(payload, other)
<1>1. /\ one = [k \in DOMAIN attrs |-> Record(origin, k)]
      /\ two = [k \in DOMAIN attrs |-> Record(other, k)]
  BY DEF temporal_history_from_entity
<1>2. \A k : [Record(origin, k) EXCEPT !.instance = None] = [Record(other, k) EXCEPT !.instance = None]
  BY DEF make_temporal_instance
<1>. HIDE DEF attrs, Record, one, two
<1>3. Bare(one) = Bare(two)
  BY <1>1, <1>2
<1>4. Nameless(doc) = [doc EXCEPT !.history = Bare(one)]
  BY DEF Nameless, one
<1>. DEFINE sent == [doc EXCEPT !.history = two]
<1>5. Nameless(sent) = [sent EXCEPT !.history = Bare(two)]
  <2>1. sent.history = two
    OBVIOUS
  <2>. HIDE DEF sent
  <2>. QED  BY <2>1 DEF Nameless
<1>. HIDE DEF Bare
<1>6. [sent EXCEPT !.history = Bare(two)] = [doc EXCEPT !.history = Bare(one)]
  BY <1>3
<1>. QED  BY <1>4, <1>5, <1>6 DEF two

LEMMA MutationIs ==
    ASSUME TemporalInv, NEW h \in Handlers, Active(h), handler[h].pc = "log"
    PROVE  LET st == handler[h]
               m == Mutation(st)
           IN /\ m.num = st.num /\ m.id = st.req.id
              /\ st.req.op = "deleteEntity" =>
                    m.snapshot = NoDoc /\ st.doc = NoDoc /\ m.version = now
              /\ st.req.op # "deleteEntity" =>
                    /\ "modifiedAt" \in DOMAIN m.snapshot /\ "modifiedAt" \in DOMAIN st.doc
                    /\ m.snapshot.modifiedAt = st.doc.modifiedAt
                    /\ m.version \in {now, st.doc.modifiedAt}
                    /\ st.doc.modifiedAt \in 1 .. now
                    /\ Nameless(m.snapshot) = Nameless(st.doc)
<1>. DEFINE st == handler[h]
            m == Mutation(st)
<1>1. HandlerInv(h) /\ now \in Nat
  BY HandlerFieldsAt DEF TemporalInv, BrokerInv
<1>2. /\ m.num = st.num /\ m.id = st.req.id /\ m.snapshot = temporal_snapshot(st)
      /\ m.version = IF st.req.op \in {"patchInstance", "deleteInstance", "deleteEntity"} THEN now
                     ELSE st.doc.modifiedAt
  BY DEF Mutation
<1>3. CASE st.req.op = "deleteEntity"
  BY <1>1, <1>2, <1>3 DEF HandlerInv, temporal_snapshot
<1>4. CASE st.req.op # "deleteEntity"
  <2>1. IsDocument(st.doc) /\ Timed(st.doc, now) /\ Prepared(st)
    BY <1>1, <1>4 DEF HandlerInv
  <2>2. /\ DOMAIN st.doc = {"attrs", "history", "createdAt", "modifiedAt"}
        /\ st.doc.modifiedAt \in 1 .. now
    BY <1>1, <2>1 DEF IsDocument, Timed
  <2>3. /\ m.snapshot.modifiedAt = st.doc.modifiedAt
        /\ DOMAIN m.snapshot = DOMAIN st.doc
        /\ Nameless(m.snapshot) = Nameless(st.doc)
    <3>1. CASE st.req.op = "upsert"
      <4>. DEFINE doc == st.doc
                  payload == st.req.payload
      <4>1. m.snapshot = [doc EXCEPT !.history = temporal_history_from_entity(payload, <<st.num, "sent">>)]
        BY <1>2, <3>1 DEF temporal_snapshot
      <4>2. doc.history = temporal_history_from_entity(payload, <<st.num, "stored">>)
        BY <2>1, <3>1 DEF Prepared
      <4>3. DOMAIN doc = {"attrs", "history", "createdAt", "modifiedAt"}
        BY <2>2
      <4>. HIDE DEF doc, payload, m
      <4>4. Nameless(m.snapshot) = Nameless(doc)
        BY <4>1, <4>2, <4>3, NamelessHistories
      <4>5. m.snapshot.modifiedAt = doc.modifiedAt /\ DOMAIN m.snapshot = DOMAIN doc
        BY <4>1, <4>3
      <4>. QED  BY <4>4, <4>5 DEF doc
    <3>2. CASE st.req.op # "upsert"
      BY <1>2, <3>2 DEF temporal_snapshot
    <3>. QED  BY <3>1, <3>2
  <2>. HIDE DEF m
  <2>. QED  BY <1>2, <1>4, <2>2, <2>3 DEF m
<1>. QED  BY <1>3, <1>4

LEMMA NextVersions ==
    ASSUME TemporalInv, VersionsInv, [Next]_vars
    PROVE  VersionsInv'
<1>1. ASSUME NEW h \in Handlers, HandlerStep(h)
      PROVE  VersionsInv'
  <2>1. Active(h) /\ Tells(h)
    BY <1>1, HandlerStepIs DEF Moves
  <2>2. CASE log' = log
    BY <2>2 DEF VersionsInv
  <2>3. CASE handler[h].pc = "log" /\ log' = Append(log, Mutation(handler[h]))
    <3>. DEFINE m == Mutation(handler[h])
    <3>1. now \in Nat
      BY DEF TemporalInv, BrokerInv
    <3>2. m.snapshot # NoDoc => m.version >= m.snapshot.modifiedAt
      BY <2>1, <2>3, <3>1, MutationIs
    <3>. HIDE DEF m
    <3>3. /\ DOMAIN log' = DOMAIN log \cup {Len(log) + 1}
          /\ log'[Len(log) + 1] = m
          /\ \A k \in DOMAIN log : log'[k] = log[k]
      BY <2>3, AppendedOne DEF TemporalInv, BrokerInv, m
    <3>. QED  BY <3>2, <3>3 DEF VersionsInv
  <2>. QED  BY <2>1, <2>2, <2>3 DEF Tells
<1>2. CASE UNCHANGED log
  BY <1>2 DEF VersionsInv
<1>3. ASSUME NEW h \in Handlers, NEW req \in Sendable, Start(h, req)
      PROVE  VersionsInv'
  BY <1>2, <1>3 DEF Start
<1>4. CASE Tick \/ UNCHANGED vars
  BY <1>2, <1>4 DEF Tick, vars
<1>. QED  BY <1>1, <1>3, <1>4 DEF Next, HandlerStep

\* Whatever clock readings interleave, no document is modified before it was created nor
\* after now, and no mutation is older than its snapshot (prepare, apply and the
\* recording of mutations read the clock at different steps).
THEOREM TimesAlwaysAgree == Spec => []TimesAgree
<1>1. Init => VersionsInv
  BY DEF Init, VersionsInv
<1>2. TemporalInv /\ VersionsInv /\ [Next]_vars => VersionsInv'
  BY NextVersions
<1>3. TemporalInv /\ VersionsInv => TimesAgree
  BY DEF TemporalInv, StoreInv, Timed, VersionsInv, TimesAgree
<1>. QED  BY <1>1, <1>2, <1>3, TemporalsAreKept, PTL DEF Spec
-----------------------------------------------------------------------------
(* The find and the replace. *)

LEMMA StoreWrites ==
    ASSUME TemporalInv, NEW h \in Handlers, Active(h), handler[h].pc \in {"write", "delete"},
           Store(h, handler[h].doc)
    PROVE  LET w == Len(writes) + 1
               id == handler[h].req.id
           IN /\ DOMAIN writes' = DOMAIN writes \cup {w} /\ w \notin DOMAIN writes
              /\ Len(writes') = w
              /\ \A k \in DOMAIN writes : writes'[k] = writes[k]
              /\ writes'[w].num = handler[h].num /\ writes'[w].id = id
              /\ writes'[w].old = temporals[id] /\ writes'[w].new = handler[h].doc
              /\ \A k \in DOMAIN writes : writes[k].num # handler[h].num
              /\ temporals'[id] = handler[h].doc
              /\ \A other \in Ids \ {id} : temporals'[other] = temporals[other]
<1>. DEFINE id == handler[h].req.id
            w == [num |-> handler[h].num, id |-> id, old |-> temporals[id], new |-> handler[h].doc]
<1>1. /\ writes' = Append(writes, w) /\ writes \in Seq(ToSet(writes))
      /\ temporals' = [temporals EXCEPT ![id] = handler[h].doc]
  BY DEF Store, TemporalInv, BrokerInv
<1>2. /\ w.num = handler[h].num /\ w.id = id /\ w.old = temporals[id] /\ w.new = handler[h].doc
  OBVIOUS
<1>. HIDE DEF w
<1>3. /\ DOMAIN writes' = DOMAIN writes \cup {Len(writes) + 1}
      /\ writes'[Len(writes) + 1] = w
      /\ \A k \in DOMAIN writes : writes'[k] = writes[k]
      /\ Len(writes') = Len(writes) + 1 /\ Len(writes) \in Nat
      /\ DOMAIN writes = 1 .. Len(writes)
  BY <1>1, AppendedOne
<1>4. \A k \in DOMAIN writes : writes[k].num # handler[h].num
  BY DEF TemporalInv, WritesInv
<1>5. id \in Ids /\ DOMAIN temporals = Ids
  BY HandlerFieldsAt DEF TemporalInv, StoreInv
<1>6. Len(writes) + 1 \notin DOMAIN writes
  BY <1>3
<1>. QED  BY <1>1, <1>2, <1>3, <1>4, <1>5, <1>6

\* Other handlers' steps leave alone what a handler saw of an entity, if there is no race.
LEMMA OthersLeave ==
    ASSUME TemporalInv, NEW h \in Handlers, HandlerStep(h), NEW g \in Handlers \ {h}, Active(g)'
    PROVE  /\ Active(g) /\ handler'[g] = handler[g] /\ raced' = raced
           /\ handler[g].req.id \in raced
                \/ temporals'[handler[g].req.id] = temporals[handler[g].req.id]
           /\ DOMAIN writes \subseteq DOMAIN writes'
           /\ \A w \in DOMAIN writes : writes'[w] = writes[w]
           /\ \A w \in DOMAIN writes' : writes'[w].num = handler[g].num => w \in DOMAIN writes
<1>1. /\ Moves(h) /\ Puts(h)
      /\ Active(h) /\ handler'[g] = handler[g] /\ raced' = raced
  BY HandlerStepIs DEF Moves
<1>2. Active(g)
  BY <1>1 DEF Active
<1>3. handler[g].num # handler[h].num
      /\ (handler[g].req.id = handler[h].req.id => handler[g].req.id \in raced)
  BY <1>1, <1>2 DEF TemporalInv, HandlersInv
<1>4. handler[g].req.id \in Ids
  BY <1>2, HandlerFieldsAt
<1>5. CASE UNCHANGED <<temporals, writes>>
  BY <1>1, <1>2, <1>5
<1>6. CASE handler[h].pc \in {"write", "delete"} /\ Store(h, handler[h].doc)
  BY <1>1, <1>2, <1>3, <1>4, <1>6, StoreWrites
<1>. QED  BY <1>1, <1>5, <1>6 DEF Puts

LEMMA StoreCreates ==
    ASSUME TemporalInv, CreatedInv, NEW h \in Handlers, Active(h), raced' = raced,
           \/ handler[h].pc = "write"
           \/ handler[h].pc = "delete" /\ temporals[handler[h].req.id] # NoDoc,
           Store(h, handler[h].doc),
           \/ Ends(h, 200, handler[h].created)
           \/ GoesOn(h) /\ handler'[h] = [handler[h] EXCEPT !.pc = "log"]
    PROVE  /\ Saw(h)'
           /\ \A w \in DOMAIN writes' :
                 /\ writes'[w].num = handler[h].num
                 /\ writes'[w].id \notin raced
                 /\ answers'[handler[h].num].status = 200
                 => (answers'[handler[h].num].created <=> writes'[w].old = NoDoc)
<1>. DEFINE st == handler[h]
            id == st.req.id
<1>1. HandlerInv(h) /\ DOMAIN st = Fields /\ st.num \in DOMAIN answers
  BY HandlerFieldsAt
<1>2. \A w \in DOMAIN writes' : writes'[w].num = st.num =>
          writes'[w].id = id /\ writes'[w].old = temporals[id]
  BY StoreWrites
<1>3. id \notin raced => (st.created <=> temporals[id] = NoDoc)
  <2>1. CASE st.pc = "write"
    BY <2>1 DEF CreatedInv, Saw
  <2>2. CASE st.pc = "delete" /\ temporals[id] # NoDoc
    BY <1>1, <2>2 DEF HandlerInv
  <2>. QED  BY <2>1, <2>2
<1>4. CASE Ends(h, 200, st.created)
  <2>1. answers'[st.num].created = st.created
    BY <1>1, <1>4 DEF Ends
  <2>2. Saw(h)'
    BY <1>4 DEF Ends, Saw, Active
  <2>. QED  BY <1>2, <1>3, <2>1, <2>2
<1>5. CASE GoesOn(h) /\ handler'[h] = [st EXCEPT !.pc = "log"]
  <2>1. /\ handler'[h].pc = "log" /\ handler'[h].req = st.req /\ handler'[h].num = st.num
        /\ handler'[h].created = st.created
    BY <1>1, <1>5 DEF Fields
  <2>2. answers'[st.num].status = 0
    BY <1>1, <1>5 DEF GoesOn, HandlerInv, Waiting
  <2>3. Saw(h)'
    BY <1>2, <1>3, <2>1 DEF Saw
  <2>. QED  BY <2>2, <2>3
<1>. QED  BY <1>4, <1>5

LEMMA NextCreated ==
    ASSUME TemporalInv, CreatedInv, [Next]_vars
    PROVE  CreatedInv'
<1>1. ASSUME NEW h \in Handlers, HandlerStep(h)
      PROVE  CreatedInv'
  <2>. DEFINE st == handler[h]
              Mine(w) == /\ writes'[w].num = st.num
                         /\ writes'[w].id \notin raced
                         /\ answers'[st.num].status = 200
                         => (answers'[st.num].created <=> writes'[w].old = NoDoc)
  <2>1. Moves(h) /\ Puts(h) /\ Active(h) /\ raced' = raced
    BY <1>1, HandlerStepIs DEF Moves
  <2>2. HandlerInv(h) /\ st.num \in DOMAIN answers /\ DOMAIN st = Fields
    BY <2>1, HandlerFieldsAt
  <2>3. \A w \in DOMAIN writes : writes[w].num = st.num =>
            st.pc = "log" /\ writes[w].id = st.req.id
    BY <2>1, <2>2 DEF TemporalInv, WritesInv, HandlerInv
  <2>4. Saw(h)' /\ \A w \in DOMAIN writes' : Mine(w)
    <3>1. CASE Read(h)
      <4>1. handler[h].pc = "read" /\ writes' = writes
            /\ (Active(h)' => handler'[h].pc = "exists")
        BY <3>1, ReadMoves DEF Ends, Active
      <4>. QED  BY <2>3, <4>1 DEF Saw
    <3>2. CASE LookExists(h)
      <4>1. /\ handler[h].pc = "exists" /\ writes' = writes /\ temporals' = temporals
            /\ handler'[h].pc = "write" /\ handler'[h].req = st.req
            /\ handler'[h].created = (temporals[st.req.id] = NoDoc)
        BY <3>2, ExistsMoves DEF GoesOn
      <4>. QED  BY <2>3, <4>1 DEF Saw
    <3>3. CASE WriteTemporal(h)
      <4>1. /\ Store(h, st.doc) /\ st.pc = "write"
            /\ \/ Ends(h, 200, st.created)
               \/ GoesOn(h) /\ handler'[h] = [st EXCEPT !.pc = "log"]
        BY <3>3, WriteMoves
      <4>. QED  BY <2>1, <4>1, StoreCreates
    <3>4. CASE delete_entity(h)
      <4>1. /\ st.pc = "delete"
            /\ \/ Ends(h, 404, FALSE) /\ UNCHANGED <<temporals, writes>>
               \/ /\ temporals[st.req.id] # NoDoc /\ Store(h, st.doc)
                  /\ \/ Ends(h, 200, st.created)
                     \/ GoesOn(h) /\ handler'[h] = [st EXCEPT !.pc = "log"]
        BY <3>4, DeleteMoves
      <4>2. CASE Ends(h, 404, FALSE) /\ UNCHANGED <<temporals, writes>>
        BY <2>3, <4>1, <4>2 DEF Saw, Active, Ends
      <4>. QED  BY <2>1, <4>1, <4>2, StoreCreates
    <3>5. CASE RecordMutation(h)
      <4>1. writes' = writes /\ st.pc = "log" /\ Ends(h, 200, st.created)
        BY <3>5, RecordMoves
      <4>2. Saw(h)' /\ answers'[st.num].created = st.created
        BY <2>2, <4>1 DEF Saw, Active, Ends
      <4>. QED  BY <2>1, <2>3, <4>1, <4>2 DEF CreatedInv, Saw
    <3>6. CASE Fail(h)
      <4>1. Ends(h, 500, FALSE)
        BY <3>6, FailMoves
      <4>. QED  BY <2>2, <4>1 DEF Saw, Active, Ends
    <3>. QED  BY <1>1, <3>1, <3>2, <3>3, <3>4, <3>5, <3>6 DEF HandlerStep
  <2>5. ASSUME NEW g \in Handlers \ {h}
        PROVE  Saw(g)'
    <3>. SUFFICES ASSUME Active(g)'
                  PROVE  Saw(g)'
      BY DEF Saw
    <3>1. /\ Active(g) /\ handler'[g] = handler[g] /\ raced' = raced
          /\ handler[g].req.id \in raced
               \/ temporals'[handler[g].req.id] = temporals[handler[g].req.id]
          /\ \A w \in DOMAIN writes : writes'[w] = writes[w]
          /\ \A w \in DOMAIN writes' : writes'[w].num = handler[g].num => w \in DOMAIN writes
      BY <1>1, OthersLeave
    <3>. QED  BY <3>1 DEF CreatedInv, Saw
  <2>6. ASSUME NEW w \in DOMAIN writes', writes'[w].num # st.num
        PROVE  w \in DOMAIN writes /\ writes'[w] = writes[w]
               /\ answers'[writes[w].num] = answers[writes[w].num]
    <3>1. w \in DOMAIN writes /\ writes'[w] = writes[w]
      BY <2>1, <2>6, StoreWrites DEF Puts
    <3>2. writes[w].num \in DOMAIN answers
      <4>1. DOMAIN requests = 1 .. Len(requests) /\ Len(requests) \in Nat
            /\ Len(requests) <= MaxRequests /\ DOMAIN answers = 1 .. MaxRequests
        BY LenProperties DEF TemporalInv, BrokerInv
      <4>2. writes[w].num \in 1 .. Len(requests)
        BY <3>1 DEF TemporalInv, WritesInv
      <4>. QED  BY <4>1, <4>2, BoundAssumption
    <3>3. answers' = answers \/ \E a : answers' = [answers EXCEPT ![st.num] = a]
      BY <2>1 DEF Moves, GoesOn, Ends
    <3>. QED  BY <2>6, <3>1, <3>2, <3>3
  <2>7. CreatedIfAbsent'
    <3>. SUFFICES ASSUME NEW w \in DOMAIN writes', answers'[writes'[w].num].status = 200,
                         writes'[w].id \notin raced'
                  PROVE  answers'[writes'[w].num].created <=> writes'[w].old = NoDoc
      BY DEF CreatedIfAbsent
    <3>1. CASE writes'[w].num = st.num
      BY <2>1, <2>4, <3>1
    <3>2. CASE writes'[w].num # st.num
      BY <2>1, <2>6, <3>2 DEF CreatedInv, CreatedIfAbsent
    <3>. QED  BY <3>1, <3>2
  <2>. QED  BY <2>4, <2>5, <2>7 DEF CreatedInv
<1>2. ASSUME NEW h \in Handlers, NEW req \in Sendable, Start(h, req)
      PROVE  CreatedInv'
  <2>1. /\ UNCHANGED <<temporals, answers, writes>> /\ raced \subseteq raced'
        /\ ~Active(h) /\ DOMAIN handler = Handlers
        /\ \A g \in Handlers \ {h} : handler'[g] = handler[g]
        /\ handler'[h].pc = FirstStep(req.op)
    BY <1>2 DEF Start, TemporalInv, BrokerInv
  <2>2. FirstStep(req.op) \notin {"write", "log"}
    BY DEF FirstStep
  <2>3. CreatedIfAbsent'
    BY <2>1 DEF CreatedInv, CreatedIfAbsent
  <2>4. \A g \in Handlers \ {h} : Saw(g)'
    BY <2>1 DEF CreatedInv, Saw, Active
  <2>5. Saw(h)'
    BY <2>1, <2>2 DEF Saw
  <2>. QED  BY <2>3, <2>4, <2>5 DEF CreatedInv
<1>3. CASE Tick \/ UNCHANGED vars
  <2>1. UNCHANGED <<temporals, handler, answers, writes, raced>>
    BY <1>3 DEF Tick, vars
  <2>. QED  BY <2>1 DEF CreatedInv, CreatedIfAbsent, Saw, Active
<1>. QED  BY <1>1, <1>2, <1>3 DEF Next, HandlerStep

\* A request that succeeds is told that it created the entity exactly if its write
\* replaced nothing, unless requests raced (upsert: find_one, then replace_one).
THEOREM CreationsAreTold == Spec => []CreatedIfAbsent
<1>1. Init => CreatedInv
  <2>1. DOMAIN <<>> = {}
    OBVIOUS
  <2>. QED  BY <2>1 DEF Init, CreatedInv, CreatedIfAbsent, Saw, Active
<1>2. TemporalInv /\ CreatedInv /\ [Next]_vars => CreatedInv'
  BY NextCreated
<1>3. CreatedInv => CreatedIfAbsent
  BY DEF CreatedInv
<1>. QED  BY <1>1, <1>2, <1>3, TemporalsAreKept, PTL DEF Spec
-----------------------------------------------------------------------------
(* The records that other requests made. *)

LEMMA NextKeeps ==
    ASSUME TemporalInv, KeepsInv, [Next]_vars
    PROVE  KeepsInv'
<1>. DEFINE Held(h) ==
                LET st == handler[h] IN
                Active(h) /\ st.pc \in {"exists", "write"} /\ temporals[st.req.id] # NoDoc =>
                    st.req.id \in raced \/ Keeps(st.req, temporals[st.req.id], st.doc)
<1>1. ASSUME NEW h \in Handlers, HandlerStep(h)
      PROVE  KeepsInv'
  <2>. DEFINE st == handler[h]
  <2>1. Active(h) /\ raced' = raced /\ DOMAIN st = Fields
    <3>1. Active(h) /\ raced' = raced
      BY <1>1, HandlerStepIs DEF Moves
    <3>. QED  BY <3>1, HandlerFieldsAt
  <2>2. Held(h)'
    <3>1. CASE Read(h)
      <4>1. Active(h)' => /\ temporals' = temporals /\ handler'[h].req = st.req
                          /\ Keeps(st.req, temporals[st.req.id], handler'[h].doc)
        BY <3>1, ReadMoves DEF Ends, GoesOn, Active
      <4>. QED  BY <4>1
    <3>2. CASE LookExists(h)
      <4>1. /\ temporals' = temporals /\ handler'[h].req = st.req /\ st.pc = "exists"
            /\ handler'[h].doc = st.doc
        BY <3>2, ExistsMoves DEF GoesOn
      <4>. QED  BY <2>1, <4>1 DEF KeepsInv
    <3>3. CASE WriteTemporal(h) \/ delete_entity(h)
      <4>1. \/ \E status, created : Ends(h, status, created)
            \/ handler'[h] = [st EXCEPT !.pc = "log"]
        BY <3>3, WriteMoves, DeleteMoves
      <4>2. handler'[h] = [st EXCEPT !.pc = "log"] => handler'[h].pc = "log"
        BY <2>1 DEF Fields
      <4>. QED  BY <4>1, <4>2 DEF Ends, Active
    <3>4. CASE RecordMutation(h)
      BY <3>4, RecordMoves DEF Ends, Active
    <3>5. CASE Fail(h)
      BY <3>5, FailMoves DEF Ends, Active
    <3>. QED  BY <1>1, <3>1, <3>2, <3>3, <3>4, <3>5 DEF HandlerStep
  <2>3. ASSUME NEW g \in Handlers \ {h}
        PROVE  Held(g)'
    <3>. SUFFICES ASSUME Active(g)'
                  PROVE  Held(g)'
      OBVIOUS
    <3>1. /\ Active(g) /\ handler'[g] = handler[g] /\ raced' = raced
          /\ handler[g].req.id \in raced
               \/ temporals'[handler[g].req.id] = temporals[handler[g].req.id]
      BY <1>1, OthersLeave
    <3>. QED  BY <3>1 DEF KeepsInv
  <2>. QED  BY <2>2, <2>3 DEF KeepsInv
<1>2. ASSUME NEW h \in Handlers, NEW req \in Sendable, Start(h, req)
      PROVE  KeepsInv'
  <2>1. /\ temporals' = temporals /\ raced \subseteq raced'
        /\ ~Active(h) /\ DOMAIN handler = Handlers
        /\ \A g \in Handlers \ {h} : handler'[g] = handler[g]
        /\ handler'[h].pc = FirstStep(req.op) /\ handler'[h].req = req
    BY <1>2 DEF Start, TemporalInv, BrokerInv
  <2>2. FirstStep(req.op) \in {"exists", "write"} => req.op = "upsert"
    BY DEF FirstStep
  <2>3. req.op = "upsert" => \A old, new : Keeps(req, old, new)
    BY DEF Keeps, Kept
  <2>4. Held(h)'
    BY <2>1, <2>2, <2>3
  <2>5. \A g \in Handlers \ {h} : Held(g)'
    BY <2>1 DEF KeepsInv, Active
  <2>. QED  BY <2>4, <2>5 DEF KeepsInv
<1>3. CASE Tick \/ UNCHANGED vars
  <2>1. UNCHANGED <<temporals, handler, raced>>
    BY <1>3 DEF Tick, vars
  <2>. QED  BY <2>1 DEF KeepsInv, Active
<1>. QED  BY <1>1, <1>2, <1>3 DEF Next, HandlerStep

LEMMA StepKeepsHistory ==
    ASSUME TemporalInv, KeepsInv, [Next]_vars, writes' # writes
    PROVE  LET w == Last(writes') IN
           w.id \in raced \/ w.old = NoDoc \/ w.new = NoDoc \/
           \A k \in DOMAIN w.old.history :
               Kept(requests[w.num], w.old.history[k]) =>
                   \E j \in DOMAIN w.new.history :
                       Identity(w.new.history[j]) = Identity(w.old.history[k])
<1>1. PICK h \in Handlers : HandlerStep(h)
  BY DEF Next, HandlerStep, Start, Tick, vars
<1>. DEFINE st == handler[h]
            w == Last(writes')
<1>2. Active(h) /\ st.pc \in {"write", "delete"} /\ Store(h, st.doc)
  BY <1>1, HandlerStepIs DEF Moves, Puts
<1>3. /\ w.num = st.num /\ w.id = st.req.id
      /\ w.old = temporals[st.req.id] /\ w.new = st.doc
  BY <1>2, StoreWrites DEF Last
<1>4. st.req = requests[st.num] /\ (st.pc = "delete" => st.doc = NoDoc)
  BY <1>2, HandlerFieldsAt DEF HandlerInv
<1>. HIDE DEF w
<1>5. CASE st.pc = "write" /\ w.id \notin raced /\ w.old # NoDoc
  <2>1. Keeps(st.req, w.old, w.new)
    BY <1>2, <1>3, <1>5 DEF KeepsInv
  <2>. QED  BY <1>3, <1>4, <2>1 DEF Keeps, w
<1>. QED  BY <1>2, <1>3, <1>4, <1>5 DEF w

\* Requests that do not race lose no record of each other: a record leaves a history only
\* where a deletion names it or an upsert replaces the whole (append, patch, retain).
THEOREM HistoriesAreKept == Spec => HistoryKept
<1>1. Init => KeepsInv
  BY DEF Init, KeepsInv, Active
<1>2. TemporalInv /\ KeepsInv /\ [Next]_vars => KeepsInv'
  BY NextKeeps
<1>3. TemporalInv /\ KeepsInv /\ [Next]_vars =>
        [writes' # writes =>
          LET w == Last(writes') IN
          w.id \in raced \/ w.old = NoDoc \/ w.new = NoDoc \/
          \A k \in DOMAIN w.old.history :
              Kept(requests[w.num], w.old.history[k]) =>
                  \E j \in DOMAIN w.new.history :
                      Identity(w.new.history[j]) = Identity(w.old.history[k])]_vars
  <2>1. ASSUME UNCHANGED vars
        PROVE  writes' = writes
    BY <2>1 DEF vars
  <2>. QED  BY StepKeepsHistory
<1>. QED  BY <1>1, <1>2, <1>3, TemporalsAreKept, PTL DEF Spec, HistoryKept
-----------------------------------------------------------------------------
(* What a peer makes of the log. *)

\* The mark of an absent document is no document.
NoDocIsNone == "modifiedAt" \notin DOMAIN NoDoc

WorksOn(h, id) == Active(h) /\ handler[h].req.id = id

WrittenLocally(id) ==
    \E w \in DOMAIN writes : writes[w].id = id /\ requests[writes[w].num].localOnly

\* A peer holds what is stored, or what was stored before the write of which the handler
\* has not told it yet, which is not older.
Owes(st, doc, held, time) ==
    IF st.pc = "log"
    THEN /\ doc = st.doc
         /\ held # NoDoc =>
               held.modifiedAt \in
                   1 .. (IF st.req.op = "deleteEntity" THEN time ELSE st.doc.modifiedAt)
    ELSE /\ SameButNames(doc, held)
         /\ st.pc \in {"exists", "write"} /\ doc # NoDoc => doc.modifiedAt <= st.doc.modifiedAt

Agrees(id) ==
    /\ \A h \in Handlers : WorksOn(h, id) => Owes(handler[h], temporals[id], Replayed(id), now)
    /\ (\A h \in Handlers : ~WorksOn(h, id)) => SameButNames(temporals[id], Replayed(id))

ReplayInv == faults = 0 => \A id \in Ids \ raced : WrittenLocally(id) \/ Agrees(id)

LEMMA ReplayedIsFold == \A id : Replayed(id) = Replay!Fold(id, log)
BY DEF Replayed, Replay!Fold, FoldLeft, Replay!FoldLeft, MapThenFoldSet, Replay!MapThenFoldSet,
       Max, Replay!Max

LEMMA ReplayedAppends ==
    ASSUME log \in Seq(ToSet(log)), NEW m, log' = Append(log, m), NEW id
    PROVE  Replayed(id)' = ReplayOne(id, Replayed(id), m)
<1>1. Replayed(id)' = Replay!Fold(id, log')
  BY DEF Replayed, Replay!Fold, FoldLeft, Replay!FoldLeft, MapThenFoldSet,
         Replay!MapThenFoldSet, Max, Replay!Max
<1>2. Replay!Fold(id, Append(log, m)) = ReplayOne(id, Replay!Fold(id, log), m)
  BY Replay!FoldOfAppend
<1>. QED  BY <1>1, <1>2, ReplayedIsFold

LEMMA ReplayedStays ==
    ASSUME log' = log, NEW id
    PROVE  Replayed(id)' = Replayed(id)
<1>1. Replayed(id)' = Replay!Fold(id, log')
  BY DEF Replayed, Replay!Fold, FoldLeft, Replay!FoldLeft, MapThenFoldSet,
         Replay!MapThenFoldSet, Max, Replay!Max
<1>. QED  BY <1>1, ReplayedIsFold

\* What is the same is of one time.
LEMMA SameTime ==
    ASSUME NEW doc, NEW held, SameButNames(doc, held), held # NoDoc, IsDocument(doc)
    PROVE  doc # NoDoc /\ held.modifiedAt = doc.modifiedAt
<1>1. doc # NoDoc /\ Nameless(doc) = Nameless(held)
  BY DEF SameButNames
<1>. DEFINE Bare(d) == [k \in DOMAIN d.history |-> [d.history[k] EXCEPT !.instance = None]]
<1>2. \A d : Nameless(d) = [d EXCEPT !.history = Bare(d)]
  BY DEF Nameless
<1>. HIDE DEF Bare
<1>3. DOMAIN Nameless(doc) = DOMAIN doc /\ DOMAIN Nameless(held) = DOMAIN held
  BY <1>2
<1>4. "modifiedAt" \in DOMAIN doc /\ "modifiedAt" \in DOMAIN held
  BY <1>1, <1>3 DEF IsDocument
<1>5. Nameless(doc).modifiedAt = doc.modifiedAt /\ Nameless(held).modifiedAt = held.modifiedAt
  BY <1>2, <1>4
<1>. QED  BY <1>1, <1>5

LEMMA SameAsItself == \A doc : SameButNames(doc, doc)
BY DEF SameButNames

\* A handler that works on the entity, with no race, is the only one.
LEMMA OnlyOne ==
    ASSUME TemporalInv, NEW h \in Handlers, NEW id \in Ids \ raced, WorksOn(h, id)
    PROVE  \A g \in Handlers : WorksOn(g, id) => g = h
BY DEF TemporalInv, HandlersInv, WorksOn

\* The peer takes the mutation: it holds nothing newer.
LEMMA RecordAgrees ==
    ASSUME NoDocIsNone, TemporalInv, NEW h \in Handlers, NEW id \in Ids \ raced, WorksOn(h, id),
           RecordMutation(h), Owes(handler[h], temporals[id], Replayed(id), now)
    PROVE  SameButNames(temporals[id]', Replayed(id)')
<1>. DEFINE st == handler[h]
            m == Mutation(st)
            held == Replayed(id)
<1>1. /\ st.pc = "log" /\ log' = Append(log, m) /\ temporals' = temporals /\ Active(h)
      /\ st.req.id = id /\ now \in Nat
  BY RecordMoves DEF Moves, WorksOn, TemporalInv, BrokerInv
<1>2. Replayed(id)' = ReplayOne(id, held, m)
  BY <1>1, ReplayedAppends DEF TemporalInv, BrokerInv
<1>3. /\ m.id = id
      /\ st.req.op = "deleteEntity" => m.snapshot = NoDoc /\ st.doc = NoDoc /\ m.version = now
      /\ st.req.op # "deleteEntity" =>
            /\ "modifiedAt" \in DOMAIN m.snapshot /\ "modifiedAt" \in DOMAIN st.doc
            /\ m.version \in {now, st.doc.modifiedAt}
            /\ st.doc.modifiedAt \in 1 .. now
            /\ Nameless(m.snapshot) = Nameless(st.doc)
  BY <1>1, MutationIs
<1>4. /\ temporals[id] = st.doc
      /\ held # NoDoc =>
            held.modifiedAt \in 1 .. (IF st.req.op = "deleteEntity" THEN now ELSE st.doc.modifiedAt)
  BY <1>1 DEF Owes
<1>. HIDE DEF m, held
<1>5. Replayed(id)' = m.snapshot
  <2>1. ~(held # NoDoc /\ m.version < held.modifiedAt)
    BY <1>1, <1>3, <1>4
  <2>. QED  BY <1>2, <1>3, <2>1 DEF ReplayOne, apply_temporal_mutation
<1>6. SameButNames(st.doc, m.snapshot)
  BY <1>3 DEF SameButNames, NoDocIsNone
<1>. QED  BY <1>1, <1>4, <1>5, <1>6

\* A write, of which the peer is told next, or which is local.
LEMMA StoreAgrees ==
    ASSUME TemporalInv, NEW h \in Handlers, NEW id \in Ids \ raced, WorksOn(h, id),
           handler[h].pc \in {"write", "delete"}, Store(h, handler[h].doc),
           UNCHANGED <<now, log, requests>>,
           \/ handler[h].req.localOnly
           \/ GoesOn(h) /\ handler'[h] = [handler[h] EXCEPT !.pc = "log"],
           Owes(handler[h], temporals[id], Replayed(id), now)
    PROVE  \/ WrittenLocally(id)'
           \/ GoesOn(h) /\ Owes(handler'[h], temporals'[id], Replayed(id)', now')
<1>. DEFINE st == handler[h]
            held == Replayed(id)
            old == temporals[id]
<1>1. Active(h) /\ st.req.id = id /\ HandlerInv(h) /\ DOMAIN st = Fields /\ now \in Nat
  BY HandlerFieldsAt DEF WorksOn, TemporalInv, BrokerInv
<1>2. /\ Len(writes) + 1 \in DOMAIN writes'
      /\ writes'[Len(writes) + 1].num = st.num /\ writes'[Len(writes) + 1].id = id
      /\ temporals'[id] = st.doc
  BY <1>1, StoreWrites
<1>3. CASE st.req.localOnly
  <2>1. requests'[st.num].localOnly
    BY <1>1, <1>3 DEF HandlerInv
  <2>. QED  BY <1>2, <2>1 DEF WrittenLocally
<1>4. CASE GoesOn(h) /\ handler'[h] = [st EXCEPT !.pc = "log"]
  <2>1. handler'[h].pc = "log" /\ handler'[h].doc = st.doc /\ handler'[h].req = st.req
    BY <1>1, <1>4 DEF Fields
  <2>2. held # NoDoc =>
          /\ old # NoDoc /\ IsDocument(old) /\ Timed(old, now)
          /\ held.modifiedAt = old.modifiedAt
    <3>1. SameButNames(old, held)
      BY DEF Owes
    <3>2. old # NoDoc => IsDocument(old) /\ Timed(old, now)
      BY DEF TemporalInv, StoreInv
    <3>3. held # NoDoc => old # NoDoc
      BY <3>1 DEF SameButNames
    <3>. QED  BY <3>1, <3>2, <3>3, SameTime
  <2>3. st.req.op = "deleteEntity" <=> st.pc = "delete"
    BY <1>1 DEF HandlerInv
  <2>4. st.pc = "write" => st.doc.modifiedAt \in 1 .. now
    BY <1>1, <2>3 DEF HandlerInv, Timed
  <2>5. held # NoDoc =>
          held.modifiedAt \in 1 .. (IF st.req.op = "deleteEntity" THEN now ELSE st.doc.modifiedAt)
    <3>. SUFFICES ASSUME held # NoDoc
                  PROVE  held.modifiedAt \in
                             1 .. (IF st.req.op = "deleteEntity" THEN now ELSE st.doc.modifiedAt)
      OBVIOUS
    <3>1. held.modifiedAt \in 1 .. now /\ held.modifiedAt = old.modifiedAt /\ old # NoDoc
      BY <1>1, <2>2 DEF Timed
    <3>2. st.pc = "write" => old.modifiedAt <= st.doc.modifiedAt
      BY <3>1 DEF Owes
    <3>. HIDE DEF old, held
    <3>. QED  BY <1>1, <2>3, <2>4, <3>1, <3>2
  <2>6. Replayed(id)' = held
    BY ReplayedStays
  <2>. HIDE DEF held
  <2>. QED  BY <1>2, <1>4, <2>1, <2>5, <2>6 DEF Owes
<1>. QED  BY <1>3, <1>4

LEMMA HandlerStepAgrees ==
    ASSUME NoDocIsNone, TemporalInv, NEW h \in Handlers, HandlerStep(h), faults = 0, faults' = 0,
           NEW id \in Ids \ raced, Agrees(id), ~WrittenLocally(id)'
    PROVE  Agrees(id)'
<1>. DEFINE st == handler[h]
<1>1. Moves(h) /\ Puts(h) /\ Tells(h)
  BY HandlerStepIs
<1>2. /\ Active(h) /\ requests' = requests /\ now' = now /\ raced' = raced
      /\ \A g \in Handlers \ {h} : handler'[g] = handler[g]
      /\ GoesOn(h) \/ \E status, created : Ends(h, status, created)
  BY <1>1 DEF Moves
<1>3. \A g \in Handlers \ {h} : WorksOn(g, id)' <=> WorksOn(g, id)
  BY <1>2 DEF WorksOn, Active
<1>4. WorksOn(h, id)' <=> WorksOn(h, id) /\ GoesOn(h)
  BY <1>2 DEF WorksOn, Active, GoesOn, Ends
<1>5. CASE ~WorksOn(h, id)
  <2>1. temporals'[id] = temporals[id]
    BY <1>1, <1>2, <1>5, StoreWrites DEF Puts, WorksOn
  <2>2. Replayed(id)' = Replayed(id)
    <3>1. CASE log' = log
      BY <3>1, ReplayedStays
    <3>2. CASE st.pc = "log" /\ log' = Append(log, Mutation(st))
      <4>1. Mutation(st).id # id
        BY <1>2, <1>5, <3>2, MutationIs DEF WorksOn
      <4>2. Replayed(id)' = ReplayOne(id, Replayed(id), Mutation(st))
        BY <3>2, ReplayedAppends DEF TemporalInv, BrokerInv
      <4>. QED  BY <4>1, <4>2 DEF ReplayOne
    <3>. QED  BY <1>1, <3>1, <3>2 DEF Tells
  <2>3. ASSUME NEW g \in Handlers, WorksOn(g, id)'
        PROVE  Owes(handler'[g], temporals'[id], Replayed(id)', now')
    <3>1. g # h /\ WorksOn(g, id)
      BY <1>3, <1>4, <1>5, <2>3
    <3>2. Owes(handler[g], temporals[id], Replayed(id), now)
      BY <3>1 DEF Agrees
    <3>3. handler'[g] = handler[g] /\ now' = now
      BY <1>2, <3>1
    <3>. QED  BY <2>1, <2>2, <3>2, <3>3
  <2>4. (\A g \in Handlers : ~WorksOn(g, id)') => SameButNames(temporals'[id], Replayed(id)')
    BY <1>3, <1>5, <2>1, <2>2 DEF Agrees
  <2>. QED  BY <2>3, <2>4 DEF Agrees
<1>6. CASE WorksOn(h, id)
  <2>1. Owes(st, temporals[id], Replayed(id), now)
    BY <1>6 DEF Agrees
  <2>2. \A g \in Handlers : WorksOn(g, id) => g = h
    BY <1>6, OnlyOne
  <2>3. st.req.id = id /\ HandlerInv(h) /\ DOMAIN st = Fields
    BY <1>2, <1>6, HandlerFieldsAt DEF WorksOn
  <2>4. ASSUME NEW status, NEW created, Ends(h, status, created)
        PROVE  ~GoesOn(h)
    BY <2>4 DEF Ends, GoesOn
  <2>5. IF GoesOn(h) THEN Owes(handler'[h], temporals'[id], Replayed(id)', now')
        ELSE SameButNames(temporals'[id], Replayed(id)')
    <3>1. CASE Read(h)
      <4>1. /\ temporals' = temporals /\ log' = log /\ st.pc = "read"
            /\ \/ Ends(h, 404, FALSE)
               \/ /\ GoesOn(h) /\ HandlerInv(h)' /\ handler'[h].pc = "exists"
                  /\ handler'[h].doc.modifiedAt = now
        BY <3>1, ReadMoves
      <4>2. SameButNames(temporals[id], Replayed(id)) /\ Replayed(id)' = Replayed(id)
        BY <2>1, <4>1, ReplayedStays DEF Owes
      <4>3. temporals[id] # NoDoc => temporals[id].modifiedAt <= now
        <5>1. temporals[id] # NoDoc => Timed(temporals[id], now) /\ now \in Nat
          BY DEF TemporalInv, StoreInv, BrokerInv
        <5>. QED  BY <5>1 DEF Timed
      <4>. QED  BY <2>4, <4>1, <4>2, <4>3 DEF Owes
    <3>2. CASE LookExists(h)
      <4>1. /\ temporals' = temporals /\ log' = log /\ st.pc = "exists"
            /\ GoesOn(h) /\ handler'[h].pc = "write" /\ handler'[h].doc = st.doc
        BY <3>2, ExistsMoves
      <4>2. Replayed(id)' = Replayed(id)
        BY <4>1, ReplayedStays
      <4>. QED  BY <2>1, <4>1, <4>2 DEF Owes
    <3>3. CASE WriteTemporal(h)
      <4>1. /\ Store(h, st.doc) /\ log' = log /\ st.pc = "write"
            /\ \/ st.req.localOnly
               \/ GoesOn(h) /\ handler'[h] = [st EXCEPT !.pc = "log"]
        BY <3>3, WriteMoves
      <4>. QED  BY <1>2, <1>6, <2>1, <4>1, StoreAgrees
    <3>4. CASE delete_entity(h)
      <4>1. /\ st.pc = "delete" /\ log' = log
            /\ \/ Ends(h, 404, FALSE) /\ UNCHANGED <<temporals, writes>>
               \/ /\ Store(h, st.doc)
                  /\ \/ st.req.localOnly
                     \/ GoesOn(h) /\ handler'[h] = [st EXCEPT !.pc = "log"]
        BY <3>4, DeleteMoves
      <4>2. CASE Ends(h, 404, FALSE) /\ UNCHANGED <<temporals, writes>>
        <5>1. SameButNames(temporals[id], Replayed(id)) /\ Replayed(id)' = Replayed(id)
          BY <2>1, <4>1, ReplayedStays DEF Owes
        <5>. QED  BY <2>4, <4>2, <5>1
      <4>3. CASE /\ Store(h, st.doc)
                 /\ \/ st.req.localOnly
                    \/ GoesOn(h) /\ handler'[h] = [st EXCEPT !.pc = "log"]
        <5>1. log' = log /\ st.pc \in {"write", "delete"}
          BY <4>1
        <5>. QED  BY <1>2, <1>6, <2>1, <4>3, <5>1, StoreAgrees
      <4>. QED  BY <4>1, <4>2, <4>3
    <3>5. CASE RecordMutation(h)
      <4>1. Ends(h, 200, st.created)
        BY <3>5, RecordMoves
      <4>2. SameButNames(temporals'[id], Replayed(id)')
        BY <1>6, <2>1, <3>5, RecordAgrees
      <4>. QED  BY <2>4, <4>1, <4>2
    <3>6. CASE Fail(h)
      BY <3>6 DEF Fail
    <3>. QED  BY <3>1, <3>2, <3>3, <3>4, <3>5, <3>6 DEF HandlerStep
  <2>6. \A g \in Handlers : WorksOn(g, id)' => g = h /\ GoesOn(h)
    BY <1>3, <1>4, <2>2
  <2>7. GoesOn(h) => WorksOn(h, id)'
    BY <1>4, <1>6
  <2>. QED  BY <2>5, <2>6, <2>7 DEF Agrees
<1>. QED  BY <1>5, <1>6

LEMMA StartAgrees ==
    ASSUME TemporalInv, NEW h \in Handlers, NEW req \in Sendable, Start(h, req),
           NEW id \in Ids \ raced', Agrees(id)
    PROVE  Agrees(id)'
<1>. DEFINE st == handler'[h]
            num == Len(requests) + 1
            made == temporal_history_from_entity(req.payload, <<num, "stored">>)
            doc == IF req.op = "upsert" THEN Document(req.payload, made, now, now) ELSE NoDoc
<1>1. /\ ~Active(h) /\ UNCHANGED <<temporals, log, now>> /\ DOMAIN handler = Handlers
      /\ \A g \in Handlers \ {h} : handler'[g] = handler[g]
      /\ st.pc = FirstStep(req.op) /\ st.req = req /\ st.doc = doc
      /\ \A g \in Handlers : WorksOn(g, id) => req.id # id
  BY DEF Start, TemporalInv, BrokerInv, WorksOn
<1>2. Replayed(id)' = Replayed(id)
  BY <1>1, ReplayedStays
<1>3. \A g \in Handlers \ {h} : WorksOn(g, id)' <=> WorksOn(g, id)
  BY <1>1 DEF WorksOn, Active
<1>4. ~WorksOn(h, id) /\ (WorksOn(h, id)' => req.id = id)
  BY <1>1 DEF WorksOn
<1>5. req.id = id => Owes(st, temporals[id], Replayed(id), now)
  <2>. SUFFICES ASSUME req.id = id
                PROVE  Owes(st, temporals[id], Replayed(id), now)
    OBVIOUS
  <2>1. SameButNames(temporals[id], Replayed(id))
    BY <1>1 DEF Agrees
  <2>2. /\ FirstStep(req.op) \in {"exists", "delete", "read"}
        /\ FirstStep(req.op) = "exists" => req.op = "upsert"
    BY DEF FirstStep
  <2>3. req.op = "upsert" => doc.modifiedAt = now
    BY DEF Document
  <2>4. temporals[id] # NoDoc => temporals[id].modifiedAt <= now
    <3>1. temporals[id] # NoDoc => Timed(temporals[id], now) /\ now \in Nat
      BY DEF TemporalInv, StoreInv, BrokerInv
    <3>. QED  BY <3>1 DEF Timed
  <2>. HIDE DEF doc, st
  <2>. QED  BY <1>1, <2>1, <2>2, <2>3, <2>4 DEF Owes
<1>. HIDE DEF st, doc
<1>6. ASSUME NEW g \in Handlers, WorksOn(g, id)'
      PROVE  Owes(handler'[g], temporals'[id], Replayed(id)', now')
  <2>1. CASE g = h
    BY <1>1, <1>2, <1>4, <1>5, <1>6, <2>1 DEF st
  <2>2. CASE g # h
    <3>1. Owes(handler[g], temporals[id], Replayed(id), now)
      BY <1>3, <1>6, <2>2 DEF Agrees
    <3>. QED  BY <1>1, <1>2, <2>2, <3>1
  <2>. QED  BY <2>1, <2>2
<1>7. (\A g \in Handlers : ~WorksOn(g, id)') => SameButNames(temporals'[id], Replayed(id)')
  BY <1>1, <1>2, <1>3, <1>4 DEF Agrees
<1>. QED  BY <1>6, <1>7 DEF Agrees

LEMMA LocallyStays ==
    ASSUME TemporalInv, [Next]_vars, NEW id, WrittenLocally(id)
    PROVE  WrittenLocally(id)'
<1>1. PICK w \in DOMAIN writes : writes[w].id = id /\ requests[writes[w].num].localOnly
  BY DEF WrittenLocally
<1>2. writes[w].num \in DOMAIN requests /\ requests \in Seq(ToSet(requests))
  <2>1. requests \in Seq(ToSet(requests)) /\ writes[w].num \in 1 .. Len(requests)
    BY DEF TemporalInv, WritesInv, BrokerInv
  <2>. QED  BY <2>1, LenProperties
<1>3. w \in DOMAIN writes' /\ writes'[w] = writes[w]
  <2>1. CASE writes' = writes
    BY <2>1
  <2>2. ASSUME NEW h \in Handlers, HandlerStep(h)
        PROVE  w \in DOMAIN writes' /\ writes'[w] = writes[w]
    BY <2>2, HandlerStepIs, StoreWrites DEF Puts, Moves
  <2>. QED  BY <2>1, <2>2 DEF Next, HandlerStep, Start, Tick, vars
<1>4. requests'[writes[w].num] = requests[writes[w].num]
  <2>1. CASE requests' = requests
    BY <2>1
  <2>2. ASSUME NEW h \in Handlers, HandlerStep(h)
        PROVE  requests' = requests
    BY <2>2, HandlerStepIs DEF Moves
  <2>3. ASSUME NEW h \in Handlers, NEW req \in Sendable, Start(h, req)
        PROVE  requests'[writes[w].num] = requests[writes[w].num]
    <3>1. requests' = Append(requests, req)
      BY <2>3 DEF Start
    <3>. QED  BY <1>2, <3>1, AppendedOne
  <2>. QED  BY <2>1, <2>2, <2>3 DEF Next, HandlerStep, Tick, vars
<1>. QED  BY <1>1, <1>3, <1>4 DEF WrittenLocally

LEMMA NextReplay ==
    ASSUME NoDocIsNone, TemporalInv, ReplayInv, [Next]_vars
    PROVE  ReplayInv'
<1>. SUFFICES ASSUME faults' = 0, NEW id \in Ids \ raced', ~WrittenLocally(id)'
              PROVE  Agrees(id)'
  BY DEF ReplayInv
<1>1. ~WrittenLocally(id)
  BY LocallyStays
<1>2. ASSUME NEW h \in Handlers, HandlerStep(h)
      PROVE  Agrees(id)'
  <2>1. raced' = raced
    BY <1>2, HandlerStepIs DEF Moves
  <2>2. faults = 0
    <3>1. CASE faults' = faults
      BY <3>1
    <3>2. CASE Fail(h)
      <4>1. faults' = faults + 1 /\ faults \in Nat
        BY <3>2 DEF Fail, TemporalInv, BrokerInv
      <4>. QED  BY <4>1
    <3>. QED  BY <1>2, <3>1, <3>2 DEF HandlerStep, Read, LookExists, WriteTemporal, delete_entity,
                                      RecordMutation
  <2>3. Agrees(id)
    BY <1>1, <2>1, <2>2 DEF ReplayInv
  <2>. QED  BY <1>2, <2>1, <2>2, <2>3, HandlerStepAgrees
<1>3. ASSUME NEW h \in Handlers, NEW req \in Sendable, Start(h, req)
      PROVE  Agrees(id)'
  <2>1. raced \subseteq raced' /\ faults = 0
    BY <1>3 DEF Start
  <2>2. Agrees(id)
    BY <1>1, <2>1 DEF ReplayInv
  <2>. QED  BY <1>3, <2>2, StartAgrees
<1>4. CASE Tick \/ UNCHANGED vars
  <2>1. /\ UNCHANGED <<temporals, handler, faults, log, raced>>
        /\ now' \in Nat /\ now \in Nat /\ now <= now'
    BY <1>4 DEF Tick, vars, TemporalInv, BrokerInv
  <2>2. Agrees(id)
    BY <1>1, <2>1 DEF ReplayInv
  <2>3. Replayed(id)' = Replayed(id)
    BY <2>1, ReplayedStays
  <2>4. \A st, doc, held : Owes(st, doc, held, now) => Owes(st, doc, held, now')
    BY <2>1 DEF Owes
  <2>. QED  BY <2>1, <2>2, <2>3, <2>4 DEF Agrees, WorksOn, Active
<1>. QED  BY <1>2, <1>3, <1>4 DEF Next, HandlerStep

LEMMA InitReplay == Init => ReplayInv
<1>. SUFFICES ASSUME Init, NEW id \in Ids
              PROVE  Agrees(id)
  BY DEF ReplayInv
<1>1. Replayed(id) = NoDoc
  <2>1. Replayed(id) = Replay!Fold(id, <<>>)
    BY ReplayedIsFold DEF Init
  <2>. QED  BY <2>1, Replay!FoldOfNone
<1>2. temporals[id] = NoDoc /\ \A h \in Handlers : ~WorksOn(h, id)
  BY DEF Init, WorksOn, Active
<1>. QED  BY <1>1, <1>2, SameAsItself DEF Agrees

\* A broker at rest holds what its log makes of an entity, histories included, but for the
\* ids of made-up instances, unless a write of the entity was local, a call failed, or two
\* requests raced for it.
THEOREM TemporalLogsAreStores ==
    ASSUME NoDocIsNone
    PROVE  Spec => []ReplayedLogIsStore
<1>1. TemporalInv /\ ReplayInv /\ [Next]_vars => ReplayInv'
  BY NextReplay
<1>2. ReplayInv => ReplayedLogIsStore
  BY DEF ReplayInv, ReplayedLogIsStore, AtRest, Agrees, WorksOn, WrittenLocally
<1>. QED  BY <1>1, <1>2, InitReplay, TemporalsAreKept, PTL DEF Spec
-----------------------------------------------------------------------------
(* What the readers of a history select of it. *)

\* The positions that come before position i in the order of the times, the latest first.
Before(n, times, i) ==
    {j \in 1 .. n : times[j] > times[i] \/ (times[j] = times[i] /\ j < i)}
Rank(n, times, i) == Cardinality(Before(n, times, i)) + 1

LEMMA RanksDiffer ==
    ASSUME NEW n \in Nat, NEW times \in [1 .. n -> Int], NEW i \in 1 .. n
    PROVE  /\ Rank(n, times, i) \in 1 .. n
           /\ \A j \in Before(n, times, i) : Rank(n, times, j) < Rank(n, times, i)
<1>. DEFINE all == 1 .. n
<1>1. IsFiniteSet(all) /\ Cardinality(all) = n
  BY FS_Interval
<1>2. \A k \in all : i \notin Before(n, times, i) /\ Before(n, times, k) \in SUBSET all
  BY DEF Before
<1>3. \A k \in all : /\ IsFiniteSet(Before(n, times, k))
                     /\ Cardinality(Before(n, times, k)) \in Nat
  BY <1>1, <1>2, FS_Subset, FS_CardinalityType
<1>4. Rank(n, times, i) \in all
  <2>1. Before(n, times, i) \in SUBSET (all \ {i})
    BY <1>2
  <2>2. IsFiniteSet(all \ {i}) /\ Cardinality(all \ {i}) = n - 1
    BY <1>1, FS_RemoveElement
  <2>3. Cardinality(Before(n, times, i)) <= n - 1
    BY <2>1, <2>2, FS_Subset
  <2>. QED  BY <1>3, <2>3 DEF Rank
<1>5. ASSUME NEW j \in Before(n, times, i)
      PROVE  Rank(n, times, j) < Rank(n, times, i)
  <2>1. j \in all /\ times[i] \in Int /\ times[j] \in Int
    BY <1>2
  <2>2. \A k \in Before(n, times, j) : k \in Before(n, times, i) \ {j}
    <3>. TAKE k \in Before(n, times, j)
    <3>1. k \in all /\ times[k] \in Int
      BY <2>1, <1>2
    <3>. QED  BY <1>5, <2>1, <3>1 DEF Before
  <2>3. Before(n, times, j) \in SUBSET (Before(n, times, i) \ {j})
    BY <2>2
  <2>4. /\ IsFiniteSet(Before(n, times, i) \ {j})
        /\ Cardinality(Before(n, times, i) \ {j}) = Cardinality(Before(n, times, i)) - 1
    BY <1>3, <1>5, FS_RemoveElement
  <2>5. Cardinality(Before(n, times, j)) <= Cardinality(Before(n, times, i)) - 1
    BY <2>3, <2>4, FS_Subset
  <2>. QED  BY <1>3, <2>1, <2>5 DEF Rank
<1>. QED  BY <1>4, <1>5

\* t has each element of s at a place of its own, and those of later times before the others.
Places(place, s, times, t) ==
    /\ place \in [DOMAIN s -> DOMAIN s]
    /\ \A i \in DOMAIN s : t[place[i]] = s[i]
    /\ \A k \in DOMAIN s : \E i \in DOMAIN s : place[i] = k
    /\ \A i, j \in DOMAIN s : times[i] > times[j] => place[i] < place[j]

LEMMA LatestFirstIs ==
    ASSUME NEW X, NEW s \in Seq(X), NEW times \in [DOMAIN s -> Int]
    PROVE  /\ LatestFirst(s, times) \in Seq(X)
           /\ Len(LatestFirst(s, times)) = Len(s)
           /\ \E place : Places(place, s, times, LatestFirst(s, times))
<1>1. PICK n \in Nat : n = Len(s) /\ DOMAIN s = 1 .. n /\ \A k \in 1 .. n : s[k] \in X
  BY LenProperties
<1>. DEFINE place == [i \in 1 .. n |-> Rank(n, times, i)]
            ranks == {<<i, Rank(n, times, i)>> : i \in 1 .. n}
            t == [k \in 1 .. n |-> s[CHOOSE i \in 1 .. n : <<i, k>> \in ranks]]
<1>2. LatestFirst(s, times) = t
  BY <1>1 DEF LatestFirst, Rank, Before
<1>3. place \in [1 .. n -> 1 .. n]
  BY <1>1, RanksDiffer
<1>4. \A i, j \in 1 .. n : i \in Before(n, times, j) => place[i] < place[j]
  <2>. TAKE i, j \in 1 .. n
  <2>. HAVE i \in Before(n, times, j)
  <2>1. Rank(n, times, i) < Rank(n, times, j)
    BY <1>1, RanksDiffer
  <2>. QED  BY <2>1
<1>5. \A i, k \in 1 .. n : <<i, k>> \in ranks <=> place[i] = k
  OBVIOUS
<1>. HIDE DEF place, ranks
<1>6. \A i, j \in 1 .. n : place[i] = place[j] => i = j
  <2>. SUFFICES ASSUME NEW i \in 1 .. n, NEW j \in 1 .. n, i # j
                PROVE  place[i] # place[j]
    OBVIOUS
  <2>1. i \in Before(n, times, j) \/ j \in Before(n, times, i)
    <3>1. times[i] \in Int /\ times[j] \in Int
      BY <1>1
    <3>. QED  BY <3>1 DEF Before
  <2>2. place[i] \in 1 .. n /\ place[j] \in 1 .. n
    BY <1>3
  <2>. QED  BY <1>4, <2>1, <2>2
<1>7. \A k \in 1 .. n : \E i \in 1 .. n : place[i] = k
  <2>. DEFINE all == 1 .. n
  <2>1. IsFiniteSet(all) /\ Cardinality(all) = Cardinality(all)
    BY FS_Interval
  <2>2. place \in [all -> all] /\ \A i, j \in all : place[i] = place[j] => i = j
    BY <1>3, <1>6
  <2>. HIDE DEF all
  <2>3. \A k \in all : \E i \in all : place[i] = k
    <3>1. place \in Injection(all, all)
      BY <2>2 DEF Injection, IsInjective
    <3>2. place \in Surjection(all, all)
      BY <2>1, <3>1, FS_Injection
    <3>. QED  BY <3>2 DEF Surjection
  <2>. QED  BY <2>3 DEF all
<1>8. \A i \in 1 .. n : t[place[i]] = s[i]
  <2>. TAKE i \in 1 .. n
  <2>1. place[i] \in 1 .. n
    BY <1>3
  <2>2. (CHOOSE j \in 1 .. n : <<j, place[i]>> \in ranks) = i
    BY <1>5, <1>6, <2>1
  <2>. QED  BY <2>1, <2>2
<1>. HIDE DEF t
<1>9. \A k \in 1 .. n : t[k] \in X
  <2>. TAKE k \in 1 .. n
  <2>1. PICK i \in 1 .. n : place[i] = k
    BY <1>7
  <2>. QED  BY <1>1, <1>8, <2>1
<1>10. t \in [1 .. n -> X]
  BY <1>9 DEF t
<1>11. t \in Seq(X) /\ Len(t) = n
  BY <1>10
<1>12. \A i, j \in 1 .. n : times[i] > times[j] => place[i] < place[j]
  BY <1>4 DEF Before
<1>13. Places(place, s, times, t)
  BY <1>1, <1>3, <1>7, <1>8, <1>12 DEF Places
<1>. QED  BY <1>1, <1>2, <1>11, <1>13

Matching(history, f) == {k \in DOMAIN history : temporal_matches(history[k], f)}

\* A truncated sequence keeps the elements it begins with.
LEMMA TruncateIs ==
    ASSUME NEW X, NEW s \in Seq(X), NEW n \in Nat
    PROVE  /\ Truncate(s, n) \in Seq(X)
           /\ Len(Truncate(s, n)) = Min({n, Len(s)})
           /\ \A k \in DOMAIN Truncate(s, n) : k \in DOMAIN s /\ Truncate(s, n)[k] = s[k]
           /\ \A k \in DOMAIN s : k <= n => k \in DOMAIN Truncate(s, n)
<1>1. PICK len \in Nat : len = Len(s) /\ DOMAIN s = 1 .. len /\ \A k \in 1 .. len : s[k] \in X
  BY LenProperties
<1>2. PICK m : m = Min({n, len})
  OBVIOUS
<1>3. m \in Nat /\ m <= len /\ m <= n /\ (m = len \/ m = n)
  <2>1. \E x \in {n, len} : \A y \in {n, len} : x <= y
    OBVIOUS
  <2>2. m \in {n, len} /\ \A y \in {n, len} : m <= y
    BY <1>2, <2>1 DEF Min
  <2>. QED  BY <2>2
<1>4. Truncate(s, n) = [k \in 1 .. m |-> s[k]]
  BY <1>1, <1>2, <1>3 DEF Truncate
<1>5. \A k \in 1 .. m : k \in 1 .. len
  BY <1>3
<1>6. Truncate(s, n) \in [1 .. m -> X]
  BY <1>1, <1>4, <1>5
<1>7. Truncate(s, n) \in Seq(X) /\ Len(Truncate(s, n)) = m
  BY <1>3, <1>6
<1>8. DOMAIN Truncate(s, n) = 1 .. m /\ \A k \in 1 .. m : Truncate(s, n)[k] = s[k]
  BY <1>4
<1>9. \A k \in 1 .. len : k <= n => k \in 1 .. m
  BY <1>3
<1>. QED  BY <1>1, <1>2, <1>5, <1>7, <1>8, <1>9

LEMMA TimesAreNumbers ==
    ASSUME NEW r, IsRecord(r), NEW f
    PROVE  temporal_record_time(r, f) \in Nat
BY DEF IsRecord, temporal_record_time

\* What a reader selects are records of the history that match; with lastN they are that
\* many of them, and no later one is left out.
LEMMA SelectionIs ==
    ASSUME NEW history, IsHistory(history), NEW f, f.lastN \in Nat \cup {-1}
    PROVE  LET selected == select_temporal_history(history, f)
               matching == Picked(history, Matching(history, f))
           IN /\ IsHistory(selected)
              /\ ToSet(selected) \subseteq ToSet(matching)
              /\ ToSet(selected) \subseteq ToSet(history)
              /\ Len(selected) = IF f.lastN = -1 THEN Len(matching)
                                 ELSE Min({f.lastN, Len(matching)})
              /\ \A r \in ToSet(matching) \ ToSet(selected), s \in ToSet(selected) :
                    temporal_record_time(r, f) <= temporal_record_time(s, f)
<1>. DEFINE selected == select_temporal_history(history, f)
            matching == Picked(history, Matching(history, f))
            times == [k \in DOMAIN matching |-> temporal_record_time(matching[k], f)]
            sorted == LatestFirst(matching, times)
<1>1. selected = IF f.lastN = -1 THEN matching ELSE Truncate(sorted, f.lastN)
  BY DEF select_temporal_history, Where, Matching
<1>2. IsHistory(matching) /\ ToSet(matching) \subseteq ToSet(history)
  <2>1. IsHistory(matching)
    BY PickedIsHistory
  <2>2. ToSet(matching) = {history[k] : k \in (DOMAIN history) \cap Matching(history, f)}
    BY PickedAre DEF IsHistory
  <2>. QED  BY <2>1, <2>2 DEF ToSet
<1>. HIDE DEF matching
<1>. DEFINE X == ToSet(matching)
<1>3. matching \in Seq(X) /\ \A r \in X : IsRecord(r)
  BY <1>2 DEF IsHistory
<1>4. \A k \in DOMAIN matching : matching[k] \in X
  BY DEF ToSet
<1>5. \A k \in DOMAIN matching : times[k] = temporal_record_time(matching[k], f) /\ times[k] \in Nat
  BY <1>3, <1>4, TimesAreNumbers
<1>6. times \in [DOMAIN matching -> Int]
  BY <1>5
<1>. HIDE DEF X
<1>7. CASE f.lastN = -1
  <2>1. selected = matching
    BY <1>1, <1>7
  <2>. QED  BY <1>2, <1>7, <2>1 DEF matching
<1>8. CASE f.lastN \in Nat
  <2>. DEFINE n == f.lastN
  <2>1. selected = Truncate(sorted, n)
    BY <1>1, <1>8
  <2>. HIDE DEF times
  <2>2. sorted \in Seq(X) /\ Len(sorted) = Len(matching)
    BY <1>3, <1>6, LatestFirstIs
  <2>3. PICK place : Places(place, matching, times, sorted)
    BY <1>3, <1>6, LatestFirstIs
  <2>. HIDE DEF sorted, selected
  <2>4. /\ selected \in Seq(X)
        /\ Len(selected) = Min({n, Len(sorted)})
        /\ \A k \in DOMAIN selected : k \in DOMAIN sorted /\ selected[k] = sorted[k]
        /\ \A k \in DOMAIN sorted : k <= n => k \in DOMAIN selected
    BY <1>8, <2>1, <2>2, TruncateIs
  <2>5. ToSet(selected) \subseteq X
    BY <2>4, LenProperties DEF ToSet
  <2>6. IsHistory(selected)
    BY <1>3, <2>4, <2>5, IsHistoryOf
  <2>7. DOMAIN sorted = DOMAIN matching /\ DOMAIN matching \subseteq Nat
    BY <1>3, <2>2, LenProperties
  <2>8. DOMAIN selected \subseteq 1 .. n
    <3>1. Min({n, Len(sorted)}) <= n
      <4>1. PICK len \in Nat : len = Len(sorted)
        BY <2>2, LenProperties
      <4>2. \E x \in {n, len} : \A y \in {n, len} : x <= y
        BY <1>8
      <4>. QED  BY <4>1, <4>2 DEF Min
    <3>2. DOMAIN selected = 1 .. Len(selected) /\ Len(selected) \in Nat
      BY <2>4, LenProperties
    <3>3. PICK m \in Nat : m = Len(selected) /\ m <= n
      BY <2>4, <3>1, <3>2
    <3>. QED  BY <1>8, <3>2, <3>3
  <2>9. ASSUME NEW r \in X \ ToSet(selected), NEW s \in ToSet(selected)
        PROVE  temporal_record_time(r, f) <= temporal_record_time(s, f)
    <3>1. PICK i \in DOMAIN matching : matching[i] = r
      BY DEF X, ToSet
    <3>2. PICK k \in DOMAIN selected : selected[k] = s
      BY DEF ToSet
    <3>3. k \in DOMAIN matching /\ sorted[k] = s
      BY <2>4, <2>7, <3>2
    <3>4. PICK j \in DOMAIN matching : place[j] = k
      BY <2>3, <3>3 DEF Places
    <3>5. matching[j] = s
      BY <2>3, <3>3, <3>4 DEF Places
    <3>6. place[i] \in DOMAIN matching /\ place[i] \notin DOMAIN selected
      <4>1. sorted[place[i]] = r /\ place[i] \in DOMAIN matching
        BY <2>3, <3>1 DEF Places
      <4>2. place[i] \in DOMAIN selected => selected[place[i]] = r
        BY <2>4, <4>1
      <4>. QED  BY <4>1, <4>2 DEF ToSet
    <3>7. ~ (place[i] < place[j])
      <4>1. place[i] \in Nat /\ k \in Nat /\ k <= n
        BY <1>8, <2>7, <2>8, <3>3, <3>6
      <4>2. ~ (place[i] <= n)
        BY <2>4, <2>7, <3>6
      <4>. QED  BY <1>8, <3>4, <4>1, <4>2
    <3>8. ~ (times[i] > times[j])
      BY <2>3, <3>7 DEF Places
    <3>9. times[i] \in Nat /\ times[j] \in Nat
          /\ times[i] = temporal_record_time(r, f) /\ times[j] = temporal_record_time(s, f)
      BY <1>5, <3>1, <3>5
    <3>. QED  BY <3>8, <3>9
  <2>10. Len(selected) = Min({n, Len(matching)})
    BY <2>2, <2>4
  <2>11. f.lastN # -1
    BY <1>8
  <2>. QED  BY <1>2, <2>5, <2>6, <2>9, <2>10, <2>11 DEF matching, X, selected
<1>. QED  BY <1>7, <1>8

\* A selection takes matching records only, as many as lastN says if there are so many, and
\* none that is older than one it leaves out.
THEOREM SelectionsTakeTheLatest == Spec => []WindowAndLastN
<1>1. TemporalInv => WindowAndLastN
  <2>. SUFFICES ASSUME TemporalInv, NEW id \in Present, NEW f \in Filters
                PROVE  LET selected == select_temporal_history(History(id), f)
                           matching == Where(History(id), LAMBDA r : temporal_matches(r, f))
                       IN /\ Len(selected) = IF f.lastN = -1 THEN Len(matching)
                                             ELSE Min({f.lastN, Len(matching)})
                          /\ ToSet(selected) \subseteq ToSet(matching)
                          /\ \A r \in ToSet(matching) \ ToSet(selected), s \in ToSet(selected) :
                                temporal_record_time(r, f) <= temporal_record_time(s, f)
    BY DEF WindowAndLastN
  <2>1. IsHistory(History(id))
    BY DEF TemporalInv, StoreInv, Present, History, IsDocument
  <2>2. f.lastN \in Nat \cup {-1}
    BY FilterAssumption
  <2>3. Where(History(id), LAMBDA r : temporal_matches(r, f))
            = Picked(History(id), Matching(History(id), f))
    BY DEF Where, Matching
  <2>. QED  BY <2>1, <2>2, <2>3, SelectionIs
<1>. QED  BY <1>1, TemporalsAreKept, PTL

\* t has the elements at the chosen positions of s, and no others.
Holds(t, s, chosen) ==
    /\ t \in Seq(ToSet(s))
    /\ \A k \in DOMAIN t : \E i \in (DOMAIN s) \cap chosen : t[k] = s[i]
    /\ \A i \in (DOMAIN s) \cap chosen : \E k \in DOMAIN t : t[k] = s[i]

LEMMA SomePicked ==
    ASSUME NEW s, s \in Seq(ToSet(s)), NEW chosen
    PROVE  Holds(Picked(s, chosen), s, chosen)
<1>. DEFINE picked == Picked(s, chosen)
<1>1. picked \in Seq(ToSet(s)) /\ ToSet(picked) = {s[i] : i \in (DOMAIN s) \cap chosen}
  BY PickedAre
<1>. HIDE DEF picked
<1>2. \A k \in DOMAIN picked : \E i \in (DOMAIN s) \cap chosen : picked[k] = s[i]
  BY <1>1 DEF ToSet
<1>3. \A i \in (DOMAIN s) \cap chosen : \E k \in DOMAIN picked : picked[k] = s[i]
  BY <1>1 DEF ToSet
<1>4. Holds(picked, s, chosen)
  BY <1>1, <1>2, <1>3 DEF Holds
<1>. QED  BY <1>4 DEF picked

Selects(s, attr, instance) == \E k \in DOMAIN s : s[k].attr = attr /\ s[k].instance = instance

LEMMA RetrievedIs ==
    ASSUME NEW doc, IsHistory(doc.history), NEW f, f.lastN \in Nat \cup {-1}, NEW attr, NEW instance
    PROVE  get_attr_instance(doc, attr, instance, f) # <<>>
               <=> Selects(select_temporal_history(doc.history, f), attr, instance)
<1>. DEFINE s == select_temporal_history(doc.history, f)
            chosen == {k \in DOMAIN s : s[k].attr = attr /\ s[k].instance = instance}
            found == Picked(s, chosen)
<1>1. get_attr_instance(doc, attr, instance, f) = Truncate(found, 1)
  BY DEF get_attr_instance, Where
<1>2. s \in Seq(ToSet(s))
  BY SelectionIs DEF IsHistory
<1>. HIDE DEF s, chosen, found
<1>3. Holds(found, s, chosen)
  BY <1>2, SomePicked DEF found
<1>4. DOMAIN found # {} <=> Selects(s, attr, instance)
  BY <1>3 DEF Selects, chosen, Holds
<1>5. /\ Truncate(found, 1) \in Seq(ToSet(s))
      /\ \A k \in DOMAIN Truncate(found, 1) : k \in DOMAIN found
      /\ \A k \in DOMAIN found : k <= 1 => k \in DOMAIN Truncate(found, 1)
  BY <1>3, TruncateIs DEF Holds
<1>6. DOMAIN found # {} => 1 \in DOMAIN found
  BY <1>3, LenProperties DEF Holds
<1>7. DOMAIN Truncate(found, 1) # {} <=> DOMAIN found # {}
  BY <1>5, <1>6
<1>8. Truncate(found, 1) # <<>> <=> DOMAIN Truncate(found, 1) # {}
  BY <1>5, EmptySeq, LenProperties
<1>. QED  BY <1>1, <1>4, <1>7, <1>8 DEF s

LEMMA ListingIs ==
    ASSUME NEW attrs, NEW s, s \in Seq(ToSet(s)), NEW picked, NEW attr, NEW instance
    PROVE  ListedAs(temporal_entity_to_response(attrs, s, picked), attr, instance)
               <=> Selects(s, attr, instance)
<1>. DEFINE projected == project_entity(attrs, picked)
            grouped == {s[k].attr : k \in DOMAIN s}
            chosen == {k \in DOMAIN s : s[k].attr = attr}
            items == Picked(s, chosen)
            response == temporal_entity_to_response(attrs, s, picked)
<1>1. response = [a \in DOMAIN projected \cup grouped |->
          IF a \in grouped
          THEN [kind |-> "history", items |-> Picked(s, {k \in DOMAIN s : s[k].attr = a})]
          ELSE projected[a]]
  BY DEF temporal_entity_to_response, Where
<1>2. \A a \in DOMAIN projected : projected[a].kind = "current"
  BY DEF project_entity
<1>. HIDE DEF chosen, items
<1>3. Holds(items, s, chosen)
  BY SomePicked DEF items
<1>4. CASE attr \in grouped
  <2>1. attr \in DOMAIN response /\ response[attr] = [kind |-> "history", items |-> items]
    BY <1>1, <1>4 DEF items, chosen
  <2>. HIDE DEF response
  <2>2. ListedAs(response, attr, instance) <=> \E k \in DOMAIN items : items[k].instance = instance
    BY <2>1 DEF ListedAs
  <2>3. (\E k \in DOMAIN items : items[k].instance = instance) <=> Selects(s, attr, instance)
    BY <1>3 DEF Selects, chosen, Holds
  <2>. QED  BY <2>2, <2>3 DEF response
<1>5. CASE attr \notin grouped
  <2>1. attr \in DOMAIN response => response[attr].kind = "current"
    BY <1>1, <1>2, <1>5
  <2>2. ~Selects(s, attr, instance)
    BY <1>5 DEF Selects
  <2>3. ~ListedAs(response, attr, instance)
    BY <2>1 DEF ListedAs
  <2>. QED  BY <2>2, <2>3
<1>. QED  BY <1>4, <1>5

LEMMA InstancesListed == TemporalInv => InstancesAreListed
<1>. SUFFICES ASSUME TemporalInv, NEW id \in Present, NEW f \in Filters, NEW picked \in {{}, {"a"}},
                     NEW attr, NEW instance
              PROVE  get_attr_instance(temporals[id], attr, instance, f) # <<>>
                         <=> ListedAs(get_attrs(temporals[id], f, picked), attr, instance)
  BY DEF InstancesAreListed
<1>. DEFINE doc == temporals[id]
            s == select_temporal_history(doc.history, f)
<1>1. IsHistory(doc.history) /\ f.lastN \in Nat \cup {-1}
  BY FilterAssumption DEF TemporalInv, StoreInv, Present, IsDocument
<1>2. s \in Seq(ToSet(s))
  BY <1>1, SelectionIs DEF IsHistory
<1>3. get_attrs(doc, f, picked) = temporal_entity_to_response(doc.attrs, s, picked)
  BY DEF get_attrs
<1>. HIDE DEF s
<1>4. ListedAs(temporal_entity_to_response(doc.attrs, s, picked), attr, instance)
          <=> Selects(s, attr, instance)
  BY <1>2, ListingIs
<1>5. get_attr_instance(doc, attr, instance, f) # <<>> <=> Selects(s, attr, instance)
  BY <1>1, RetrievedIs DEF s
<1>. QED  BY <1>3, <1>4, <1>5

-----------------------------------------------------------------------------
(* Aggregates. *)

Add(unused, sum, number) == sum + number
Sums == INSTANCE SequenceFolds WITH Base <- 0, Op <- Add

LEMMA TotalIsBetween ==
    ASSUME NEW s \in Seq(Int), NEW low \in Int, NEW high \in Int,
           \A k \in DOMAIN s : low <= s[k] /\ s[k] <= high
    PROVE  /\ Total(s) \in Int
           /\ low * Len(s) <= Total(s)
           /\ Total(s) <= high * Len(s)
<1>1. PICK n \in Nat : n = Len(s) /\ DOMAIN s = 1 .. n /\ \A k \in 1 .. n : s[k] \in Int
  BY LenProperties
<1>2. Total(s) = Sums!Fold(0, s)
  BY DEF Total, Sums!Fold, Add, FoldLeft, Sums!FoldLeft, MapThenFoldSet,
         Sums!MapThenFoldSet, Max, Sums!Max
<1>3. PICK g : Sums!Iterates(g, 0, s, n) /\ Sums!Fold(0, s) = g[n]
  BY <1>1, Sums!FoldIsIterated
<1>. DEFINE S == {k \in 0 .. n : g[k] \in Int /\ low * k <= g[k] /\ g[k] <= high * k}
<1>4. 0 \in S
  <2>1. g[0] = 0
    BY <1>3 DEF Sums!Iterates
  <2>2. low * 0 = 0 /\ high * 0 = 0 /\ 0 \in 0 .. n
    OBVIOUS
  <2>. QED  BY <2>1, <2>2
<1>5. \A k \in 0 .. n - 1 : k \in S => k + 1 \in S
  <2>. SUFFICES ASSUME NEW k \in 0 .. n - 1, k \in S
                PROVE  k + 1 \in S
    OBVIOUS
  <2>1. k + 1 \in 1 .. n /\ (k + 1) - 1 = k
    OBVIOUS
  <2>2. g[k + 1] = g[k] + s[k + 1]
    BY <1>3, <2>1 DEF Sums!Iterates, Add
  <2>3. s[k + 1] \in Int /\ low <= s[k + 1] /\ s[k + 1] <= high
    BY <1>1, <2>1
  <2>4. low * (k + 1) = low * k + low /\ high * (k + 1) = high * k + high
    OBVIOUS
  <2>5. low * k \in Int /\ high * k \in Int
    OBVIOUS
  <2>. QED  BY <2>1, <2>2, <2>3, <2>4, <2>5
<1>. HIDE DEF S
<1>6. 0 .. n \subseteq S
  BY <1>4, <1>5, Sums!InductionUpTo
<1>7. n \in S
  BY <1>6
<1>. QED  BY <1>1, <1>2, <1>3, <1>7 DEF S

\* A sequence of numbers has a least one and a greatest one.
LEMMA ExtremesAre ==
    ASSUME NEW s \in Seq(Int), s # <<>>
    PROVE  LET low == Min(ToSet(s))
               high == Max(ToSet(s))
           IN low \in Int /\ high \in Int /\ \A k \in DOMAIN s : low <= s[k] /\ s[k] <= high
<1>1. PICK n \in Nat : n = Len(s) /\ DOMAIN s = 1 .. n /\ \A k \in 1 .. n : s[k] \in Int
  BY LenProperties
<1>2. n # 0
  BY <1>1, EmptySeq
<1>. DEFINE Least(k) == \E i \in 1 .. k : \A j \in 1 .. k : s[i] <= s[j]
            Greatest(k) == \E i \in 1 .. k : \A j \in 1 .. k : s[j] <= s[i]
            S == {k \in 0 .. n : k = 0 \/ (Least(k) /\ Greatest(k))}
<1>3. 0 \in S
  OBVIOUS
<1>. HIDE DEF Least, Greatest
<1>4. \A k \in 0 .. n - 1 : k \in S => k + 1 \in S
  <2>. SUFFICES ASSUME NEW k \in 0 .. n - 1, k \in S
                PROVE  k + 1 \in S
    OBVIOUS
  <2>1. k + 1 \in 1 .. n /\ k + 1 \in 1 .. k + 1
    OBVIOUS
  <2>2. \A j : j \in 1 .. k + 1 <=> j \in 1 .. k \/ j = k + 1
    OBVIOUS
  <2>3. \A j \in 1 .. k + 1 : s[j] \in Int
    BY <1>1
  <2>4. CASE k = 0
    <3>1. \A j \in 1 .. k + 1 : s[k + 1] <= s[j] /\ s[j] <= s[k + 1]
      <4>1. \A j \in 1 .. k + 1 : j = k + 1
        BY <2>4
      <4>. QED  BY <2>1, <2>3, <4>1
    <3>2. Least(k + 1) /\ Greatest(k + 1)
      BY <2>1, <3>1 DEF Least, Greatest
    <3>. QED  BY <2>1, <3>2
  <2>5. CASE k # 0
    <3>1. PICK i \in 1 .. k : \A j \in 1 .. k : s[i] <= s[j]
      BY <2>5 DEF Least
    <3>2. PICK h \in 1 .. k : \A j \in 1 .. k : s[j] <= s[h]
      BY <2>5 DEF Greatest
    <3>3. Least(k + 1)
      <4>1. CASE s[i] <= s[k + 1]
        BY <2>2, <3>1, <4>1 DEF Least
      <4>2. CASE ~ (s[i] <= s[k + 1])
        <5>1. \A j \in 1 .. k : s[j] \in Int /\ s[i] \in Int /\ s[k + 1] \in Int
          BY <2>1, <2>2, <2>3
        <5>2. \A j \in 1 .. k : s[k + 1] <= s[j]
          <6>. TAKE j \in 1 .. k
          <6>1. s[j] \in Int /\ s[i] \in Int /\ s[k + 1] \in Int /\ s[i] <= s[j]
            BY <3>1, <5>1
          <6>. QED  BY <4>2, <6>1
        <5>3. \A j \in 1 .. k + 1 : s[k + 1] <= s[j]
          BY <2>1, <2>2, <2>3, <5>2
        <5>. QED  BY <2>1, <5>3 DEF Least
      <4>. QED  BY <4>1, <4>2
    <3>4. Greatest(k + 1)
      <4>1. CASE s[k + 1] <= s[h]
        BY <2>2, <3>2, <4>1 DEF Greatest
      <4>2. CASE ~ (s[k + 1] <= s[h])
        <5>1. \A j \in 1 .. k : s[j] \in Int /\ s[h] \in Int /\ s[k + 1] \in Int
          BY <2>1, <2>2, <2>3
        <5>2. \A j \in 1 .. k : s[j] <= s[k + 1]
          <6>. TAKE j \in 1 .. k
          <6>1. s[j] \in Int /\ s[h] \in Int /\ s[k + 1] \in Int /\ s[j] <= s[h]
            BY <3>2, <5>1
          <6>. QED  BY <4>2, <6>1
        <5>3. \A j \in 1 .. k + 1 : s[j] <= s[k + 1]
          BY <2>1, <2>2, <2>3, <5>2
        <5>. QED  BY <2>1, <5>3 DEF Greatest
      <4>. QED  BY <4>1, <4>2
    <3>. QED  BY <2>1, <3>3, <3>4
  <2>. QED  BY <2>4, <2>5
<1>. HIDE DEF S
<1>5. 0 .. n \subseteq S
  BY <1>3, <1>4, Sums!InductionUpTo
<1>6. n \in S
  BY <1>5
<1>7. Least(n) /\ Greatest(n)
  BY <1>2, <1>6 DEF S
<1>. DEFINE T == ToSet(s)
<1>8. T = {s[k] : k \in 1 .. n} /\ T \subseteq Int
  BY <1>1 DEF ToSet
<1>9. (\E x \in T : \A y \in T : x <= y) /\ (\E x \in T : \A y \in T : x >= y)
  <2>1. PICK i \in 1 .. n : \A j \in 1 .. n : s[i] <= s[j]
    BY <1>7 DEF Least
  <2>2. PICK h \in 1 .. n : \A j \in 1 .. n : s[j] <= s[h]
    BY <1>7 DEF Greatest
  <2>. QED  BY <1>8, <2>1, <2>2
<1>10. PICK low, high : low = Min(T) /\ high = Max(T)
  OBVIOUS
<1>11. low \in T /\ high \in T /\ \A y \in T : low <= y /\ high >= y
  BY <1>9, <1>10 DEF Min, Max
<1>12. \A k \in DOMAIN s : low <= s[k] /\ s[k] <= high
  BY <1>1, <1>8, <1>11
<1>. QED  BY <1>8, <1>10, <1>11, <1>12

LEMMA NumbersAre ==
    ASSUME NEW history, IsHistory(history), NEW attr
    PROVE  Numbers(history, attr) \in Seq(Int)
<1>. DEFINE chosen == {k \in DOMAIN history :
                         history[k].attr = attr /\ "value" \in DOMAIN history[k].value}
            numeric == Picked(history, chosen)
<1>1. Numbers(history, attr) = [k \in DOMAIN numeric |-> numeric[k].value["value"]]
  BY DEF Numbers, Where
<1>. HIDE DEF chosen, numeric
<1>2. Holds(numeric, history, chosen)
  BY SomePicked DEF numeric, IsHistory
<1>3. \A k \in DOMAIN numeric : numeric[k].value["value"] \in Int
  <2>. TAKE k \in DOMAIN numeric
  <2>1. PICK i \in (DOMAIN history) \cap chosen : numeric[k] = history[i]
    BY <1>2 DEF Holds
  <2>2. "value" \in DOMAIN history[i].value
    BY <2>1 DEF chosen
  <2>3. history[i] \in ToSet(history)
    BY <2>1 DEF ToSet
  <2>. QED  BY <2>1, <2>2, <2>3 DEF IsHistory, IsRecord
<1>4. PICK n \in Nat : DOMAIN numeric = 1 .. n
  BY <1>2, LenProperties DEF Holds
<1>5. Numbers(history, attr) \in [1 .. n -> Int]
  BY <1>1, <1>3, <1>4
<1>. QED  BY <1>5

LEMMA AggregatesDo == TemporalInv => AggregatesAgree
<1>. SUFFICES ASSUME TemporalInv, NEW id \in Present, NEW f \in Filters,
                     NEW a \in DOMAIN aggregate_temporal_history(
                                          select_temporal_history(History(id), f))
              PROVE  LET m == aggregate_temporal_history(
                                  select_temporal_history(History(id), f))[a]
                     IN /\ m.totalCount > 0
                        /\ m.min * m.totalCount <= m.sum
                        /\ m.sum <= m.max * m.totalCount
                        /\ m.avg[1] * m.totalCount = m.sum * m.avg[2]
  BY DEF AggregatesAgree
<1>. DEFINE s == select_temporal_history(History(id), f)
            numbers == Numbers(s, a)
            m == aggregate_temporal_history(s)[a]
<1>1. IsHistory(History(id)) /\ f.lastN \in Nat \cup {-1}
  BY FilterAssumption DEF TemporalInv, StoreInv, Present, History, IsDocument
<1>2. IsHistory(s)
  BY <1>1, SelectionIs
<1>. HIDE DEF s
<1>3. numbers # <<>>
      /\ m = [sum |-> Total(numbers), avg |-> <<Total(numbers), Len(numbers)>>,
              min |-> Min(ToSet(numbers)), max |-> Max(ToSet(numbers)),
              totalCount |-> Len(numbers)]
  BY DEF aggregate_temporal_history, s
<1>4. numbers \in Seq(Int)
  BY <1>2, NumbersAre
<1>. HIDE DEF numbers, m
<1>5. PICK low, high : low = Min(ToSet(numbers)) /\ high = Max(ToSet(numbers))
  OBVIOUS
<1>6. low \in Int /\ high \in Int /\ \A k \in DOMAIN numbers : low <= numbers[k] /\ numbers[k] <= high
  BY <1>3, <1>4, <1>5, ExtremesAre
<1>7. /\ Total(numbers) \in Int
      /\ low * Len(numbers) <= Total(numbers)
      /\ Total(numbers) <= high * Len(numbers)
  BY <1>4, <1>6, TotalIsBetween
<1>8. Len(numbers) \in Nat /\ Len(numbers) > 0
  BY <1>3, <1>4, EmptySeq, LenProperties
<1>9. PICK total, len : total = Total(numbers) /\ len = Len(numbers)
  OBVIOUS
<1>10. /\ m.totalCount = len /\ m.sum = total /\ m.min = low /\ m.max = high
       /\ m.avg[1] = total /\ m.avg[2] = len
  BY <1>3, <1>5, <1>9
<1>. QED  BY <1>7, <1>8, <1>9, <1>10 DEF m, s

\* What can be retrieved as an instance is what the entity lists under its attribute, for every
\* window, and the aggregates of an attribute agree with each other.
THEOREM ReadersSeeOneHistory == Spec => []ReadersAgree
<1>1. TemporalInv => ReadersAgree
  BY InstancesListed, AggregatesDo DEF ReadersAgree
<1>. QED  BY <1>1, TemporalsAreKept, PTL
=============================================================================
