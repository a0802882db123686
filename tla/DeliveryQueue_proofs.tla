------------------------- MODULE DeliveryQueue_proofs -------------------------
(* Theorems about DeliveryQueue, for any number of subscriptions, handlers and *)
(* messages, any batch size and any number of crashes and faults.              *)
EXTENDS DeliveryQueue, FiniteSetTheorems, SequenceTheorems, TLAPS

-----------------------------------------------------------------------------
(* The worker's batch. *)

Working == worker.pc \in {"post", "get", "replace", "ack"}

\* The head of the batch is posted, and waits to be counted or acknowledged.
Posting == worker.pc \in {"get", "replace", "ack"}

\* How many entries of the batch are still to be posted.
Ahead == IF worker.pc = "post" THEN Len(worker.batch)
         ELSE IF Posting THEN Len(worker.batch) - 1 ELSE 0

LEMMA WorkerShape ==
    ASSUME TypeOK
    PROVE  /\ worker.pc \in {"idle", "down", "post", "get", "replace", "ack"}
           /\ worker = Idle <=> worker.pc = "idle"
           /\ worker = Down <=> worker.pc = "down"
           /\ Working => worker.batch \in Seq(Positions)
           /\ worker.pc = "get" => worker.ok \in BOOLEAN
           /\ worker.pc = "replace" => worker.doc \in Subscription
<1>1. CASE worker \in {Idle, Down}
  BY <1>1 DEF Idle, Down, Working
<1>2. CASE worker \in [pc: {"post", "ack"}, batch: Seq(Positions)]
  BY <1>2 DEF Idle, Down, Working
<1>3. CASE worker \in [pc: {"get"}, batch: Seq(Positions), ok: BOOLEAN]
  BY <1>3 DEF Idle, Down, Working
<1>4. CASE worker \in [pc: {"replace"}, batch: Seq(Positions), doc: Subscription]
  BY <1>4 DEF Idle, Down, Working
<1>. QED  BY <1>1, <1>2, <1>3, <1>4 DEF TypeOK

\* A batch that is not empty: its head, its elements, and what follows its head.
LEMMA BatchParts ==
    ASSUME NEW s \in Seq(Positions), Len(s) >= 1
    PROVE  /\ Len(s) \in Nat
           /\ Head(s) = s[1]
           /\ Head(s) \in Positions
           /\ Tail(s) \in Seq(Positions)
           /\ Len(Tail(s)) = Len(s) - 1
           /\ \A k \in 1 .. Len(Tail(s)) : Tail(s)[k] = s[k + 1]
           /\ ToSet(s) = {s[k] : k \in 1 .. Len(s)}
           /\ ToSet(Tail(s)) = {Tail(s)[k] : k \in 1 .. Len(Tail(s))}
<1>1. s # <<>> /\ Len(s) \in Nat
  OBVIOUS
<1>2. Tail(s) \in Seq(Positions) /\ Len(Tail(s)) = Len(s) - 1
  BY <1>1
<1>3. Head(s) = s[1] /\ Head(s) \in Positions
  BY <1>1
<1>4. \A k \in 1 .. Len(Tail(s)) : Tail(s)[k] = s[k + 1]
  BY <1>1
<1>5. DOMAIN s = 1 .. Len(s) /\ DOMAIN Tail(s) = 1 .. Len(Tail(s))
  BY <1>2
<1>. QED  BY <1>1, <1>2, <1>3, <1>4, <1>5 DEF ToSet

\* What a read is given: the next entries, in order, at most a batch of them.
LEMMA NewEntriesAreNext ==
    ASSUME TypeOK
    PROVE  /\ NewCount \in Nat
           /\ NewCount <= BatchSize
           /\ delivered + NewCount <= Len(stream)
           /\ NewEntries # <<>> => NewCount >= 1
           /\ NewEntries \in Seq(Nat)
           /\ Len(NewEntries) = NewCount
           /\ \A k \in 1 .. NewCount : NewEntries[k] = delivered + k
           /\ ToSet(NewEntries) = delivered + 1 .. delivered + NewCount
<1>. Len(stream) \in Nat /\ delivered \in 0 .. Len(stream) /\ BatchSize \in Nat \ {0}
  BY DeliveryAssumption DEF TypeOK
<1>1. /\ NewCount \in Nat
      /\ NewCount <= BatchSize
      /\ delivered + NewCount <= Len(stream)
  BY DEF NewCount
<1>2. /\ NewEntries \in Seq(Nat)
      /\ Len(NewEntries) = NewCount
      /\ DOMAIN NewEntries = 1 .. NewCount
      /\ \A k \in 1 .. NewCount : NewEntries[k] = delivered + k
  BY <1>1 DEF NewEntries
<1>3. NewEntries # <<>> => NewCount >= 1
  BY <1>1, <1>2
<1>4. ToSet(NewEntries) = delivered + 1 .. delivered + NewCount
  <2>1. ASSUME NEW i \in delivered + 1 .. delivered + NewCount
        PROVE  i \in ToSet(NewEntries)
    <3>1. i - delivered \in 1 .. NewCount /\ NewEntries[i - delivered] = i
      BY <1>1, <1>2
    <3>. QED  BY <3>1, <1>2 DEF ToSet
  <2>2. ASSUME NEW k \in 1 .. NewCount
        PROVE  NewEntries[k] \in delivered + 1 .. delivered + NewCount
    BY <1>1, <1>2
  <2>. QED  BY <2>1, <2>2, <1>2 DEF ToSet
<1>. QED  BY <1>1, <1>2, <1>3, <1>4

-----------------------------------------------------------------------------
(* The inductive invariant. *)

\* The batch is what was given out last.
BatchIsLast ==
    Working =>
        /\ Len(worker.batch) \in 1 .. delivered
        /\ \A k \in 1 .. Len(worker.batch) :
              worker.batch[k] = delivered - Len(worker.batch) + k

\* What was posted lies behind what is still to be posted.
PostsAreBehind == \A k \in DOMAIN posts : posts[k][1] <= delivered - Ahead

HeadIsPosted == Posting => Posted(Position) \/ Addressless(Position)

\* Only the outcome of a notification is counted.
HeadIsNotification == worker.pc \in {"get", "replace"} => stream[Position].sub # NoSub

\* A batch in hand decoded, and waits for its acknowledgements.
HeldArePending == Working => \A i \in ToSet(worker.batch) : i \in pending /\ Decodes(i)

\* No invariant of the worker rests on the counters, the subscriptions or the handlers.
WorkerInv ==
    /\ BatchIsLast
    /\ PostsAreBehind
    /\ HeadIsPosted
    /\ HeadIsNotification
    /\ HeldArePending
    /\ PostedInOrderAndOnce
    /\ GivenUpForCause

IInv == TypeOK /\ WorkerInv

\* The head of the batch in terms of the group's position.
LEMMA HeadOfBatch ==
    ASSUME TypeOK, BatchIsLast, Working
    PROVE  /\ worker.batch \in Seq(Positions)
           /\ Len(worker.batch) \in 1 .. delivered
           /\ delivered \in Nat
           /\ delivered <= Len(stream)
           /\ Position = delivered - Len(worker.batch) + 1
           /\ Position \in ToSet(worker.batch)
           /\ Position \in Positions
           /\ ToSet(worker.batch) = delivered - Len(worker.batch) + 1 .. delivered
           /\ ToSet(Tail(worker.batch)) = delivered - Len(worker.batch) + 2 .. delivered
<1>. DEFINE s == worker.batch
            n == Len(worker.batch)
<1>1. s \in Seq(Positions) /\ n \in 1 .. delivered /\ delivered \in Nat /\ delivered <= Len(stream)
  BY WorkerShape DEF BatchIsLast, TypeOK
<1>2. \A k \in 1 .. n : s[k] = delivered - n + k
  BY DEF BatchIsLast
<1>. HIDE DEF s, n
<1>3. /\ Head(s) = s[1]
      /\ Head(s) \in Positions
      /\ Len(Tail(s)) = n - 1
      /\ \A k \in 1 .. n - 1 : Tail(s)[k] = s[k + 1]
      /\ ToSet(s) = {s[k] : k \in 1 .. n}
      /\ ToSet(Tail(s)) = {Tail(s)[k] : k \in 1 .. n - 1}
  BY <1>1, BatchParts DEF s, n
<1>4. s[1] = delivered - n + 1
  BY <1>1, <1>2
<1>5. {s[k] : k \in 1 .. n} = delivered - n + 1 .. delivered
  <2>1. ASSUME NEW i \in delivered - n + 1 .. delivered
        PROVE  \E k \in 1 .. n : s[k] = i
    <3>. DEFINE k == i - (delivered - n)
    <3>1. k \in 1 .. n /\ delivered - n + k = i
      BY <1>1
    <3>. HIDE DEF k
    <3>2. s[k] = i
      BY <3>1, <1>2
    <3>. QED  BY <3>1, <3>2
  <2>2. ASSUME NEW k \in 1 .. n
        PROVE  s[k] \in delivered - n + 1 .. delivered
    BY <1>1, <1>2
  <2>. QED  BY <2>1, <2>2
<1>6. {Tail(s)[k] : k \in 1 .. n - 1} = delivered - n + 2 .. delivered
  <2>1. \A k \in 1 .. n - 1 : Tail(s)[k] = delivered - n + k + 1
    BY <1>1, <1>2, <1>3
  <2>2. ASSUME NEW i \in delivered - n + 2 .. delivered
        PROVE  \E k \in 1 .. n - 1 : Tail(s)[k] = i
    <3>. DEFINE k == i - (delivered - n) - 1
    <3>1. k \in 1 .. n - 1 /\ delivered - n + k + 1 = i
      BY <1>1
    <3>. HIDE DEF k
    <3>2. Tail(s)[k] = i
      BY <3>1, <2>1
    <3>. QED  BY <3>1, <3>2
  <2>3. ASSUME NEW k \in 1 .. n - 1
        PROVE  Tail(s)[k] \in delivered - n + 2 .. delivered
    <3>1. Tail(s)[k] = delivered - n + k + 1
      BY <2>1
    <3>2. delivered - n + k + 1 \in delivered - n + 2 .. delivered
      BY <1>1
    <3>. QED  BY <3>1, <3>2
  <2>. QED  BY <2>2, <2>3
<1>7. s[1] \in {s[k] : k \in 1 .. n}
  BY <1>1
<1>. QED  BY <1>1, <1>3, <1>4, <1>5, <1>6, <1>7 DEF Position, s, n

-----------------------------------------------------------------------------
(* Type correctness. *)

LEMMA InitTypeOK == Init => TypeOK
<1>. SUFFICES ASSUME Init PROVE TypeOK
  OBVIOUS
<1>1. subs \in [Subscriptions -> Subscription \cup {NoSub}]
  <2>1. Fresh \in Subscription
    BY DEF Fresh, Subscription
  <2>2. subs \in [Subscriptions -> {NoSub, Fresh}]
    BY DEF Init
  <2>. HIDE DEF Fresh
  <2>. QED  BY <2>1, <2>2
<1>2. /\ editor \in [Editors -> {Idle} \cup [pc: {"replace"}, sub: Subscriptions, doc: Subscription]]
      /\ notifier \in [Notifiers -> SUBSET Subscriptions]
      /\ claimed \in [Subscriptions -> [sent: SUBSET (Nat \X Nat), failed: SUBSET (Nat \X Nat)]]
      /\ lost \subseteq 1 .. delivered
  BY DEF Init
<1>3. stream \in Seq(Message) /\ Len(stream) = 0 /\ posts \in Seq(Positions \X BOOLEAN)
  BY DEF Init
<1>. QED  BY <1>1, <1>2, <1>3, DeliveryAssumption DEF Init, TypeOK

\* The stream keeps its type when a message is appended below its bound.
LEMMA AppendedStream ==
    ASSUME TypeOK, NEW m \in Message, Len(stream) < MaxMessages,
           stream' = Append(stream, m)
    PROVE  /\ stream' \in Seq(Message)
           /\ Len(stream') = Len(stream) + 1
           /\ Len(stream') <= MaxMessages
           /\ delivered \in 0 .. Len(stream')
           /\ \A i \in 1 .. Len(stream) : stream'[i] = stream[i]
BY DeliveryAssumption DEF TypeOK

LEMMA MessageTypes ==
    /\ \A kind \in Events : [sub |-> NoSub, kind |-> kind] \in Message
    /\ \A kind \in Notifications, s \in Subscriptions :
          [sub |-> s, kind |-> kind] \in Message
BY DeliveryAssumption DEF Message, Kinds

\* A document read by a handler is one of a subscription.
LEMMA StoredDocument ==
    ASSUME TypeOK, NEW s \in Subscriptions, subs[s] # NoSub
    PROVE  subs[s] \in Subscription
BY DEF TypeOK

LEMMA CountedDocument ==
    ASSUME NEW doc \in Subscription, NEW ok \in BOOLEAN
    PROVE  /\ Counted(doc, ok) \in Subscription
           /\ ~doc.notifies => Counted(doc, ok) = doc
           /\ doc.notifies => Counted(doc, ok).sent = doc.sent + 1
           /\ doc.notifies =>
                Counted(doc, ok).failed = IF ok THEN doc.failed ELSE doc.failed + 1
<1>1. doc.notifies \in BOOLEAN /\ doc.sent \in Nat /\ doc.failed \in Nat
  BY DEF Subscription
<1>2. CASE ~doc.notifies
  BY <1>2 DEF Counted
<1>3. CASE doc.notifies /\ ok
  <2>1. Counted(doc, ok) = [doc EXCEPT !.sent = doc.sent + 1, !.failed = doc.failed]
    BY <1>3 DEF Counted
  <2>2. doc.sent + 1 \in Nat
    BY <1>1
  <2>. QED  BY <1>3, <2>1, <2>2 DEF Subscription
<1>4. CASE doc.notifies /\ ~ok
  <2>1. Counted(doc, ok) = [doc EXCEPT !.sent = doc.sent + 1, !.failed = doc.failed + 1]
    BY <1>4 DEF Counted
  <2>2. doc.sent + 1 \in Nat /\ doc.failed + 1 \in Nat
    BY <1>1
  <2>. QED  BY <1>4, <2>1, <2>2 DEF Subscription
<1>. QED  BY <1>1, <1>2, <1>3, <1>4

\* A patched document, and the posts a value written into it follows.
LEMMA PatchedDocument ==
    ASSUME NEW old \in Subscription, NEW doc \in Patched(old)
    PROVE  /\ doc \in Subscription
           /\ ~doc.notifies => doc.sent = 0 /\ doc.failed = 0
<1>1. old.sent \in Nat /\ old.failed \in Nat
  BY DEF Subscription
<1>2. Claims \subseteq Nat
  BY DeliveryAssumption
<1>3. CASE \E n \in Claims \cup {old.sent}, k \in Claims \cup {old.failed} :
              doc = [notifies |-> TRUE, sent |-> n, failed |-> k]
  BY <1>1, <1>2, <1>3 DEF Subscription
<1>4. CASE doc = [notifies |-> FALSE, sent |-> 0, failed |-> 0]
  BY <1>4 DEF Subscription
<1>. QED  BY <1>3, <1>4 DEF Patched

LEMMA SettledPosts ==
    ASSUME IInv
    PROVE  /\ Settled \in Nat
           /\ Settled <= Len(posts)
           /\ worker.pc = "get" => Settled = Len(posts) - 1
<1>1. Len(posts) \in Nat /\ DOMAIN posts = 1 .. Len(posts)
  BY DEF IInv, TypeOK
<1>2. worker.pc = "get" => Posted(Position)
  BY DEF IInv, WorkerInv, HeadIsPosted, HeadIsNotification, Posting, Addressless
<1>3. worker.pc = "get" => Len(posts) >= 1
  <2>1. ASSUME NEW k \in DOMAIN posts
        PROVE  Len(posts) >= 1
    BY <1>1, <2>1
  <2>. QED  BY <1>2, <2>1 DEF Posted
<1>4. CASE worker.pc = "get"
  <2>1. Settled = Len(posts) - 1
    BY <1>4 DEF Settled
  <2>. QED  BY <2>1, <1>1, <1>3, <1>4
<1>5. CASE worker.pc # "get"
  <2>1. Settled = Len(posts)
    BY <1>5 DEF Settled
  <2>. QED  BY <2>1, <1>1, <1>5
<1>. QED  BY <1>4, <1>5

LEMMA SettledPostsNext == ASSUME IInv' PROVE Settled' \in Nat
<1>1. Len(posts') \in Nat /\ DOMAIN posts' = 1 .. Len(posts')
  BY DEF IInv, TypeOK
<1>2. worker'.pc = "get" => Posted(Position)'
  BY DEF IInv, WorkerInv, HeadIsPosted, HeadIsNotification, Posting, Addressless
<1>3. worker'.pc = "get" => Len(posts') >= 1
  <2>1. ASSUME NEW k \in DOMAIN posts'
        PROVE  Len(posts') >= 1
    BY <1>1, <2>1
  <2>. QED  BY <1>2, <2>1 DEF Posted
<1>. QED  BY <1>1, <1>3 DEF Settled

\* Going on in the batch, or ending it.
LEMMA NextInBatchType ==
    ASSUME TypeOK, BatchIsLast, Working, NextInBatch
    PROVE  worker' \in {Idle} \cup [pc: {"post"}, batch: Seq(Positions)]
<1>1. Tail(worker.batch) \in Seq(Positions)
  BY HeadOfBatch, BatchParts
<1>. QED  BY <1>1 DEF NextInBatch

LEMMA NextTypeOK == IInv /\ [Next]_vars => TypeOK'
<1>. SUFFICES ASSUME IInv, [Next]_vars PROVE TypeOK'
  OBVIOUS
<1>t. TypeOK /\ BatchIsLast /\ HeadIsNotification
  BY DEF IInv, WorkerInv
<1>1. ASSUME NEW n \in Notifiers, ListSubscriptions(n) PROVE TypeOK'
  BY <1>1, <1>t DEF ListSubscriptions, TypeOK
<1>2. ASSUME NEW n \in Notifiers, EnqueueOne(n) PROVE TypeOK'
  <2>1. PICK s \in notifier[n], kind \in Notifications :
          /\ stream' = Append(stream, [sub |-> s, kind |-> kind])
          /\ notifier' = [notifier EXCEPT ![n] = @ \ {s}]
    BY <1>2 DEF EnqueueOne
  <2>2. notifier[n] \in SUBSET Subscriptions
    BY <1>t DEF TypeOK
  <2>3. notifier' \in [Notifiers -> SUBSET Subscriptions]
    BY <2>1, <2>2, <1>t DEF TypeOK
  <2>4. [sub |-> s, kind |-> kind] \in Message /\ Len(stream) < MaxMessages
    BY <2>2, MessageTypes, <1>2 DEF EnqueueOne
  <2>5. /\ stream' \in Seq(Message) /\ Len(stream') <= MaxMessages
        /\ delivered \in 0 .. Len(stream')
    BY <2>1, <2>4, <1>t, AppendedStream
  <2>. QED  BY <1>2, <1>t, <2>3, <2>5 DEF EnqueueOne, TypeOK
<1>3. ASSUME NEW n \in Notifiers, EndLoop(n) PROVE TypeOK'
  BY <1>3, <1>t DEF EndLoop, TypeOK
<1>4. ASSUME EnqueueSwim PROVE TypeOK'
  <2>1. PICK kind \in Events :
          stream' = Append(stream, [sub |-> NoSub, kind |-> kind])
    BY <1>4 DEF EnqueueSwim
  <2>2. /\ stream' \in Seq(Message) /\ Len(stream') <= MaxMessages
        /\ delivered \in 0 .. Len(stream')
    BY <2>1, <1>4, <1>t, AppendedStream, MessageTypes DEF EnqueueSwim
  <2>. QED  BY <1>4, <1>t, <2>2 DEF EnqueueSwim, TypeOK
<1>5. ASSUME NEW s \in Subscriptions, Create(s) \/ Delete(s) PROVE TypeOK'
  <2>1. subs' \in [Subscriptions -> Subscription \cup {NoSub}]
    <3>1. Fresh \in Subscription
      BY DEF Fresh, Subscription
    <3>2. CASE Create(s)
      BY <3>1, <3>2, <1>t DEF Create, TypeOK
    <3>3. CASE Delete(s)
      BY <3>3, <1>t DEF Delete, TypeOK
    <3>. QED  BY <3>2, <3>3, <1>5
  <2>2. edits' \in 0 .. MaxEdits
    BY <1>5, <1>t, DeliveryAssumption DEF Create, Delete, Edit, TypeOK
  <2>. QED  BY <1>5, <1>t, <2>1, <2>2 DEF Create, Delete, TypeOK
<1>6. ASSUME NEW e \in Editors, NEW s \in Subscriptions, ReadForPatch(e, s) PROVE TypeOK'
  BY <1>6, <1>t DEF ReadForPatch, TypeOK
<1>7. ASSUME NEW e \in Editors, WritePatch(e) PROVE TypeOK'
  <2>1. editor[e].sub \in Subscriptions /\ editor[e].doc \in Subscription
    BY <1>7, <1>t DEF WritePatch, Idle, TypeOK
  <2>2. PICK doc \in Patched(editor[e].doc) :
          /\ subs' = [subs EXCEPT ![editor[e].sub] = doc]
          /\ claimed' = [claimed EXCEPT
                ![editor[e].sub].sent = @ \cup Claim(editor[e].doc, doc, "sent"),
                ![editor[e].sub].failed = @ \cup Claim(editor[e].doc, doc, "failed")]
    BY <1>7 DEF WritePatch
  <2>3. doc \in Subscription
    BY <2>1, PatchedDocument
  <2>4. subs' \in [Subscriptions -> Subscription \cup {NoSub}]
    BY <1>t, <2>1, <2>2, <2>3 DEF TypeOK
  <2>5. claimed' \in [Subscriptions -> [sent: SUBSET (Nat \X Nat), failed: SUBSET (Nat \X Nat)]]
    <3>1. /\ Claim(editor[e].doc, doc, "sent") \in SUBSET (Nat \X Nat)
          /\ Claim(editor[e].doc, doc, "failed") \in SUBSET (Nat \X Nat)
      BY <1>t, <2>3, SettledPosts DEF Claim, Subscription, IInv
    <3>2. claimed[editor[e].sub] \in [sent: SUBSET (Nat \X Nat), failed: SUBSET (Nat \X Nat)]
      BY <1>t, <2>1 DEF TypeOK
    <3>. QED  BY <1>t, <2>1, <2>2, <3>1, <3>2 DEF TypeOK
  <2>6. edits' \in 0 .. MaxEdits
    BY <1>7, <1>t, DeliveryAssumption DEF WritePatch, Edit, TypeOK
  <2>7. editor' \in [Editors -> {Idle} \cup
                        [pc: {"replace"}, sub: Subscriptions, doc: Subscription]]
    BY <1>7, <1>t DEF WritePatch, TypeOK
  <2>8. UNCHANGED <<stream, delivered, pending, worker, notifier, faults, crashes, posts, lost>>
    BY <1>7 DEF WritePatch
  <2>. QED  BY <1>t, <2>4, <2>5, <2>6, <2>7, <2>8 DEF TypeOK
<1>17. ASSUME ReadLost PROVE TypeOK'
  <2>1. /\ Len(stream) \in Nat /\ delivered \in Nat
        /\ NewCount \in Nat /\ delivered + NewCount <= Len(stream)
        /\ ToSet(NewEntries) = delivered + 1 .. delivered + NewCount
    BY <1>t, NewEntriesAreNext DEF TypeOK
  <2>2. /\ delivered' \in 0 .. Len(stream)
        /\ pending' \subseteq 1 .. delivered'
        /\ lost' \subseteq 1 .. delivered'
    <3>1. /\ delivered' = delivered + NewCount
          /\ pending' = pending \cup ToSet(NewEntries)
          /\ lost' = lost \cup ToSet(NewEntries)
      BY <1>17 DEF ReadLost
    <3>2. pending \subseteq 1 .. delivered /\ lost \subseteq 1 .. delivered
      BY <1>t DEF TypeOK
    <3>3. \A i \in 1 .. delivered : i \in 1 .. delivered'
      BY <2>1, <3>1
    <3>4. \A i \in ToSet(NewEntries) : i \in 1 .. delivered'
      BY <2>1, <3>1
    <3>5. delivered' \in 0 .. Len(stream)
      BY <2>1, <3>1
    <3>. QED  BY <3>1, <3>2, <3>3, <3>4, <3>5
  <2>. QED  BY <1>17, <1>t, <2>2, DeliveryAssumption DEF ReadLost, TypeOK
<1>18. ASSUME SkipPost PROVE TypeOK'
  <2>1. worker.batch \in Seq(Positions)
    BY <1>18, <1>t, WorkerShape DEF SkipPost, Working
  <2>. QED  BY <1>18, <1>t, <2>1 DEF SkipPost, TypeOK
<1>8. ASSUME ReadBatch PROVE TypeOK'
  <2>. /\ Len(stream) \in Nat /\ Len(stream) <= MaxMessages
       /\ delivered \in Nat /\ MaxMessages \in Nat
    BY <1>t, DeliveryAssumption DEF TypeOK
  <2>1. /\ NewCount \in Nat /\ delivered + NewCount <= Len(stream)
        /\ NewEntries \in Seq(Nat) /\ Len(NewEntries) = NewCount
        /\ \A k \in 1 .. NewCount : NewEntries[k] = delivered + k
        /\ ToSet(NewEntries) = delivered + 1 .. delivered + NewCount
    BY <1>t, NewEntriesAreNext
  <2>2. NewEntries \in Seq(Positions)
    <3>1. \A k \in 1 .. Len(NewEntries) : NewEntries[k] \in Positions
      BY <2>1 DEF Positions
    <3>. QED  BY <2>1, <3>1
  <2>3. /\ delivered' \in 0 .. Len(stream)
        /\ pending' \subseteq 1 .. delivered'
        /\ lost' \subseteq 1 .. delivered'
    BY <1>8, <1>t, <2>1 DEF ReadBatch, TypeOK
  <2>. QED  BY <1>8, <1>t, <2>2, <2>3 DEF ReadBatch, TypeOK, TypeOK
<1>9. ASSUME Post PROVE TypeOK'
  <2>1. PICK ok \in BOOLEAN :
          /\ posts' = Append(posts, <<Position, ok>>)
          /\ worker' = IF stream[Position].sub = NoSub
                       THEN [pc |-> "ack", batch |-> worker.batch]
                       ELSE [pc |-> "get", batch |-> worker.batch, ok |-> ok]
    BY <1>9 DEF Post
  <2>2. worker.batch \in Seq(Positions) /\ Position \in Positions
    BY <1>9, <1>t, HeadOfBatch DEF Post, Working
  <2>3. posts' \in Seq(Positions \X BOOLEAN)
    BY <1>t, <2>1, <2>2 DEF TypeOK
  <2>. QED  BY <1>9, <1>t, <2>1, <2>2, <2>3 DEF Post, TypeOK
<1>10. ASSUME GetSubscription PROVE TypeOK'
  <2>1. /\ worker.batch \in Seq(Positions) /\ worker.ok \in BOOLEAN
    BY <1>10, <1>t, WorkerShape DEF GetSubscription, Working
  <2>2. stream[Position].sub \in Subscriptions
    <3>1. Position \in 1 .. Len(stream)
      BY <1>10, <1>t, HeadOfBatch DEF GetSubscription, Working
    <3>2. stream[Position] \in Message
      BY <3>1, <1>t DEF TypeOK
    <3>. QED  BY <3>2, <1>10, <1>t DEF GetSubscription, HeadIsNotification, Message
  <2>3. subs[stream[Position].sub] = NoSub \/ subs[stream[Position].sub] \in Subscription
    BY <2>2, <1>t DEF TypeOK
  <2>. QED  BY <1>10, <1>t, <2>1, <2>2, CountedDocument DEF GetSubscription, TypeOK
<1>11. ASSUME ReplaceSubscription PROVE TypeOK'
  <2>1. worker.batch \in Seq(Positions) /\ worker.doc \in Subscription
    BY <1>11, <1>t, WorkerShape DEF ReplaceSubscription, Working
  <2>2. subs' \in [Subscriptions -> Subscription \cup {NoSub}]
    BY <1>11, <1>t, <2>1 DEF ReplaceSubscription, TypeOK
  <2>. QED  BY <1>11, <1>t, <2>1, <2>2 DEF ReplaceSubscription, TypeOK
<1>12. ASSUME MarkFails PROVE TypeOK'
  <2>1. worker.batch \in Seq(Positions)
    BY <1>12, <1>t, WorkerShape DEF MarkFails, Working
  <2>. QED  BY <1>12, <1>t, <2>1, DeliveryAssumption DEF MarkFails, TypeOK
<1>13. ASSUME Ack \/ AckFails PROVE TypeOK'
  <2>1. worker' \in {Idle} \cup [pc: {"post"}, batch: Seq(Positions)]
    BY <1>13, <1>t, NextInBatchType DEF Ack, AckFails, Working
  <2>2. CASE Ack
    BY <2>1, <2>2, <1>t DEF Ack, TypeOK
  <2>3. CASE AckFails
    BY <2>1, <2>3, <1>t, DeliveryAssumption DEF AckFails, TypeOK
  <2>. QED  BY <1>13, <2>2, <2>3
<1>14. ASSUME Crash PROVE TypeOK'
  BY <1>14, <1>t, DeliveryAssumption DEF Crash, TypeOK
<1>15. ASSUME Restart PROVE TypeOK'
  BY <1>15, <1>t DEF Restart, TypeOK
<1>16. ASSUME UNCHANGED vars PROVE TypeOK'
  BY <1>16, <1>t DEF vars, TypeOK
<1>. QED
  BY <1>1, <1>2, <1>3, <1>4, <1>5, <1>6, <1>7, <1>8, <1>9, <1>10, <1>11, <1>12, <1>13,
     <1>14, <1>15, <1>16, <1>17, <1>18 DEF Next, Work

-----------------------------------------------------------------------------
(* The worker's invariant. *)

LEMMA AheadBounds ==
    ASSUME TypeOK, BatchIsLast
    PROVE  Ahead \in 0 .. delivered /\ delivered \in Nat
<1>1. delivered \in Nat
  BY DEF TypeOK
<1>2. CASE Working
  <2>1. Len(worker.batch) \in 1 .. delivered
    BY <1>2, HeadOfBatch
  <2>2. Ahead = Len(worker.batch) \/ Ahead = Len(worker.batch) - 1
    BY <1>2 DEF Ahead, Working, Posting
  <2>. QED  BY <1>1, <2>1, <2>2
<1>3. CASE ~Working
  BY <1>1, <1>3 DEF Ahead, Working, Posting
<1>. QED  BY <1>1, <1>2, <1>3

LEMMA InitWorkerInv == Init => WorkerInv
<1>. SUFFICES ASSUME Init PROVE WorkerInv
  OBVIOUS
<1>1. worker.pc = "idle" /\ delivered = 0 /\ DOMAIN posts = {}
  BY DEF Init, Idle
<1>. QED
  BY <1>1 DEF WorkerInv, BatchIsLast, PostsAreBehind, HeadIsPosted, HeadIsNotification,
              HeldArePending, PostedInOrderAndOnce, GivenUpForCause, Working, Posting

\* Steps of the handlers leave the worker's part alone and extend the stream at most.
LEMMA StreamExtended ==
    ASSUME IInv,
           UNCHANGED <<delivered, pending, worker, crashes, posts, lost>>,
           \A i \in 1 .. Len(stream) : stream'[i] = stream[i]
    PROVE  WorkerInv'
<1>t. TypeOK /\ BatchIsLast
  BY DEF IInv, WorkerInv
<1>1. \A i \in 1 .. delivered : stream'[i] = stream[i]
  BY <1>t DEF TypeOK
<1>2. /\ pending \subseteq 1 .. delivered
      /\ Working => Position \in 1 .. delivered
      /\ Working => ToSet(worker.batch) \subseteq 1 .. delivered
  <2>1. CASE Working
    <3>. DEFINE n == Len(worker.batch)
    <3>1. /\ n \in 1 .. delivered /\ delivered \in Nat
          /\ Position = delivered - n + 1
          /\ ToSet(worker.batch) = delivered - n + 1 .. delivered
      BY <1>t, <2>1, HeadOfBatch
    <3>. HIDE DEF n
    <3>. QED  BY <1>t, <3>1 DEF TypeOK
  <2>2. CASE ~Working
    BY <1>t, <2>2 DEF TypeOK
  <2>. QED  BY <2>1, <2>2
<1>3. BatchIsLast' /\ PostsAreBehind' /\ PostedInOrderAndOnce'
  BY DEF IInv, WorkerInv, BatchIsLast, PostsAreBehind, PostedInOrderAndOnce,
         Working, Posting, Ahead
<1>4. HeadIsNotification' /\ HeadIsPosted'
  BY <1>1, <1>2 DEF IInv, WorkerInv, HeadIsNotification, HeadIsPosted, Working,
     Posting, Posted, Addressless, Position
<1>5. HeldArePending'
  BY <1>1, <1>2 DEF IInv, WorkerInv, HeldArePending, Working, Decodes
<1>6. GivenUpForCause'
  BY <1>1, <1>2 DEF IInv, WorkerInv, GivenUpForCause, Posted, Held, Decodes, Addressless
<1>. QED  BY <1>3, <1>4, <1>5, <1>6 DEF WorkerInv

\* A read takes up new entries, all of them or none.
LEMMA ReadBatchWorkerInv == IInv /\ ReadBatch => WorkerInv'
<1>. SUFFICES ASSUME IInv, ReadBatch PROVE WorkerInv'
  OBVIOUS
<1>t. TypeOK /\ WorkerInv
  BY DEF IInv
<1>. DEFINE n == NewCount
            s == NewEntries
<1>1. /\ n \in Nat /\ n <= BatchSize /\ n >= 1
      /\ Len(s) = n
      /\ \A k \in 1 .. n : s[k] = delivered + k
      /\ ToSet(s) = delivered + 1 .. delivered + n
  BY <1>t, NewEntriesAreNext DEF ReadBatch
<1>2. /\ delivered' = delivered + n
      /\ pending' = pending \cup ToSet(s)
      /\ worker' = IF \A i \in ToSet(s) : Decodes(i)
                   THEN [pc |-> "post", batch |-> s] ELSE Idle
      /\ UNCHANGED <<stream, crashes, posts, lost>>
  BY DEF ReadBatch
<1>. HIDE DEF n, s
<1>3. worker = Idle /\ Ahead = 0 /\ ~Working /\ delivered \in Nat /\ BatchSize \in Nat
  BY <1>t, DeliveryAssumption DEF ReadBatch, Idle, Ahead, Working, Posting, TypeOK
<1>4. PostedInOrderAndOnce'
  BY <1>t, <1>2 DEF WorkerInv, PostedInOrderAndOnce
<1>5. \A k \in DOMAIN posts : posts[k][1] <= delivered
  BY <1>t, <1>3 DEF WorkerInv, PostsAreBehind
<1>old. ASSUME NEW i \in 1 .. delivered
        PROVE  \/ Posted(i)'
               \/ Addressless(i)'
               \/ /\ i \in pending'
                  /\ \/ crashes' > 0
                     \/ i \in lost'
                     \/ \E j \in pending' : ~Decodes(j)' /\ i - j < BatchSize /\ j - i < BatchSize
  BY <1>t, <1>2, <1>3 DEF WorkerInv, GivenUpForCause, Posted, Decodes, Addressless, Held, Idle
<1>new. \A i \in 1 .. delivered' : i \in 1 .. delivered \/ i \in ToSet(s)
  BY <1>1, <1>2, <1>3
<1>6. CASE \A i \in ToSet(s) : Decodes(i)
  <2>1. worker' = [pc |-> "post", batch |-> s]
    BY <1>2, <1>6
  <2>2. Working' /\ ~Posting' /\ Ahead' = n
    BY <2>1, <1>1 DEF Working, Posting, Ahead
  <2>3. BatchIsLast'
    BY <2>1, <1>1, <1>2, <1>3 DEF BatchIsLast
  <2>4. PostsAreBehind'
    <3>1. delivered' - Ahead' = delivered
      BY <2>2, <1>1, <1>2, <1>3
    <3>. QED  BY <3>1, <1>2, <1>5 DEF PostsAreBehind
  <2>5. HeldArePending'
    BY <2>1, <1>2, <1>6 DEF HeldArePending, Decodes
  <2>6. HeadIsPosted' /\ HeadIsNotification'
    BY <2>1, <2>2 DEF HeadIsPosted, HeadIsNotification
  <2>7. GivenUpForCause'
    <3>1. \A i \in ToSet(s) : i \in pending' /\ Held(i)'
      BY <2>1, <1>2 DEF Held
    <3>. QED  BY <3>1, <1>old, <1>new DEF GivenUpForCause
  <2>. QED  BY <2>3, <2>4, <2>5, <2>6, <2>7, <1>4 DEF WorkerInv
<1>7. CASE ~ \A i \in ToSet(s) : Decodes(i)
  <2>1. worker' = Idle
    BY <1>2, <1>7
  <2>2. ~Working' /\ ~Posting' /\ Ahead' = 0 /\ worker'.pc = "idle"
    BY <2>1 DEF Working, Posting, Ahead, Idle
  <2>3. PostsAreBehind'
    <3>1. delivered' - Ahead' >= delivered /\ delivered' - Ahead' \in Nat
      BY <2>2, <1>1, <1>2, <1>3
    <3>2. \A k \in DOMAIN posts : posts[k][1] \in Nat
      BY <1>t DEF TypeOK, Positions
    <3>. QED  BY <3>1, <3>2, <1>2, <1>3, <1>5 DEF PostsAreBehind
  <2>4. BatchIsLast' /\ HeadIsPosted' /\ HeadIsNotification' /\ HeldArePending'
    BY <2>2 DEF BatchIsLast, HeadIsPosted, HeadIsNotification, HeldArePending
  <2>5. GivenUpForCause'
    <3>1. PICK j \in ToSet(s) : ~Decodes(j)
      BY <1>7
    <3>2. j \in pending' /\ ~Decodes(j)'
      BY <3>1, <1>2 DEF Decodes
    <3>3. \A i \in ToSet(s) : i \in pending' /\ i - j < BatchSize /\ j - i < BatchSize
      BY <3>1, <1>1, <1>2, <1>3
    <3>. QED  BY <3>2, <3>3, <1>old, <1>new DEF GivenUpForCause
  <2>. QED  BY <2>3, <2>4, <2>5, <1>4 DEF WorkerInv
<1>. QED  BY <1>6, <1>7

\* A read whose reply is lost leaves its entries to no one.
LEMMA ReadLostWorkerInv == IInv /\ ReadLost => WorkerInv'
<1>. SUFFICES ASSUME IInv, ReadLost PROVE WorkerInv'
  OBVIOUS
<1>t. TypeOK /\ WorkerInv
  BY DEF IInv
<1>1. /\ NewCount \in Nat
      /\ ToSet(NewEntries) = delivered + 1 .. delivered + NewCount
  BY <1>t, NewEntriesAreNext
<1>2. /\ worker = Idle /\ worker' = Idle
      /\ delivered' = delivered + NewCount
      /\ pending' = pending \cup ToSet(NewEntries)
      /\ lost' = lost \cup ToSet(NewEntries)
      /\ UNCHANGED <<stream, crashes, posts>>
  BY DEF ReadLost
<1>3. /\ Ahead = 0 /\ Ahead' = 0 /\ ~Working' /\ ~Posting' /\ worker'.pc = "idle"
      /\ delivered \in Nat
  BY <1>t, <1>2 DEF Idle, Ahead, Working, Posting, TypeOK
<1>4. PostedInOrderAndOnce'
  BY <1>t, <1>2 DEF WorkerInv, PostedInOrderAndOnce
<1>5. PostsAreBehind'
  <2>1. \A k \in DOMAIN posts : posts[k][1] \in Nat /\ posts[k][1] <= delivered
    BY <1>t, <1>3 DEF WorkerInv, PostsAreBehind, TypeOK, Positions
  <2>. QED  BY <2>1, <1>1, <1>2, <1>3 DEF PostsAreBehind
<1>6. BatchIsLast' /\ HeadIsPosted' /\ HeadIsNotification' /\ HeldArePending'
  BY <1>3 DEF BatchIsLast, HeadIsPosted, HeadIsNotification, HeldArePending
<1>7. GivenUpForCause'
  <2>1. ASSUME NEW i \in 1 .. delivered
        PROVE  \/ Posted(i)'
               \/ Addressless(i)'
               \/ /\ i \in pending'
                  /\ \/ crashes' > 0
                     \/ i \in lost'
                     \/ \E j \in pending' : ~Decodes(j)' /\ i - j < BatchSize /\ j - i < BatchSize
    BY <1>t, <1>2 DEF WorkerInv, GivenUpForCause, Posted, Decodes, Addressless, Held, Idle
  <2>2. \A i \in 1 .. delivered' : i \in 1 .. delivered \/ i \in ToSet(NewEntries)
    BY <1>1, <1>2, <1>3
  <2>. QED  BY <2>1, <2>2, <1>2 DEF GivenUpForCause
<1>. QED  BY <1>4, <1>5, <1>6, <1>7 DEF WorkerInv

\* An event without an address moves its batch on like a post, without one.
LEMMA SkipPostWorkerInv == IInv /\ SkipPost => WorkerInv'
<1>. SUFFICES ASSUME IInv, SkipPost PROVE WorkerInv'
  OBVIOUS
<1>t. TypeOK /\ WorkerInv /\ BatchIsLast
  BY DEF IInv, WorkerInv
<1>1. /\ worker.pc = "post" /\ worker'.pc = "ack" /\ worker'.batch = worker.batch
      /\ Addressless(Position)
      /\ UNCHANGED <<stream, delivered, pending, crashes, posts, lost>>
  BY DEF SkipPost
<1>2. /\ Working /\ Working' /\ Posting' /\ Position' = Position
      /\ Ahead = Len(worker.batch) /\ Ahead' = Len(worker.batch) - 1
      /\ \A i : Held(i)' <=> Held(i)
      /\ \A i : Posted(i)' <=> Posted(i)
      /\ \A i : Decodes(i)' <=> Decodes(i)
      /\ \A i : Addressless(i)' <=> Addressless(i)
  BY <1>1 DEF Working, Posting, Position, Ahead, Held, Posted, Decodes, Addressless
<1>3. Len(worker.batch) \in 1 .. delivered /\ delivered \in Nat
  BY <1>t, <1>2, HeadOfBatch
<1>4. PostsAreBehind'
  <2>1. \A k \in DOMAIN posts :
          posts[k][1] \in Nat /\ posts[k][1] <= delivered - Len(worker.batch)
    BY <1>t, <1>2 DEF WorkerInv, PostsAreBehind, TypeOK, Positions
  <2>2. delivered - Len(worker.batch) <= delivered' - Ahead'
    BY <1>1, <1>2, <1>3
  <2>3. delivered - Len(worker.batch) \in Nat /\ delivered' - Ahead' \in Nat
    BY <1>1, <1>2, <1>3
  <2>. QED  BY <2>1, <2>2, <2>3, <1>1 DEF PostsAreBehind
<1>5. BatchIsLast' /\ PostedInOrderAndOnce' /\ HeadIsPosted' /\ HeadIsNotification'
  BY <1>t, <1>1, <1>2
     DEF WorkerInv, BatchIsLast, PostedInOrderAndOnce, HeadIsPosted, HeadIsNotification
<1>6. HeldArePending' /\ GivenUpForCause'
  BY <1>t, <1>1, <1>2 DEF WorkerInv, HeldArePending, GivenUpForCause
<1>. QED  BY <1>4, <1>5, <1>6 DEF WorkerInv

\* A post takes the next position of all.
LEMMA PostWorkerInv == IInv /\ Post => WorkerInv'
<1>. SUFFICES ASSUME IInv, Post PROVE WorkerInv'
  OBVIOUS
<1>t. TypeOK /\ WorkerInv /\ BatchIsLast /\ HeldArePending
  BY DEF IInv, WorkerInv
<1>. DEFINE n == Len(worker.batch)
<1>1. PICK ok \in BOOLEAN :
        /\ posts' = Append(posts, <<Position, ok>>)
        /\ worker' = IF stream[Position].sub = NoSub
                     THEN [pc |-> "ack", batch |-> worker.batch]
                     ELSE [pc |-> "get", batch |-> worker.batch, ok |-> ok]
  BY DEF Post
<1>2. worker.pc = "post" /\ UNCHANGED <<stream, delivered, pending, crashes, lost>>
  BY DEF Post
<1>3. Working /\ Ahead = n
  BY <1>2 DEF Working, Ahead
<1>4. /\ n \in 1 .. delivered /\ delivered \in Nat
      /\ Position = delivered - n + 1
  BY <1>t, <1>3, HeadOfBatch
<1>5. /\ worker'.batch = worker.batch
      /\ worker'.pc \in {"ack", "get"}
      /\ worker'.pc = "get" => stream[Position].sub # NoSub
  BY <1>1
<1>6. Position' = Position /\ Working' /\ Posting' /\ Ahead' = n - 1
  BY <1>5 DEF Position, Working, Posting, Ahead
<1>. HIDE DEF n
<1>7. /\ DOMAIN posts = 1 .. Len(posts) /\ Len(posts) \in Nat
      /\ DOMAIN posts' = 1 .. Len(posts) + 1
      /\ \A k \in DOMAIN posts : posts'[k] = posts[k]
      /\ posts'[Len(posts) + 1] = <<Position, ok>>
  BY <1>t, <1>1 DEF TypeOK
<1>8. \A k \in DOMAIN posts : posts[k][1] \in Nat /\ posts[k][1] < Position
  <2>1. \A k \in DOMAIN posts : posts[k][1] \in Nat
    BY <1>t, <1>7 DEF TypeOK, Positions
  <2>2. \A k \in DOMAIN posts : posts[k][1] <= delivered - n
    BY <1>t, <1>3 DEF WorkerInv, PostsAreBehind
  <2>. QED  BY <2>1, <2>2, <1>4
<1>9. \A i : Posted(i) => Posted(i)'
  BY <1>7 DEF Posted
<1>10. BatchIsLast'
  BY <1>t, <1>2, <1>3, <1>5 DEF BatchIsLast
<1>11. PostsAreBehind'
  <2>1. delivered' - Ahead' = Position
    BY <1>2, <1>4, <1>6
  <2>2. \A k \in DOMAIN posts' : posts'[k][1] <= Position
    BY <1>4, <1>7, <1>8
  <2>. QED  BY <2>1, <2>2 DEF PostsAreBehind
<1>12. HeadIsPosted'
  BY <1>6, <1>7 DEF HeadIsPosted, Posted
<1>13. HeadIsNotification'
  BY <1>2, <1>5, <1>6 DEF HeadIsNotification
<1>14. HeldArePending'
  BY <1>t, <1>2, <1>3, <1>5 DEF HeldArePending, Decodes
<1>15. PostedInOrderAndOnce'
  <2>1. \A j, k \in DOMAIN posts : j < k => posts[j][1] < posts[k][1]
    BY <1>t DEF WorkerInv, PostedInOrderAndOnce
  <2>. QED  BY <2>1, <1>7, <1>8 DEF PostedInOrderAndOnce
<1>16. GivenUpForCause'
  <2>1. \A i : Held(i) => Held(i)'
    BY <1>5 DEF Held
  <2>. QED  BY <2>1, <1>t, <1>2, <1>9 DEF WorkerInv, GivenUpForCause, Decodes, Addressless
<1>. QED  BY <1>10, <1>11, <1>12, <1>13, <1>14, <1>15, <1>16 DEF WorkerInv

\* Counting, or failing to count, leaves the batch in hand.
LEMMA CountWorkerInv ==
    IInv /\ (GetSubscription \/ ReplaceSubscription \/ MarkFails) => WorkerInv'
<1>. SUFFICES ASSUME IInv, GetSubscription \/ ReplaceSubscription \/ MarkFails
              PROVE  WorkerInv'
  OBVIOUS
<1>t. TypeOK /\ WorkerInv
  BY DEF IInv
<1>1. /\ worker.pc \in {"get", "replace"}
      /\ worker'.pc \in {"replace", "ack"}
      /\ worker'.batch = worker.batch
      /\ UNCHANGED <<stream, delivered, pending, crashes, posts, lost>>
  BY DEF GetSubscription, ReplaceSubscription, MarkFails
<1>2. /\ Working /\ Posting /\ Working' /\ Posting'
      /\ Position' = Position /\ Ahead' = Ahead
      /\ \A i : Held(i)' <=> Held(i)
      /\ \A i : Posted(i)' <=> Posted(i)
      /\ \A i : Decodes(i)' <=> Decodes(i)
      /\ \A i : Addressless(i)' <=> Addressless(i)
  BY <1>1 DEF Working, Posting, Position, Ahead, Held, Posted, Decodes, Addressless
<1>3. BatchIsLast' /\ PostsAreBehind' /\ HeadIsPosted' /\ PostedInOrderAndOnce'
  BY <1>t, <1>1, <1>2
     DEF WorkerInv, BatchIsLast, PostsAreBehind, HeadIsPosted, PostedInOrderAndOnce
<1>4. HeadIsNotification' /\ HeldArePending'
  BY <1>t, <1>1, <1>2 DEF WorkerInv, HeadIsNotification, HeldArePending
<1>5. GivenUpForCause'
  BY <1>t, <1>1, <1>2 DEF WorkerInv, GivenUpForCause
<1>. QED  BY <1>3, <1>4, <1>5 DEF WorkerInv

\* An acknowledgement, made or failed, ends with the head, which was posted if it could.
LEMMA AckWorkerInv == IInv /\ (Ack \/ AckFails) => WorkerInv'
<1>. SUFFICES ASSUME IInv, Ack \/ AckFails PROVE WorkerInv'
  OBVIOUS
<1>t. TypeOK /\ WorkerInv /\ BatchIsLast
  BY DEF IInv, WorkerInv
<1>. DEFINE n == Len(worker.batch)
            rest == Tail(worker.batch)
<1>1. /\ worker.pc = "ack" /\ NextInBatch
      /\ pending' \in {pending, pending \ {Position}}
      /\ UNCHANGED <<stream, delivered, crashes, posts, lost>>
  BY DEF Ack, AckFails
<1>2. Working /\ Posting /\ Ahead = n - 1
  BY <1>1 DEF Working, Posting, Ahead
<1>3. /\ n \in 1 .. delivered /\ delivered \in Nat
      /\ Position = delivered - n + 1
      /\ ToSet(worker.batch) = delivered - n + 1 .. delivered
      /\ ToSet(rest) = delivered - n + 2 .. delivered
      /\ worker.batch \in Seq(Positions)
  BY <1>t, <1>2, HeadOfBatch
<1>4. Len(rest) = n - 1 /\ \A k \in 1 .. n - 1 : rest[k] = worker.batch[k + 1]
  BY <1>3, BatchParts
<1>5. worker' = IF n = 1 THEN Idle ELSE [pc |-> "post", batch |-> rest]
  BY <1>1 DEF NextInBatch
<1>6. \A k \in 1 .. n : worker.batch[k] = delivered - n + k
  BY <1>t, <1>2 DEF BatchIsLast
<1>. HIDE DEF n, rest
<1>7. Ahead' = n - 1 /\ ~Posting' /\ (Working' <=> n # 1)
  <2>1. CASE n = 1
    BY <2>1, <1>5 DEF Idle, Ahead, Posting, Working
  <2>2. CASE n # 1
    BY <2>2, <1>4, <1>5 DEF Ahead, Posting, Working
  <2>. QED  BY <2>1, <2>2
<1>8. (Posted(Position) \/ Addressless(Position)) /\ Decodes(Position)
  <2>1. Position \in ToSet(worker.batch)
    BY <1>3
  <2>. QED  BY <2>1, <1>t, <1>2 DEF WorkerInv, HeadIsPosted, HeldArePending
<1>9. BatchIsLast'
  <2>1. CASE n = 1
    BY <2>1, <1>7 DEF BatchIsLast
  <2>2. CASE n # 1
    <3>1. worker'.batch = rest
      BY <2>2, <1>5
    <3>2. Len(rest) \in 1 .. delivered
      BY <2>2, <1>3, <1>4
    <3>3. ASSUME NEW k \in 1 .. Len(rest)
          PROVE  rest[k] = delivered - Len(rest) + k
      <4>1. k \in 1 .. n - 1 /\ k + 1 \in 1 .. n
        BY <1>3, <1>4
      <4>2. rest[k] = delivered - n + (k + 1)
        BY <4>1, <1>4, <1>6
      <4>. QED  BY <4>2, <1>3, <1>4
    <3>. QED  BY <3>1, <3>2, <3>3, <1>1 DEF BatchIsLast
  <2>. QED  BY <2>1, <2>2
<1>10. PostsAreBehind' /\ PostedInOrderAndOnce'
  BY <1>t, <1>1, <1>2, <1>7 DEF WorkerInv, PostsAreBehind, PostedInOrderAndOnce
<1>11. HeadIsPosted' /\ HeadIsNotification'
  BY <1>7 DEF HeadIsPosted, HeadIsNotification, Posting
<1>12. HeldArePending'
  <2>1. CASE n = 1
    BY <2>1, <1>7 DEF HeldArePending
  <2>2. CASE n # 1
    <3>1. \A i \in ToSet(rest) : i \in ToSet(worker.batch) /\ i # Position
      BY <1>3
    <3>. QED  BY <2>2, <3>1, <1>t, <1>1, <1>2, <1>5 DEF WorkerInv, HeldArePending, Decodes
  <2>. QED  BY <2>1, <2>2
<1>13. GivenUpForCause'
  <2>1. \A i : /\ Posted(i)' <=> Posted(i)
               /\ Decodes(i)' <=> Decodes(i)
               /\ Addressless(i)' <=> Addressless(i)
    BY <1>1 DEF Posted, Decodes, Addressless
  <2>2. \A i \in pending : i # Position => i \in pending'
    BY <1>1
  <2>3. \A i : Held(i) /\ i # Position => Held(i)'
    <3>1. \A i \in ToSet(worker.batch) : i # Position => n # 1 /\ i \in ToSet(rest)
      BY <1>3
    <3>. QED  BY <3>1, <1>5 DEF Held
  <2>. QED  BY <2>1, <2>2, <2>3, <1>t, <1>1, <1>8 DEF WorkerInv, GivenUpForCause
<1>. QED  BY <1>9, <1>10, <1>11, <1>12, <1>13 DEF WorkerInv

\* A crash gives up the batch in hand.
LEMMA CrashWorkerInv == IInv /\ Crash => WorkerInv'
<1>. SUFFICES ASSUME IInv, Crash PROVE WorkerInv'
  OBVIOUS
<1>t. TypeOK /\ WorkerInv
  BY DEF IInv
<1>1. /\ worker'.pc = "down" /\ crashes' > 0
      /\ UNCHANGED <<stream, delivered, pending, posts, lost>>
  BY <1>t, DeliveryAssumption DEF Crash, Down, TypeOK
<1>2. ~Working' /\ ~Posting' /\ Ahead' = 0
  BY <1>1 DEF Working, Posting, Ahead
<1>3. PostsAreBehind'
  <2>1. Ahead \in 0 .. delivered /\ delivered \in Nat
    BY <1>t, AheadBounds DEF WorkerInv
  <2>2. \A k \in DOMAIN posts : posts[k][1] \in Nat /\ posts[k][1] <= delivered - Ahead
    BY <1>t DEF WorkerInv, PostsAreBehind, TypeOK, Positions
  <2>. QED  BY <2>1, <2>2, <1>1, <1>2 DEF PostsAreBehind
<1>4. BatchIsLast' /\ HeadIsPosted' /\ HeadIsNotification' /\ HeldArePending'
  BY <1>1, <1>2 DEF BatchIsLast, HeadIsPosted, HeadIsNotification, HeldArePending
<1>5. PostedInOrderAndOnce' /\ GivenUpForCause'
  BY <1>t, <1>1 DEF WorkerInv, PostedInOrderAndOnce, GivenUpForCause, Posted, Addressless
<1>. QED  BY <1>3, <1>4, <1>5 DEF WorkerInv

LEMMA RestartWorkerInv == IInv /\ Restart => WorkerInv'
<1>. SUFFICES ASSUME IInv, Restart PROVE WorkerInv'
  OBVIOUS
<1>t. TypeOK /\ WorkerInv
  BY DEF IInv
<1>1. /\ worker.pc = "down" /\ worker'.pc = "idle"
      /\ UNCHANGED <<stream, delivered, pending, crashes, posts, lost>>
  BY DEF Restart, Down, Idle
<1>2. ~Working' /\ ~Posting' /\ Ahead' = Ahead
  BY <1>1 DEF Working, Posting, Ahead
<1>3. BatchIsLast' /\ HeadIsPosted' /\ HeadIsNotification' /\ HeldArePending'
  BY <1>1, <1>2 DEF BatchIsLast, HeadIsPosted, HeadIsNotification, HeldArePending
<1>4. PostsAreBehind' /\ PostedInOrderAndOnce' /\ GivenUpForCause'
  BY <1>t, <1>1, <1>2
     DEF WorkerInv, PostsAreBehind, PostedInOrderAndOnce, GivenUpForCause, Posted, Held, Decodes,
         Addressless
<1>. QED  BY <1>3, <1>4 DEF WorkerInv

-----------------------------------------------------------------------------
(* The invariant, and the properties that follow from it. *)

LEMMA StreamSteps ==
    ASSUME TypeOK,
           \/ \E n \in Notifiers : ListSubscriptions(n) \/ EnqueueOne(n) \/ EndLoop(n)
           \/ EnqueueSwim
           \/ \E s \in Subscriptions : Create(s) \/ Delete(s)
           \/ \E e \in Editors : \E s \in Subscriptions : ReadForPatch(e, s)
           \/ \E e \in Editors : WritePatch(e)
           \/ UNCHANGED vars
    PROVE  /\ UNCHANGED <<delivered, pending, worker, crashes, posts, lost>>
           /\ stream' = stream \/ \E m : stream' = Append(stream, m)
           /\ \A i \in 1 .. Len(stream) : stream'[i] = stream[i]
<1>1. UNCHANGED <<delivered, pending, worker, crashes, posts, lost>>
  BY DEF ListSubscriptions, EnqueueOne, EndLoop, EnqueueSwim, Create, Delete, Edit,
         ReadForPatch, WritePatch, vars
<1>2. stream' = stream \/ \E m : stream' = Append(stream, m)
  BY DEF ListSubscriptions, EnqueueOne, EndLoop, EnqueueSwim, Create, Delete, Edit,
         ReadForPatch, WritePatch, vars
<1>3. \A i \in 1 .. Len(stream) : stream'[i] = stream[i]
  BY <1>2 DEF TypeOK
<1>. QED  BY <1>1, <1>2, <1>3

LEMMA InitIInv == Init => IInv
BY InitTypeOK, InitWorkerInv DEF IInv

LEMMA NextIInv == IInv /\ [Next]_vars => IInv'
<1>. SUFFICES ASSUME IInv, [Next]_vars PROVE IInv'
  OBVIOUS
<1>1. TypeOK'
  BY NextTypeOK
<1>2. CASE Work
  BY <1>2, ReadBatchWorkerInv, SkipPostWorkerInv, PostWorkerInv, CountWorkerInv, AckWorkerInv, <1>1 DEF Work, IInv
<1>3. CASE ReadLost \/ MarkFails \/ AckFails \/ Crash \/ Restart
  BY <1>3, ReadLostWorkerInv, CountWorkerInv, AckWorkerInv, CrashWorkerInv, RestartWorkerInv, <1>1 DEF IInv
<1>4. CASE ~Work /\ ~(ReadLost \/ MarkFails \/ AckFails \/ Crash \/ Restart)
  <2>1. /\ UNCHANGED <<delivered, pending, worker, crashes, posts, lost>>
        /\ \A i \in 1 .. Len(stream) : stream'[i] = stream[i]
    BY <1>4, StreamSteps DEF Next, IInv
  <2>. QED  BY <2>1, <1>1, StreamExtended DEF IInv
<1>. QED  BY <1>2, <1>3, <1>4

\* The worker's batch is what was given out last, pending and decoded, and what was
\* posted lies behind it.
THEOREM Invariance == Spec => []IInv
BY InitIInv, NextIInv, PTL DEF Spec

\* Every variable of DeliveryQueue keeps its type.
THEOREM TypeCorrect == Spec => []TypeOK
<1>1. IInv => TypeOK
  BY DEF IInv
<1>. QED  BY <1>1, Invariance, PTL

\* No entry is posted twice or out of turn (process_queue_message), whatever fails.
THEOREM PostsAreInOrderAndSingle == Spec => []PostedInOrderAndOnce
<1>1. IInv => PostedInOrderAndOnce
  BY DEF IInv, WorkerInv
<1>. QED  BY <1>1, Invariance, PTL

\* An entry is acknowledged only if it was posted or has no address, and stranded only
\* by a crash, by a lost reply or by an entry near it that does not decode.
THEOREM StrandedForCause == Spec => []GivenUpForCause
<1>1. IInv => GivenUpForCause
  BY DEF IInv, WorkerInv
<1>. QED  BY <1>1, Invariance, PTL

-----------------------------------------------------------------------------
(* The channel. *)

LEMMA RemainingIsAhead ==
    ASSUME TypeOK, BatchIsLast
    PROVE  Len(Remaining) = Ahead
<1>1. CASE worker.pc = "post"
  BY <1>1 DEF Remaining, Ahead
<1>2. CASE Posting
  <2>1. worker.batch \in Seq(Positions) /\ Len(worker.batch) >= 1
    BY <1>2, HeadOfBatch DEF Working, Posting
  <2>2. Len(Tail(worker.batch)) = Len(worker.batch) - 1
    BY <2>1, BatchParts
  <2>. QED  BY <1>2, <2>2 DEF Remaining, Ahead, Posting
<1>3. CASE worker.pc # "post" /\ ~Posting
  BY <1>3 DEF Remaining, Ahead, Posting
<1>. QED  BY <1>1, <1>2, <1>3

\* The channel's cursor is what was given out less what is still to be posted.
RemainingFits ==
    /\ Len(Remaining) = Ahead
    /\ Ahead \in 0 .. delivered

LEMMA RemainingAlwaysFits == IInv => RemainingFits
BY RemainingIsAhead, AheadBounds DEF IInv, WorkerInv, RemainingFits

LEMMA InitChannel == Init => Channel!ChannelInit
<1>. SUFFICES ASSUME Init PROVE Channel!ChannelInit
  OBVIOUS
<1>1. stream = <<>> /\ posts = <<>> /\ delivered = 0 /\ worker.pc = "idle"
  BY DEF Init, Idle
<1>2. Attempted = <<>>
  BY <1>1 DEF Attempted
<1>3. Len(Remaining) = 0
  BY <1>1 DEF Remaining
<1>. QED  BY <1>1, <1>2, <1>3 DEF Channel!ChannelInit

LEMMA NextChannel ==
    IInv /\ IInv' /\ RemainingFits /\ RemainingFits' /\ [Next]_vars
        => [Channel!ChannelNext]_(Channel!channelVars)
<1>. SUFFICES ASSUME IInv, IInv', RemainingFits, RemainingFits', [Next]_vars
              PROVE  [Channel!ChannelNext]_(Channel!channelVars)
  OBVIOUS
<1>t. /\ TypeOK /\ BatchIsLast /\ TypeOK' /\ BatchIsLast'
  BY DEF IInv, WorkerInv
<1>. DEFINE cursor == delivered - Len(Remaining)
<1>1. /\ cursor = delivered - Ahead /\ cursor' = delivered' - Ahead'
      /\ cursor \in 0 .. delivered /\ cursor' \in 0 .. delivered'
      /\ delivered \in Nat /\ delivered' \in Nat
      /\ delivered' <= Len(stream') /\ Len(stream') \in Nat
  <2>1. Ahead \in 0 .. delivered /\ Ahead' \in 0 .. delivered'
    BY DEF RemainingFits
  <2>2. Len(Remaining) = Ahead /\ Len(Remaining)' = Ahead'
    BY DEF RemainingFits
  <2>3. Len(stream) \in Nat /\ delivered \in 0 .. Len(stream)
    BY <1>t DEF TypeOK
  <2>4. Len(stream') \in Nat /\ delivered' \in 0 .. Len(stream')
    BY <1>t DEF TypeOK
  <2>5. cursor = delivered - Ahead
    BY <2>2
  <2>6. cursor' = delivered' - Ahead'
    BY <2>2
  <2>. HIDE DEF cursor
  <2>7. delivered \in Nat /\ delivered' \in Nat
    BY <2>3, <2>4
  <2>8. cursor \in 0 .. delivered
    BY <2>1, <2>5, <2>7
  <2>9. cursor' \in 0 .. delivered'
    <3>1. delivered' - Ahead' \in 0 .. delivered'
      <4>1. delivered' \in Nat /\ Ahead' \in 0 .. delivered'
        BY <2>1, <2>7
      <4>2. \A d \in Nat : \A a \in 0 .. d : d - a \in 0 .. d
        OBVIOUS
      <4>. QED  BY <4>1, <4>2
    <3>. QED  BY <3>1, <2>6
  <2>. QED  BY <2>3, <2>4, <2>5, <2>6, <2>7, <2>8, <2>9
<1>. HIDE DEF cursor
\* The three ways a step can look to the channel.
<1>2. ASSUME stream' = stream, posts' = posts, cursor' = cursor
      PROVE  UNCHANGED Channel!channelVars
  BY <1>2 DEF Channel!channelVars, Attempted, cursor
<1>3. ASSUME stream' = stream, posts' = posts, cursor' > cursor
      PROVE  Channel!GiveUp
  <2>1. cursor' \in cursor + 1 .. Len(stream)
    BY <1>1, <1>3
  <2>2. Attempted' = Attempted
    BY <1>3 DEF Attempted
  <2>. QED  BY <2>1, <2>2, <1>3 DEF Channel!GiveUp, cursor
<1>4. ASSUME NEW m \in Message, stream' = Append(stream, m),
             UNCHANGED <<posts, delivered, worker>>
      PROVE  Channel!Accept
  BY <1>4 DEF Channel!Accept, Attempted, Remaining
<1>5. CASE \/ \E n \in Notifiers : ListSubscriptions(n) \/ EndLoop(n)
           \/ \E s \in Subscriptions : Create(s) \/ Delete(s)
           \/ \E e \in Editors : \E s \in Subscriptions : ReadForPatch(e, s)
           \/ \E e \in Editors : WritePatch(e)
           \/ UNCHANGED vars
  <2>1. UNCHANGED <<stream, delivered, worker, posts>>
    BY <1>5 DEF ListSubscriptions, EndLoop, Create, Delete, Edit, ReadForPatch, WritePatch, vars
  <2>2. cursor' = cursor
    BY <2>1 DEF cursor, Remaining
  <2>. QED  BY <2>1, <2>2, <1>2
<1>6. ASSUME NEW n \in Notifiers, EnqueueOne(n) PROVE Channel!Accept
  <2>1. PICK s \in notifier[n], kind \in Notifications :
          stream' = Append(stream, [sub |-> s, kind |-> kind])
    BY <1>6 DEF EnqueueOne
  <2>2. s \in Subscriptions
    BY <1>6, <1>t DEF EnqueueOne, Idle, TypeOK
  <2>3. UNCHANGED <<posts, delivered, worker>>
    BY <1>6 DEF EnqueueOne
  <2>. QED  BY <2>1, <2>2, <2>3, <1>4, MessageTypes
<1>7. CASE EnqueueSwim
  <2>1. PICK kind \in Events :
          stream' = Append(stream, [sub |-> NoSub, kind |-> kind])
    BY <1>7 DEF EnqueueSwim
  <2>2. UNCHANGED <<posts, delivered, worker>>
    BY <1>7 DEF EnqueueSwim
  <2>. QED  BY <2>1, <2>2, <1>4, MessageTypes DEF Channel!ChannelNext
<1>8. CASE ReadBatch
  <2>1. /\ worker = Idle /\ stream' = stream /\ posts' = posts
        /\ delivered' = delivered + NewCount
        /\ worker' = [pc |-> "post", batch |-> NewEntries] \/ worker' = Idle
    BY <1>8 DEF ReadBatch
  <2>2. NewCount \in Nat /\ NewCount >= 1 /\ Len(NewEntries) = NewCount
    BY <1>8, <1>t, NewEntriesAreNext DEF ReadBatch
  <2>3. Ahead = 0 /\ (Ahead' = NewCount \/ Ahead' = 0)
    BY <2>1, <2>2 DEF Ahead, Posting, Idle
  <2>4. cursor' = cursor \/ cursor' > cursor
    BY <1>1, <2>1, <2>2, <2>3
  <2>. QED  BY <2>1, <2>4, <1>2, <1>3 DEF Channel!ChannelNext
<1>13. CASE ReadLost
  <2>1. /\ worker = Idle /\ stream' = stream /\ posts' = posts
        /\ delivered' = delivered + NewCount /\ worker' = Idle
    BY <1>13 DEF ReadLost
  <2>2. NewCount \in Nat
    BY <1>t, NewEntriesAreNext
  <2>3. Ahead = 0 /\ Ahead' = 0
    BY <2>1 DEF Ahead, Posting, Idle
  <2>4. cursor' = cursor \/ cursor' > cursor
    BY <1>1, <2>1, <2>2, <2>3
  <2>. QED  BY <2>1, <2>4, <1>2, <1>3 DEF Channel!ChannelNext
<1>14. CASE SkipPost
  <2>1. /\ UNCHANGED <<stream, posts, delivered>>
        /\ worker.pc = "post" /\ worker'.pc = "ack" /\ worker'.batch = worker.batch
    BY <1>14 DEF SkipPost
  <2>2. Len(worker.batch) \in 1 .. delivered
    BY <2>1, <1>t, HeadOfBatch DEF Working
  <2>3. PICK n \in 1 .. delivered : Ahead = n /\ Ahead' = n - 1
    BY <2>1, <2>2 DEF Ahead, Posting
  <2>4. cursor' > cursor
    <3>1. delivered \in Nat /\ delivered' = delivered
      BY <2>1, <1>t DEF TypeOK
    <3>2. cursor' = delivered - (n - 1) /\ cursor = delivered - n
      BY <1>1, <2>3, <3>1
    <3>3. delivered - (n - 1) > delivered - n
      BY <3>1
    <3>. QED  BY <3>2, <3>3
  <2>. QED  BY <2>1, <2>4, <1>3 DEF Channel!ChannelNext
<1>9. CASE Post
  <2>1. PICK ok \in BOOLEAN :
          /\ posts' = Append(posts, <<Position, ok>>)
          /\ worker' = IF stream[Position].sub = NoSub
                       THEN [pc |-> "ack", batch |-> worker.batch]
                       ELSE [pc |-> "get", batch |-> worker.batch, ok |-> ok]
    BY <1>9 DEF Post
  <2>2. worker.pc = "post" /\ UNCHANGED <<stream, delivered>>
    BY <1>9 DEF Post
  <2>3. /\ Len(worker.batch) \in 1 .. delivered
        /\ Position = delivered - Len(worker.batch) + 1
        /\ Position \in Positions
    BY <2>2, <1>t, HeadOfBatch DEF Working
  <2>4. Ahead = Len(worker.batch) /\ Ahead' = Len(worker.batch) - 1
    BY <2>1, <2>2 DEF Ahead, Posting
  <2>5. Position = cursor + 1 /\ cursor' = cursor + 1 /\ cursor < Len(stream)
    BY <1>1, <2>2, <2>3, <2>4
  <2>6. Attempted' = Append(Attempted, Position)
    <3>1. /\ DOMAIN posts = 1 .. Len(posts) /\ Len(posts) \in Nat
          /\ DOMAIN posts' = 1 .. Len(posts) + 1
          /\ \A k \in 1 .. Len(posts) : posts'[k] = posts[k] /\ posts[k][1] \in Positions
          /\ posts'[Len(posts) + 1] = <<Position, ok>>
      BY <1>t, <2>1 DEF TypeOK
    <3>2. Attempted \in Seq(Positions) /\ Len(Attempted) = Len(posts)
      BY <3>1 DEF Attempted
    <3>3. Attempted' \in Seq(Positions) /\ Len(Attempted') = Len(posts) + 1
      BY <3>1, <2>3 DEF Attempted
    <3>4. \A k \in 1 .. Len(posts) + 1 :
            Attempted'[k] = IF k = Len(posts) + 1 THEN Position ELSE Attempted[k]
      BY <3>1 DEF Attempted
    <3>5. /\ Append(Attempted, Position) \in Seq(Positions)
          /\ Len(Append(Attempted, Position)) = Len(posts) + 1
          /\ \A k \in 1 .. Len(posts) + 1 :
               Append(Attempted, Position)[k]
                  = IF k = Len(posts) + 1 THEN Position ELSE Attempted[k]
      BY <3>2, <2>3, AppendProperties
    <3>. QED  BY <3>3, <3>4, <3>5, SeqEqual
  <2>7. Channel!Attempt
    BY <2>2, <2>5, <2>6 DEF Channel!Attempt, cursor
  <2>. QED  BY <2>7 DEF Channel!ChannelNext
<1>10. CASE GetSubscription \/ ReplaceSubscription \/ MarkFails
  <2>1. /\ UNCHANGED <<stream, posts, delivered>>
        /\ Posting /\ worker'.pc \in {"replace", "ack"} /\ worker'.batch = worker.batch
    BY <1>10 DEF GetSubscription, ReplaceSubscription, MarkFails, Posting
  <2>2. Ahead' = Ahead
    BY <2>1 DEF Ahead, Posting
  <2>. QED  BY <2>1, <2>2, <1>1, <1>2
<1>11. CASE Ack \/ AckFails
  <2>1. /\ UNCHANGED <<stream, posts, delivered>>
        /\ worker.pc = "ack" /\ NextInBatch
    BY <1>11 DEF Ack, AckFails
  <2>2. worker.batch \in Seq(Positions) /\ Len(worker.batch) >= 1
    BY <2>1, <1>t, HeadOfBatch DEF Working
  <2>3. Len(Tail(worker.batch)) = Len(worker.batch) - 1
    BY <2>2, BatchParts
  <2>4. CASE Len(worker.batch) = 1
    <3>1. Ahead = 0 /\ Ahead' = 0
      BY <2>1, <2>4 DEF NextInBatch, Ahead, Posting, Idle
    <3>. QED  BY <2>1, <3>1, <1>1, <1>2
  <2>5. CASE Len(worker.batch) # 1
    <3>1. Ahead = Len(worker.batch) - 1 /\ Ahead' = Len(worker.batch) - 1
      BY <2>1, <2>3, <2>5 DEF NextInBatch, Ahead, Posting
    <3>. QED  BY <2>1, <3>1, <1>1, <1>2
  <2>. QED  BY <2>4, <2>5
<1>12. CASE Crash \/ Restart
  <2>1. UNCHANGED <<stream, posts, delivered>> /\ worker'.pc \in {"down", "idle"}
    BY <1>12 DEF Crash, Restart, Down, Idle
  <2>2. Ahead' = 0
    BY <2>1 DEF Ahead, Posting
  <2>3. cursor' = cursor \/ cursor' > cursor
    BY <1>1, <2>1, <2>2
  <2>. QED  BY <2>1, <2>3, <1>2, <1>3 DEF Channel!ChannelNext
<1>. QED
  BY <1>5, <1>6, <1>7, <1>8, <1>9, <1>10, <1>11, <1>12, <1>13, <1>14
     DEF Next, Work, Channel!ChannelNext

\* The stream and its worker implement the channel (but for its fairness).
THEOREM ImplementsDeliveryChannel == Spec => Channel!ChannelSpec
<1>1. Init => Channel!ChannelInit
  BY InitChannel
<1>2. IInv /\ IInv' /\ RemainingFits /\ RemainingFits' /\ [Next]_vars
        => [Channel!ChannelNext]_(Channel!channelVars)
  BY NextChannel
<1>3. IInv => RemainingFits
  BY RemainingAlwaysFits
<1>. QED  BY <1>1, <1>2, <1>3, Invariance, PTL DEF Spec, Channel!ChannelSpec

-----------------------------------------------------------------------------
(* The delivery counters never run ahead of the posts.                         *)

(* The posts that a document may count. *)

\* The last post has not been counted yet by a worker about to read the document.
Uncounted == IF worker.pc = "get" THEN {Len(posts)} ELSE {}
Accounted(s, outcomes, since) == PostsTo(s, outcomes, since) \ Uncounted

Total(s, since) == Cardinality(Accounted(s, BOOLEAN, since))
Failures(s, since) == Cardinality(Accounted(s, {FALSE}, since))

\* Counters that a document may have: each a base and the accounted posts since.
Unclaimed(s) == claimed[s].sent \cup claimed[s].failed = {}
Covers(s, sent, failed) ==
    /\ \E base \in Bases(s, "sent") : sent <= base[1] + Total(s, base[2])
    /\ \E base \in Bases(s, "failed") : failed <= base[1] + Failures(s, base[2])
    /\ Unclaimed(s) => failed <= sent
Covered(s, doc) == Covers(s, doc.sent, doc.failed)

\* Every copy of a document, wherever it waits to be written, counts no more.
StoredCovered == \A s \in Subscriptions : subs[s] # NoSub => Covered(s, subs[s])
EditsCovered ==
    \A e \in Editors, s \in Subscriptions :
        editor[e].pc = "replace" /\ editor[e].sub = s => Covered(s, editor[e].doc)
CountedCovered ==
    \A s \in Subscriptions :
        worker.pc = "replace" /\ stream[Position].sub = s => Covered(s, worker.doc)
LastIsHead ==
    worker.pc = "get" =>
        Len(posts) > 0 /\ posts[Len(posts)] = <<Position, worker.ok>>

\* No base follows a post that is still to be counted.
BasesSettled ==
    \A s \in Subscriptions, counter \in {"sent", "failed"} :
        \A base \in Bases(s, counter) : base \in Nat \X Nat /\ base[2] <= Settled

CountersInv == StoredCovered /\ EditsCovered /\ CountedCovered /\ LastIsHead /\ BasesSettled

-----------------------------------------------------------------------------
(* Their numbers are finite and only grow. *)

AccountedFits ==
    \A s \in Subscriptions, outcomes \in SUBSET BOOLEAN, since \in Nat :
        /\ IsFiniteSet(PostsTo(s, outcomes, since))
        /\ IsFiniteSet(Accounted(s, outcomes, since))
        /\ Cardinality(Accounted(s, outcomes, since)) \in Nat
        /\ Cardinality(Accounted(s, outcomes, since))
             <= Cardinality(PostsTo(s, outcomes, since))

\* The sets of posts have numbers.
LEMMA AccountedAlwaysFits == TypeOK => AccountedFits
<1>. SUFFICES ASSUME TypeOK, NEW s \in Subscriptions, NEW outcomes \in SUBSET BOOLEAN,
                     NEW since \in Nat
              PROVE  /\ IsFiniteSet(PostsTo(s, outcomes, since))
                     /\ IsFiniteSet(Accounted(s, outcomes, since))
                     /\ Cardinality(Accounted(s, outcomes, since)) \in Nat
                     /\ Cardinality(Accounted(s, outcomes, since))
                          <= Cardinality(PostsTo(s, outcomes, since))
  BY DEF AccountedFits
<1>1. Len(posts) \in Nat /\ DOMAIN posts = 1 .. Len(posts)
  BY DEF TypeOK
<1>2. IsFiniteSet(1 .. Len(posts))
  BY <1>1, FS_Interval
<1>3. PostsTo(s, outcomes, since) \in SUBSET (1 .. Len(posts))
  BY <1>1 DEF PostsTo
<1>4. IsFiniteSet(PostsTo(s, outcomes, since))
  BY <1>2, <1>3, FS_Subset
<1>5. Accounted(s, outcomes, since) \in SUBSET PostsTo(s, outcomes, since)
  BY DEF Accounted
<1>6. /\ IsFiniteSet(Accounted(s, outcomes, since))
      /\ Cardinality(Accounted(s, outcomes, since))
           <= Cardinality(PostsTo(s, outcomes, since))
  BY <1>4, <1>5, FS_Subset
<1>7. Cardinality(Accounted(s, outcomes, since)) \in Nat
  BY <1>6, FS_CardinalityType
<1>. QED  BY <1>4, <1>6, <1>7

\* A step adds at most one post, keeps the messages of the earlier ones, and leaves none
\* of them uncounted that was counted.
LEMMA PostsKept ==
    ASSUME IInv, [Next]_vars
    PROVE  \A k \in DOMAIN posts :
              /\ k \in DOMAIN posts'
              /\ posts'[k] = posts[k]
              /\ stream'[posts[k][1]] = stream[posts[k][1]]
              /\ k \in Uncounted' => k \in Uncounted
<1>t. TypeOK /\ WorkerInv
  BY DEF IInv
<1>1. \A k \in DOMAIN posts : posts[k][1] \in 1 .. Len(stream)
  <2>1. Ahead \in 0 .. delivered /\ delivered \in 0 .. Len(stream) /\ Len(stream) \in Nat
    BY <1>t, AheadBounds DEF WorkerInv, TypeOK
  <2>2. \A k \in DOMAIN posts : posts[k][1] \in Positions /\ posts[k][1] <= delivered - Ahead
    BY <1>t DEF WorkerInv, PostsAreBehind, TypeOK
  <2>. QED  BY <2>1, <2>2 DEF Positions
<1>2. CASE Post
  <2>1. PICK ok \in BOOLEAN :
          /\ posts' = Append(posts, <<Position, ok>>)
          /\ worker' = IF stream[Position].sub = NoSub
                       THEN [pc |-> "ack", batch |-> worker.batch]
                       ELSE [pc |-> "get", batch |-> worker.batch, ok |-> ok]
    BY <1>2 DEF Post
  <2>2. stream' = stream
    BY <1>2 DEF Post
  <2>3. /\ Len(posts) \in Nat /\ DOMAIN posts = 1 .. Len(posts)
        /\ DOMAIN posts' = 1 .. Len(posts) + 1 /\ Len(posts') = Len(posts) + 1
        /\ \A k \in 1 .. Len(posts) : posts'[k] = posts[k]
    BY <1>t, <2>1 DEF TypeOK
  <2>4. \A k \in Uncounted' : k = Len(posts) + 1
    BY <2>3 DEF Uncounted
  <2>. QED  BY <2>2, <2>3, <2>4
<1>3. CASE ~Post
  <2>1. posts' = posts /\ (worker'.pc = "get" => worker.pc = "get")
    <3>1. CASE Work \/ ReadLost \/ MarkFails \/ AckFails \/ Crash \/ Restart
      BY <1>3, <3>1 DEF Work, ReadBatch, ReadLost, SkipPost, GetSubscription, ReplaceSubscription, Ack, AckFails,
         NextInBatch, MarkFails, Crash, Restart, Idle, Down
    <3>2. CASE ~(Work \/ ReadLost \/ MarkFails \/ AckFails \/ Crash \/ Restart)
      BY <1>t, <3>2, StreamSteps DEF Next
    <3>. QED  BY <3>1, <3>2
  <2>2. \A i \in 1 .. Len(stream) : stream'[i] = stream[i]
    <3>1. CASE Work \/ ReadLost \/ MarkFails \/ AckFails \/ Crash \/ Restart
      BY <3>1 DEF Work, ReadBatch, ReadLost, SkipPost, Post, GetSubscription, ReplaceSubscription, Ack, AckFails,
         MarkFails, Crash, Restart
    <3>2. CASE ~(Work \/ ReadLost \/ MarkFails \/ AckFails \/ Crash \/ Restart)
      BY <1>t, <3>2, StreamSteps DEF Next
    <3>. QED  BY <3>1, <3>2
  <2>. QED  BY <1>1, <2>1, <2>2 DEF Uncounted
<1>. QED  BY <1>2, <1>3

Grow ==
    \A s \in Subscriptions :
        /\ \A since \in Nat :
             /\ Total(s, since) \in Nat /\ Total(s, since)' \in Nat
             /\ Total(s, since) <= Total(s, since)'
             /\ Failures(s, since) \in Nat /\ Failures(s, since)' \in Nat
             /\ Failures(s, since) <= Failures(s, since)'
        /\ claimed[s].sent \subseteq claimed'[s].sent
        /\ claimed[s].failed \subseteq claimed'[s].failed

\* What clients wrote is never forgotten.
LEMMA ClaimsKept ==
    ASSUME TypeOK, [Next]_vars, NEW s \in Subscriptions
    PROVE  /\ claimed[s].sent \subseteq claimed'[s].sent
           /\ claimed[s].failed \subseteq claimed'[s].failed
<1>1. ASSUME NEW e \in Editors, WritePatch(e)
      PROVE  /\ claimed[s].sent \subseteq claimed'[s].sent
             /\ claimed[s].failed \subseteq claimed'[s].failed
  <2>1. PICK doc \in Patched(editor[e].doc) :
          claimed' = [claimed EXCEPT
                ![editor[e].sub].sent = @ \cup Claim(editor[e].doc, doc, "sent"),
                ![editor[e].sub].failed = @ \cup Claim(editor[e].doc, doc, "failed")]
    BY <1>1 DEF WritePatch
  <2>. QED  BY <2>1 DEF TypeOK
<1>2. CASE UNCHANGED claimed
  BY <1>2
<1>3. (\E e \in Editors : WritePatch(e)) \/ UNCHANGED claimed
  BY DEF Next, Work, ListSubscriptions, EnqueueOne, EndLoop, EnqueueSwim, Create, Delete,
     ReadForPatch, ReadBatch, ReadLost, SkipPost, Post, GetSubscription,
     ReplaceSubscription, Ack, MarkFails, AckFails, Crash, Restart, vars
<1>. QED  BY <1>1, <1>2, <1>3

\* No step takes back a post.
LEMMA NextGrow == IInv /\ AccountedFits /\ AccountedFits' /\ [Next]_vars => Grow
<1>. SUFFICES ASSUME IInv, AccountedFits, AccountedFits', [Next]_vars,
                     NEW s \in Subscriptions, NEW since \in Nat
              PROVE  /\ Total(s, since) \in Nat /\ Total(s, since)' \in Nat
                     /\ Total(s, since) <= Total(s, since)'
                     /\ Failures(s, since) \in Nat /\ Failures(s, since)' \in Nat
                     /\ Failures(s, since) <= Failures(s, since)'
  BY ClaimsKept DEF Grow, IInv
<1>1. ASSUME NEW outcomes \in SUBSET BOOLEAN
      PROVE  /\ Cardinality(Accounted(s, outcomes, since)) \in Nat
             /\ Cardinality(Accounted(s, outcomes, since)') \in Nat
             /\ Cardinality(Accounted(s, outcomes, since))
                  <= Cardinality(Accounted(s, outcomes, since)')
  <2>1. \A k \in DOMAIN posts :
              /\ k \in DOMAIN posts'
              /\ posts'[k] = posts[k]
              /\ stream'[posts[k][1]] = stream[posts[k][1]]
              /\ k \in Uncounted' => k \in Uncounted
    BY PostsKept
  <2>2. Accounted(s, outcomes, since) \in SUBSET (Accounted(s, outcomes, since)')
    BY <2>1 DEF Accounted, PostsTo
  <2>3. IsFiniteSet(Accounted(s, outcomes, since)')
    BY DEF AccountedFits
  <2>4. Cardinality(Accounted(s, outcomes, since))
          <= Cardinality(Accounted(s, outcomes, since)')
    BY <2>2, <2>3, FS_Subset
  <2>. QED  BY <2>4 DEF AccountedFits
<1>2. BOOLEAN \in SUBSET BOOLEAN /\ {FALSE} \in SUBSET BOOLEAN
  OBVIOUS
<1>. QED  BY <1>1, <1>2 DEF Total, Failures

-----------------------------------------------------------------------------
(* The invariant. *)

\* Counters that were covered are covered after a step.
LEMMA StaysCovered ==
    ASSUME Grow, BasesSettled, NEW s \in Subscriptions,
           NEW sent \in Nat, NEW failed \in Nat, Covers(s, sent, failed)
    PROVE  Covers(s, sent, failed)'
<1>1. PICK b \in Bases(s, "sent") : sent <= b[1] + Total(s, b[2])
  BY DEF Covers
<1>2. PICK c \in Bases(s, "failed") : failed <= c[1] + Failures(s, c[2])
  BY DEF Covers
<1>3. b \in Bases(s, "sent")' /\ c \in Bases(s, "failed")'
  BY DEF Grow, Bases
<1>4. b[1] \in Nat /\ b[2] \in Nat /\ c[1] \in Nat /\ c[2] \in Nat
  BY DEF BasesSettled
<1>5. sent <= b[1] + Total(s, b[2])' /\ failed <= c[1] + Failures(s, c[2])'
  <2>1. /\ Total(s, b[2]) \in Nat /\ Total(s, b[2])' \in Nat
        /\ Total(s, b[2]) <= Total(s, b[2])'
        /\ Failures(s, c[2]) \in Nat /\ Failures(s, c[2])' \in Nat
        /\ Failures(s, c[2]) <= Failures(s, c[2])'
    BY <1>4 DEF Grow
  <2>. QED  BY <1>1, <1>2, <1>4, <2>1
<1>6. Unclaimed(s)' => failed <= sent
  BY DEF Grow, Unclaimed, Covers
<1>. QED  BY <1>3, <1>5, <1>6 DEF Covers

\* A new document counts nothing.
LEMMA FreshCovered ==
    ASSUME AccountedFits, NEW s \in Subscriptions
    PROVE  Fresh \in Subscription /\ Covered(s, Fresh)
<1>1. BOOLEAN \in SUBSET BOOLEAN /\ {FALSE} \in SUBSET BOOLEAN
  OBVIOUS
<1>2. Total(s, 0) \in Nat /\ Failures(s, 0) \in Nat
  BY <1>1 DEF AccountedFits, Total, Failures
<1>3. <<0, 0>> \in Bases(s, "sent") /\ <<0, 0>> \in Bases(s, "failed")
  BY DEF Bases
<1>4. \E base \in Bases(s, "sent") : 0 <= base[1] + Total(s, base[2])
  <2>1. 0 <= <<0, 0>>[1] + Total(s, <<0, 0>>[2])
    BY <1>2
  <2>. QED  BY <1>3, <2>1
<1>5. \E base \in Bases(s, "failed") : 0 <= base[1] + Failures(s, base[2])
  <2>1. 0 <= <<0, 0>>[1] + Failures(s, <<0, 0>>[2])
    BY <1>2
  <2>. QED  BY <1>3, <2>1
<1>. QED  BY <1>4, <1>5 DEF Fresh, Subscription, Covered, Covers

LEMMA InitCounters == Init /\ AccountedFits => CountersInv
<1>. SUFFICES ASSUME Init, AccountedFits PROVE CountersInv
  OBVIOUS
<1>1. StoredCovered
  <2>1. \A s \in Subscriptions : subs[s] # NoSub => subs[s] = Fresh
    BY DEF Init
  <2>. QED  BY <2>1, FreshCovered DEF StoredCovered
<1>2. EditsCovered /\ CountedCovered /\ LastIsHead
  BY DEF Init, Idle, EditsCovered, CountedCovered, LastIsHead
<1>3. BasesSettled
  <2>1. Settled = 0
    BY DEF Init, Idle, Settled
  <2>2. \A s \in Subscriptions, counter \in {"sent", "failed"} : claimed[s][counter] = {}
    BY DEF Init
  <2>. QED  BY <2>1, <2>2 DEF BasesSettled, Bases
<1>. QED  BY <1>1, <1>2, <1>3 DEF CountersInv

\* What is stored is new, patched, or a copy that was read before and covered.
LEMMA StoredAreCopies ==
    ASSUME IInv, CountersInv, AccountedFits, [Next]_vars,
           NEW s \in Subscriptions, subs'[s] # NoSub,
           ~\E e \in Editors : WritePatch(e) /\ editor[e].sub = s
    PROVE  \E doc \in Subscription :
              /\ Covered(s, doc)
              /\ subs'[s].sent = doc.sent
              /\ subs'[s].failed = doc.failed
<1>t. TypeOK /\ WorkerInv
  BY DEF IInv
<1>1. CASE subs'[s] = subs[s]
  <2>1. subs[s] \in Subscription /\ Covered(s, subs[s])
    BY <1>1, <1>t, StoredDocument DEF CountersInv, StoredCovered
  <2>. QED  BY <1>1, <2>1
<1>2. CASE \E r \in Subscriptions : Create(r)
  <2>1. subs'[s] = subs[s] \/ subs'[s] = Fresh
    BY <1>2, <1>t DEF Create, TypeOK
  <2>2. Fresh \in Subscription /\ Covered(s, Fresh)
    BY FreshCovered
  <2>. QED  BY <2>1, <2>2, <1>1
<1>3. CASE \E r \in Subscriptions : Delete(r)
  <2>1. subs'[s] = subs[s]
    BY <1>3, <1>t DEF Delete, TypeOK
  <2>. QED  BY <2>1, <1>1
<1>4. ASSUME NEW e \in Editors, WritePatch(e)
      PROVE  subs'[s] = subs[s]
  BY <1>4, <1>t DEF WritePatch, TypeOK
<1>5. CASE ReplaceSubscription /\ subs'[s] # subs[s]
  <2>1. /\ worker.pc = "replace"
        /\ subs' = [subs EXCEPT ![stream[Position].sub] = worker.doc]
    BY <1>5 DEF ReplaceSubscription
  <2>2. stream[Position].sub = s /\ subs'[s] = worker.doc
    BY <1>5, <1>t, <2>1 DEF TypeOK
  <2>3. worker.doc \in Subscription /\ Covered(s, worker.doc)
    BY <1>t, <2>1, <2>2, WorkerShape DEF CountersInv, CountedCovered
  <2>. QED  BY <2>2, <2>3
<1>6. CASE UNCHANGED subs
  BY <1>1, <1>6
<1>7. \/ \E r \in Subscriptions : Create(r) \/ Delete(r)
      \/ \E e \in Editors : WritePatch(e)
      \/ ReplaceSubscription
      \/ UNCHANGED subs
  BY DEF Next, Work, ListSubscriptions, EnqueueOne, EndLoop, EnqueueSwim, ReadForPatch,
     ReadBatch, ReadLost, SkipPost, Post, GetSubscription, Ack, MarkFails, AckFails, Crash, Restart, vars
<1>. QED  BY <1>1, <1>2, <1>3, <1>4, <1>5, <1>6, <1>7

\* What a patch leaves is covered by what was covered and by what the client wrote.
LEMMA PatchCovered ==
    ASSUME IInv, CountersInv, AccountedFits, AccountedFits', Grow,
           NEW e \in Editors, WritePatch(e),
           NEW s \in Subscriptions, editor[e].sub = s
    PROVE  Covered(s, subs[s])'
<1>t. TypeOK
  BY DEF IInv
<1>1. editor[e] \in [pc: {"replace"}, sub: Subscriptions, doc: Subscription]
  BY <1>t DEF WritePatch, TypeOK, Idle
<1>2. PICK old \in Subscription : old = editor[e].doc
  BY <1>1
<1>3. PICK doc \in Patched(old) :
        /\ subs' = [subs EXCEPT ![s] = doc]
        /\ claimed' = [claimed EXCEPT ![s].sent = @ \cup Claim(old, doc, "sent"),
                                      ![s].failed = @ \cup Claim(old, doc, "failed")]
  BY <1>2 DEF WritePatch
<1>4. /\ doc \in Subscription
      /\ ~doc.notifies => doc.sent = 0 /\ doc.failed = 0
  BY <1>2, PatchedDocument
<1>5. /\ doc.sent \in Nat /\ doc.failed \in Nat /\ old.sent \in Nat /\ old.failed \in Nat
      /\ doc.notifies \in BOOLEAN
  BY <1>4 DEF Subscription
<1>6. /\ claimed'[s].sent = claimed[s].sent \cup Claim(old, doc, "sent")
      /\ claimed'[s].failed = claimed[s].failed \cup Claim(old, doc, "failed")
  BY <1>t, <1>3 DEF TypeOK
<1>7. PICK n \in Nat : n = Settled
  BY SettledPosts
<1>8. \A since \in Nat : Total(s, since)' \in Nat /\ Failures(s, since)' \in Nat
  BY DEF Grow
<1>9. Covers(s, old.sent, old.failed)'
  <2>1. Covers(s, old.sent, old.failed)
    BY <1>1, <1>2 DEF CountersInv, EditsCovered, Covered
  <2>. QED  BY <2>1, <1>5, StaysCovered DEF CountersInv
<1>10. <<0, 0>> \in Bases(s, "sent")' /\ <<0, 0>> \in Bases(s, "failed")'
  BY DEF Bases
<1>11. \E base \in Bases(s, "sent")' : doc.sent <= base[1] + Total(s, base[2])'
  <2>1. CASE doc.notifies /\ doc.sent # old.sent
    <3>1. <<doc.sent, n>> \in Bases(s, "sent")'
      BY <1>6, <1>7, <2>1 DEF Bases, Claim
    <3>2. doc.sent <= <<doc.sent, n>>[1] + Total(s, <<doc.sent, n>>[2])'
      BY <1>5, <1>8
    <3>. QED  BY <3>1, <3>2
  <2>2. CASE ~doc.notifies
    <3>1. doc.sent <= <<0, 0>>[1] + Total(s, <<0, 0>>[2])'
      BY <1>4, <1>8, <2>2
    <3>. QED  BY <3>1, <1>10
  <2>3. CASE doc.sent = old.sent
    BY <1>9, <2>3 DEF Covers
  <2>. QED  BY <2>1, <2>2, <2>3
<1>12. \E base \in Bases(s, "failed")' : doc.failed <= base[1] + Failures(s, base[2])'
  <2>1. CASE doc.notifies /\ doc.failed # old.failed
    <3>1. <<doc.failed, n>> \in Bases(s, "failed")'
      BY <1>6, <1>7, <2>1 DEF Bases, Claim
    <3>2. doc.failed <= <<doc.failed, n>>[1] + Failures(s, <<doc.failed, n>>[2])'
      BY <1>5, <1>8
    <3>. QED  BY <3>1, <3>2
  <2>2. CASE ~doc.notifies
    <3>1. doc.failed <= <<0, 0>>[1] + Failures(s, <<0, 0>>[2])'
      BY <1>4, <1>8, <2>2
    <3>. QED  BY <3>1, <1>10
  <2>3. CASE doc.failed = old.failed
    BY <1>9, <2>3 DEF Covers
  <2>. QED  BY <2>1, <2>2, <2>3
<1>13. Unclaimed(s)' => doc.failed <= doc.sent
  <2>. SUFFICES ASSUME Unclaimed(s)' PROVE doc.failed <= doc.sent
    OBVIOUS
  <2>1. Claim(old, doc, "sent") = {} /\ Claim(old, doc, "failed") = {}
    BY <1>6 DEF Unclaimed
  <2>2. ~doc.notifies \/ (doc.sent = old.sent /\ doc.failed = old.failed)
    BY <2>1 DEF Claim
  <2>3. old.failed <= old.sent
    BY <1>9 DEF Covers
  <2>. QED  BY <2>2, <2>3, <1>4
<1>14. subs'[s] = doc
  BY <1>t, <1>3 DEF TypeOK
<1>. QED  BY <1>11, <1>12, <1>13, <1>14 DEF Covered, Covers

\* What a patch holds is a copy of what is stored or what it held before.
LEMMA EditsAreCopies ==
    ASSUME IInv, CountersInv, [Next]_vars, NEW e \in Editors, NEW s \in Subscriptions,
           editor'[e].pc = "replace", editor'[e].sub = s
    PROVE  \E doc \in Subscription : Covered(s, doc) /\ editor'[e].doc = doc
<1>t. TypeOK
  BY DEF IInv
<1>1. CASE editor'[e] = editor[e]
  <2>1. editor[e].doc \in Subscription /\ Covered(s, editor[e].doc)
    BY <1>1, <1>t DEF CountersInv, EditsCovered, TypeOK, Idle
  <2>. QED  BY <1>1, <2>1
<1>2. ASSUME NEW d \in Editors, NEW r \in Subscriptions, ReadForPatch(d, r),
             editor'[e] # editor[e]
      PROVE  \E doc \in Subscription : Covered(s, doc) /\ editor'[e].doc = doc
  <2>1. editor'[e] = [pc |-> "replace", sub |-> r, doc |-> subs[r]] /\ subs[r] # NoSub
    BY <1>2, <1>t DEF ReadForPatch, TypeOK
  <2>2. s = r /\ editor'[e].doc = subs[s]
    BY <2>1
  <2>3. subs[s] \in Subscription /\ Covered(s, subs[s])
    BY <1>t, <2>1, <2>2, StoredDocument DEF CountersInv, StoredCovered
  <2>. QED  BY <2>2, <2>3
<1>3. CASE \E d \in Editors : WritePatch(d)
  <2>1. editor'[e] = editor[e] \/ editor'[e] = Idle
    BY <1>3, <1>t DEF WritePatch, TypeOK
  <2>. QED  BY <2>1, <1>1 DEF Idle
<1>4. CASE Crash
  BY <1>4 DEF Crash, Idle
<1>5. CASE UNCHANGED editor
  BY <1>1, <1>5
<1>6. \/ \E d \in Editors, r \in Subscriptions : ReadForPatch(d, r)
      \/ \E d \in Editors : WritePatch(d)
      \/ Crash
      \/ UNCHANGED editor
  BY DEF Next, Work, ListSubscriptions, EnqueueOne, EndLoop, EnqueueSwim, Create, Delete,
     ReadBatch, ReadLost, SkipPost, Post, GetSubscription, ReplaceSubscription, Ack, MarkFails, AckFails,
     Restart, vars
<1>. QED  BY <1>1, <1>2, <1>3, <1>4, <1>5, <1>6

\* A notification in hand is one to a subscription.
LEMMA HeadSubscription ==
    ASSUME IInv, worker.pc \in {"get", "replace"}
    PROVE  Position \in 1 .. Len(stream) /\ stream[Position].sub \in Subscriptions
<1>1. TypeOK /\ BatchIsLast /\ Working
  BY DEF IInv, WorkerInv, Working
<1>2. /\ delivered \in Nat /\ delivered <= Len(stream)
      /\ Len(worker.batch) \in 1 .. delivered
      /\ Position = delivered - Len(worker.batch) + 1
  BY <1>1, HeadOfBatch
<1>3. Position \in 1 .. Len(stream)
  <2>1. Len(stream) \in Nat
    BY <1>1 DEF TypeOK
  <2>. QED  BY <1>2, <2>1
<1>4. stream[Position] \in Message
  BY <1>1, <1>3 DEF TypeOK
<1>. QED  BY <1>3, <1>4 DEF IInv, WorkerInv, HeadIsNotification, Message

\* The accounted posts after the document was read are those of before and the last.
LEMMA PostIsCounted ==
    ASSUME AccountedFits, GetSubscription, worker'.pc = "replace",
           NEW s \in Subscriptions, s = stream[Position].sub,
           NEW ok \in BOOLEAN, NEW last \in DOMAIN posts,
           last = Len(posts), posts[last] = <<Position, ok>>,
           NEW since \in Nat, last \in Nat, since < last
    PROVE  /\ Total(s, since) \in Nat /\ Total(s, since)' = Total(s, since) + 1
           /\ Failures(s, since) \in Nat
           /\ ok = TRUE => Failures(s, since)' = Failures(s, since)
           /\ ok = FALSE => Failures(s, since)' = Failures(s, since) + 1
<1>1. worker.pc = "get" /\ UNCHANGED <<stream, posts>>
  BY DEF GetSubscription
<1>2. ASSUME NEW outcomes \in SUBSET BOOLEAN
      PROVE  /\ Cardinality(Accounted(s, outcomes, since)) \in Nat
             /\ Cardinality(Accounted(s, outcomes, since)')
                  = Cardinality(Accounted(s, outcomes, since))
                      + (IF ok \in outcomes THEN 1 ELSE 0)
  <2>. DEFINE A == Accounted(s, outcomes, since)
              P == PostsTo(s, outcomes, since)
  <2>1. Uncounted = {last} /\ Uncounted' = {}
    BY <1>1 DEF Uncounted
  <2>2. A' = P
    BY <1>1, <2>1 DEF Accounted, PostsTo
  <2>3. A = P \ {last}
    BY <2>1 DEF Accounted
  <2>4. last \in P <=> ok \in outcomes
    BY DEF PostsTo
  <2>5. IsFiniteSet(P) /\ Cardinality(A) \in Nat
    BY DEF AccountedFits
  <2>6. Cardinality(P) \in Nat
    BY <2>5, FS_CardinalityType
  <2>7. Cardinality(P \ {last}) = IF last \in P THEN Cardinality(P) - 1 ELSE Cardinality(P)
    BY <2>5, FS_RemoveElement
  <2>. HIDE DEF A, P
  <2>8. Cardinality(P) = Cardinality(A) + (IF ok \in outcomes THEN 1 ELSE 0)
    BY <2>3, <2>4, <2>5, <2>6, <2>7
  <2>9. Cardinality(A') = Cardinality(P)
    BY <2>2
  <2>. QED  BY <2>5, <2>8, <2>9 DEF A
<1>3. BOOLEAN \in SUBSET BOOLEAN /\ {FALSE} \in SUBSET BOOLEAN
  OBVIOUS
<1>4. /\ Total(s, since) \in Nat
      /\ Total(s, since)' = Total(s, since) + (IF ok \in BOOLEAN THEN 1 ELSE 0)
  BY <1>2, <1>3 DEF Total
<1>5. /\ Failures(s, since) \in Nat
      /\ Failures(s, since)' = Failures(s, since) + (IF ok \in {FALSE} THEN 1 ELSE 0)
  BY <1>2, <1>3 DEF Failures
<1>6. ok = TRUE => Failures(s, since)' = Failures(s, since)
  <2>1. ok = TRUE => ok \notin {FALSE}
    OBVIOUS
  <2>2. ok \notin {FALSE} => Failures(s, since)' = Failures(s, since)
    BY <1>5
  <2>. QED  BY <2>1, <2>2
<1>7. ok = FALSE => Failures(s, since)' = Failures(s, since) + 1
  <2>1. ok = FALSE => ok \in {FALSE}
    OBVIOUS
  <2>2. ok \in {FALSE} => Failures(s, since)' = Failures(s, since) + 1
    BY <1>5
  <2>. QED  BY <2>1, <2>2
<1>8. Total(s, since)' = Total(s, since) + 1
  BY <1>4
<1>. QED  BY <1>4, <1>5, <1>6, <1>7, <1>8

\* The document of the head's subscription, with the head's post counted in it.
LEMMA CountingCovered ==
    ASSUME IInv, CountersInv, AccountedFits, Grow, GetSubscription, worker'.pc = "replace"
    PROVE  CountedCovered'
<1>t. TypeOK /\ WorkerInv
  BY DEF IInv
<1>1. /\ worker.pc = "get" /\ worker'.batch = worker.batch
      /\ subs[stream[Position].sub] # NoSub
      /\ worker'.doc = Counted(subs[stream[Position].sub], worker.ok)
      /\ UNCHANGED <<stream, posts, claimed>>
  BY DEF GetSubscription
<1>2. PICK s \in Subscriptions : s = stream[Position].sub
  BY <1>1, HeadSubscription
<1>3. subs[s] \in Subscription /\ Covered(s, subs[s])
  BY <1>1, <1>2, <1>t, StoredDocument DEF CountersInv, StoredCovered
<1>4. PICK doc \in Subscription : doc = subs[s]
  BY <1>3
<1>5. PICK ok \in BOOLEAN : ok = worker.ok
  BY <1>1, <1>t, WorkerShape
<1>6. PICK last \in DOMAIN posts : last = Len(posts) /\ posts[last] = <<Position, ok>>
  <2>1. Len(posts) > 0 /\ posts[Len(posts)] = <<Position, ok>>
    BY <1>1, <1>5 DEF CountersInv, LastIsHead
  <2>2. Len(posts) \in Nat /\ DOMAIN posts = 1 .. Len(posts)
    BY <1>t DEF TypeOK
  <2>3. Len(posts) \in DOMAIN posts
    BY <2>1, <2>2
  <2>. QED  BY <2>1, <2>3
<1>7. Position' = Position /\ worker'.doc = Counted(doc, ok)
  BY <1>1, <1>2, <1>4, <1>5 DEF Position
<1>8. last \in Nat /\ Settled < last
  <2>1. Settled = Len(posts) - 1 /\ Len(posts) \in Nat
    BY <1>1, <1>t DEF Settled, TypeOK
  <2>. QED  BY <2>1, <1>6
<1>9. stream'[Position'].sub = s
  BY <1>1, <1>2, <1>7
<1>10. doc.sent \in Nat /\ doc.failed \in Nat /\ doc.notifies \in BOOLEAN
  BY DEF Subscription
<1>11. Covers(s, doc.sent, doc.failed)
  BY <1>3, <1>4 DEF Covered
<1>12. Covers(s, Counted(doc, ok).sent, Counted(doc, ok).failed)'
  <2>1. CASE ~doc.notifies
    <3>1. Counted(doc, ok) = doc
      BY <2>1, CountedDocument
    <3>2. Covers(s, doc.sent, doc.failed)'
      BY <1>10, <1>11, StaysCovered DEF CountersInv
    <3>. QED  BY <3>1, <3>2
  <2>2. CASE doc.notifies
    <3>1. /\ Counted(doc, ok).sent = doc.sent + 1
          /\ ok = TRUE => Counted(doc, ok).failed = doc.failed
          /\ ok = FALSE => Counted(doc, ok).failed = doc.failed + 1
      BY <2>2, CountedDocument
    <3>2. PICK b \in Bases(s, "sent") : doc.sent <= b[1] + Total(s, b[2])
      BY <1>11 DEF Covers
    <3>3. PICK c \in Bases(s, "failed") : doc.failed <= c[1] + Failures(s, c[2])
      BY <1>11 DEF Covers
    <3>4. /\ b[1] \in Nat /\ b[2] \in Nat /\ b[2] < last
          /\ c[1] \in Nat /\ c[2] \in Nat /\ c[2] < last
      <4>1. /\ b[1] \in Nat /\ b[2] \in Nat /\ b[2] <= Settled
            /\ c[1] \in Nat /\ c[2] \in Nat /\ c[2] <= Settled
        BY DEF CountersInv, BasesSettled
      <4>. QED  BY <4>1, <1>8, SettledPosts
    <3>5. b \in Bases(s, "sent")' /\ c \in Bases(s, "failed")'
      BY <1>1 DEF Bases
    <3>6. Total(s, b[2]) \in Nat /\ Total(s, b[2])' = Total(s, b[2]) + 1
      BY <1>1, <1>2, <1>5, <1>6, <1>8, <3>4, PostIsCounted
    <3>7. /\ Failures(s, c[2]) \in Nat
          /\ ok = TRUE => Failures(s, c[2])' = Failures(s, c[2])
          /\ ok = FALSE => Failures(s, c[2])' = Failures(s, c[2]) + 1
      BY <1>1, <1>2, <1>5, <1>6, <1>8, <3>4, PostIsCounted
    <3>8. doc.sent + 1 <= b[1] + Total(s, b[2])'
      BY <3>2, <3>4, <3>6, <1>10
    <3>9. Counted(doc, ok).failed <= c[1] + Failures(s, c[2])'
      <4>1. CASE ok = TRUE
        <5>1. Failures(s, c[2])' = Failures(s, c[2]) /\ Counted(doc, ok).failed = doc.failed
          BY <4>1, <3>1, <3>7
        <5>. QED  BY <5>1, <3>3
      <4>2. CASE ok = FALSE
        <5>1. /\ Failures(s, c[2])' = Failures(s, c[2]) + 1
              /\ Counted(doc, ok).failed = doc.failed + 1
          BY <4>2, <3>1, <3>7
        <5>. QED  BY <5>1, <3>3, <3>4, <3>7, <1>10
      <4>. QED  BY <4>1, <4>2
    <3>10. Unclaimed(s)' => Counted(doc, ok).failed <= Counted(doc, ok).sent
      <4>1. Unclaimed(s)' => doc.failed <= doc.sent
        BY <1>1, <1>11 DEF Unclaimed, Covers
      <4>2. Counted(doc, ok).failed = doc.failed \/ Counted(doc, ok).failed = doc.failed + 1
        BY <3>1
      <4>. QED  BY <4>1, <4>2, <3>1, <1>10
    <3>. QED  BY <3>1, <3>5, <3>8, <3>9, <3>10 DEF Covers
  <2>. QED  BY <2>1, <2>2, <1>10
<1>. QED  BY <1>7, <1>9, <1>12 DEF CountedCovered, Covered

\* While the worker is about to read the document, the last post is of its head.
LEMMA NextLastIsHead == IInv /\ LastIsHead /\ [Next]_vars => LastIsHead'
<1>. SUFFICES ASSUME IInv, LastIsHead, [Next]_vars, worker'.pc = "get"
              PROVE  Len(posts') > 0 /\ posts'[Len(posts')] = <<Position', worker'.ok>>
  BY DEF LastIsHead
<1>t. TypeOK /\ WorkerInv
  BY DEF IInv
<1>1. CASE Post
  <2>1. PICK ok \in BOOLEAN :
          /\ posts' = Append(posts, <<Position, ok>>)
          /\ worker' = IF stream[Position].sub = NoSub
                       THEN [pc |-> "ack", batch |-> worker.batch]
                       ELSE [pc |-> "get", batch |-> worker.batch, ok |-> ok]
    BY <1>1 DEF Post
  <2>2. worker' = [pc |-> "get", batch |-> worker.batch, ok |-> ok]
    BY <2>1
  <2>3. Position' = Position /\ worker'.ok = ok
    BY <2>2 DEF Position
  <2>4. posts \in Seq(Positions \X BOOLEAN)
    BY <1>t DEF TypeOK
  <2>5. Len(posts') = Len(posts) + 1 /\ Len(posts) \in Nat
        /\ posts'[Len(posts) + 1] = <<Position, ok>>
    BY <2>1, <2>4
  <2>. QED  BY <2>3, <2>5
<1>2. CASE ~Post
  <2>1. posts' = posts /\ worker' = worker
    <3>1. CASE Work \/ ReadLost \/ MarkFails \/ AckFails \/ Crash \/ Restart
      BY <1>2, <3>1 DEF Work, ReadBatch, ReadLost, SkipPost, GetSubscription, ReplaceSubscription, Ack, AckFails,
         NextInBatch, MarkFails, Crash, Restart, Idle, Down
    <3>2. CASE ~(Work \/ ReadLost \/ MarkFails \/ AckFails \/ Crash \/ Restart)
      BY <1>t, <3>2, StreamSteps DEF Next
    <3>. QED  BY <3>1, <3>2
  <2>. QED  BY <2>1 DEF LastIsHead, Position
<1>. QED  BY <1>1, <1>2

\* What clients write is written after posts that are counted, and no post is taken back.
LEMMA NextBasesSettled == IInv /\ IInv' /\ BasesSettled /\ [Next]_vars => BasesSettled'
<1>. SUFFICES ASSUME IInv, IInv', BasesSettled, [Next]_vars,
                     NEW s \in Subscriptions, NEW counter \in {"sent", "failed"},
                     NEW base \in Bases(s, counter)'
              PROVE  base \in Nat \X Nat /\ base[2] <= Settled'
  BY DEF BasesSettled
<1>t. TypeOK /\ WorkerInv
  BY DEF IInv
<1>1. Settled \in Nat /\ Settled' \in Nat
  BY SettledPosts, SettledPostsNext
<1>2. Settled <= Settled'
  <2>1. Len(posts) \in Nat
    BY <1>t DEF TypeOK
  <2>2. CASE Post
    <3>1. worker.pc = "post" /\ Len(posts') = Len(posts) + 1
      BY <2>2, <1>t DEF Post, TypeOK
    <3>. QED  BY <3>1, <2>1 DEF Settled
  <2>3. CASE ~Post
    <3>1. posts' = posts /\ (worker'.pc = "get" => worker.pc = "get")
      <4>1. CASE Work \/ ReadLost \/ MarkFails \/ AckFails \/ Crash \/ Restart
        BY <2>3, <4>1 DEF Work, ReadBatch, ReadLost, SkipPost, GetSubscription,
           ReplaceSubscription, Ack, AckFails, NextInBatch, MarkFails, Crash, Restart, Idle,
           Down
      <4>2. CASE ~(Work \/ ReadLost \/ MarkFails \/ AckFails \/ Crash \/ Restart)
        BY <1>t, <4>2, StreamSteps DEF Next
      <4>. QED  BY <4>1, <4>2
    <3>. QED  BY <3>1, <2>1 DEF Settled
  <2>. QED  BY <2>2, <2>3
<1>3. CASE base \in Bases(s, counter)
  <2>1. base \in Nat \X Nat /\ base[2] <= Settled
    BY <1>3 DEF BasesSettled
  <2>. QED  BY <2>1, <1>1, <1>2
<1>4. CASE base \notin Bases(s, counter)
  <2>1. PICK e \in Editors : WritePatch(e)
    <3>1. claimed' # claimed
      BY <1>4 DEF Bases
    <3>. QED  BY <3>1 DEF Next, Work, ListSubscriptions, EnqueueOne, EndLoop, EnqueueSwim,
              Create, Delete, ReadForPatch, ReadBatch, ReadLost, SkipPost, Post,
              GetSubscription, ReplaceSubscription, Ack, MarkFails, AckFails, Crash,
              Restart, vars
  <2>2. editor[e] \in [pc: {"replace"}, sub: Subscriptions, doc: Subscription]
    BY <2>1, <1>t DEF WritePatch, TypeOK, Idle
  <2>3. PICK doc \in Patched(editor[e].doc) :
          claimed' = [claimed EXCEPT
                ![editor[e].sub].sent = @ \cup Claim(editor[e].doc, doc, "sent"),
                ![editor[e].sub].failed = @ \cup Claim(editor[e].doc, doc, "failed")]
    BY <2>1 DEF WritePatch
  <2>4. claimed[s] \in [sent: SUBSET (Nat \X Nat), failed: SUBSET (Nat \X Nat)]
    BY <1>t DEF TypeOK
  <2>5. base \in claimed'[s][counter] /\ base \notin claimed[s][counter]
    BY <1>4 DEF Bases
  <2>6. base \in Claim(editor[e].doc, doc, counter)
    <3>1. CASE counter = "sent"
      BY <3>1, <2>3, <2>4, <2>5, <1>t DEF TypeOK
    <3>2. CASE counter = "failed"
      BY <3>2, <2>3, <2>4, <2>5, <1>t DEF TypeOK
    <3>. QED  BY <3>1, <3>2
  <2>7. base = <<doc[counter], Settled>>
    BY <2>6 DEF Claim
  <2>8. doc[counter] \in Nat
    <3>1. doc \in Subscription
      BY <2>2, PatchedDocument
    <3>. QED  BY <3>1 DEF Subscription
  <2>. QED  BY <2>7, <2>8, <1>1, <1>2
<1>. QED  BY <1>3, <1>4

\* One step, copy by copy.
LEMMA NextCounters ==
    IInv /\ IInv' /\ AccountedFits /\ AccountedFits' /\ Grow /\ CountersInv /\ [Next]_vars
      => CountersInv'
<1>. SUFFICES ASSUME IInv, IInv', AccountedFits, AccountedFits', Grow, CountersInv,
                     [Next]_vars
              PROVE  CountersInv'
  OBVIOUS
<1>t. TypeOK /\ WorkerInv
  BY DEF IInv
<1>s. ASSUME NEW s \in Subscriptions, NEW doc \in Subscription, Covered(s, doc)
      PROVE  Covers(s, doc.sent, doc.failed)'
  <2>1. doc.sent \in Nat /\ doc.failed \in Nat
    BY DEF Subscription
  <2>. QED  BY <1>s, <2>1, StaysCovered DEF CountersInv, Covered
<1>1. StoredCovered'
  <2>1. ASSUME NEW s \in Subscriptions, subs'[s] # NoSub
        PROVE  Covered(s, subs[s])'
    <3>1. CASE \E e \in Editors : WritePatch(e) /\ editor[e].sub = s
      BY <3>1, PatchCovered
    <3>2. CASE ~\E e \in Editors : WritePatch(e) /\ editor[e].sub = s
      <4>1. PICK doc \in Subscription :
                /\ Covered(s, doc)
                /\ subs'[s].sent = doc.sent
                /\ subs'[s].failed = doc.failed
        BY <2>1, <3>2, StoredAreCopies
      <4>. QED  BY <4>1, <1>s DEF Covered
    <3>. QED  BY <3>1, <3>2
  <2>. QED  BY <2>1 DEF StoredCovered
<1>2. EditsCovered'
  <2>1. ASSUME NEW e \in Editors, NEW s \in Subscriptions,
               editor'[e].pc = "replace", editor'[e].sub = s
        PROVE  Covered(s, editor[e].doc)'
    <3>1. PICK doc \in Subscription : Covered(s, doc) /\ editor'[e].doc = doc
      BY <2>1, EditsAreCopies
    <3>. QED  BY <3>1, <1>s DEF Covered
  <2>. QED  BY <2>1 DEF EditsCovered
<1>3. CountedCovered'
  <2>1. CASE GetSubscription /\ worker'.pc = "replace"
    BY <2>1, CountingCovered
  <2>2. CASE ~GetSubscription /\ worker'.pc = "replace"
    <3>1. worker' = worker /\ \A i \in 1 .. Len(stream) : stream'[i] = stream[i]
      <4>1. CASE Work \/ ReadLost \/ MarkFails \/ AckFails \/ Crash \/ Restart
        <5>1. worker' # worker => worker'.pc # "replace"
          <6>1. CASE ReadBatch \/ ReadLost \/ MarkFails \/ Crash \/ Restart
            BY <6>1 DEF ReadBatch, ReadLost, MarkFails, Crash, Restart, Idle, Down
          <6>2. CASE SkipPost \/ ReplaceSubscription
            BY <6>2 DEF SkipPost, ReplaceSubscription
          <6>3. CASE Post
            BY <6>3 DEF Post
          <6>4. CASE Ack \/ AckFails
            BY <6>4 DEF Ack, AckFails, NextInBatch, Idle
          <6>. QED  BY <2>2, <4>1, <6>1, <6>2, <6>3, <6>4 DEF Work
        <5>2. stream' = stream
          BY <4>1 DEF Work, ReadBatch, ReadLost, SkipPost, Post, GetSubscription,
             ReplaceSubscription, Ack, AckFails, MarkFails, Crash, Restart
        <5>. QED  BY <2>2, <5>1, <5>2
      <4>2. CASE ~(Work \/ ReadLost \/ MarkFails \/ AckFails \/ Crash \/ Restart)
        BY <1>t, <4>2, StreamSteps DEF Next
      <4>. QED  BY <4>1, <4>2
    <3>2. worker.pc = "replace" /\ Position' = Position /\ stream'[Position] = stream[Position]
      BY <3>1, <2>2, HeadSubscription DEF Position
    <3>3. worker.doc \in Subscription
      BY <1>t, <3>2, WorkerShape
    <3>4. ASSUME NEW s \in Subscriptions, stream[Position].sub = s
          PROVE  Covered(s, worker.doc)'
      <4>1. PICK doc \in Subscription : doc = worker.doc
        BY <3>3
      <4>2. Covered(s, doc)
        BY <3>2, <3>4, <4>1 DEF CountersInv, CountedCovered
      <4>. QED  BY <4>1, <4>2, <3>1, <1>s DEF Covered
    <3>. QED  BY <3>1, <3>2, <3>4 DEF CountedCovered
  <2>3. CASE worker'.pc # "replace"
    BY <2>3 DEF CountedCovered
  <2>. QED  BY <2>1, <2>2, <2>3
<1>4. LastIsHead'
  BY NextLastIsHead DEF CountersInv
<1>5. BasesSettled'
  BY NextBasesSettled DEF CountersInv
<1>. QED  BY <1>1, <1>2, <1>3, <1>4, <1>5 DEF CountersInv

\* Every copy of a subscription's document, stored or about to be written, counts at
\* most a value a client wrote and the posts made since.
THEOREM CountersInvariance == Spec => [](IInv /\ CountersInv)
<1>1. IInv => AccountedFits
  BY AccountedAlwaysFits DEF IInv
<1>2. Init /\ AccountedFits => CountersInv
  BY InitCounters
<1>3. IInv /\ AccountedFits /\ AccountedFits' /\ [Next]_vars => Grow
  BY NextGrow
<1>4. IInv /\ IInv' /\ AccountedFits /\ AccountedFits' /\ Grow /\ CountersInv /\ [Next]_vars
        => CountersInv'
  BY NextCounters
<1>. QED  BY <1>1, <1>2, <1>3, <1>4, Invariance, PTL DEF Spec

\* Counters are never ahead of what clients wrote into them and of the deliveries made
\* since (mark_delivery), whatever patches, deletions and creations cross it.
THEOREM CountersAreCovered == Spec => []CountersNeverAhead
<1>1. IInv /\ CountersInv /\ AccountedFits => CountersNeverAhead
  <2>. SUFFICES ASSUME IInv, CountersInv, AccountedFits,
                       NEW s \in Subscriptions, subs[s] # NoSub
                PROVE  /\ \E base \in Bases(s, "sent") :
                              subs[s].sent
                                <= base[1] + Cardinality(PostsTo(s, BOOLEAN, base[2]))
                       /\ \E base \in Bases(s, "failed") :
                              subs[s].failed
                                <= base[1] + Cardinality(PostsTo(s, {FALSE}, base[2]))
                       /\ Unclaimed(s) => subs[s].failed <= subs[s].sent
    BY DEF CountersNeverAhead, Unclaimed
  <2>1. subs[s] \in Subscription /\ Covered(s, subs[s])
    BY StoredDocument DEF CountersInv, StoredCovered, IInv
  <2>2. BOOLEAN \in SUBSET BOOLEAN /\ {FALSE} \in SUBSET BOOLEAN
    OBVIOUS
  <2>3. ASSUME NEW since \in Nat
        PROVE  /\ Total(s, since) \in Nat
               /\ Total(s, since) <= Cardinality(PostsTo(s, BOOLEAN, since))
               /\ Failures(s, since) \in Nat
               /\ Failures(s, since) <= Cardinality(PostsTo(s, {FALSE}, since))
               /\ Cardinality(PostsTo(s, BOOLEAN, since)) \in Nat
               /\ Cardinality(PostsTo(s, {FALSE}, since)) \in Nat
    BY <2>2, FS_CardinalityType DEF AccountedFits, Total, Failures
  <2>4. PICK b \in Bases(s, "sent") : subs[s].sent <= b[1] + Total(s, b[2])
    BY <2>1 DEF Covered, Covers
  <2>5. PICK c \in Bases(s, "failed") : subs[s].failed <= c[1] + Failures(s, c[2])
    BY <2>1 DEF Covered, Covers
  <2>6. b[1] \in Nat /\ b[2] \in Nat /\ c[1] \in Nat /\ c[2] \in Nat
    BY DEF CountersInv, BasesSettled
  <2>7. subs[s].sent \in Nat /\ subs[s].failed \in Nat
    BY <2>1 DEF Subscription
  <2>8. subs[s].sent <= b[1] + Cardinality(PostsTo(s, BOOLEAN, b[2]))
    BY <2>3, <2>4, <2>6, <2>7
  <2>9. subs[s].failed <= c[1] + Cardinality(PostsTo(s, {FALSE}, c[2]))
    BY <2>3, <2>5, <2>6, <2>7
  <2>10. Unclaimed(s) => subs[s].failed <= subs[s].sent
    BY <2>1 DEF Covered, Covers
  <2>. QED  BY <2>8, <2>9, <2>10
<1>2. IInv => AccountedFits
  BY AccountedAlwaysFits DEF IInv
<1>. QED  BY <1>1, <1>2, CountersInvariance, PTL
=============================================================================
