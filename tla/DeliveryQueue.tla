------------------------------ MODULE DeliveryQueue ------------------------------
(***************************************************************************)
(* One broker's Redis stream, the worker that drains it, and the delivery  *)
(* counters of the subscriptions it notifies.                              *)
(*                                                                         *)
(* Handlers append messages to the stream.  The worker reads a batch of    *)
(* new entries, posts each once, records the outcome of a notification in  *)
(* its subscription's document and acknowledges the entry.  The document   *)
(* is read, changed and written back with an await in between, and a PATCH *)
(* of the subscription does the same.                                      *)
(***************************************************************************)
EXTENDS Integers, Sequences, FiniteSets, SequencesExt

CONSTANTS
    Subscriptions, \* subscription ids
    Editors,       \* concurrent PATCH handlers
    Notifiers,     \* concurrent entity writes that notify
    Notifications, \* which kinds of notifications occur: "plain", "deep"
    Events,        \* which kinds of SWIM events occur: "plain", "deep", "nowhere"
    Claims,        \* the delivery counts clients write into a subscription
    MaxCounter,    \* the largest number a document can hold (2^63 - 1)
    BatchSize,     \* COUNT of XREADGROUP (16 in the code)
    MaxMessages,   \* bound: entries of the stream
    MaxEdits,      \* bound: creations, patches and deletions of subscriptions
    MaxFaults,     \* bound: failed reads, acknowledgements and counter updates
    MaxCrashes,    \* bound: crashes of the broker
    NoSub          \* no document under a subscription id

Kinds == {"plain", "deep", "nowhere"}

\* notifies: "notification" is an object, which the counters are members of; one that
\* is absent or not a number counts as 0.  Beyond MaxCounter a document is not encoded.
Subscription == [notifies: BOOLEAN, sent: Nat, failed: Nat]

ASSUME DeliveryAssumption ==
    /\ Notifications \subseteq {"plain", "deep"}
    /\ Events \subseteq Kinds
    /\ MaxCounter \in Nat
    /\ Claims \subseteq 0 .. MaxCounter
    /\ BatchSize \in Nat \ {0}
    /\ MaxMessages \in Nat
    /\ MaxEdits \in Nat
    /\ MaxFaults \in Nat
    /\ MaxCrashes \in Nat
    /\ NoSub \notin Subscription

VARIABLES
    stream,    \* the entries, in the order they were added
    delivered, \* how many of them the consumer group has given out
    pending,   \* given out and not acknowledged (the PEL), as positions
    worker,    \* the delivery worker
    subs,      \* [subscription -> document]: collection "subscriptions"
    editor,    \* [editor -> its PATCH]
    notifier,  \* [notifier -> the listed subscriptions its loop has still to see]
    edits,     \* subscription requests so far
    faults,    \* faults so far
    crashes,   \* crashes so far
    posts,     \* history: <<position, outcome>> of every post, in order
    lost,      \* history: given out in a reply that did not arrive, as positions
    claimed    \* history: [subscription -> [counter -> <<value, posts before>> of
               \* every value a client wrote]]

vars == <<stream, delivered, pending, worker, subs, editor, notifier,
          edits, faults, crashes, posts, lost, claimed>>

\* A notification, or a SWIM event (which concerns no subscription).
Message == [sub: Subscriptions \cup {NoSub}, kind: Kinds]
Positions == 1 .. MaxMessages

Idle == [pc |-> "idle"]
Down == [pc |-> "down"]
Fresh == [notifies |-> TRUE, sent |-> 0, failed |-> 0]

-----------------------------------------------------------------------------
(* Producers.                                                              *)

\* enqueue_notifications lists the subscriptions once and then works on the list;
\* one without a notification.endpoint.uri is skipped.
ListSubscriptions(n) ==
    /\ worker # Down
    /\ notifier[n] = {}
    /\ notifier' = [notifier EXCEPT ![n] =
          {s \in Subscriptions : subs[s] # NoSub /\ subs[s].notifies}]
    /\ UNCHANGED <<stream, delivered, pending, worker, subs, editor, edits, faults,
                   crashes, posts, lost, claimed>>

\* XADD of one that matches.  A notification to an endpoint that is no URL is a post
\* that fails.
EnqueueOne(n) ==
    /\ Len(stream) < MaxMessages
    /\ \E s \in notifier[n], kind \in Notifications :
         /\ stream' = Append(stream, [sub |-> s, kind |-> kind])
         /\ notifier' = [notifier EXCEPT ![n] = @ \ {s}]
    /\ UNCHANGED <<delivered, pending, worker, subs, editor, edits, faults, crashes,
                   posts, lost, claimed>>

\* The rest do not match, or an enqueue failed and the handler returned its error.
EndLoop(n) ==
    /\ notifier[n] # {}
    /\ notifier' = [notifier EXCEPT ![n] = {}]
    /\ UNCHANGED <<stream, delivered, pending, worker, subs, editor, edits, faults,
                   crashes, posts, lost, claimed>>

\* publish_swim_event appends to the same stream, whatever a configured seed or a
\* peer record has for an endpoint.
EnqueueSwim ==
    /\ worker # Down
    /\ Len(stream) < MaxMessages
    /\ \E kind \in Events :
         stream' = Append(stream, [sub |-> NoSub, kind |-> kind])
    /\ UNCHANGED <<delivered, pending, worker, subs, editor, notifier, edits, faults,
                   crashes, posts, lost, claimed>>

-----------------------------------------------------------------------------
(* Subscription requests.                                                  *)

Edit == worker # Down /\ edits < MaxEdits /\ edits' = edits + 1

\* An id that exists is refused by the unique index.
Create(s) ==
    /\ Edit
    /\ subs[s] = NoSub
    /\ subs' = [subs EXCEPT ![s] = Fresh]
    /\ UNCHANGED <<stream, delivered, pending, worker, editor, notifier, faults,
                   crashes, posts, lost, claimed>>

Delete(s) ==
    /\ Edit
    /\ subs[s] # NoSub
    /\ subs' = [subs EXCEPT ![s] = NoSub]
    /\ UNCHANGED <<stream, delivered, pending, worker, editor, notifier, faults,
                   crashes, posts, lost, claimed>>

\* patch reads the document, ...
ReadForPatch(e, s) ==
    /\ worker # Down
    /\ editor[e] = Idle
    /\ edits < MaxEdits
    /\ subs[s] # NoSub
    /\ editor' = [editor EXCEPT ![e] = [pc |-> "replace", sub |-> s, doc |-> subs[s]]]
    /\ UNCHANGED <<stream, delivered, pending, worker, subs, notifier, edits, faults,
                   crashes, posts, lost, claimed>>

\* ... merges any patch, the counters included, ...  A patch may write them, leave
\* them, or put something in place of the notification, which loses them.
Patched(doc) ==
    {[notifies |-> TRUE, sent |-> n, failed |-> k] :
        n \in Claims \cup {doc.sent}, k \in Claims \cup {doc.failed}}
    \cup {[notifies |-> FALSE, sent |-> 0, failed |-> 0]}

\* A value a client writes is followed by the posts not yet counted in the document.
Settled == IF worker.pc = "get" THEN Len(posts) - 1 ELSE Len(posts)
Claim(old, doc, counter) ==
    IF doc.notifies /\ doc[counter] # old[counter] THEN {<<doc[counter], Settled>>} ELSE {}

\* ... and writes the whole back, as an upsert.
WritePatch(e) ==
    /\ editor[e].pc = "replace"
    /\ Edit
    /\ LET s == editor[e].sub  old == editor[e].doc IN
       \E doc \in Patched(old) :
          /\ subs' = [subs EXCEPT ![s] = doc]
          /\ claimed' = [claimed EXCEPT
                ![s].sent = @ \cup Claim(old, doc, "sent"),
                ![s].failed = @ \cup Claim(old, doc, "failed")]
    /\ editor' = [editor EXCEPT ![e] = Idle]
    /\ UNCHANGED <<stream, delivered, pending, worker, notifier, faults, crashes, posts, lost>>

-----------------------------------------------------------------------------
(* The worker.                                                             *)

\* XREADGROUP with ">" gives out entries that were never given out before.  One
\* payload nested too deep for from_str fails the whole read, and the entries
\* stay pending.
NewCount == LET n == Len(stream) - delivered IN IF n < BatchSize THEN n ELSE BatchSize
NewEntries == [k \in 1 .. NewCount |-> delivered + k]
Decodes(i) == stream[i].kind # "deep"

ReadBatch ==
    /\ worker = Idle
    /\ NewEntries # <<>>
    /\ delivered' = delivered + NewCount
    /\ pending' = pending \cup ToSet(NewEntries)
    /\ worker' = IF \A i \in ToSet(NewEntries) : Decodes(i)
                 THEN [pc |-> "post", batch |-> NewEntries] ELSE Idle
    /\ UNCHANGED <<stream, subs, editor, notifier, edits, faults, crashes, posts, lost,
                   claimed>>

\* The call fails after Redis gave the entries out: the worker logs it, sleeps and
\* reads what comes after them.  (One that fails before changes nothing.)
ReadLost ==
    /\ worker = Idle
    /\ NewEntries # <<>>
    /\ faults < MaxFaults
    /\ faults' = faults + 1
    /\ delivered' = delivered + NewCount
    /\ pending' = pending \cup ToSet(NewEntries)
    /\ lost' = lost \cup ToSet(NewEntries)
    /\ UNCHANGED <<stream, worker, subs, editor, notifier, edits, crashes, posts, claimed>>

Position == Head(worker.batch)

\* A SWIM event whose endpoint is no URL is not posted: processing it ends with an
\* error, which is logged.
Addressless(i) == stream[i].sub = NoSub /\ stream[i].kind = "nowhere"
SkipPost ==
    /\ worker.pc = "post"
    /\ Addressless(Position)
    /\ worker' = [pc |-> "ack", batch |-> worker.batch]
    /\ UNCHANGED <<stream, delivered, pending, subs, editor, notifier, edits, faults,
                   crashes, posts, lost, claimed>>

\* One POST with a timeout, to the endpoint the message carries.  The outcome of a
\* SWIM event is only logged, and not told apart here.
Post ==
    /\ worker.pc = "post"
    /\ ~Addressless(Position)
    /\ \E ok \in IF stream[Position].sub = NoSub THEN {TRUE} ELSE BOOLEAN :
         /\ posts' = Append(posts, <<Position, ok>>)
         /\ worker' = IF stream[Position].sub = NoSub
                      THEN [pc |-> "ack", batch |-> worker.batch]
                      ELSE [pc |-> "get", batch |-> worker.batch, ok |-> ok]
    /\ UNCHANGED <<stream, delivered, pending, subs, editor, notifier, edits, faults,
                   crashes, lost, claimed>>

\* The counters after one more delivery: a notification that is no object has none.
CountSuccesses(doc, ok) ==
    IF ~doc.notifies THEN doc
    ELSE [doc EXCEPT !.sent = @ + 1, !.failed = IF ok THEN @ + 1 ELSE @]
Counted(doc, ok) ==
    IF ~doc.notifies THEN doc
    ELSE [doc EXCEPT !.sent = @ + 1, !.failed = IF ok THEN @ ELSE @ + 1]

\* mark_delivery reads the document and ends if there is none, ...
GetSubscription ==
    /\ worker.pc = "get"
    /\ LET doc == subs[stream[Position].sub] IN
       worker' = IF doc = NoSub THEN [pc |-> "ack", batch |-> worker.batch]
                 ELSE [pc |-> "replace", batch |-> worker.batch,
                       doc |-> Counted(doc, worker.ok)]
    /\ UNCHANGED <<stream, delivered, pending, subs, editor, notifier, edits, faults,
                   crashes, posts, lost, claimed>>

\* ... and writes the counted document back, as an upsert.  A counter too large for
\* a document is an error, dropped like any other.
Storable(doc) == doc.sent <= MaxCounter /\ doc.failed <= MaxCounter
ReplaceSubscription ==
    /\ worker.pc = "replace"
    /\ subs' = IF Storable(worker.doc)
               THEN [subs EXCEPT ![stream[Position].sub] = worker.doc] ELSE subs
    /\ worker' = [pc |-> "ack", batch |-> worker.batch]
    /\ UNCHANGED <<stream, delivered, pending, editor, notifier, edits, faults, crashes,
                   posts, lost, claimed>>

\* An error of mark_delivery is dropped.
MarkFails ==
    /\ worker.pc \in {"get", "replace"}
    /\ faults < MaxFaults
    /\ faults' = faults + 1
    /\ worker' = [pc |-> "ack", batch |-> worker.batch]
    /\ UNCHANGED <<stream, delivered, pending, subs, editor, notifier, edits, crashes,
                   posts, lost, claimed>>

DropRest == worker' = Idle
NextInBatch ==
    worker' = IF Len(worker.batch) = 1 THEN Idle
              ELSE [pc |-> "post", batch |-> Tail(worker.batch)]

\* The entry is acknowledged whatever became of its post.
Ack ==
    /\ worker.pc = "ack"
    /\ pending' = pending \ {Position}
    /\ NextInBatch
    /\ UNCHANGED <<stream, delivered, subs, editor, notifier, edits, faults, crashes,
                   posts, lost, claimed>>

\* A failed XACK is logged; the entry stays pending and the loop goes on.
AckFails ==
    /\ worker.pc = "ack"
    /\ faults < MaxFaults
    /\ faults' = faults + 1
    /\ NextInBatch
    /\ UNCHANGED <<stream, delivered, pending, subs, editor, notifier, edits, crashes,
                   posts, lost, claimed>>

\* A crash ends the worker and the handlers; Redis and MongoDB keep their state.
Crash ==
    /\ worker # Down
    /\ crashes < MaxCrashes
    /\ crashes' = crashes + 1
    /\ worker' = Down
    /\ editor' = [e \in Editors |-> Idle]
    /\ notifier' = [n \in Notifiers |-> {}]
    /\ UNCHANGED <<stream, delivered, pending, subs, edits, faults, posts, lost,
                   claimed>>

\* The group exists already (BUSYGROUP): the worker goes on where the group stands.
RestartFromStart ==
    /\ worker = Down
    /\ worker' = Idle
    /\ delivered' = 0
    /\ UNCHANGED <<stream, pending, subs, editor, notifier, edits, faults, crashes,
                   posts, lost, claimed>>
RestartWithPending ==
    /\ worker = Down
    /\ worker' = IF pending = {} THEN Idle
                 ELSE [pc |-> "post", batch |-> SetToSortSeq(pending, <)]
    /\ UNCHANGED <<stream, delivered, pending, subs, editor, notifier, edits, faults,
                   crashes, posts, lost, claimed>>
Restart ==
    /\ worker = Down
    /\ worker' = Idle
    /\ UNCHANGED <<stream, delivered, pending, subs, editor, notifier, edits, faults,
                   crashes, posts, lost, claimed>>

-----------------------------------------------------------------------------

\* Subscriptions may have been created before.
Init ==
    /\ stream = <<>>
    /\ delivered = 0
    /\ pending = {}
    /\ worker = Idle
    /\ subs \in [Subscriptions -> {NoSub, Fresh}]
    /\ editor = [e \in Editors |-> Idle]
    /\ notifier = [n \in Notifiers |-> {}]
    /\ edits = 0
    /\ faults = 0
    /\ crashes = 0
    /\ posts = <<>>
    /\ lost = {}
    /\ claimed = [s \in Subscriptions |-> [sent |-> {}, failed |-> {}]]

Work ==
    \/ ReadBatch
    \/ SkipPost
    \/ Post
    \/ GetSubscription
    \/ ReplaceSubscription
    \/ Ack

Next ==
    \/ \E n \in Notifiers : ListSubscriptions(n) \/ EnqueueOne(n) \/ EndLoop(n)
    \/ EnqueueSwim
    \/ \E s \in Subscriptions : Create(s) \/ Delete(s)
    \/ \E e \in Editors :
          \/ \E s \in Subscriptions : ReadForPatch(e, s)
          \/ WritePatch(e)
    \/ Work
    \/ ReadLost
    \/ MarkFails
    \/ AckFails
    \/ Crash
    \/ Restart

Spec == Init /\ [][Next]_vars

\* The worker's loop has no exit and each of its calls returns: Redis calls with an
\* answer or an error, posts within the outbound timeout.  A process that ended is
\* started again.
FairSpec == Spec /\ WF_vars(Work) /\ WF_vars(Restart)

-----------------------------------------------------------------------------
(* Properties.                                                             *)

TypeOK ==
    /\ stream \in Seq(Message) /\ Len(stream) <= MaxMessages
    /\ delivered \in 0 .. Len(stream)
    /\ pending \subseteq 1 .. delivered
    /\ worker \in {Idle, Down}
         \cup [pc: {"post", "ack"}, batch: Seq(Positions)]
         \cup [pc: {"get"}, batch: Seq(Positions), ok: BOOLEAN]
         \cup [pc: {"replace"}, batch: Seq(Positions), doc: Subscription]
    /\ subs \in [Subscriptions -> Subscription \cup {NoSub}]
    /\ editor \in [Editors -> {Idle} \cup
          [pc: {"replace"}, sub: Subscriptions, doc: Subscription]]
    /\ notifier \in [Notifiers -> SUBSET Subscriptions]
    /\ edits \in 0 .. MaxEdits
    /\ faults \in 0 .. MaxFaults
    /\ crashes \in 0 .. MaxCrashes
    /\ posts \in Seq(Positions \X BOOLEAN)
    /\ lost \subseteq 1 .. delivered
    /\ claimed \in [Subscriptions -> [sent: SUBSET (Nat \X Nat), failed: SUBSET (Nat \X Nat)]]

Posted(i) == \E k \in DOMAIN posts : posts[k][1] = i

\* Entries are posted in the order they were enqueued and none twice, also when
\* an acknowledgement fails or the broker crashes between a post and its
\* acknowledgement: the worker never reads its pending entries again.
PostedInOrderAndOnce ==
    \A j, k \in DOMAIN posts : j < k => posts[j][1] < posts[k][1]

\* On top of what clients write into them, the counters of a document never count a
\* delivery that was not made, whatever patches, deletions and new creations happen
\* around mark_delivery: a counter is at most a value some client wrote, or 0, and the
\* posts made since.  Without such values there are no more failures than deliveries.
PostsTo(s, outcomes, since) ==
    {k \in DOMAIN posts :
        k > since /\ stream[posts[k][1]].sub = s /\ posts[k][2] \in outcomes}
Bases(s, counter) == {<<0, 0>>} \cup claimed[s][counter]
CountersNeverAhead ==
    \A s \in Subscriptions : subs[s] # NoSub =>
        /\ \E base \in Bases(s, "sent") :
              subs[s].sent <= base[1] + Cardinality(PostsTo(s, BOOLEAN, base[2]))
        /\ \E base \in Bases(s, "failed") :
              subs[s].failed <= base[1] + Cardinality(PostsTo(s, {FALSE}, base[2]))
        /\ claimed[s].sent \cup claimed[s].failed = {} => subs[s].failed <= subs[s].sent

\* An entry that was given out is acknowledged only when it was posted or has no
\* address, and left behind in the pending list, unposted, only if the broker crashed,
\* the reply that gave it out did not arrive, or the read that gave it out failed on
\* one that does not decode ("Starts background worker that drains queued messages",
\* start_worker).
Held(i) == worker.pc \in {"post", "get", "replace", "ack"} /\ i \in ToSet(worker.batch)
GivenUpForCause ==
    \A i \in 1 .. delivered :
        \/ Posted(i)
        \/ Addressless(i)
        \/ /\ i \in pending
           /\ \/ Held(i)
              \/ crashes > 0
              \/ i \in lost
              \/ \E j \in pending : ~Decodes(j) /\ i - j < BatchSize /\ j - i < BatchSize

\* The stream and its worker are the channel of DeliveryChannel: crashes and failed
\* reads give messages up, failed acknowledgements keep them pending, but none is
\* attempted again or out of turn, and each is dealt with in the end.
Remaining ==
    CASE worker.pc = "post" -> worker.batch
      [] worker.pc \in {"get", "replace", "ack"} -> Tail(worker.batch)
      [] OTHER -> <<>>
Attempted == [k \in DOMAIN posts |-> posts[k][1]]
Channel ==
    INSTANCE DeliveryChannel
    WITH sent <- stream, attempts <- Attempted, cursor <- delivered - Len(Remaining)
ImplementsChannel == Channel!FairChannelSpec
=============================================================================
