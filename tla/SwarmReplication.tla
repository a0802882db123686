---------------------------- MODULE SwarmReplication ----------------------------
(***************************************************************************)
(* Replication of entity documents between brokers.                        *)
(*                                                                         *)
(* Every broker keeps a document store (db), a durable mutation log (log)  *)
(* and, per peer, the cursor of its anti-entropy pull.  A client write is  *)
(* a handler that awaits between its database calls; a mutation reaches    *)
(* another broker either by a push through the sender's Redis stream       *)
(* (outbox) or by the receiver's periodic pull.  Both paths run the same   *)
(* dedupe / get / write / log sequence, each call a step of its own.       *)
(*                                                                         *)
(* A mutation carries a snapshot; its content is identified by the number  *)
(* of the write that made it.  Timestamps are values of one global clock:  *)
(* the code orders writes by wall clocks it takes to be synchronised.      *)
(***************************************************************************)
EXTENDS Naturals, Sequences, FiniteSets

CONSTANTS
    Brokers,      \* the brokers of one tenant's swarm
    Entities,     \* entity ids
    Clients,      \* concurrent client write handlers
    Handlers,     \* concurrent handlers of POST /internal/swim
    Origins,      \* the brokers that receive client writes
    Ops,          \* the write operations clients use
    Neighbors,    \* per broker, the configured seeds its pushes go to, in order
    Peers,        \* per broker, the records in its peer store
    PageLimit,    \* the limit of a pull (200 in the code)
    MaxWrites,    \* bound: client writes begun
    StampGap,     \* 1: the clock advances between two readings; 0: it may not
    NoDoc,        \* the entity is absent from a store
    NoMut         \* no mutation is being processed

AllOps == {"create", "update", "delete", "batchDelete"}

Mutation == [id: Nat, ent: Entities, op: {"upsert", "delete"},
             ver: Nat, rec: Nat, src: Brokers]
Doc == [ver: Nat, val: Nat]

ASSUME ConstantsAssumption ==
    /\ Origins \subseteq Brokers
    /\ Ops \subseteq AllOps
    /\ Handlers \cap Brokers = {}
    /\ Neighbors \in [Brokers -> Seq(Brokers)]
    /\ Peers \in [Brokers -> SUBSET Brokers]
    /\ PageLimit \in Nat \ {0}
    /\ MaxWrites \in Nat
    /\ StampGap \in {0, 1}
    /\ NoDoc \notin Doc
    /\ NoMut \notin Mutation

VARIABLES
    clock,      \* the last timestamp read
    writes,     \* the number of client writes begun
    db,         \* [broker -> [entity -> document]]: collection "entities"
    log,        \* [broker -> set of mutations]: collection "swarm_mutations"
    cursor,     \* [broker -> [peer -> last_mutation_cursor_nanos]], 0 for none:
                \* no mutation is recorded before 1
    outbox,     \* [broker -> pushes in its Redis stream]
    client,     \* [client -> state of its write handler]
    task,       \* [broker -> its pull], [handler -> its push intake]
    served      \* [broker -> [peer -> mutations the peer's pages contained]]

vars == <<clock, writes, db, log, cursor, outbox, client, task, served>>

Workers == Brokers \cup Handlers

IdleClient == [pc |-> "idle"]
IdleTask == [pc |-> "idle"]

BusyClient == [pc: {"write", "written", "stamped", "logged"}, at: Brokers,
               op: AllOps, ent: Entities, id: Nat, ver: Nat, rec: Nat]
BusyTask ==
    [pc: {"dedupe"}, at: Brokers, from: Brokers,
     page: SUBSET Mutation, mut: {NoMut}, cur: Nat]
    \cup [pc: {"get", "write", "log"}, at: Brokers, from: Brokers,
          page: SUBSET Mutation, mut: Mutation, cur: Nat]
Push == [to: Brokers, mut: Mutation]

AllLogged == UNION {log[b] : b \in Brokers}

-----------------------------------------------------------------------------
(* Pure parts of the replication rules.                                    *)

\* What applying a mutation leaves in the store.
Tombstone(m) == IF m.op = "upsert" THEN [ver |-> m.ver, val |-> m.id] ELSE [ver |-> m.ver]
Result(m) == IF m.op = "upsert" THEN [ver |-> m.ver, val |-> m.id] ELSE NoDoc

\* should_apply: an absent document never stops a mutation, and a present one
\* stops it only if its modifiedAt is later than the mutation's version.
NewerStrictly(m, doc) == doc = NoDoc \/ m.ver > doc.ver
Newer(m, doc) == doc = NoDoc \/ m.ver >= doc.ver

\* The order of a pulled page.
NewestFirst(m, k) == m.rec >= k.rec
RecordedBefore(m, k) == m.rec <= k.rec

\* The pages GET /internal/swim/mutations may answer with: the PageLimit lowest
\* entries recorded after the cursor; the order of equal ones is the database's.
PagesSince(p, since) ==
    LET after == {m \in log[p] : m.rec > since}
    IN  {page \in SUBSET after :
            /\ Cardinality(page) = IF Cardinality(after) < PageLimit
                                   THEN Cardinality(after) ELSE PageLimit
            /\ \A m \in page : \A k \in after \ page : RecordedBefore(m, k)}

AlwaysUnseen(b, m) == FALSE
Seen(b, m) == m \in log[b]

\* The peers a round pulls from: the records of the store without the local one.
PullPeers(b) == Peers[b] \ {b}

\* The clock readings possible now.
Readings == (clock + StampGap) .. (clock + 1)

Larger(a, b) == IF a >= b THEN a ELSE b

-----------------------------------------------------------------------------
(* Client writes.                                                          *)

Busy(c) == client[c].pc # "idle"

ClientMutation(c) ==
    [id |-> client[c].id, ent |-> client[c].ent, ver |-> client[c].ver,
     op |-> IF client[c].op \in {"create", "update"} THEN "upsert" ELSE "delete",
     rec |-> client[c].rec, src |-> client[c].at]

\* The handler's first read.  create answers 409 if the entity exists, the
\* others 404 if it does not: those answers change nothing.  create and update
\* stamp modifiedAt; delete takes the version of the document it read.
BeginWrite(c, b, op, e) ==
    /\ client[c] = IdleClient
    /\ b \in Origins
    /\ writes < MaxWrites
    /\ op \in Ops \cap {"create", "update", "delete"}
    /\ (op = "create") <=> (db[b][e] = NoDoc)
    /\ writes' = writes + 1
    /\ \E t \in Readings :
         /\ clock' = IF op = "delete" THEN clock ELSE t
         /\ client' = [client EXCEPT ![c] =
               [pc |-> "write", at |-> b, op |-> op, ent |-> e, id |-> writes + 1,
                ver |-> IF op = "delete" THEN db[b][e].ver ELSE t, rec |-> 0]]
    /\ UNCHANGED <<db, log, cursor, outbox, task, served>>

\* The database call.  create inserts and fails on the unique index if another
\* handler inserted first; update replaces with upsert, delete deletes.
WriteStore(c) ==
    /\ client[c].pc = "write"
    /\ LET b == client[c].at  e == client[c].ent IN
       IF client[c].op = "create" /\ db[b][e] # NoDoc
       THEN client' = [client EXCEPT ![c] = IdleClient] /\ UNCHANGED db
       ELSE /\ db' = [db EXCEPT ![b][e] = Result(ClientMutation(c))]
            /\ client' = [client EXCEPT ![c].pc = "written"]
    /\ UNCHANGED <<clock, writes, log, cursor, outbox, task, served>>

\* batch_delete deletes without reading first; its version is stamped later.
BatchDelete(c, b, e) ==
    /\ client[c] = IdleClient
    /\ b \in Origins
    /\ writes < MaxWrites
    /\ "batchDelete" \in Ops
    /\ db[b][e] # NoDoc
    /\ db' = [db EXCEPT ![b][e] = NoDoc]
    /\ writes' = writes + 1
    /\ client' = [client EXCEPT ![c] =
          [pc |-> "written", at |-> b, op |-> "batchDelete", ent |-> e,
           id |-> writes + 1, ver |-> 0, rec |-> 0]]
    /\ UNCHANGED <<clock, log, cursor, outbox, task, served>>

\* Notifications are enqueued; then the mutation is built, recorded_at stamped.
StampThenPublish(c) ==
    /\ client[c].pc = "written"
    /\ \E t \in Readings :
         /\ clock' = t
         /\ client' = [client EXCEPT ![c].pc = "logged", ![c].rec = t]
    /\ UNCHANGED <<writes, db, log, cursor, outbox, task, served>>
Stamp(c) ==
    /\ client[c].pc = "written"
    /\ \E t \in Readings :
         /\ clock' = t
         /\ client' = [client EXCEPT
               ![c].pc = "stamped", ![c].rec = t,
               ![c].ver = IF client[c].op = "batchDelete" THEN t ELSE @]
    /\ UNCHANGED <<writes, db, log, cursor, outbox, task, served>>

\* The mutation is inserted in the local log.
InsertLocal(c) ==
    /\ client[c].pc = "stamped"
    /\ log' = [log EXCEPT ![client[c].at] = @ \cup {ClientMutation(c)}]
    /\ client' = [client EXCEPT ![c].pc = "logged"]
    /\ UNCHANGED <<clock, writes, db, cursor, outbox, task, served>>

\* One message per neighbour; the first enqueue that fails ends the handler.
Publish(c) ==
    /\ client[c].pc = "logged"
    /\ LET b == client[c].at
           message(i) == [to |-> Neighbors[b][i], mut |-> ClientMutation(c)]
       IN \E sent \in 0 .. Len(Neighbors[b]) :
             outbox' = [outbox EXCEPT ![b] = @ \o [i \in 1 .. sent |-> message(i)]]
    /\ client' = [client EXCEPT ![c] = IdleClient]
    /\ UNCHANGED <<clock, writes, db, log, cursor, task, served>>

\* The handler ends early: a crash, a database error, a subscription whose
\* @context cannot be fetched, a local_only request or one that changed nothing.
FailClient(c) ==
    /\ Busy(c)
    /\ client' = [client EXCEPT ![c] = IdleClient]
    /\ UNCHANGED <<clock, writes, db, log, cursor, outbox, task, served>>

-----------------------------------------------------------------------------
(* Mutations from other brokers.                                           *)

\* The sender's queue worker posts its oldest message to a handler there.  A
\* post that timed out leaves its handler running beside the next one.
Deliver(s, h) ==
    /\ outbox[s] # <<>>
    /\ task[h] = IdleTask
    /\ task' = [task EXCEPT ![h] =
          [pc |-> "dedupe", at |-> Head(outbox[s]).to, from |-> s,
           page |-> {Head(outbox[s]).mut}, mut |-> NoMut, cur |-> 0]]
    /\ outbox' = [outbox EXCEPT ![s] = Tail(@)]
    /\ UNCHANGED <<clock, writes, db, log, cursor, client, served>>

\* A post that fails is acknowledged like one that succeeded.
LosePush(s) ==
    /\ outbox[s] # <<>>
    /\ outbox' = [outbox EXCEPT ![s] = Tail(@)]
    /\ UNCHANGED <<clock, writes, db, log, cursor, client, task, served>>

\* The pull of b from p: one GET with the cursor of the peer record.
StartPull(b, p) ==
    /\ task[b] = IdleTask
    /\ p \in PullPeers(b)
    /\ \E page \in PagesSince(p, cursor[b][p]) :
         /\ task' = [task EXCEPT ![b] =
               [pc |-> "dedupe", at |-> b, from |-> p, page |-> page,
                mut |-> NoMut, cur |-> cursor[b][p]]]
         /\ served' = [served EXCEPT ![b][p] = @ \cup page]
    /\ UNCHANGED <<clock, writes, db, log, cursor, outbox, client>>

\* The next mutation in recorded order; one already in the log is skipped.
Dedupe(w) ==
    /\ task[w].pc = "dedupe"
    /\ \E m \in task[w].page :
         /\ \A k \in task[w].page : RecordedBefore(m, k)
         /\ LET next == [task[w] EXCEPT !.page = @ \ {m}, !.cur = Larger(@, m.rec)]
            IN  task' = [task EXCEPT ![w] =
                   IF Seen(next.at, m) THEN next
                   ELSE [next EXCEPT !.pc = "get", !.mut = m]]
    /\ UNCHANGED <<clock, writes, db, log, cursor, outbox, client, served>>

\* should_apply is decided on the document read here.
GetExisting(w) ==
    /\ task[w].pc = "get"
    /\ LET m == task[w].mut
           pc == IF Newer(m, db[task[w].at][m.ent]) THEN "write" ELSE "log"
       IN  task' = [task EXCEPT ![w].pc = pc]
    /\ UNCHANGED <<clock, writes, db, log, cursor, outbox, client, served>>

\* The snapshot replaces the document, or the document is deleted.
Apply(w) ==
    /\ task[w].pc = "write"
    /\ db' = [db EXCEPT ![task[w].at][task[w].mut.ent] = Result(task[w].mut)]
    /\ task' = [task EXCEPT ![w].pc = "log"]
    /\ UNCHANGED <<clock, writes, log, cursor, outbox, client, served>>

\* The mutation enters the log as its origin recorded it.  If another task
\* logged it first the unique index refuses it, and the rest is dropped.
InsertRemote(w) ==
    /\ task[w].pc = "log"
    /\ LET b == task[w].at  m == task[w].mut IN
       IF m \in log[b]
       THEN task' = [task EXCEPT ![w] = IdleTask] /\ UNCHANGED log
       ELSE /\ log' = [log EXCEPT ![b] = @ \cup {m}]
            /\ task' = [task EXCEPT ![w].pc = "dedupe", ![w].mut = NoMut]
    /\ UNCHANGED <<clock, writes, db, cursor, outbox, client, served>>

\* A page that was processed to its end saves its cursor; a push has none.
FinishKeepsCursor(w) ==
    /\ task[w].pc = "dedupe"
    /\ task[w].page = {}
    /\ task' = [task EXCEPT ![w] = IdleTask]
    /\ UNCHANGED <<clock, writes, db, log, cursor, outbox, client, served>>
Finish(w) ==
    /\ task[w].pc = "dedupe"
    /\ task[w].page = {}
    /\ cursor' = IF w \in Brokers
                 THEN [cursor EXCEPT ![w][task[w].from] = task[w].cur] ELSE cursor
    /\ task' = [task EXCEPT ![w] = IdleTask]
    /\ UNCHANGED <<clock, writes, db, log, outbox, client, served>>

\* A crash or an error ends the task and saves no cursor.  It may happen in every
\* round: a notification whose subscription's @context cannot be fetched fails the
\* task after the snapshot was written, each time the mutation is applied.
FailAndSaveCursor(w) ==
    /\ task[w] # IdleTask
    /\ cursor' = IF w \in Brokers
                 THEN [cursor EXCEPT ![w][task[w].from] = task[w].cur] ELSE cursor
    /\ task' = [task EXCEPT ![w] = IdleTask]
    /\ UNCHANGED <<clock, writes, db, log, outbox, client, served>>
FailTask(w) ==
    /\ task[w] # IdleTask
    /\ task' = [task EXCEPT ![w] = IdleTask]
    /\ UNCHANGED <<clock, writes, db, log, cursor, outbox, client, served>>

-----------------------------------------------------------------------------

Init ==
    /\ clock = 1
    /\ writes = 0
    /\ db = [b \in Brokers |-> [e \in Entities |-> NoDoc]]
    /\ log = [b \in Brokers |-> {}]
    /\ cursor = [b \in Brokers |-> [p \in Brokers |-> 0]]
    /\ outbox = [b \in Brokers |-> <<>>]
    /\ client = [c \in Clients |-> IdleClient]
    /\ task = [w \in Workers |-> IdleTask]
    /\ served = [b \in Brokers |-> [p \in Brokers |-> {}]]

ClientStep(c) ==
    \/ \E b \in Brokers, e \in Entities :
          \/ \E op \in Ops : BeginWrite(c, b, op, e)
          \/ BatchDelete(c, b, e)
    \/ WriteStore(c)
    \/ Stamp(c)
    \/ InsertLocal(c)
    \/ Publish(c)
    \/ FailClient(c)

\* The steps of a task that is under way.
Progress(w) ==
    \/ Dedupe(w)
    \/ GetExisting(w)
    \/ Apply(w)
    \/ InsertRemote(w)
    \/ Finish(w)

Next ==
    \/ \E c \in Clients : ClientStep(c)
    \/ \E s \in Brokers : LosePush(s)
    \/ \E s \in Brokers, h \in Handlers : Deliver(s, h)
    \/ \E b, p \in Brokers : StartPull(b, p)
    \/ \E w \in Workers : Progress(w) \/ FailTask(w)

Spec == Init /\ [][Next]_vars

\* The worker of a broker runs its rounds for ever, each round tries every peer
\* of the store whatever the others answered, and a task under way proceeds.
Fairness ==
    /\ \A b, p \in Brokers : SF_vars(StartPull(b, p))
    /\ \A w \in Workers : WF_vars(Progress(w))

FairSpec == Spec /\ Fairness

-----------------------------------------------------------------------------
(* Properties.                                                             *)

TypeOK ==
    /\ clock \in Nat
    /\ writes \in 0 .. MaxWrites
    /\ db \in [Brokers -> [Entities -> Doc \cup {NoDoc}]]
    /\ log \in [Brokers -> SUBSET Mutation]
    /\ cursor \in [Brokers -> [Brokers -> Nat]]
    /\ outbox \in [Brokers -> Seq(Push)]
    /\ client \in [Clients -> {IdleClient} \cup BusyClient]
    /\ task \in [Workers -> {IdleTask} \cup BusyTask]
    /\ served \in [Brokers -> [Brokers -> SUBSET Mutation]]

\* A mutation that any broker has logged is in the log of the broker that made
\* it: record_local_swarm_mutation inserts before it publishes.
LoggedAtOrigin == \A m \in AllLogged : m \in log[m.src]

\* A broker never applies its own mutation again, whether a peer pushes it back
\* or a pull of a relay returns it: duplicate suppression by mutationId.
OwnMutationNeverReapplied ==
    \A w \in Workers :
        task[w].pc \in {"get", "write", "log"} => task[w].mut.src # task[w].at

\* A cursor never moves past a mutation that a page contained and the broker did
\* not log: a page cut short is read again (sync_peer_mutations returns before
\* it saves the record).
CursorNeverSkipsServed ==
    \A b, p \in Brokers : \A m \in served[b][p] :
        m.rec <= cursor[b][p] => m \in log[b]

\* What a peer has logged and the puller has not is still ahead of the cursor
\* ("Pulls unseen mutation log entries from one peer", sync_peer_mutations).
UnseenIsAheadOfCursor ==
    \A b, p \in Brokers : \A m \in log[p] : m \in log[b] \/ m.rec > cursor[b][p]

\* A broker that only follows one origin holds a prefix of that origin's log.
FollowerLogIsPrefix ==
    \A b \in Brokers : \A m \in log[b] : \A k \in log[m.src] :
        k.rec < m.rec => k \in log[b]

\* A follower's document is never older than its log says: it is the result of a
\* mutation recorded no earlier than any the follower has logged for that entity,
\* also after a pull that stopped between the write and the log entry.
FollowerNeverBehindLog ==
    \A b \in Brokers \ Origins : \A m \in log[b] :
        \E k \in AllLogged :
            /\ k.ent = m.ent
            /\ k.rec >= m.rec
            /\ db[b][m.ent] = Result(k)

\* An apply never recreates an entity whose deletion, at the snapshot's version or
\* a later one, is already in the broker's log ("applies unseen remote mutations
\* only when incoming version is newer", README).
NeverRecreateDeleted ==
    [][\A w \in Workers :
          task[w].pc = "write" /\ task'[w].pc = "log" /\ task[w].mut.op = "upsert" =>
              \A k \in log[task[w].at] :
                  k.op = "delete" /\ k.ent = task[w].mut.ent => k.ver < task[w].mut.ver]_vars

\* Every mutation in a broker's log reaches the log of every broker that pulls from
\* it, lost pushes and failed rounds notwithstanding, unless from some time on every
\* pull from there is cut short before the end of its page.
EventuallyReplicated ==
    \A n \in 1 .. MaxWrites, a, b \in Brokers :
        a \in PullPeers(b) =>
            \/ (\E m \in log[a] : m.id = n) ~> (\E m \in log[b] : m.id = n)
            \/ <>[][~(Finish(b) /\ task[b].from = a)]_vars

=============================================================================
