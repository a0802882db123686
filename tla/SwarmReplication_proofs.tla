------------------------- MODULE SwarmReplication_proofs -------------------------
(* Theorems about SwarmReplication, for any swarm, page limit and number of *)
(* handlers.  The theorem about cursors needs a clock that advances between *)
(* two readings: of two entries with equal recorded times a cut page may    *)
(* contain either.                                                          *)
EXTENDS SwarmReplication, SequenceTheorems, TLAPS

-----------------------------------------------------------------------------
(* Type correctness. *)

LEMMA ReadingsAdvance ==
    ASSUME clock \in Nat, NEW t \in Readings
    PROVE  t \in Nat /\ clock <= t /\ (StampGap = 1 => clock < t)
BY ConstantsAssumption DEF Readings

LEMMA LargerIsMaximum ==
    ASSUME NEW a \in Nat, NEW b \in Nat
    PROVE  /\ Larger(a, b) \in Nat /\ a <= Larger(a, b) /\ b <= Larger(a, b)
           /\ Larger(a, b) \in {a, b}
BY DEF Larger

\* What TypeOK says of a handler and of a task that are under way.
LEMMA BusyTypes ==
    ASSUME TypeOK
    PROVE  /\ \A c \in Clients : client[c].pc # "idle" => client[c] \in BusyClient
           /\ \A w \in Workers : task[w].pc # "idle" => task[w] \in BusyTask
BY DEF TypeOK, IdleClient, IdleTask

LEMMA ClientMutationType ==
    ASSUME NEW c, client[c] \in BusyClient
    PROVE  /\ ClientMutation(c) \in Mutation
           /\ Result(ClientMutation(c)) \in Doc \cup {NoDoc}
           /\ ClientMutation(c).src = client[c].at
           /\ ClientMutation(c).rec = client[c].rec
BY DEF ClientMutation, BusyClient, Mutation, Result, Doc

\* The collections after one document or one entry changed.
LEMMA CollectionTypes ==
    ASSUME NEW d \in [Brokers -> [Entities -> Doc \cup {NoDoc}]],
           NEW l \in [Brokers -> SUBSET Mutation],
           NEW b \in Brokers
    PROVE  /\ \A e \in Entities, doc \in Doc \cup {NoDoc} :
                 [d EXCEPT ![b][e] = doc] \in [Brokers -> [Entities -> Doc \cup {NoDoc}]]
           /\ \A m \in Mutation : [l EXCEPT ![b] = @ \cup {m}] \in [Brokers -> SUBSET Mutation]
OBVIOUS

LEMMA InitTypeOK == Init => TypeOK
BY ConstantsAssumption DEF Init, TypeOK

LEMMA WorkerSets == Brokers \subseteq Workers /\ Handlers \subseteq Workers
BY DEF Workers

\* The pushes a handler appends all carry its mutation.
LEMMA PublishedPushes ==
    ASSUME TypeOK, NEW c \in Clients, Publish(c)
    PROVE  \E added \in Seq(Push) :
              /\ outbox' = [outbox EXCEPT ![client[c].at] = @ \o added]
              /\ \A i \in DOMAIN added : added[i].mut = ClientMutation(c)
<1>. DEFINE b == client[c].at
            message(i) == [to |-> Neighbors[b][i], mut |-> ClientMutation(c)]
<1>1. client[c] \in BusyClient
  BY BusyTypes DEF Publish
<1>2. b \in Brokers /\ ClientMutation(c) \in Mutation /\ Neighbors[b] \in Seq(Brokers)
  BY <1>1, ClientMutationType, ConstantsAssumption DEF BusyClient
<1>3. PICK sent \in 0 .. Len(Neighbors[b]) :
         outbox' = [outbox EXCEPT ![b] = @ \o [i \in 1 .. sent |-> message(i)]]
  BY DEF Publish
<1>4. \A i \in 1 .. sent : message(i) \in Push /\ message(i).mut = ClientMutation(c)
  BY <1>2 DEF Push
<1>5. [i \in 1 .. sent |-> message(i)] \in Seq(Push)
  BY <1>4, IsASeq
<1>. HIDE DEF message
<1>. QED  BY <1>3, <1>4, <1>5

LEMMA NextTypeOK == TypeOK /\ [Next]_vars => TypeOK'
<1>. SUFFICES ASSUME TypeOK, [Next]_vars PROVE TypeOK'
  OBVIOUS
<1>. USE DEF TypeOK
<1>1. ASSUME NEW c \in Clients, NEW b \in Brokers, NEW op \in Ops, NEW e \in Entities,
             BeginWrite(c, b, op, e)
      PROVE  TypeOK'
  <2>1. op # "create" => db[b][e] \in Doc
    BY <1>1 DEF BeginWrite
  <2>2. PICK t \in Readings :
           /\ clock' = IF op = "delete" THEN clock ELSE t
           /\ client' = [client EXCEPT ![c] =
                 [pc |-> "write", at |-> b, op |-> op, ent |-> e, id |-> writes + 1,
                  ver |-> IF op = "delete" THEN db[b][e].ver ELSE t, rec |-> 0]]
    BY <1>1 DEF BeginWrite
  <2>3. t \in Nat
    BY ReadingsAdvance
  <2>4. [pc |-> "write", at |-> b, op |-> op, ent |-> e, id |-> writes + 1,
         ver |-> IF op = "delete" THEN db[b][e].ver ELSE t, rec |-> 0] \in BusyClient
    BY <2>1, <2>3, ConstantsAssumption DEF BusyClient, Doc
  <2>5. writes' \in 0 .. MaxWrites
    BY <1>1, ConstantsAssumption DEF BeginWrite
  <2>. QED  BY <1>1, <2>2, <2>3, <2>4, <2>5 DEF BeginWrite
<1>2. ASSUME NEW c \in Clients, WriteStore(c) PROVE TypeOK'
  <2>1. client[c] \in BusyClient
    BY <1>2, BusyTypes DEF WriteStore
  <2>2. client[c].at \in Brokers /\ client[c].ent \in Entities
    BY <2>1 DEF BusyClient
  <2>3. [client[c] EXCEPT !.pc = "written"] \in BusyClient
    BY <2>1 DEF BusyClient
  <2>4. client' \in [Clients -> {IdleClient} \cup BusyClient]
    BY <1>2, <2>3 DEF WriteStore
  <2>5. Result(ClientMutation(c)) \in Doc \cup {NoDoc}
    BY <2>1, ClientMutationType
  <2>6. \/ db' = db
        \/ db' = [db EXCEPT ![client[c].at][client[c].ent] = Result(ClientMutation(c))]
    BY <1>2 DEF WriteStore
  <2>7. db' \in [Brokers -> [Entities -> Doc \cup {NoDoc}]]
    <3>1. CASE db' = db
      BY <3>1
    <3>2. CASE db' = [db EXCEPT ![client[c].at][client[c].ent] = Result(ClientMutation(c))]
      <4>. HIDE DEF TypeOK
      <4>1. db \in [Brokers -> [Entities -> Doc \cup {NoDoc}]]
        BY DEF TypeOK
      <4>. QED  BY <2>2, <2>5, <3>2, <4>1, CollectionTypes
    <3>. QED  BY <2>6, <3>1, <3>2
  <2>. QED  BY <1>2, <2>4, <2>7 DEF WriteStore
<1>3. ASSUME NEW c \in Clients, NEW b \in Brokers, NEW e \in Entities, BatchDelete(c, b, e)
      PROVE  TypeOK'
  <2>1. [pc |-> "written", at |-> b, op |-> "batchDelete", ent |-> e,
         id |-> writes + 1, ver |-> 0, rec |-> 0] \in BusyClient
    BY DEF BusyClient, AllOps
  <2>2. writes' \in 0 .. MaxWrites
    BY <1>3, ConstantsAssumption DEF BatchDelete
  <2>. QED  BY <1>3, <2>1, <2>2 DEF BatchDelete
<1>4. ASSUME NEW c \in Clients, Stamp(c) PROVE TypeOK'
  <2>1. client[c] \in BusyClient
    BY <1>4, BusyTypes DEF Stamp
  <2>2. PICK t \in Readings :
           /\ clock' = t
           /\ client' = [client EXCEPT
                 ![c].pc = "stamped", ![c].rec = t,
                 ![c].ver = IF client[c].op = "batchDelete" THEN t ELSE @]
    BY <1>4 DEF Stamp
  <2>3. t \in Nat
    BY ReadingsAdvance
  <2>4. client' \in [Clients -> {IdleClient} \cup BusyClient]
    BY <2>1, <2>2, <2>3 DEF BusyClient
  <2>. QED  BY <1>4, <2>2, <2>3, <2>4 DEF Stamp
<1>5. ASSUME NEW c \in Clients, InsertLocal(c) PROVE TypeOK'
  <2>1. client[c] \in BusyClient
    BY <1>5, BusyTypes DEF InsertLocal
  <2>2. log' \in [Brokers -> SUBSET Mutation]
    BY <1>5, <2>1, ClientMutationType DEF InsertLocal
  <2>3. client' \in [Clients -> {IdleClient} \cup BusyClient]
    BY <1>5, <2>1 DEF InsertLocal, BusyClient
  <2>. QED  BY <1>5, <2>2, <2>3 DEF InsertLocal
<1>6. ASSUME NEW c \in Clients, Publish(c) PROVE TypeOK'
  <2>. DEFINE b == client[c].at
  <2>1. PICK added \in Seq(Push) : outbox' = [outbox EXCEPT ![b] = @ \o added]
    BY <1>6, PublishedPushes
  <2>2. client[c] \in BusyClient
    BY <1>6, BusyTypes DEF Publish
  <2>3. b \in Brokers
    BY <2>2 DEF BusyClient
  <2>4. outbox[b] \o added \in Seq(Push)
    BY <2>3, ConcatProperties
  <2>. HIDE DEF b
  <2>5. outbox' \in [Brokers -> Seq(Push)]
    BY <2>1, <2>3, <2>4
  <2>. QED  BY <1>6, <2>5 DEF Publish
<1>7. ASSUME NEW c \in Clients, FailClient(c) PROVE TypeOK'
  BY <1>7 DEF FailClient
<1>8. ASSUME NEW s \in Brokers, NEW h \in Handlers, Deliver(s, h) PROVE TypeOK'
  <2>1. Head(outbox[s]) \in Push
        /\ Tail(outbox[s]) \in Seq(Push)
    BY <1>8, HeadTailProperties DEF Deliver
  <2>2. [pc |-> "dedupe", at |-> Head(outbox[s]).to, from |-> s,
         page |-> {Head(outbox[s]).mut}, mut |-> NoMut, cur |-> 0] \in BusyTask
    BY <2>1 DEF BusyTask, Push
  <2>. QED  BY <1>8, <2>1, <2>2, WorkerSets DEF Deliver
<1>9. ASSUME NEW s \in Brokers, LosePush(s) PROVE TypeOK'
  <2>1. Tail(outbox[s]) \in Seq(Push)
    BY <1>9, HeadTailProperties DEF LosePush
  <2>. QED  BY <1>9, <2>1 DEF LosePush
<1>10. ASSUME NEW b \in Brokers, NEW p \in Brokers, StartPull(b, p) PROVE TypeOK'
  <2>1. PICK page \in PagesSince(p, cursor[b][p]) :
           /\ task' = [task EXCEPT ![b] =
                 [pc |-> "dedupe", at |-> b, from |-> p, page |-> page,
                  mut |-> NoMut, cur |-> cursor[b][p]]]
           /\ served' = [served EXCEPT ![b][p] = @ \cup page]
    BY <1>10 DEF StartPull
  <2>2. page \subseteq Mutation
    BY <2>1 DEF PagesSince
  <2>3. [pc |-> "dedupe", at |-> b, from |-> p, page |-> page,
         mut |-> NoMut, cur |-> cursor[b][p]] \in BusyTask
    BY <2>2 DEF BusyTask
  <2>4. served' \in [Brokers -> [Brokers -> SUBSET Mutation]]
    BY <2>1, <2>2
  <2>5. task' \in [Workers -> {IdleTask} \cup BusyTask]
    BY <2>1, <2>3, WorkerSets
  <2>. QED  BY <1>10, <2>4, <2>5 DEF StartPull
<1>11. ASSUME NEW w \in Workers, Dedupe(w) PROVE TypeOK'
  <2>1. task[w] \in BusyTask
    BY <1>11, BusyTypes DEF Dedupe
  <2>2. PICK m \in task[w].page :
           LET next == [task[w] EXCEPT !.page = @ \ {m}, !.cur = Larger(@, m.rec)]
           IN  task' = [task EXCEPT ![w] =
                  IF Seen(next.at, m) THEN next
                  ELSE [next EXCEPT !.pc = "get", !.mut = m]]
    BY <1>11 DEF Dedupe
  <2>3. m \in Mutation /\ m.rec \in Nat
    BY <2>1 DEF BusyTask, Mutation
  <2>. DEFINE next == [task[w] EXCEPT !.page = @ \ {m}, !.cur = Larger(@, m.rec)]
  <2>4. next \in BusyTask
    BY <2>1, <2>3, LargerIsMaximum DEF BusyTask
  <2>5. [next EXCEPT !.pc = "get", !.mut = m] \in BusyTask
    BY <2>3, <2>4 DEF BusyTask
  <2>. QED  BY <1>11, <2>2, <2>4, <2>5 DEF Dedupe
<1>12. ASSUME NEW w \in Workers, GetExisting(w) PROVE TypeOK'
  <2>1. task[w] \in BusyTask /\ task[w].pc # "dedupe"
    BY <1>12, BusyTypes DEF GetExisting
  <2>2. \A pc \in {"write", "log"} : [task[w] EXCEPT !.pc = pc] \in BusyTask
    BY <2>1 DEF BusyTask
  <2>3. \E pc \in {"write", "log"} : task' = [task EXCEPT ![w] = [task[w] EXCEPT !.pc = pc]]
    BY <1>12 DEF GetExisting
  <2>. QED  BY <1>12, <2>2, <2>3 DEF GetExisting
<1>13. ASSUME NEW w \in Workers, Apply(w) PROVE TypeOK'
  <2>1. task[w] \in BusyTask /\ task[w].pc # "dedupe"
    BY <1>13, BusyTypes DEF Apply
  <2>2. task[w].mut \in Mutation /\ task[w].at \in Brokers
    BY <2>1 DEF BusyTask
  <2>3. Result(task[w].mut) \in Doc \cup {NoDoc} /\ task[w].mut.ent \in Entities
    BY <2>2 DEF Result, Doc, Mutation
  <2>4. [task[w] EXCEPT !.pc = "log"] \in BusyTask
    BY <2>1 DEF BusyTask
  <2>5. task' \in [Workers -> {IdleTask} \cup BusyTask]
    BY <1>13, <2>4 DEF Apply
  <2>. QED  BY <1>13, <2>2, <2>3, <2>5 DEF Apply
<1>14. ASSUME NEW w \in Workers, InsertRemote(w) PROVE TypeOK'
  <2>1. task[w] \in BusyTask /\ task[w].pc # "dedupe"
    BY <1>14, BusyTypes DEF InsertRemote
  <2>2. task[w].mut \in Mutation /\ task[w].at \in Brokers
    BY <2>1 DEF BusyTask
  <2>3. [task[w] EXCEPT !.pc = "dedupe", !.mut = NoMut] \in BusyTask
    BY <2>1 DEF BusyTask
  <2>4. task' \in [Workers -> {IdleTask} \cup BusyTask]
    BY <1>14, <2>3 DEF InsertRemote
  <2>5. log' = log \/ log' = [log EXCEPT ![task[w].at] = @ \cup {task[w].mut}]
    BY <1>14 DEF InsertRemote
  <2>6. log' \in [Brokers -> SUBSET Mutation]
    <3>1. CASE log' = log
      BY <3>1
    <3>2. CASE log' = [log EXCEPT ![task[w].at] = @ \cup {task[w].mut}]
      <4>. HIDE DEF TypeOK
      <4>1. log \in [Brokers -> SUBSET Mutation]
        BY DEF TypeOK
      <4>. QED  BY <2>2, <3>2, <4>1, CollectionTypes
    <3>. QED  BY <2>5, <3>1, <3>2
  <2>. QED  BY <1>14, <2>4, <2>6 DEF InsertRemote
<1>15. ASSUME NEW w \in Workers, Finish(w) PROVE TypeOK'
  <2>1. task[w] \in BusyTask
    BY <1>15, BusyTypes DEF Finish
  <2>2. task[w].cur \in Nat /\ task[w].from \in Brokers
    BY <2>1 DEF BusyTask
  <2>3. cursor' \in [Brokers -> [Brokers -> Nat]]
    BY <1>15, <2>2 DEF Finish
  <2>. QED  BY <1>15, <2>3 DEF Finish
<1>16. ASSUME NEW w \in Workers, FailTask(w) PROVE TypeOK'
  BY <1>16 DEF FailTask
<1>17. CASE UNCHANGED vars
  BY <1>17 DEF vars
<1>. QED  BY <1>1, <1>2, <1>3, <1>4, <1>5, <1>6, <1>7, <1>8, <1>9, <1>10, <1>11, <1>12,
             <1>13, <1>14, <1>15, <1>16, <1>17 DEF Next, ClientStep, Progress

\* Every variable of SwarmReplication keeps its type.
THEOREM TypeCorrect == Spec => []TypeOK
BY InitTypeOK, NextTypeOK, PTL DEF Spec

-----------------------------------------------------------------------------
(* The inductive invariant.  A mutation is in its origin's log before it is    *)
(* anywhere else: in another log, in a stream, in the hands of a task.         *)

AtOrigin(m, logs) == m \in logs[m.src]

PushesAtOrigin == \A s \in Brokers : \A i \in DOMAIN outbox[s] : AtOrigin(outbox[s][i].mut, log)

PublishedAtOrigin ==
    \A c \in Clients : client[c].pc = "logged" => AtOrigin(ClientMutation(c), log)

SoundTask(w, t, logs) ==
    /\ \A m \in t.page : AtOrigin(m, logs)
    /\ t.pc # "dedupe" => AtOrigin(t.mut, logs) /\ t.mut.src # t.at
    /\ w \in Brokers => t.at = w

TasksAtOrigin ==
    \A w \in Workers : task[w].pc # "idle" => SoundTask(w, task[w], log)

OriginInv ==
    /\ TypeOK
    /\ LoggedAtOrigin
    /\ PushesAtOrigin
    /\ PublishedAtOrigin
    /\ TasksAtOrigin

LEMMA InitOriginInv == Init => OriginInv
<1>. SUFFICES ASSUME Init PROVE OriginInv
  OBVIOUS
<1>1. LoggedAtOrigin /\ PushesAtOrigin /\ PublishedAtOrigin
  BY DEF Init, LoggedAtOrigin, PushesAtOrigin, PublishedAtOrigin, AllLogged, IdleClient
<1>2. TasksAtOrigin
  BY DEF Init, TasksAtOrigin, IdleTask
<1>. QED  BY <1>1, <1>2, InitTypeOK DEF OriginInv

\* Logs only grow, so a mutation stays where it was recorded.
LEMMA LogsGrow ==
    ASSUME TypeOK, [Next]_vars
    PROVE  /\ \A b \in Brokers : log[b] \subseteq log'[b]
           /\ \A m \in Mutation : AtOrigin(m, log) => AtOrigin(m, log')
<1>1. log \in [Brokers -> SUBSET Mutation]
  BY DEF TypeOK
<1>2. ASSUME NEW c \in Clients, ClientStep(c)
      PROVE  UNCHANGED log \/ \E b, m : log' = [log EXCEPT ![b] = @ \cup {m}]
  BY <1>2 DEF ClientStep, BeginWrite, WriteStore, BatchDelete, Stamp, InsertLocal, Publish,
              FailClient
<1>3. ASSUME NEW w \in Workers, Progress(w) \/ FailTask(w)
      PROVE  UNCHANGED log \/ \E b, m : log' = [log EXCEPT ![b] = @ \cup {m}]
  <2>1. CASE InsertRemote(w)
    BY <2>1 DEF InsertRemote
  <2>2. CASE ~InsertRemote(w)
    BY <1>3, <2>2 DEF Progress, Dedupe, GetExisting, Apply, Finish, FailTask
  <2>. QED  BY <2>1, <2>2
<1>4. ASSUME NEW s \in Brokers, LosePush(s) \/ (\E h \in Handlers : Deliver(s, h))
                                 \/ \E p \in Brokers : StartPull(s, p)
      PROVE  UNCHANGED log
  BY <1>4 DEF LosePush, Deliver, StartPull
<1>5. UNCHANGED log \/ \E b, m : log' = [log EXCEPT ![b] = @ \cup {m}]
  BY <1>2, <1>3, <1>4 DEF Next, vars
<1>6. \A b \in Brokers : log[b] \subseteq log'[b]
  BY <1>1, <1>5
<1>. QED  BY <1>6 DEF AtOrigin, Mutation

\* A step that changes one handler, one task, no log or no stream.
LEMMA ClientChanges ==
    ASSUME OriginInv, [Next]_vars, NEW c \in Clients,
           \A d \in Clients : d # c => client'[d] = client[d],
           client'[c].pc = "logged" => AtOrigin(ClientMutation(c)', log')
    PROVE  PublishedAtOrigin'
<1>. SUFFICES ASSUME NEW d \in Clients, client'[d].pc = "logged"
              PROVE  AtOrigin(ClientMutation(d)', log')
  BY DEF PublishedAtOrigin
<1>1. CASE d # c
  <2>1. client'[d] = client[d] /\ client[d].pc = "logged"
    BY <1>1
  <2>2. ClientMutation(d) \in Mutation /\ AtOrigin(ClientMutation(d), log)
    BY <2>1, BusyTypes, ClientMutationType DEF OriginInv, PublishedAtOrigin
  <2>3. ClientMutation(d)' = ClientMutation(d)
    BY <2>1 DEF ClientMutation
  <2>. QED  BY <2>2, <2>3, LogsGrow DEF OriginInv
<1>. QED  BY <1>1

LEMMA SoundTaskStaysSound ==
    ASSUME TypeOK, [Next]_vars, NEW w \in Workers, NEW t \in BusyTask, SoundTask(w, t, log)
    PROVE  SoundTask(w, t, log')
<1>1. t.page \subseteq Mutation /\ (t.pc # "dedupe" => t.mut \in Mutation)
  BY DEF BusyTask
<1>. QED  BY <1>1, LogsGrow DEF SoundTask

LEMMA TaskChanges ==
    ASSUME OriginInv, [Next]_vars, NEW w \in Workers,
           \A v \in Workers : v # w => task'[v] = task[v],
           task'[w].pc # "idle" => SoundTask(w, task'[w], log')
    PROVE  TasksAtOrigin'
<1>. SUFFICES ASSUME NEW v \in Workers, v # w, task[v].pc # "idle"
              PROVE  SoundTask(v, task[v], log')
  BY DEF TasksAtOrigin
<1>1. task[v] \in BusyTask /\ SoundTask(v, task[v], log)
  BY BusyTypes DEF OriginInv, TasksAtOrigin
<1>. QED  BY <1>1, SoundTaskStaysSound DEF OriginInv

LEMMA PartsUnchanged ==
    ASSUME OriginInv, [Next]_vars
    PROVE  /\ UNCHANGED log => LoggedAtOrigin'
           /\ UNCHANGED client => PublishedAtOrigin'
           /\ UNCHANGED task => TasksAtOrigin'
           /\ (\A s \in Brokers : outbox'[s] = outbox[s] \/ (outbox[s] # <<>> /\ outbox'[s] = Tail(outbox[s])))
                 => PushesAtOrigin'
<1>1. UNCHANGED log => LoggedAtOrigin'
  BY DEF OriginInv, LoggedAtOrigin, AllLogged
<1>2. ASSUME UNCHANGED client PROVE PublishedAtOrigin'
  <2>. SUFFICES ASSUME NEW d \in Clients, client[d].pc = "logged"
                PROVE  AtOrigin(ClientMutation(d)', log')
    BY <1>2 DEF PublishedAtOrigin
  <2>1. ClientMutation(d) \in Mutation /\ AtOrigin(ClientMutation(d), log)
    BY BusyTypes, ClientMutationType DEF OriginInv, PublishedAtOrigin
  <2>2. ClientMutation(d)' = ClientMutation(d)
    BY <1>2 DEF ClientMutation
  <2>. QED  BY <2>1, <2>2, LogsGrow DEF OriginInv
<1>3. ASSUME UNCHANGED task PROVE TasksAtOrigin'
  <2>. SUFFICES ASSUME NEW v \in Workers, task[v].pc # "idle"
                PROVE  SoundTask(v, task[v], log')
    BY <1>3 DEF TasksAtOrigin
  <2>1. task[v] \in BusyTask /\ SoundTask(v, task[v], log)
    BY BusyTypes DEF OriginInv, TasksAtOrigin
  <2>. QED  BY <2>1, SoundTaskStaysSound DEF OriginInv
<1>4. ASSUME \A s \in Brokers : outbox'[s] = outbox[s]
                                   \/ (outbox[s] # <<>> /\ outbox'[s] = Tail(outbox[s]))
      PROVE  PushesAtOrigin'
  <2>. SUFFICES ASSUME NEW s \in Brokers, NEW i \in DOMAIN outbox'[s]
                PROVE  AtOrigin(outbox'[s][i].mut, log')
    BY DEF PushesAtOrigin
  <2>1. PICK j \in DOMAIN outbox[s] : outbox'[s][i] = outbox[s][j]
    <3>1. outbox[s] \in Seq(Push)
      BY DEF OriginInv, TypeOK
    <3>2. CASE outbox'[s] = outbox[s]
      BY <3>2
    <3>3. CASE outbox[s] # <<>> /\ outbox'[s] = Tail(outbox[s])
      <4>1. /\ Tail(outbox[s]) \in Seq(Push)
            /\ Len(Tail(outbox[s])) = Len(outbox[s]) - 1
            /\ \A k \in 1 .. Len(Tail(outbox[s])) : Tail(outbox[s])[k] = outbox[s][k + 1]
        BY <3>1, <3>3, HeadTailProperties
      <4>2. i \in 1 .. Len(Tail(outbox[s])) /\ Len(outbox[s]) \in Nat
        BY <3>1, <3>3, <4>1, LenProperties
      <4>3. i + 1 \in 1 .. Len(outbox[s])
        BY <4>1, <4>2
      <4>. QED  BY <3>1, <3>3, <4>1, <4>2, <4>3, LenProperties
    <3>. QED  BY <1>4, <3>2, <3>3
  <2>2. outbox[s][j] \in Push /\ AtOrigin(outbox[s][j].mut, log)
    BY ElementOfSeq DEF OriginInv, TypeOK, PushesAtOrigin
  <2>. QED  BY <2>1, <2>2, LogsGrow DEF OriginInv, Push
<1>. QED  BY <1>1, <1>2, <1>3, <1>4

LEMMA NextOriginInv == OriginInv /\ [Next]_vars => OriginInv'
<1>. SUFFICES ASSUME OriginInv, [Next]_vars PROVE OriginInv'
  OBVIOUS
<1>type. TypeOK /\ TypeOK'
  BY NextTypeOK DEF OriginInv
<1>log. log \in [Brokers -> SUBSET Mutation] /\ client \in [Clients -> {IdleClient} \cup BusyClient]
        /\ task \in [Workers -> {IdleTask} \cup BusyTask]
  BY <1>type DEF TypeOK
\* A handler step that does not reach the log leaves the rest alone.
<1>1. ASSUME NEW c \in Clients, \A d \in Clients : d # c => client'[d] = client[d],
             client'[c].pc # "logged", UNCHANGED <<log, outbox, task>>
      PROVE  OriginInv'
  <2>1. PublishedAtOrigin'
    BY <1>1, ClientChanges
  <2>. QED  BY <1>1, <2>1, <1>type, PartsUnchanged DEF OriginInv
<1>2. ASSUME NEW c \in Clients,
             \/ \E b \in Brokers, e \in Entities :
                   BatchDelete(c, b, e) \/ \E op \in Ops : BeginWrite(c, b, op, e)
             \/ WriteStore(c) \/ Stamp(c) \/ FailClient(c)
      PROVE  OriginInv'
  <2>1. UNCHANGED <<log, outbox, task>>
    BY <1>2 DEF BatchDelete, BeginWrite, WriteStore, Stamp, FailClient
  <2>2. \A d \in Clients : d # c => client'[d] = client[d]
    BY <1>2, <1>log DEF BatchDelete, BeginWrite, WriteStore, Stamp, FailClient
  <2>3. client'[c].pc # "logged"
    <3>1. CASE \E b \in Brokers, e \in Entities : BatchDelete(c, b, e)
      BY <3>1, <1>log DEF BatchDelete
    <3>2. CASE \E b \in Brokers, e \in Entities, op \in Ops : BeginWrite(c, b, op, e)
      BY <3>2, <1>log DEF BeginWrite
    <3>3. CASE WriteStore(c)
      <4>1. client[c] \in BusyClient
        BY <3>3, <1>type, BusyTypes DEF WriteStore
      <4>2. [client[c] EXCEPT !.pc = "written"].pc # "logged" /\ IdleClient.pc # "logged"
        BY <4>1 DEF BusyClient, IdleClient
      <4>. QED  BY <3>3, <4>2, <1>log DEF WriteStore
    <3>4. CASE Stamp(c)
      <4>1. client[c] \in BusyClient
        BY <3>4, <1>type, BusyTypes DEF Stamp
      <4>. QED  BY <3>4, <4>1, <1>log DEF Stamp, BusyClient
    <3>5. CASE FailClient(c)
      BY <3>5, <1>log DEF FailClient, IdleClient
    <3>. QED  BY <1>2, <3>1, <3>2, <3>3, <3>4, <3>5
  <2>. QED  BY <1>1, <2>1, <2>2, <2>3
<1>3. ASSUME NEW c \in Clients, InsertLocal(c) PROVE OriginInv'
  <2>. DEFINE m == ClientMutation(c)
  <2>1. client[c] \in BusyClient
    BY <1>3, <1>type, BusyTypes DEF InsertLocal
  <2>2. m \in Mutation /\ m.src = client[c].at /\ client[c].at \in Brokers
    BY <2>1, ClientMutationType DEF BusyClient
  <2>3. /\ log' = [log EXCEPT ![client[c].at] = @ \cup {m}]
        /\ client' = [client EXCEPT ![c].pc = "logged"]
        /\ UNCHANGED <<outbox, task>>
    BY <1>3 DEF InsertLocal
  <2>4. AtOrigin(m, log')
    BY <2>2, <2>3, <1>log DEF AtOrigin
  <2>5. m' = m
    BY <2>1, <2>3, <1>log DEF ClientMutation, BusyClient
  <2>6. PublishedAtOrigin'
    BY <2>3, <2>4, <2>5, <1>log, ClientChanges
  <2>7. LoggedAtOrigin'
    <3>. SUFFICES ASSUME NEW b \in Brokers, NEW k \in log'[b] PROVE AtOrigin(k, log')
      BY DEF LoggedAtOrigin, AllLogged, AtOrigin
    <3>1. CASE k = m
      BY <3>1, <2>4
    <3>2. CASE k \in log[b]
      <4>1. k \in Mutation /\ AtOrigin(k, log)
        BY <3>2, <1>log DEF OriginInv, LoggedAtOrigin, AllLogged, AtOrigin
      <4>. QED  BY <4>1, <1>type, LogsGrow
    <3>. HIDE DEF m
    <3>. QED  BY <3>1, <3>2, <2>3, <1>log
  <2>. QED  BY <2>3, <2>6, <2>7, <1>type, PartsUnchanged DEF OriginInv
<1>4. ASSUME NEW c \in Clients, Publish(c) PROVE OriginInv'
  <2>. DEFINE b == client[c].at
  <2>1. client[c] \in BusyClient
    BY <1>4, <1>type, BusyTypes DEF Publish
  <2>2. b \in Brokers /\ AtOrigin(ClientMutation(c), log)
    BY <1>4, <2>1 DEF Publish, OriginInv, PublishedAtOrigin, BusyClient
  <2>3. client' = [client EXCEPT ![c] = IdleClient] /\ UNCHANGED <<log, task>>
    BY <1>4 DEF Publish
  <2>4. PICK added \in Seq(Push) :
           /\ outbox' = [outbox EXCEPT ![b] = @ \o added]
           /\ \A i \in DOMAIN added : added[i].mut = ClientMutation(c)
    BY <1>4, <1>type, PublishedPushes
  <2>5. PushesAtOrigin'
    <3>. SUFFICES ASSUME NEW s \in Brokers, NEW i \in DOMAIN outbox'[s]
                  PROVE  AtOrigin(outbox'[s][i].mut, log)
      BY <2>3 DEF PushesAtOrigin
    <3>1. outbox \in [Brokers -> Seq(Push)] /\ outbox[b] \in Seq(Push)
      BY <2>2, <1>type DEF TypeOK
    <3>2. \A j \in DOMAIN outbox[s] : AtOrigin(outbox[s][j].mut, log)
      BY DEF OriginInv, PushesAtOrigin
    <3>. HIDE DEF b
    <3>3. CASE s # b
      BY <3>1, <3>2, <3>3, <2>4
    <3>4. CASE s = b
      <4>1. outbox'[s] = outbox[s] \o added
        BY <3>1, <3>4, <2>2, <2>4
      <4>2. /\ Len(outbox'[s]) = Len(outbox[s]) + Len(added)
            /\ outbox'[s] \in Seq(Push)
            /\ \A j \in 1 .. Len(outbox[s]) + Len(added) : outbox'[s][j] =
                  IF j <= Len(outbox[s]) THEN outbox[s][j] ELSE added[j - Len(outbox[s])]
        BY <3>1, <3>4, <4>1, ConcatProperties
      <4>3. /\ Len(outbox[s]) \in Nat /\ DOMAIN outbox[s] = 1 .. Len(outbox[s])
            /\ Len(added) \in Nat /\ DOMAIN added = 1 .. Len(added)
            /\ i \in 1 .. Len(outbox[s]) + Len(added)
        BY <3>1, <3>4, <4>2, LenProperties
      <4>4. CASE i <= Len(outbox[s])
        BY <3>2, <4>2, <4>3, <4>4
      <4>5. CASE ~(i <= Len(outbox[s]))
        <5>1. i - Len(outbox[s]) \in DOMAIN added
          BY <4>3, <4>5
        <5>. QED  BY <2>2, <2>4, <4>2, <4>3, <4>5, <5>1
      <4>. QED  BY <4>4, <4>5
    <3>. QED  BY <3>3, <3>4
  <2>6. PublishedAtOrigin'
    BY <2>3, <1>log, ClientChanges DEF IdleClient
  <2>. QED  BY <2>3, <2>5, <2>6, <1>type, PartsUnchanged DEF OriginInv
<1>5. ASSUME NEW s \in Brokers, LosePush(s) PROVE OriginInv'
  <2>1. \A r \in Brokers : outbox'[r] = outbox[r]
                              \/ (outbox[r] # <<>> /\ outbox'[r] = Tail(outbox[r]))
    BY <1>5, <1>type DEF LosePush, TypeOK
  <2>. QED  BY <1>5, <2>1, <1>type, PartsUnchanged DEF OriginInv, LosePush
<1>6. ASSUME NEW s \in Brokers, NEW h \in Handlers, Deliver(s, h) PROVE OriginInv'
  <2>. DEFINE new == [pc |-> "dedupe", at |-> Head(outbox[s]).to, from |-> s,
                      page |-> {Head(outbox[s]).mut}, mut |-> NoMut, cur |-> 0]
  <2>1. \A r \in Brokers : outbox'[r] = outbox[r]
                              \/ (outbox[r] # <<>> /\ outbox'[r] = Tail(outbox[r]))
    BY <1>6, <1>type DEF Deliver, TypeOK
  <2>2. AtOrigin(Head(outbox[s]).mut, log)
    <3>1. outbox[s] \in Seq(Push) /\ outbox[s] # <<>>
      BY <1>6, <1>type DEF Deliver, TypeOK
    <3>2. 1 \in DOMAIN outbox[s] /\ Head(outbox[s]) = outbox[s][1]
      BY <3>1
    <3>. QED  BY <3>2 DEF OriginInv, PushesAtOrigin
  <2>3. task' = [task EXCEPT ![h] = new] /\ UNCHANGED <<log, client>>
    BY <1>6 DEF Deliver
  <2>4. SoundTask(h, new, log)
    BY <2>2, ConstantsAssumption DEF SoundTask
  <2>. HIDE DEF new
  <2>5. TasksAtOrigin'
    BY <2>3, <2>4, <1>log, WorkerSets, TaskChanges
  <2>. QED  BY <2>1, <2>3, <2>5, <1>type, PartsUnchanged DEF OriginInv
\* A step of one task that leaves it sound.
<1>7. ASSUME NEW w \in Workers, NEW new, task' = [task EXCEPT ![w] = new],
             new.pc # "idle" => SoundTask(w, new, log'),
             UNCHANGED <<outbox, client>>, LoggedAtOrigin'
      PROVE  OriginInv'
  <2>1. TasksAtOrigin'
    BY <1>7, <1>log, TaskChanges
  <2>. QED  BY <2>1, <1>7, <1>type, PartsUnchanged DEF OriginInv
<1>8. ASSUME NEW b \in Brokers, NEW p \in Brokers, StartPull(b, p) PROVE OriginInv'
  <2>1. PICK page \in PagesSince(p, cursor[b][p]) :
           task' = [task EXCEPT ![b] = [pc |-> "dedupe", at |-> b, from |-> p,
                       page |-> page, mut |-> NoMut, cur |-> cursor[b][p]]]
    BY <1>8 DEF StartPull
  <2>2. page \subseteq log[p] /\ UNCHANGED <<log, outbox, client>>
    BY <1>8, <2>1 DEF PagesSince, StartPull
  <2>. DEFINE new == [pc |-> "dedupe", at |-> b, from |-> p,
                      page |-> page, mut |-> NoMut, cur |-> cursor[b][p]]
  <2>3. SoundTask(b, new, log)
    BY <2>2 DEF SoundTask, OriginInv, LoggedAtOrigin, AllLogged, AtOrigin
  <2>. HIDE DEF new
  <2>. QED  BY <1>7, <2>1, <2>2, <2>3, WorkerSets, PartsUnchanged DEF new
<1>9. ASSUME NEW w \in Workers, task[w].pc # "idle"
      PROVE  task[w] \in BusyTask /\ SoundTask(w, task[w], log)
  BY <1>9, <1>type, BusyTypes DEF OriginInv, TasksAtOrigin
<1>10. ASSUME NEW w \in Workers, Dedupe(w) PROVE OriginInv'
  <2>1. PICK m \in task[w].page :
           LET next == [task[w] EXCEPT !.page = @ \ {m}, !.cur = Larger(@, m.rec)]
           IN  task' = [task EXCEPT ![w] =
                  IF Seen(next.at, m) THEN next
                  ELSE [next EXCEPT !.pc = "get", !.mut = m]]
    BY <1>10 DEF Dedupe
  <2>2. task[w] \in BusyTask /\ SoundTask(w, task[w], log) /\ task[w].pc = "dedupe"
    BY <1>9, <1>10 DEF Dedupe
  <2>. DEFINE next == [task[w] EXCEPT !.page = @ \ {m}, !.cur = Larger(@, m.rec)]
              new == IF Seen(next.at, m) THEN next ELSE [next EXCEPT !.pc = "get", !.mut = m]
  <2>3. /\ next.at = task[w].at /\ next.page = task[w].page \ {m} /\ next.pc = "dedupe"
        /\ next \in BusyTask
    <3>1. m.rec \in Nat
      BY <2>2 DEF BusyTask, Mutation
    <3>. QED  BY <2>2, <3>1, LargerIsMaximum DEF BusyTask
  <2>. HIDE DEF next
  <2>4. CASE Seen(next.at, m)
    <3>1. SoundTask(w, next, log)
      BY <2>2, <2>3 DEF SoundTask
    <3>. QED  BY <1>7, <1>10, <2>1, <2>4, <3>1, PartsUnchanged DEF Dedupe, next
  <2>5. CASE ~Seen(next.at, m)
    <3>. DEFINE taken == [next EXCEPT !.pc = "get", !.mut = m]
    <3>1. /\ taken.at = next.at /\ taken.page = next.page /\ taken.pc = "get"
          /\ taken.mut = m
      BY <2>3 DEF BusyTask
    <3>. HIDE DEF taken
    <3>2. AtOrigin(m, log) /\ m.src # next.at
      BY <2>2, <2>5 DEF SoundTask, Seen, AtOrigin
    <3>3. SoundTask(w, taken, log)
      BY <2>2, <2>3, <3>1, <3>2 DEF SoundTask
    <3>. QED  BY <1>7, <1>10, <2>1, <2>5, <3>3, PartsUnchanged DEF Dedupe, next, taken
  <2>. QED  BY <2>4, <2>5
<1>11. ASSUME NEW w \in Workers, NEW pc \in {"write", "log"}, task[w].pc \in {"get", "write"},
              task' = [task EXCEPT ![w] = [task[w] EXCEPT !.pc = pc]],
              UNCHANGED <<log, outbox, client>>
       PROVE  OriginInv'
  <2>1. task[w] \in BusyTask /\ SoundTask(w, task[w], log)
    BY <1>9, <1>11
  <2>2. SoundTask(w, [task[w] EXCEPT !.pc = pc], log)
    BY <2>1, <1>11 DEF SoundTask, BusyTask
  <2>. QED  BY <1>7, <1>11, <2>2, PartsUnchanged
<1>12. ASSUME NEW w \in Workers, GetExisting(w) \/ Apply(w) PROVE OriginInv'
  <2>1. \E pc \in {"write", "log"} : task' = [task EXCEPT ![w] = [task[w] EXCEPT !.pc = pc]]
    BY <1>12 DEF GetExisting, Apply
  <2>. QED  BY <1>11, <1>12, <2>1 DEF GetExisting, Apply
<1>13. ASSUME NEW w \in Workers, InsertRemote(w) PROVE OriginInv'
  <2>. DEFINE m == task[w].mut
              new == [task[w] EXCEPT !.pc = "dedupe", !.mut = NoMut]
  <2>1. task[w] \in BusyTask /\ SoundTask(w, task[w], log) /\ task[w].pc = "log"
    BY <1>9, <1>13 DEF InsertRemote
  <2>2. m \in Mutation /\ AtOrigin(m, log)
    BY <2>1 DEF BusyTask, SoundTask
  <2>3. AtOrigin(m, log')
    BY <2>2, <1>type, LogsGrow
  <2>4. LoggedAtOrigin'
    <3>. SUFFICES ASSUME NEW b \in Brokers, NEW k \in log'[b] PROVE AtOrigin(k, log')
      BY DEF LoggedAtOrigin, AllLogged, AtOrigin
    <3>1. k = m \/ k \in log[b]
      BY <1>13, <1>log DEF InsertRemote
    <3>2. CASE k \in log[b]
      <4>1. k \in Mutation /\ AtOrigin(k, log)
        BY <3>2, <1>log DEF OriginInv, LoggedAtOrigin, AllLogged, AtOrigin
      <4>. QED  BY <4>1, <1>type, LogsGrow
    <3>. QED  BY <3>1, <3>2, <2>3
  <2>5. SoundTask(w, new, log')
    <3>1. new.page = task[w].page /\ new.pc = "dedupe" /\ new.at = task[w].at
      BY <2>1 DEF BusyTask
    <3>2. SoundTask(w, task[w], log')
      BY <2>1, <1>type, SoundTaskStaysSound
    <3>. QED  BY <3>1, <3>2 DEF SoundTask
  <2>6. \/ task' = [task EXCEPT ![w] = IdleTask]
        \/ task' = [task EXCEPT ![w] = new]
    BY <1>13 DEF InsertRemote
  <2>7. UNCHANGED <<outbox, client>> /\ IdleTask.pc = "idle"
    BY <1>13 DEF InsertRemote, IdleTask
  <2>. HIDE DEF new
  <2>. QED  BY <1>7, <2>4, <2>5, <2>6, <2>7
<1>14. ASSUME NEW w \in Workers, Finish(w) \/ FailTask(w) PROVE OriginInv'
  <2>1. /\ task' = [task EXCEPT ![w] = IdleTask] /\ IdleTask.pc = "idle"
        /\ UNCHANGED <<log, outbox, client>>
    BY <1>14 DEF Finish, FailTask, IdleTask
  <2>. QED  BY <1>7, <2>1, PartsUnchanged
<1>15. CASE UNCHANGED vars
  BY <1>15, <1>type, PartsUnchanged DEF vars, OriginInv
<1>. QED  BY <1>2, <1>3, <1>4, <1>5, <1>6, <1>8, <1>10, <1>12, <1>13, <1>14, <1>15
          DEF Next, ClientStep, Progress

\* The inductive invariant holds: a mutation that is in any log, stream, page or
\* task is in the log of the broker that made it, and no task works on an own one.
THEOREM OriginInvariance == Spec => []OriginInv
BY InitOriginInv, NextOriginInv, PTL DEF Spec

\* A mutation that any broker has logged is in its origin's log.
THEOREM EveryMutationIsAtItsOrigin == Spec => []LoggedAtOrigin
<1>1. OriginInv => LoggedAtOrigin
  BY DEF OriginInv
<1>. QED  BY <1>1, OriginInvariance, PTL

\* No broker ever applies its own mutation again, however pushes and pulls of
\* other brokers relay it.
THEOREM OwnMutationsAreNotReapplied == Spec => []OwnMutationNeverReapplied
<1>1. OriginInv => OwnMutationNeverReapplied
  BY DEF OriginInv, TasksAtOrigin, SoundTask, OwnMutationNeverReapplied
<1>. QED  BY <1>1, OriginInvariance, PTL

-----------------------------------------------------------------------------
(* No pull moves its cursor past a mutation it was served and did not log.  *)

(* The inductive invariant. *)

Stamped(c) == client[c].pc = "stamped"

\* Recorded times identify the logged mutations, and those stamped but not yet
\* inserted, and lie behind the clock.
StampsUnique ==
    /\ \A m \in AllLogged : m.rec <= clock
    /\ \A m, k \in AllLogged : m.rec = k.rec => m = k
    /\ \A c \in Clients : Stamped(c) =>
          /\ client[c].rec <= clock
          /\ \A m \in AllLogged : m.rec # client[c].rec
    /\ \A c, d \in Clients :
          Stamped(c) /\ Stamped(d) /\ c # d => client[c].rec # client[d].rec

ServedWereLogged == \A b, p \in Brokers : served[b][p] \subseteq log[p]

\* A pull has logged, or has in hand, what it was served up to its cursor, and
\* still has in its page what it was served up to that page's last entry.
Covered(t, srv, logged) ==
    \A m \in srv :
        /\ m.rec <= t.cur => m \in logged \/ m = t.mut
        /\ \A k \in t.page :
              m.rec <= k.rec => m \in logged \/ m = t.mut \/ m \in t.page

PullCovered(b) ==
    task[b].pc # "idle" =>
        /\ task[b].page \subseteq served[b][task[b].from]
        /\ Covered(task[b], served[b][task[b].from], log[b])

CursorInv ==
    /\ OriginInv
    /\ StampsUnique
    /\ ServedWereLogged
    /\ \A b \in Brokers : PullCovered(b)
    /\ CursorNeverSkipsServed

LEMMA InitCursorInv == Init => CursorInv
<1>. SUFFICES ASSUME Init PROVE CursorInv
  OBVIOUS
<1>1. OriginInv
  BY InitOriginInv
<1>2. StampsUnique
  BY DEF Init, StampsUnique, AllLogged, Stamped, IdleClient
<1>3. ServedWereLogged /\ CursorNeverSkipsServed
  BY DEF Init, ServedWereLogged, CursorNeverSkipsServed
<1>4. \A b \in Brokers : PullCovered(b)
  BY WorkerSets DEF Init, PullCovered, IdleTask
<1>. QED  BY <1>1, <1>2, <1>3, <1>4 DEF CursorInv

-----------------------------------------------------------------------------
(* Recorded times. *)

\* A broker logs nothing new for the swarm but its own mutations.
LEMMA AllLoggedGrowsByInserts ==
    ASSUME OriginInv, [Next]_vars
    PROVE  \/ AllLogged' = AllLogged
           \/ \E c \in Clients : /\ InsertLocal(c)
                                 /\ AllLogged' = AllLogged \cup {ClientMutation(c)}
<1>1. log \in [Brokers -> SUBSET Mutation] /\ TypeOK
  BY DEF OriginInv, TypeOK
<1>2. UNCHANGED log => AllLogged' = AllLogged
  BY DEF AllLogged
<1>3. ASSUME NEW b \in Brokers, NEW m, log' = [log EXCEPT ![b] = @ \cup {m}]
      PROVE  AllLogged' = AllLogged \cup {m}
  <2>1. \A d \in Brokers : log'[d] = IF d = b THEN log[d] \cup {m} ELSE log[d]
    BY <1>1, <1>3
  <2>2. ASSUME NEW k PROVE k \in AllLogged' <=> k \in AllLogged \cup {m}
    BY <2>1 DEF AllLogged
  <2>. QED  BY <2>2
<1>4. ASSUME NEW c \in Clients, ClientStep(c)
      PROVE  UNCHANGED log \/ InsertLocal(c)
  BY <1>4 DEF ClientStep, BeginWrite, WriteStore, BatchDelete, Stamp, Publish, FailClient
<1>5. ASSUME NEW c \in Clients, InsertLocal(c)
      PROVE  AllLogged' = AllLogged \cup {ClientMutation(c)}
  <2>1. client[c].at \in Brokers
    BY <1>1, <1>5, BusyTypes DEF InsertLocal, BusyClient
  <2>. QED  BY <1>3, <1>5, <2>1 DEF InsertLocal
<1>6. ASSUME NEW w \in Workers, Progress(w) \/ FailTask(w)
      PROVE  AllLogged' = AllLogged
  <2>1. CASE InsertRemote(w)
    <3>. DEFINE m == task[w].mut
                b == task[w].at
    <3>1. task[w] \in BusyTask /\ task[w].pc = "log" /\ SoundTask(w, task[w], log)
      BY <1>1, <2>1, BusyTypes DEF InsertRemote, OriginInv, TasksAtOrigin
    <3>2. b \in Brokers /\ m \in Mutation /\ m.src \in Brokers /\ m \in log[m.src]
      BY <3>1 DEF BusyTask, Mutation, SoundTask, AtOrigin
    <3>3. m \in AllLogged
      BY <3>2 DEF AllLogged
    <3>4. UNCHANGED log \/ log' = [log EXCEPT ![b] = @ \cup {m}]
      BY <2>1 DEF InsertRemote
    <3>. HIDE DEF m, b
    <3>5. CASE log' = [log EXCEPT ![b] = @ \cup {m}]
      <4>1. AllLogged' = AllLogged \cup {m}
        BY <1>3, <3>2, <3>5
      <4>. QED  BY <4>1, <3>3
    <3>. QED  BY <1>2, <3>4, <3>5
  <2>2. CASE ~InsertRemote(w)
    <3>1. UNCHANGED log
      BY <1>6, <2>2 DEF Progress, Dedupe, GetExisting, Apply, Finish, FailTask
    <3>. QED  BY <1>2, <3>1
  <2>. QED  BY <2>1, <2>2
<1>7. ASSUME NEW s \in Brokers, LosePush(s) \/ (\E h \in Handlers : Deliver(s, h))
                                 \/ \E p \in Brokers : StartPull(s, p)
      PROVE  UNCHANGED log
  BY <1>7 DEF LosePush, Deliver, StartPull
<1>8. UNCHANGED vars => UNCHANGED log
  BY DEF vars
<1>. QED  BY <1>2, <1>4, <1>5, <1>6, <1>7, <1>8 DEF Next

\* The clock never runs backwards.
LEMMA ClockAdvances == ASSUME TypeOK, [Next]_vars PROVE clock <= clock' /\ clock' \in Nat
<1>1. clock \in Nat
  BY DEF TypeOK
<1>2. ASSUME NEW c \in Clients, ClientStep(c)
      PROVE  UNCHANGED clock \/ clock' \in Readings
  BY <1>2 DEF ClientStep, BeginWrite, WriteStore, BatchDelete, Stamp, InsertLocal, Publish,
              FailClient
<1>3. ASSUME NEW w \in Workers, Progress(w) \/ FailTask(w)
      PROVE  UNCHANGED clock
  BY <1>3 DEF Progress, Dedupe, GetExisting, Apply, InsertRemote, Finish, FailTask
<1>4. ASSUME NEW s \in Brokers, LosePush(s) \/ (\E h \in Handlers : Deliver(s, h))
                                 \/ \E p \in Brokers : StartPull(s, p)
      PROVE  UNCHANGED clock
  BY <1>4 DEF LosePush, Deliver, StartPull
<1>5. UNCHANGED clock \/ clock' \in Readings
  BY <1>2, <1>3, <1>4 DEF Next, vars
<1>. QED  BY <1>1, <1>5, ReadingsAdvance

\* What becomes of a stamp: a handler that is stamped now was so before, with the
\* same stamp, or took a reading later than any other.
LEMMA StampsAreFresh ==
    ASSUME TypeOK, [Next]_vars, StampGap = 1
    PROVE  \E s \in Clients \cup {NoMut} :
              \A c \in Clients : client'[c].pc = "stamped" =>
                 \/ client[c].pc = "stamped" /\ client'[c].rec = client[c].rec
                 \/ c = s /\ client'[c].rec = clock' /\ clock < clock'
<1>1. client \in [Clients -> {IdleClient} \cup BusyClient] /\ clock \in Nat
  BY DEF TypeOK
<1>2. UNCHANGED client =>
        \A c \in Clients : client'[c].pc = "stamped" =>
           client[c].pc = "stamped" /\ client'[c].rec = client[c].rec
  OBVIOUS
<1>3. ASSUME NEW c \in Clients, ClientStep(c)
      PROVE  \A d \in Clients : client'[d].pc = "stamped" =>
                \/ client[d].pc = "stamped" /\ client'[d].rec = client[d].rec
                \/ d = c /\ client'[d].rec = clock' /\ clock < clock'
  <2>1. CASE Stamp(c)
    <3>1. client[c] \in BusyClient
      BY <2>1, BusyTypes DEF Stamp
    <3>2. client'[c].rec = clock' /\ \A d \in Clients : d # c => client'[d] = client[d]
      BY <1>1, <2>1, <3>1 DEF Stamp, BusyClient
    <3>3. clock < clock'
      BY <1>1, <2>1, ReadingsAdvance DEF Stamp
    <3>. QED  BY <3>2, <3>3
  <2>2. CASE ~Stamp(c)
    <3>1. \A d \in Clients : d # c => client'[d] = client[d]
      BY <1>1, <1>3, <2>2 DEF ClientStep, BeginWrite, WriteStore, BatchDelete, InsertLocal,
                               Publish, FailClient
    <3>2. client'[c].pc # "stamped"
      <4>1. CASE WriteStore(c) \/ InsertLocal(c)
        <5>1. client[c] \in BusyClient
          BY <4>1, BusyTypes DEF WriteStore, InsertLocal
        <5>. QED  BY <1>1, <4>1, <5>1 DEF WriteStore, InsertLocal, IdleClient, BusyClient
      <4>2. CASE Publish(c) \/ FailClient(c)
        BY <1>1, <4>2 DEF Publish, FailClient, IdleClient
      <4>3. CASE \E b \in Brokers, e \in Entities :
                    BatchDelete(c, b, e) \/ \E op \in Ops : BeginWrite(c, b, op, e)
        BY <1>1, <4>3 DEF BatchDelete, BeginWrite
      <4>. QED  BY <1>3, <2>2, <4>1, <4>2, <4>3 DEF ClientStep
    <3>. QED  BY <3>1, <3>2
  <2>. QED  BY <2>1, <2>2
<1>4. ASSUME NEW w \in Workers, Progress(w) \/ FailTask(w)
      PROVE  UNCHANGED client
  BY <1>4 DEF Progress, Dedupe, GetExisting, Apply, InsertRemote, Finish, FailTask
<1>5. ASSUME NEW s \in Brokers, LosePush(s) \/ (\E h \in Handlers : Deliver(s, h))
                                 \/ \E p \in Brokers : StartPull(s, p)
      PROVE  UNCHANGED client
  BY <1>5 DEF LosePush, Deliver, StartPull
<1>6. (\E c \in Clients : ClientStep(c)) \/ UNCHANGED client
  BY <1>4, <1>5 DEF Next, vars
<1>. QED  BY <1>2, <1>3, <1>6

LEMMA NextStampsUnique ==
    ASSUME OriginInv, StampsUnique, [Next]_vars, StampGap = 1
    PROVE  StampsUnique'
<1>1. TypeOK /\ clock \in Nat /\ clock' \in Nat /\ clock <= clock'
  BY ClockAdvances DEF OriginInv, TypeOK
<1>2. PICK s \in Clients \cup {NoMut} :
         \A c \in Clients : client'[c].pc = "stamped" =>
            \/ client[c].pc = "stamped" /\ client'[c].rec = client[c].rec
            \/ c = s /\ client'[c].rec = clock' /\ clock < clock'
  BY <1>1, StampsAreFresh
<1>3. \A m \in AllLogged : m.rec \in Nat /\ m.rec <= clock
  BY <1>1 DEF TypeOK, AllLogged, Mutation, StampsUnique
<1>4. \A c \in Clients : Stamped(c) => client[c].rec \in Nat /\ client[c].rec <= clock
  BY <1>1, BusyTypes DEF Stamped, StampsUnique, BusyClient
<1>5. \A c \in Clients : Stamped(c)' => client'[c].rec \in Nat /\ client'[c].rec <= clock'
  BY <1>1, <1>2, <1>4 DEF Stamped
<1>6. \A c, d \in Clients :
         Stamped(c)' /\ Stamped(d)' /\ c # d => client'[c].rec # client'[d].rec
  BY <1>1, <1>2, <1>4 DEF Stamped, StampsUnique
<1>7. \A c \in Clients : Stamped(c)' => \A m \in AllLogged : m.rec # client'[c].rec
  BY <1>1, <1>2, <1>3 DEF Stamped, StampsUnique
<1>8. CASE AllLogged' = AllLogged
  <2>1. \A m \in AllLogged' : m.rec <= clock'
    BY <1>1, <1>3, <1>8
  <2>. QED  BY <1>5, <1>6, <1>7, <1>8, <2>1 DEF StampsUnique
<1>9. ASSUME NEW c \in Clients, InsertLocal(c), AllLogged' = AllLogged \cup {ClientMutation(c)}
      PROVE  StampsUnique'
  <2>1. client[c] \in BusyClient /\ Stamped(c) /\ UNCHANGED clock
    BY <1>1, <1>9, BusyTypes DEF InsertLocal, Stamped
  <2>2. ClientMutation(c).rec = client[c].rec
    BY <2>1, ClientMutationType
  <2>3. ~Stamped(c)'
    BY <1>1, <1>9, <2>1 DEF InsertLocal, Stamped, TypeOK, BusyClient
  <2>4. \A d \in Clients : Stamped(d)' => d # c /\ Stamped(d) /\ client'[d].rec = client[d].rec
    BY <1>1, <1>2, <2>1, <2>3 DEF Stamped
  <2>5. \A d \in Clients : Stamped(d)' => client'[d].rec # ClientMutation(c).rec
    BY <2>1, <2>2, <2>4 DEF StampsUnique
  <2>6. \A m \in AllLogged' : m.rec <= clock'
    BY <1>3, <1>4, <1>9, <2>1, <2>2
  <2>7. \A m \in AllLogged : m.rec # ClientMutation(c).rec
    BY <2>1, <2>2 DEF StampsUnique
  <2>8. \A m, k \in AllLogged' : m.rec = k.rec => m = k
    BY <1>9, <2>7 DEF StampsUnique
  <2>9. \A d \in Clients : Stamped(d)' => \A m \in AllLogged' : m.rec # client'[d].rec
    BY <1>7, <1>9, <2>5
  <2>. QED  BY <1>5, <1>6, <2>6, <2>8, <2>9 DEF StampsUnique
<1>. QED  BY <1>8, <1>9, AllLoggedGrowsByInserts

-----------------------------------------------------------------------------
(* Pages and pulls. *)

\* Who changes what a pull depends on.
LEMMA ServedChangesByPulls ==
    ASSUME [Next]_vars
    PROVE  (\E b, p \in Brokers : StartPull(b, p)) \/ UNCHANGED served
<1>1. ASSUME NEW c \in Clients, ClientStep(c) PROVE UNCHANGED served
  BY <1>1 DEF ClientStep, BeginWrite, WriteStore, BatchDelete, Stamp, InsertLocal, Publish,
              FailClient
<1>2. ASSUME NEW w \in Workers, Progress(w) \/ FailTask(w) PROVE UNCHANGED served
  BY <1>2 DEF Progress, Dedupe, GetExisting, Apply, InsertRemote, Finish, FailTask
<1>3. ASSUME NEW s \in Brokers, LosePush(s) \/ \E h \in Handlers : Deliver(s, h)
      PROVE  UNCHANGED served
  BY <1>3 DEF LosePush, Deliver
<1>. QED  BY <1>1, <1>2, <1>3 DEF Next, vars

\* What is covered stays so while logs grow.
LEMMA CoveredStays ==
    ASSUME OriginInv, [Next]_vars, NEW b \in Brokers, PullCovered(b),
           task'[b] = task[b], served'[b] = served[b]
    PROVE  PullCovered(b)'
<1>1. log[b] \subseteq log'[b]
  BY LogsGrow DEF OriginInv
<1>. QED  BY <1>1 DEF PullCovered, Covered

\* A cursor that does not move skips nothing new.
LEMMA CursorStays ==
    ASSUME OriginInv, [Next]_vars, CursorNeverSkipsServed, UNCHANGED <<cursor, served>>
    PROVE  CursorNeverSkipsServed'
BY LogsGrow DEF OriginInv, CursorNeverSkipsServed

\* A started pull: what its page leaves out was logged before, or is recorded
\* after everything in the page.
LEMMA PullStarts ==
    ASSUME CursorInv, [Next]_vars, NEW b \in Brokers, NEW p \in Brokers, StartPull(b, p)
    PROVE  /\ ServedWereLogged'
           /\ \A d \in Brokers : PullCovered(d)'
           /\ CursorNeverSkipsServed'
<1>1. OriginInv /\ TypeOK
  BY DEF CursorInv, OriginInv
<1>2. PICK page \in PagesSince(p, cursor[b][p]) :
         /\ task' = [task EXCEPT ![b] =
               [pc |-> "dedupe", at |-> b, from |-> p, page |-> page,
                mut |-> NoMut, cur |-> cursor[b][p]]]
         /\ served' = [served EXCEPT ![b][p] = @ \cup page]
  BY DEF StartPull
<1>3. UNCHANGED <<log, cursor>>
  BY DEF StartPull
<1>4. /\ served \in [Brokers -> [Brokers -> SUBSET Mutation]]
      /\ log \in [Brokers -> SUBSET Mutation]
      /\ cursor \in [Brokers -> [Brokers -> Nat]]
      /\ task \in [Workers -> {IdleTask} \cup BusyTask]
  BY <1>1 DEF TypeOK
<1>5. /\ page \subseteq log[p]
      /\ \A m \in page : m.rec > cursor[b][p]
      /\ \A k \in page, m \in log[p] :
            m.rec > cursor[b][p] /\ m \notin page => k.rec <= m.rec
  BY <1>2 DEF PagesSince, RecordedBefore
<1>6. \A m, k \in log[p] : m.rec \in Nat /\ (m.rec = k.rec => m = k)
  BY <1>4 DEF CursorInv, StampsUnique, AllLogged, Mutation
<1>7. served'[b][p] = served[b][p] \cup page
  BY <1>2, <1>4
<1>8. \A d, q \in Brokers : d # b \/ q # p => served'[d][q] = served[d][q]
  BY <1>2, <1>4
<1>9. ServedWereLogged'
  BY <1>3, <1>5, <1>7, <1>8 DEF CursorInv, ServedWereLogged
<1>10. CursorNeverSkipsServed'
  <2>1. \A m \in page : ~(m.rec <= cursor[b][p])
    BY <1>4, <1>5, <1>6
  <2>. QED  BY <1>3, <1>7, <1>8, <2>1 DEF CursorInv, CursorNeverSkipsServed
<1>11. PullCovered(b)'
  <2>. DEFINE t == [pc |-> "dedupe", at |-> b, from |-> p, page |-> page,
                    mut |-> NoMut, cur |-> cursor[b][p]]
  <2>1. task'[b] = t
    BY <1>2, <1>4, WorkerSets
  <2>2. \A m \in served[b][p] : m \in log[p] /\ (m.rec <= cursor[b][p] => m \in log[b])
    BY DEF CursorInv, ServedWereLogged, CursorNeverSkipsServed
  <2>3. ASSUME NEW m \in served[b][p] \cup page, m.rec <= cursor[b][p]
        PROVE  m \in log[b]
    BY <1>4, <1>5, <1>6, <2>2, <2>3
  <2>4. ASSUME NEW m \in served[b][p] \cup page, NEW k \in page, m.rec <= k.rec
        PROVE  m \in log[b] \/ m \in page
    <3>1. CASE m \notin page /\ m.rec > cursor[b][p]
      <4>1. m \in log[p] /\ k \in log[p] /\ k.rec <= m.rec
        BY <1>5, <2>2, <2>4, <3>1
      <4>. QED  BY <1>6, <2>4, <4>1, <3>1
    <3>2. CASE m \notin page /\ ~(m.rec > cursor[b][p])
      <4>1. m \in log[p]
        BY <2>2, <2>4, <3>2
      <4>2. m.rec <= cursor[b][p]
        BY <1>4, <1>6, <3>2, <4>1
      <4>. QED  BY <2>3, <4>2
    <3>. QED  BY <3>1, <3>2
  <2>5. Covered(t, served[b][p] \cup page, log[b])
    BY <2>3, <2>4 DEF Covered
  <2>6. t.page \subseteq served[b][p] \cup page
    OBVIOUS
  <2>. HIDE DEF t
  <2>7. t.from = p
    BY DEF t
  <2>. QED  BY <1>3, <1>7, <2>1, <2>5, <2>6, <2>7 DEF PullCovered
<1>12. ASSUME NEW d \in Brokers, d # b PROVE PullCovered(d)'
  <2>1. task'[d] = task[d]
    BY <1>2, <1>4, <1>12, WorkerSets
  <2>2. served'[d] = served[d]
    BY <1>2, <1>4, <1>12
  <2>. QED  BY <1>1, <2>1, <2>2, CoveredStays DEF CursorInv
<1>. QED  BY <1>9, <1>10, <1>11, <1>12

\* A pull under way: the next mutation of its page is the first recorded of those it
\* has not logged, so that what was covered stays covered.
LEMMA PullKeepsCover ==
    ASSUME OriginInv, StampsUnique, [Next]_vars, NEW b \in Brokers, Progress(b) \/ FailTask(b),
           NEW srv \in SUBSET AllLogged, task[b].page \subseteq srv,
           Covered(task[b], srv, log[b])
    PROVE  task'[b].pc # "idle" =>
              /\ Covered(task'[b], srv, log'[b])
              /\ task'[b].page \subseteq task[b].page
              /\ task'[b].from = task[b].from
<1>1. TypeOK /\ log \in [Brokers -> SUBSET Mutation]
      /\ task \in [Workers -> {IdleTask} \cup BusyTask] /\ b \in Workers
  BY WorkerSets DEF OriginInv, TypeOK
<1>2. log[b] \subseteq log'[b]
  BY <1>1, LogsGrow
<1>3. task[b] \in BusyTask /\ task[b].cur \in Nat
  <2>1. task[b].pc # "idle"
    BY <1>1 DEF Progress, Dedupe, GetExisting, Apply, InsertRemote, Finish, FailTask, IdleTask,
                BusyTask
  <2>. QED  BY <1>1, <2>1, BusyTypes DEF BusyTask
<1>. DEFINE t == task[b]
<1>4. \A m, k \in srv : m.rec \in Nat /\ (m.rec = k.rec => m = k)
  BY <1>1 DEF StampsUnique, AllLogged, Mutation
<1>5. CASE GetExisting(b) \/ Apply(b)
  <2>1. /\ task'[b].page = t.page /\ task'[b].mut = t.mut
        /\ task'[b].cur = t.cur /\ task'[b].from = t.from
    BY <1>1, <1>3, <1>5 DEF GetExisting, Apply, BusyTask
  <2>. QED  BY <1>2, <2>1 DEF Covered
<1>6. CASE Dedupe(b)
  <2>1. PICK m \in t.page :
           /\ \A k \in t.page : RecordedBefore(m, k)
           /\ LET next == [t EXCEPT !.page = @ \ {m}, !.cur = Larger(@, m.rec)]
              IN  task' = [task EXCEPT ![b] =
                     IF Seen(next.at, m) THEN next
                     ELSE [next EXCEPT !.pc = "get", !.mut = m]]
    BY <1>6 DEF Dedupe
  <2>2. t.mut = NoMut /\ t.pc = "dedupe"
    BY <1>3, <1>6 DEF Dedupe, BusyTask
  <2>3. t.at = b
    BY <1>1, <1>3 DEF OriginInv, TasksAtOrigin, SoundTask, BusyTask
  <2>4. /\ task'[b].page = t.page \ {m} /\ task'[b].cur = Larger(t.cur, m.rec)
        /\ task'[b].from = t.from
        /\ m \in log[b] \/ task'[b].mut = m
    BY <1>1, <1>3, <2>1, <2>2, <2>3 DEF BusyTask, Seen
  <2>5. srv \subseteq Mutation
    BY <1>1 DEF AllLogged
  <2>6. \A k \in srv : k.rec <= t.cur => k \in log[b]
    BY <2>2, <2>5, ConstantsAssumption DEF Covered
  <2>7. \A k \in srv, l \in t.page : k.rec <= l.rec => k \in log[b] \/ k \in t.page
    BY <2>2, <2>5, ConstantsAssumption DEF Covered
  <2>8. \A k \in t.page : m.rec <= k.rec
    BY <2>1 DEF RecordedBefore
  <2>9. ASSUME NEW k \in srv, k.rec <= Larger(t.cur, m.rec)
        PROVE  k \in log[b] \/ k = m
    <3>1. CASE k.rec <= t.cur
      BY <2>6, <3>1
    <3>2. CASE k.rec <= m.rec /\ k \in t.page
      BY <1>4, <2>1, <2>8, <3>2
    <3>3. CASE k.rec <= m.rec /\ k \notin t.page
      BY <2>1, <2>7, <3>3
    <3>. QED  BY <1>3, <1>4, <2>1, <2>9, <3>1, <3>2, <3>3, LargerIsMaximum
  <2>10. ASSUME NEW k \in srv, NEW l \in t.page \ {m}, k.rec <= l.rec
         PROVE  k \in log[b] \/ k = m \/ k \in t.page \ {m}
    BY <2>7, <2>10
  <2>. HIDE DEF t
  <2>. QED  BY <1>2, <2>4, <2>9, <2>10 DEF Covered, t
<1>7. CASE InsertRemote(b) /\ t.mut \notin log[b]
  <2>1. t.at = b
    BY <1>1, <1>3 DEF OriginInv, TasksAtOrigin, SoundTask, BusyTask
  <2>2. log' = [log EXCEPT ![b] = @ \cup {t.mut}]
        /\ task' = [task EXCEPT ![b].pc = "dedupe", ![b].mut = NoMut]
    BY <1>7, <2>1 DEF InsertRemote
  <2>3. t.mut \in log'[b]
    BY <1>1, <2>2
  <2>4. task'[b].page = t.page /\ task'[b].cur = t.cur /\ task'[b].from = t.from
    BY <1>1, <1>3, <2>2 DEF BusyTask
  <2>. QED  BY <1>2, <2>3, <2>4 DEF Covered
<1>8. CASE Finish(b) \/ FailTask(b) \/ (InsertRemote(b) /\ t.mut \in log[b])
  <2>1. t.at = b
    BY <1>1, <1>3 DEF OriginInv, TasksAtOrigin, SoundTask, BusyTask
  <2>2. task' = [task EXCEPT ![b] = IdleTask]
    BY <1>8, <2>1 DEF Finish, FailTask, InsertRemote
  <2>. QED  BY <1>1, <2>2 DEF IdleTask
<1>. QED  BY <1>5, <1>6, <1>7, <1>8 DEF Progress

\* The cursor is saved at the end of the page.
LEMMA PullProceeds ==
    ASSUME CursorInv, [Next]_vars, NEW b \in Brokers, Progress(b) \/ FailTask(b)
    PROVE  PullCovered(b)' /\ CursorNeverSkipsServed'
<1>1. OriginInv /\ TypeOK /\ StampsUnique /\ PullCovered(b) /\ CursorNeverSkipsServed
  BY DEF CursorInv, OriginInv
<1>2. /\ served \in [Brokers -> [Brokers -> SUBSET Mutation]]
      /\ cursor \in [Brokers -> [Brokers -> Nat]]
      /\ task \in [Workers -> {IdleTask} \cup BusyTask]
      /\ b \in Workers
  BY <1>1, WorkerSets DEF TypeOK
<1>3. UNCHANGED served
  BY DEF Progress, Dedupe, GetExisting, Apply, InsertRemote, Finish, FailTask
<1>4. task[b] \in BusyTask /\ task[b].pc # "idle" /\ task[b].from \in Brokers
  <2>1. task[b].pc # "idle"
    BY <1>2 DEF Progress, Dedupe, GetExisting, Apply, InsertRemote, Finish, FailTask, IdleTask,
                BusyTask
  <2>. QED  BY <1>1, <2>1, <1>2, BusyTypes DEF BusyTask
<1>. DEFINE t == task[b]
            srv == served[b][task[b].from]
<1>5. srv \in SUBSET AllLogged /\ t.page \subseteq srv /\ Covered(t, srv, log[b])
  BY <1>1, <1>4 DEF PullCovered, CursorInv, ServedWereLogged, AllLogged
<1>6. PullCovered(b)'
  BY <1>1, <1>3, <1>5, PullKeepsCover DEF PullCovered
<1>7. CASE Finish(b)
  <2>1. /\ t.mut = NoMut
        /\ cursor' = [cursor EXCEPT ![b][t.from] = t.cur]
        /\ UNCHANGED log
    BY <1>4, <1>7 DEF Finish, BusyTask
  <2>2. \A m \in srv : m.rec <= t.cur => m \in log[b]
    <3>1. srv \subseteq Mutation
      BY <1>2, <1>4
    <3>. QED  BY <1>5, <2>1, <3>1, ConstantsAssumption DEF Covered
  <2>3. cursor'[b][t.from] = t.cur
    BY <1>2, <1>4, <2>1
  <2>4. \A d, p \in Brokers : d # b \/ p # t.from => cursor'[d][p] = cursor[d][p]
    BY <1>2, <1>4, <2>1
  <2>5. CursorNeverSkipsServed'
    <3>. SUFFICES ASSUME NEW d \in Brokers, NEW p \in Brokers, NEW m \in served[d][p],
                         m.rec <= cursor'[d][p]
                  PROVE  m \in log[d]
      BY <1>3, <2>1 DEF CursorNeverSkipsServed
    <3>1. CASE d = b /\ p = t.from
      BY <2>2, <2>3, <3>1
    <3>2. CASE d # b \/ p # t.from
      BY <1>1, <2>4, <3>2 DEF CursorNeverSkipsServed
    <3>. QED  BY <3>1, <3>2
  <2>. QED  BY <1>6, <2>5
<1>8. CASE ~Finish(b)
  <2>1. UNCHANGED cursor
    BY <1>8 DEF Progress, Dedupe, GetExisting, Apply, InsertRemote, FailTask
  <2>. QED  BY <1>1, <1>3, <1>6, <2>1, CursorStays
<1>. QED  BY <1>7, <1>8

\* The steps of everybody but the worker of a broker leave its pull alone.
LEMMA OthersLeavePull ==
    ASSUME TypeOK, [Next]_vars, NEW b \in Brokers,
           ~Progress(b), ~FailTask(b), \A p \in Brokers : ~StartPull(b, p)
    PROVE  task'[b] = task[b]
<1>1. task \in [Workers -> {IdleTask} \cup BusyTask] /\ b \in Workers
  BY WorkerSets DEF TypeOK
<1>2. ASSUME NEW c \in Clients, ClientStep(c) PROVE UNCHANGED task
  BY <1>2 DEF ClientStep, BeginWrite, WriteStore, BatchDelete, Stamp, InsertLocal, Publish,
              FailClient
<1>3. ASSUME NEW w \in Workers, Progress(w) \/ FailTask(w) PROVE task'[b] = task[b]
  <2>1. w # b
    BY <1>3
  <2>. QED  BY <1>1, <1>3, <2>1 DEF Progress, Dedupe, GetExisting, Apply, InsertRemote, Finish,
                                     FailTask
<1>4. ASSUME NEW s \in Brokers, LosePush(s) PROVE UNCHANGED task
  BY <1>4 DEF LosePush
<1>5. ASSUME NEW s \in Brokers, NEW h \in Handlers, Deliver(s, h) PROVE task'[b] = task[b]
  <2>1. h # b
    BY ConstantsAssumption
  <2>. QED  BY <1>1, <1>5, <2>1 DEF Deliver
<1>6. ASSUME NEW d \in Brokers, NEW p \in Brokers, StartPull(d, p) PROVE task'[b] = task[b]
  <2>1. d # b
    BY <1>6
  <2>. QED  BY <1>1, <1>6, <2>1 DEF StartPull
<1>. QED  BY <1>2, <1>3, <1>4, <1>5, <1>6 DEF Next, vars

\* Only the end of a broker's own pull moves its cursors.
LEMMA CursorMovesByPulls ==
    ASSUME [Next]_vars, \A b \in Brokers : ~Progress(b)
    PROVE  UNCHANGED cursor
<1>1. ASSUME NEW c \in Clients, ClientStep(c) PROVE UNCHANGED cursor
  BY <1>1 DEF ClientStep, BeginWrite, WriteStore, BatchDelete, Stamp, InsertLocal, Publish,
              FailClient
<1>2. ASSUME NEW w \in Workers, Progress(w) \/ FailTask(w) PROVE UNCHANGED cursor
  BY <1>2 DEF Progress, Dedupe, GetExisting, Apply, InsertRemote, Finish, FailTask
<1>3. ASSUME NEW s \in Brokers, LosePush(s) \/ (\E h \in Handlers : Deliver(s, h))
                                 \/ \E p \in Brokers : StartPull(s, p)
      PROVE  UNCHANGED cursor
  BY <1>3 DEF LosePush, Deliver, StartPull
<1>. QED  BY <1>1, <1>2, <1>3 DEF Next, vars

LEMMA NextCursorInv ==
    ASSUME CursorInv, [Next]_vars, StampGap = 1
    PROVE  CursorInv'
<1>1. OriginInv /\ TypeOK /\ StampsUnique /\ CursorNeverSkipsServed
  BY DEF CursorInv, OriginInv
<1>2. OriginInv' /\ StampsUnique'
  BY <1>1, NextOriginInv, NextStampsUnique
<1>3. CASE \E b, p \in Brokers : StartPull(b, p)
  BY <1>2, <1>3, PullStarts DEF CursorInv
<1>4. CASE \A b, p \in Brokers : ~StartPull(b, p)
  <2>1. UNCHANGED served
    BY <1>4, ServedChangesByPulls
  <2>2. ServedWereLogged'
    BY <1>1, <2>1, LogsGrow DEF CursorInv, ServedWereLogged
  <2>3. ASSUME NEW b \in Brokers PROVE PullCovered(b)'
    <3>1. CASE Progress(b) \/ FailTask(b)
      BY <3>1, PullProceeds
    <3>2. CASE ~(Progress(b) \/ FailTask(b))
      <4>1. task'[b] = task[b]
        BY <1>1, <1>4, <3>2, OthersLeavePull
      <4>. QED  BY <1>1, <2>1, <4>1, CoveredStays DEF CursorInv
    <3>. QED  BY <3>1, <3>2
  <2>4. CursorNeverSkipsServed'
    <3>1. CASE \E b \in Brokers : Progress(b)
      BY <3>1, PullProceeds
    <3>2. CASE \A b \in Brokers : ~Progress(b)
      BY <1>1, <2>1, <3>2, CursorMovesByPulls, CursorStays
    <3>. QED  BY <3>1, <3>2
  <2>. QED  BY <1>2, <2>2, <2>3, <2>4 DEF CursorInv
<1>. QED  BY <1>3, <1>4

-----------------------------------------------------------------------------

\* Where the clock advances between two readings, no pull moves its cursor past a
\* mutation it was served and did not log, whatever fails and whoever writes.
THEOREM NoServedMutationIsSkipped ==
    ASSUME StampGap = 1
    PROVE  Spec => []CursorNeverSkipsServed
<1>1. CursorInv /\ [Next]_vars => CursorInv'
  BY NextCursorInv
<1>2. CursorInv => CursorNeverSkipsServed
  BY DEF CursorInv
<1>. QED  BY <1>1, <1>2, InitCursorInv, PTL DEF Spec

-----------------------------------------------------------------------------
(* What brokers hold that follow one origin with one write handler at a time:  *)
(* no mutation falls behind a cursor, each log is a prefix of the origin's, and *)
(* no document is behind its log.  A second writer can insert an earlier stamp  *)
(* late, and a second origin's entries enter a log behind its cursors: the      *)
(* hypotheses exclude them, and the theorems above do without.                  *)

\* One origin, one handler, and a clock that advances between two readings.
OneWriter ==
    /\ \E o \in Brokers : Origins = {o}
    /\ \A c, d \in Clients : c = d
    /\ StampGap = 1

Origin == CHOOSE o \in Origins : TRUE

LEMMA OriginIsOne == ASSUME OneWriter PROVE Origins = {Origin} /\ Origin \in Brokers
BY DEF OneWriter, Origin

-----------------------------------------------------------------------------
(* The origin. *)

WritesAtOrigin ==
    /\ \A c \in Clients : client[c].pc # "idle" => client[c].at = Origin
    /\ \A m \in AllLogged : m.src = Origin /\ 0 < m.rec

\* What is stamped and not yet inserted will be the last entry.
StampsAreLast ==
    \A c \in Clients : Stamped(c) =>
        0 < client[c].rec /\ \A m \in AllLogged : m.rec < client[c].rec

WriterInv == CursorInv /\ WritesAtOrigin /\ StampsAreLast

LEMMA InitWriterInv == Init => WriterInv
BY InitCursorInv
   DEF Init, WriterInv, WritesAtOrigin, StampsAreLast, Stamped, AllLogged, IdleClient

LEMMA OriginHasAll ==
    ASSUME OneWriter, WriterInv
    PROVE  /\ AllLogged = log[Origin]
           /\ AllLogged \subseteq Mutation
           /\ \A b \in Brokers : log[b] \subseteq AllLogged
           /\ TypeOK
<1>1. TypeOK /\ LoggedAtOrigin
  BY DEF WriterInv, CursorInv, OriginInv
<1>2. log \in [Brokers -> SUBSET Mutation]
  BY <1>1 DEF TypeOK
<1>3. \A b \in Brokers : log[b] \subseteq AllLogged
  BY DEF AllLogged
<1>4. \A m \in AllLogged : m \in Mutation
  BY <1>2 DEF AllLogged
<1>5. \A m \in AllLogged : m \in log[Origin]
  BY <1>1 DEF WriterInv, WritesAtOrigin, LoggedAtOrigin
<1>. QED  BY <1>1, <1>3, <1>4, <1>5, OriginIsOne

LEMMA ClientsStayAtOrigin ==
    ASSUME OneWriter, WriterInv, [Next]_vars
    PROVE  \A c \in Clients : client'[c].pc # "idle" => client'[c].at = Origin
<1>1. client \in [Clients -> {IdleClient} \cup BusyClient]
      /\ \A c \in Clients : client[c].pc # "idle" => client[c].at = Origin /\ client[c] \in BusyClient
  BY OriginHasAll, BusyTypes DEF WriterInv, WritesAtOrigin, TypeOK
<1>2. ASSUME NEW c \in Clients, ClientStep(c)
      PROVE  \A d \in Clients : client'[d].pc # "idle" => client'[d].at = Origin
  <2>1. CASE \E b \in Brokers, e \in Entities :
                BatchDelete(c, b, e) \/ \E op \in Ops : BeginWrite(c, b, op, e)
    BY <1>1, <2>1, OriginIsOne DEF BatchDelete, BeginWrite
  <2>2. CASE WriteStore(c) \/ InsertLocal(c) \/ Stamp(c)
    <3>1. client[c] \in BusyClient /\ client[c].at = Origin
      BY <1>1, <2>2 DEF WriteStore, InsertLocal, Stamp
    <3>2. \A d \in Clients : d # c => client'[d] = client[d]
      BY <1>1, <2>2 DEF WriteStore, InsertLocal, Stamp
    <3>3. client'[c].pc # "idle" => client'[c].at = Origin
      <4>1. CASE WriteStore(c)
        BY <1>1, <3>1, <4>1 DEF WriteStore, IdleClient, BusyClient
      <4>2. CASE InsertLocal(c)
        BY <1>1, <3>1, <4>2 DEF InsertLocal, BusyClient
      <4>3. CASE Stamp(c)
        BY <1>1, <3>1, <4>3 DEF Stamp, BusyClient
      <4>. QED  BY <2>2, <4>1, <4>2, <4>3
    <3>. QED  BY <1>1, <3>2, <3>3
  <2>3. CASE Publish(c) \/ FailClient(c)
    BY <1>1, <2>3 DEF Publish, FailClient, IdleClient
  <2>. QED  BY <1>2, <2>1, <2>2, <2>3 DEF ClientStep
<1>3. ASSUME NEW w \in Workers, Progress(w) \/ FailTask(w)
      PROVE  UNCHANGED client
  BY <1>3 DEF Progress, Dedupe, GetExisting, Apply, InsertRemote, Finish, FailTask
<1>4. ASSUME NEW s \in Brokers, LosePush(s) \/ (\E h \in Handlers : Deliver(s, h))
                                 \/ \E p \in Brokers : StartPull(s, p)
      PROVE  UNCHANGED client
  BY <1>4 DEF LosePush, Deliver, StartPull
<1>. QED  BY <1>1, <1>2, <1>3, <1>4 DEF Next, vars

\* Only the handler's insert adds an entry that no broker had, and it comes last.
LEMMA NewEntriesAreLast ==
    ASSUME OneWriter, WriterInv, [Next]_vars
    PROVE  /\ AllLogged \subseteq AllLogged'
           /\ \A m \in AllLogged' \ AllLogged :
                 /\ m \in Mutation /\ m.src = Origin /\ 0 < m.rec
                 /\ \A k \in AllLogged : k.rec < m.rec
           /\ \/ AllLogged' = AllLogged
              \/ \E c \in Clients : /\ InsertLocal(c)
                                    /\ AllLogged' = AllLogged \cup {ClientMutation(c)}
<1>1. TypeOK /\ OriginInv
  BY OriginHasAll DEF WriterInv, CursorInv
<1>2. ASSUME NEW c \in Clients, InsertLocal(c)
      PROVE  /\ ClientMutation(c) \in Mutation
             /\ ClientMutation(c).src = Origin /\ 0 < ClientMutation(c).rec
             /\ \A k \in AllLogged : k.rec < ClientMutation(c).rec
  <2>1. client[c] \in BusyClient /\ Stamped(c) /\ client[c].pc # "idle"
    BY <1>1, <1>2, BusyTypes DEF InsertLocal, Stamped
  <2>. QED  BY <2>1, ClientMutationType DEF WriterInv, WritesAtOrigin, StampsAreLast
<1>. QED  BY <1>1, <1>2, AllLoggedGrowsByInserts

LEMMA NextWriterInv ==
    ASSUME OneWriter, WriterInv, [Next]_vars
    PROVE  WriterInv'
<1>1. TypeOK /\ CursorInv /\ StampsUnique /\ clock \in Nat
      /\ client \in [Clients -> {IdleClient} \cup BusyClient]
  BY OriginHasAll DEF WriterInv, CursorInv, TypeOK
<1>2. CursorInv'
  BY <1>1, NextCursorInv DEF OneWriter
<1>3. WritesAtOrigin'
  BY ClientsStayAtOrigin, NewEntriesAreLast DEF WriterInv, WritesAtOrigin
<1>4. PICK s \in Clients \cup {NoMut} :
         \A c \in Clients : client'[c].pc = "stamped" =>
            \/ client[c].pc = "stamped" /\ client'[c].rec = client[c].rec
            \/ c = s /\ client'[c].rec = clock' /\ clock < clock'
  BY <1>1, StampsAreFresh DEF OneWriter
<1>5. ASSUME NEW c \in Clients, client'[c].pc = "stamped"
      PROVE  AllLogged' = AllLogged
  <2>1. ASSUME NEW d \in Clients, InsertLocal(d) PROVE FALSE
    <3>1. d = c /\ client[d] \in BusyClient
      BY <1>1, <2>1, BusyTypes DEF OneWriter, InsertLocal
    <3>. QED  BY <1>1, <1>5, <2>1, <3>1 DEF InsertLocal, BusyClient
  <2>. QED  BY <2>1, NewEntriesAreLast
<1>6. \A m \in AllLogged : m.rec \in Nat /\ m.rec <= clock
  BY <1>1, OriginHasAll DEF StampsUnique, Mutation
<1>7. clock' \in Nat
  BY <1>1, ClockAdvances
<1>8. StampsAreLast'
  <2>. SUFFICES ASSUME NEW c \in Clients, client'[c].pc = "stamped"
                PROVE  0 < client'[c].rec /\ \A m \in AllLogged : m.rec < client'[c].rec
    BY <1>5 DEF StampsAreLast, Stamped
  <2>. QED  BY <1>1, <1>4, <1>6, <1>7 DEF WriterInv, StampsAreLast, Stamped
<1>. QED  BY <1>2, <1>3, <1>8 DEF WriterInv

-----------------------------------------------------------------------------
(* Cursors. *)

\* A cursor stands at an entry, or at the start.
Reached(n) == n = 0 \/ \E m \in AllLogged : m.rec = n

\* A cursor stands behind everything the swarm has recorded and the broker has not.
CursorsComplete ==
    \A b, p \in Brokers :
        /\ Reached(cursor[b][p])
        /\ \A m \in AllLogged : m.rec <= cursor[b][p] => m \in log[b]

\* A pull owes no more than its page, whatever the peer has recorded since.
PullComplete(b) ==
    task[b].pc # "idle" =>
        /\ Reached(task[b].cur)
        /\ Covered(task[b], AllLogged, log[b])
        /\ task[b].mut # NoMut => task[b].mut.rec <= task[b].cur

UnseenInv ==
    /\ WriterInv
    /\ CursorsComplete
    /\ \A b \in Brokers : PullComplete(b)
    /\ Handlers = {} => FollowerLogIsPrefix

LEMMA InitUnseenInv == Init => UnseenInv
<1>. SUFFICES ASSUME Init PROVE UnseenInv
  OBVIOUS
<1>1. WriterInv /\ FollowerLogIsPrefix
  BY InitWriterInv DEF Init, FollowerLogIsPrefix
<1>2. CursorsComplete
  BY DEF Init, CursorsComplete, Reached, AllLogged
<1>3. \A b \in Brokers : PullComplete(b)
  BY WorkerSets DEF Init, PullComplete, IdleTask
<1>. QED  BY <1>1, <1>2, <1>3 DEF UnseenInv

\* An entry made later lies ahead of what was reached before.
LEMMA ReachedStays ==
    ASSUME OneWriter, WriterInv, [Next]_vars, NEW n \in Nat, Reached(n)
    PROVE  /\ n = 0 \/ \E m \in AllLogged' : m.rec = n
           /\ \A m \in AllLogged' : m.rec <= n => m \in AllLogged
<1>1. \A m \in AllLogged : m.rec \in Nat
  BY OriginHasAll DEF Mutation
<1>2. \A m \in AllLogged' \ AllLogged : m.rec \in Nat
  BY NewEntriesAreLast DEF Mutation
<1>. QED  BY <1>1, <1>2, NewEntriesAreLast DEF Reached

\* What a pull holds was logged, by its peer too.
LEMMA PullsHoldEntries ==
    ASSUME OneWriter, WriterInv, NEW b \in Brokers, task[b].pc # "idle"
    PROVE  /\ task[b] \in BusyTask /\ task[b].at = b /\ b \in Workers
           /\ task[b].page \subseteq AllLogged
           /\ task[b].mut # NoMut => task[b].mut \in AllLogged
           /\ task[b].pc # "dedupe" =>
                 /\ task[b].mut \in AllLogged /\ task[b].mut # NoMut /\ b # Origin
<1>1. TypeOK /\ OriginInv /\ b \in Workers
  BY OriginHasAll, WorkerSets DEF WriterInv, CursorInv
<1>2. task[b] \in BusyTask /\ SoundTask(b, task[b], log)
  BY <1>1, BusyTypes DEF OriginInv, TasksAtOrigin
<1>3. task[b].page \subseteq AllLogged
  <2>1. \A m \in task[b].page : m \in Mutation /\ m.src \in Brokers /\ m \in log[m.src]
    BY <1>2 DEF SoundTask, AtOrigin, BusyTask, Mutation
  <2>. QED  BY <2>1 DEF AllLogged
<1>4. task[b].pc = "dedupe" => task[b].mut = NoMut
  BY <1>2 DEF BusyTask
<1>5. task[b].pc # "dedupe" => task[b].mut \in AllLogged /\ task[b].mut.src # b
  <2>. SUFFICES ASSUME task[b].pc # "dedupe"
                PROVE  task[b].mut \in AllLogged /\ task[b].mut.src # b
    OBVIOUS
  <2>1. task[b].mut \in Mutation /\ task[b].at = b
    BY <1>2 DEF SoundTask, BusyTask
  <2>2. task[b].mut.src \in Brokers /\ task[b].mut \in log[task[b].mut.src] /\ task[b].mut.src # b
    BY <1>2, <2>1 DEF SoundTask, AtOrigin, Mutation
  <2>. QED  BY <2>2 DEF AllLogged
<1>6. NoMut \notin AllLogged /\ \A m \in AllLogged : m.src = Origin
  BY OriginHasAll, ConstantsAssumption DEF WriterInv, WritesAtOrigin
<1>7. task[b].at = b
  BY <1>2 DEF SoundTask
<1>. QED  BY <1>1, <1>2, <1>3, <1>4, <1>5, <1>6, <1>7

\* A pull that is complete is so for what is recorded later.
LEMMA CoverExtends ==
    ASSUME OneWriter, WriterInv, [Next]_vars, NEW b \in Brokers,
           NEW t, t.cur \in Nat, t.page \subseteq AllLogged, Reached(t.cur),
           Covered(t, AllLogged, log'[b])
    PROVE  /\ t.cur = 0 \/ \E m \in AllLogged' : m.rec = t.cur
           /\ Covered(t, AllLogged', log'[b])
<1>1. ASSUME NEW m \in AllLogged', NEW k \in t.page, m.rec <= k.rec
      PROVE  m \in AllLogged
  <2>1. m.rec \in Nat /\ k.rec \in Nat
    BY NewEntriesAreLast, OriginHasAll DEF Mutation
  <2>. QED  BY <1>1, <2>1, NewEntriesAreLast
<1>2. ASSUME NEW m \in AllLogged', m.rec <= t.cur
      PROVE  m \in AllLogged
  BY <1>2, ReachedStays
<1>3. t.cur = 0 \/ \E m \in AllLogged' : m.rec = t.cur
  BY ReachedStays
<1>. QED  BY <1>1, <1>2, <1>3 DEF Covered

LEMMA PullCompleteStays ==
    ASSUME OneWriter, UnseenInv, [Next]_vars, NEW b \in Brokers, task'[b] = task[b]
    PROVE  PullComplete(b)'
<1>. SUFFICES ASSUME task[b].pc # "idle"
              PROVE  /\ task[b].cur = 0 \/ \E m \in AllLogged' : m.rec = task[b].cur
                     /\ Covered(task[b], AllLogged', log'[b])
                     /\ task[b].mut # NoMut => task[b].mut.rec <= task[b].cur
  BY DEF PullComplete, Reached
<1>1. WriterInv /\ PullComplete(b) /\ TypeOK
  BY OriginHasAll DEF UnseenInv
<1>2. task[b] \in BusyTask /\ task[b].cur \in Nat /\ task[b].page \subseteq AllLogged
  BY <1>1, PullsHoldEntries DEF BusyTask
<1>3. log[b] \subseteq log'[b]
  BY <1>1, LogsGrow
<1>4. Covered(task[b], AllLogged, log'[b]) /\ Reached(task[b].cur)
  BY <1>1, <1>3 DEF PullComplete, Covered
<1>. QED  BY <1>1, <1>2, <1>4, CoverExtends DEF PullComplete

\* Followers pull from the origin itself, or no push disturbs the order of relays.
RelaysInOrder ==
    Handlers = {} \/ \A b \in Brokers \ {Origin} : PullPeers(b) \subseteq {Origin}

\* A page leaves nothing out below its last entry that the broker has not.
LEMMA PullCompleteStarts ==
    ASSUME OneWriter, RelaysInOrder, UnseenInv, [Next]_vars,
           NEW b \in Brokers, NEW p \in Brokers, StartPull(b, p)
    PROVE  PullComplete(b)'
<1>1. WriterInv /\ TypeOK /\ b \in Workers
  BY OriginHasAll, WorkerSets DEF UnseenInv
<1>2. PICK page \in PagesSince(p, cursor[b][p]) :
         task' = [task EXCEPT ![b] =
               [pc |-> "dedupe", at |-> b, from |-> p, page |-> page,
                mut |-> NoMut, cur |-> cursor[b][p]]]
  BY DEF StartPull
<1>. DEFINE cur == cursor[b][p]
<1>3. UNCHANGED log /\ AllLogged' = AllLogged
  BY DEF StartPull, AllLogged
<1>4. cur \in Nat /\ task \in [Workers -> {IdleTask} \cup BusyTask]
  BY <1>1 DEF TypeOK
<1>5. /\ page \subseteq log[p]
      /\ \A m \in page : m.rec > cur
      /\ \A k \in page, m \in log[p] : m.rec > cur /\ m \notin page => k.rec <= m.rec
  BY <1>2 DEF PagesSince, RecordedBefore
<1>6. log[p] \subseteq AllLogged /\ \A m, k \in AllLogged : m.rec \in Nat /\ (m.rec = k.rec => m = k)
  BY <1>1, OriginHasAll DEF WriterInv, CursorInv, StampsUnique, Mutation
<1>7. Reached(cur) /\ \A m \in AllLogged : m.rec <= cur => m \in log[b]
  BY DEF UnseenInv, CursorsComplete
<1>8. ASSUME NEW m \in AllLogged, NEW k \in page, m.rec <= k.rec
      PROVE  m \in log[b] \/ m \in page
  <2>1. CASE b = Origin
    BY <1>1, <2>1, OriginHasAll
  <2>2. CASE m \in log[p]
    BY <1>4, <1>5, <1>6, <1>7, <1>8, <2>2
  <2>3. CASE b # Origin /\ m \notin log[p]
    <3>1. p # Origin
      BY <1>1, <2>3, OriginHasAll
    <3>2. Handlers = {}
      BY <2>3, <3>1 DEF RelaysInOrder, StartPull
    <3>3. k.src = Origin /\ k \in log[p]
      BY <1>1, <1>5, <1>6 DEF WriterInv, WritesAtOrigin
    <3>4. m \in log[k.src] /\ (m.rec < k.rec => m \in log[p])
      BY <1>1, <3>2, <3>3, OriginHasAll DEF UnseenInv, FollowerLogIsPrefix
    <3>5. m.rec < k.rec \/ m = k
      BY <1>6, <1>8, <3>3
    <3>. QED  BY <2>3, <3>3, <3>4, <3>5
  <2>. QED  BY <2>1, <2>2, <2>3
<1>. DEFINE t == [pc |-> "dedupe", at |-> b, from |-> p, page |-> page,
                  mut |-> NoMut, cur |-> cur]
<1>9. task'[b] = t
  BY <1>1, <1>2, <1>4
<1>10. Covered(t, AllLogged, log[b])
  BY <1>7, <1>8 DEF Covered
<1>11. t.cur = cur /\ t.mut = NoMut
  OBVIOUS
<1>. HIDE DEF t
<1>. QED  BY <1>3, <1>7, <1>9, <1>10, <1>11 DEF PullComplete, Reached

LEMMA PullCompleteProceeds ==
    ASSUME OneWriter, UnseenInv, [Next]_vars, NEW b \in Brokers, Progress(b) \/ FailTask(b)
    PROVE  PullComplete(b)'
<1>1. WriterInv /\ PullComplete(b) /\ TypeOK /\ OriginInv /\ StampsUnique
      /\ task \in [Workers -> {IdleTask} \cup BusyTask] /\ b \in Workers
  BY OriginHasAll, WorkerSets DEF UnseenInv, WriterInv, CursorInv, TypeOK
<1>. SUFFICES ASSUME task'[b].pc # "idle"
              PROVE  /\ task'[b].cur = 0 \/ \E m \in AllLogged' : m.rec = task'[b].cur
                     /\ Covered(task'[b], AllLogged', log'[b])
                     /\ task'[b].mut # NoMut => task'[b].mut.rec <= task'[b].cur
  BY DEF PullComplete, Reached
<1>2. task[b].pc # "idle"
  BY <1>1 DEF Progress, Dedupe, GetExisting, Apply, InsertRemote, Finish, FailTask, IdleTask,
              BusyTask
<1>3. task[b] \in BusyTask /\ task[b].at = b /\ task[b].cur \in Nat /\ task[b].page \subseteq AllLogged
  BY <1>1, <1>2, PullsHoldEntries DEF BusyTask
<1>4. /\ Covered(task'[b], AllLogged, log'[b])
      /\ task'[b].page \subseteq AllLogged
  BY <1>1, <1>2, <1>3, PullKeepsCover DEF PullComplete
<1>5. /\ task'[b].cur \in Nat /\ Reached(task'[b].cur)
      /\ task'[b].mut # NoMut => task'[b].mut.rec <= task'[b].cur
  <2>1. CASE Dedupe(b)
    <3>1. PICK m \in task[b].page :
             LET next == [task[b] EXCEPT !.page = @ \ {m}, !.cur = Larger(@, m.rec)]
             IN  task' = [task EXCEPT ![b] =
                    IF Seen(next.at, m) THEN next
                    ELSE [next EXCEPT !.pc = "get", !.mut = m]]
      BY <2>1 DEF Dedupe
    <3>2. /\ task'[b].cur = Larger(task[b].cur, m.rec)
          /\ task'[b].mut \in {task[b].mut, m}
      BY <1>1, <1>3, <3>1 DEF BusyTask
    <3>3. m \in AllLogged /\ m.rec \in Nat
      BY <1>1, <1>3, OriginHasAll DEF Mutation
    <3>4. task[b].mut = NoMut
      BY <1>3, <2>1 DEF Dedupe, BusyTask
    <3>. QED  BY <1>1, <1>2, <1>3, <3>2, <3>3, <3>4, LargerIsMaximum DEF PullComplete, Reached
  <2>2. CASE GetExisting(b) \/ Apply(b)
    <3>1. task'[b].cur = task[b].cur /\ task'[b].mut = task[b].mut
      BY <1>1, <1>3, <2>2 DEF GetExisting, Apply, BusyTask
    <3>. QED  BY <1>1, <1>2, <1>3, <3>1 DEF PullComplete
  <2>3. CASE InsertRemote(b)
    <3>1. task' = [task EXCEPT ![b].pc = "dedupe", ![b].mut = NoMut]
      BY <1>1, <2>3 DEF InsertRemote, IdleTask
    <3>2. task'[b].cur = task[b].cur /\ task'[b].mut = NoMut
      BY <1>1, <1>3, <3>1 DEF BusyTask
    <3>. QED  BY <1>1, <1>2, <1>3, <3>2 DEF PullComplete
  <2>4. CASE Finish(b) \/ FailTask(b)
    BY <1>1, <2>4 DEF Finish, FailTask, IdleTask
  <2>. QED  BY <2>1, <2>2, <2>3, <2>4 DEF Progress
<1>. DEFINE t == task'[b]
<1>6. /\ t.cur \in Nat /\ t.page \subseteq AllLogged /\ Reached(t.cur)
      /\ Covered(t, AllLogged, log'[b])
  BY <1>4, <1>5
<1>. HIDE DEF t
<1>7. /\ t.cur = 0 \/ \E m \in AllLogged' : m.rec = t.cur
      /\ Covered(t, AllLogged', log'[b])
  BY <1>1, <1>6, CoverExtends
<1>. QED  BY <1>5, <1>7 DEF t

\* A saved cursor stands behind what its pull owed.
LEMMA NextCursorsComplete ==
    ASSUME OneWriter, UnseenInv, [Next]_vars
    PROVE  CursorsComplete'
<1>1. WriterInv /\ TypeOK /\ CursorsComplete /\ cursor \in [Brokers -> [Brokers -> Nat]]
  BY OriginHasAll DEF UnseenInv, TypeOK
<1>2. \A b \in Brokers : log[b] \subseteq log'[b]
  BY <1>1, LogsGrow
<1>3. ASSUME NEW b \in Brokers, NEW n \in Nat, Reached(n),
             \A m \in AllLogged : m.rec <= n => m \in log[b]
      PROVE  /\ n = 0 \/ \E m \in AllLogged' : m.rec = n
             /\ \A m \in AllLogged' : m.rec <= n => m \in log'[b]
  BY <1>1, <1>2, <1>3, ReachedStays
<1>4. ASSUME NEW b \in Brokers, Finish(b)
      PROVE  CursorsComplete'
    <2>1. b \in Workers /\ task[b].pc # "idle"
      BY <1>4, WorkerSets DEF Finish
    <2>2. /\ task[b].from \in Brokers /\ task[b].cur \in Nat /\ task[b].mut = NoMut
      BY <1>1, <1>4, <2>1, PullsHoldEntries DEF Finish, BusyTask
    <2>3. cursor' = [cursor EXCEPT ![b][task[b].from] = task[b].cur]
      BY <1>4 DEF Finish
    <2>4. \A m \in AllLogged : m.rec <= task[b].cur => m \in log[b]
      BY <1>1, <2>1, <2>2, OriginHasAll, ConstantsAssumption DEF UnseenInv, PullComplete, Covered
    <2>5. Reached(task[b].cur)
      BY <2>1 DEF UnseenInv, PullComplete
    <2>. SUFFICES ASSUME NEW d \in Brokers, NEW p \in Brokers
                  PROVE  /\ cursor'[d][p] = 0 \/ \E m \in AllLogged' : m.rec = cursor'[d][p]
                         /\ \A m \in AllLogged' : m.rec <= cursor'[d][p] => m \in log'[d]
      BY DEF CursorsComplete, Reached
    <2>6. CASE d = b /\ p = task[b].from
      <3>1. cursor'[d][p] = task[b].cur
        BY <1>1, <2>2, <2>3, <2>6
      <3>. QED  BY <1>3, <2>2, <2>4, <2>5, <2>6, <3>1
    <2>7. CASE d # b \/ p # task[b].from
      <3>1. cursor'[d][p] = cursor[d][p] /\ cursor[d][p] \in Nat
        BY <1>1, <2>2, <2>3, <2>7
      <3>. QED  BY <1>1, <1>3, <3>1 DEF CursorsComplete
    <2>. QED  BY <2>6, <2>7
<1>5. CASE \A b \in Brokers : ~Finish(b)
  <2>1. UNCHANGED cursor
    <3>1. ASSUME NEW c \in Clients, ClientStep(c) PROVE UNCHANGED cursor
      BY <3>1 DEF ClientStep, BeginWrite, WriteStore, BatchDelete, Stamp, InsertLocal, Publish,
                  FailClient
    <3>2. ASSUME NEW w \in Workers, Progress(w) \/ FailTask(w) PROVE UNCHANGED cursor
      BY <1>5, <3>2 DEF Progress, Dedupe, GetExisting, Apply, InsertRemote, Finish, FailTask
    <3>3. ASSUME NEW s \in Brokers, LosePush(s) \/ (\E h \in Handlers : Deliver(s, h))
                                     \/ \E p \in Brokers : StartPull(s, p)
          PROVE  UNCHANGED cursor
      BY <3>3 DEF LosePush, Deliver, StartPull
    <3>. QED  BY <3>1, <3>2, <3>3 DEF Next, vars
  <2>2. \A d, p \in Brokers : cursor[d][p] \in Nat
    BY <1>1
  <2>. QED  BY <1>1, <1>3, <2>1, <2>2 DEF CursorsComplete, Reached
<1>. QED  BY <1>4, <1>5

\* A broker logs a mutation after everything that was recorded before it.
LEMMA NextPrefix ==
    ASSUME OneWriter, UnseenInv, [Next]_vars, Handlers = {}
    PROVE  FollowerLogIsPrefix'
<1>1. /\ WriterInv /\ TypeOK /\ FollowerLogIsPrefix /\ WriterInv' /\ Workers = Brokers
      /\ log \in [Brokers -> SUBSET Mutation]
  BY OriginHasAll, NextWriterInv DEF UnseenInv, Workers, TypeOK
<1>2. /\ AllLogged = log[Origin] /\ AllLogged \subseteq Mutation
      /\ AllLogged' = log'[Origin]
      /\ \A b \in Brokers : log[b] \subseteq AllLogged /\ log'[b] \subseteq AllLogged'
      /\ \A m \in AllLogged : m.src = Origin
      /\ \A m \in AllLogged' : m.src = Origin
  <2>1. AllLogged' = log'[Origin]
    BY <1>1, OriginIsOne DEF WriterInv, CursorInv, OriginInv, LoggedAtOrigin, WritesAtOrigin, AllLogged
  <2>2. \A b \in Brokers : log'[b] \subseteq AllLogged'
    BY DEF AllLogged
  <2>. QED  BY <1>1, <2>1, <2>2, OriginHasAll DEF WriterInv, WritesAtOrigin
<1>. SUFFICES ASSUME NEW b \in Brokers, b # Origin, NEW m \in log'[b], NEW k \in AllLogged',
                     k.rec < m.rec
              PROVE  k \in log'[b]
  BY <1>2 DEF FollowerLogIsPrefix
<1>3. log[b] \subseteq log'[b]
  BY <1>1, LogsGrow
<1>4. CASE m \in log[b]
  <2>1. m \in AllLogged /\ m.rec \in Nat
    BY <1>2, <1>4 DEF Mutation
  <2>2. k \in AllLogged
    <3>. SUFFICES ASSUME k \notin AllLogged PROVE FALSE
      OBVIOUS
    <3>1. k \in Mutation /\ m.rec < k.rec
      BY <1>1, <2>1, NewEntriesAreLast
    <3>. QED  BY <2>1, <3>1 DEF Mutation
  <2>. QED  BY <1>1, <1>2, <1>3, <1>4, <2>1, <2>2 DEF FollowerLogIsPrefix
<1>5. CASE m \notin log[b]
  <2>1. InsertRemote(b) /\ m = task[b].mut
    <3>1. ASSUME NEW c \in Clients, ClientStep(c) PROVE log'[b] = log[b]
      <4>1. CASE InsertLocal(c)
        <5>1. client[c].at = Origin
          BY <1>1, <4>1 DEF InsertLocal, WriterInv, WritesAtOrigin
        <5>. QED  BY <1>1, <4>1, <5>1 DEF InsertLocal
      <4>. QED  BY <3>1, <4>1 DEF ClientStep, BeginWrite, WriteStore, BatchDelete, Stamp, Publish,
                                  FailClient
    <3>2. ASSUME NEW w \in Workers, Progress(w) \/ FailTask(w)
          PROVE  log'[b] = log[b] \/ (InsertRemote(b) /\ m = task[b].mut)
      <4>1. CASE InsertRemote(w)
        <5>1. task[w].pc # "idle" /\ task[w].at = w
          BY <1>1, <4>1, PullsHoldEntries DEF InsertRemote
        <5>2. log' = log \/ log' = [log EXCEPT ![w] = @ \cup {task[w].mut}]
          BY <4>1, <5>1 DEF InsertRemote
        <5>. QED  BY <1>1, <1>5, <4>1, <5>2
      <4>. QED  BY <3>2, <4>1 DEF Progress, Dedupe, GetExisting, Apply, Finish, FailTask
    <3>3. ASSUME NEW s \in Brokers, LosePush(s) \/ (\E h \in Handlers : Deliver(s, h))
                                     \/ \E p \in Brokers : StartPull(s, p)
          PROVE  log'[b] = log[b]
      BY <3>3 DEF LosePush, Deliver, StartPull
    <3>. QED  BY <1>5, <3>1, <3>2, <3>3 DEF Next, vars
  <2>2. /\ task[b].pc = "log" /\ task[b].cur \in Nat
        /\ m \in AllLogged /\ m # NoMut
    BY <1>1, <2>1, PullsHoldEntries DEF InsertRemote, BusyTask
  <2>3. m.rec <= task[b].cur /\ Covered(task[b], AllLogged, log[b])
    BY <2>1, <2>2 DEF UnseenInv, PullComplete
  <2>4. m.rec \in Nat
    BY <1>2, <2>2 DEF Mutation
  <2>5. k \in AllLogged
    <3>. SUFFICES ASSUME k \notin AllLogged PROVE FALSE
      OBVIOUS
    <3>1. k \in Mutation /\ m.rec < k.rec
      BY <1>1, <2>2, NewEntriesAreLast
    <3>. QED  BY <2>4, <3>1 DEF Mutation
  <2>6. k.rec \in Nat
    BY <1>2, <2>5 DEF Mutation
  <2>7. k.rec <= task[b].cur /\ k # m
    BY <2>2, <2>3, <2>4, <2>6
  <2>. QED  BY <1>3, <2>1, <2>3, <2>5, <2>7 DEF Covered
<1>. QED  BY <1>4, <1>5

LEMMA NextUnseenInv ==
    ASSUME OneWriter, RelaysInOrder, UnseenInv, [Next]_vars
    PROVE  UnseenInv'
<1>1. WriterInv' /\ CursorsComplete' /\ (Handlers = {} => FollowerLogIsPrefix')
  BY NextWriterInv, NextCursorsComplete, NextPrefix DEF UnseenInv
<1>2. ASSUME NEW b \in Brokers PROVE PullComplete(b)'
  <2>1. CASE \E p \in Brokers : StartPull(b, p)
    BY <2>1, PullCompleteStarts
  <2>2. CASE Progress(b) \/ FailTask(b)
    BY <2>2, PullCompleteProceeds
  <2>3. CASE ~(Progress(b) \/ FailTask(b)) /\ \A p \in Brokers : ~StartPull(b, p)
    <3>1. TypeOK
      BY OriginHasAll DEF UnseenInv
    <3>. QED  BY <2>3, <3>1, OthersLeavePull, PullCompleteStays
  <2>. QED  BY <2>1, <2>2, <2>3
<1>. QED  BY <1>1, <1>2 DEF UnseenInv

\* Where one handler writes at one origin, what a peer has logged and the broker has
\* not is ahead of the cursor of its pull, whatever pushes arrive or get lost.
THEOREM NothingFallsBehindCursors ==
    ASSUME OneWriter, RelaysInOrder
    PROVE  Spec => []UnseenIsAheadOfCursor
<1>1. UnseenInv /\ [Next]_vars => UnseenInv'
  BY NextUnseenInv
<1>2. UnseenInv => UnseenIsAheadOfCursor
  <2>. SUFFICES ASSUME UnseenInv, NEW b \in Brokers, NEW p \in Brokers, NEW m \in log[p],
                       m \notin log[b]
                PROVE  m.rec > cursor[b][p]
    BY DEF UnseenIsAheadOfCursor
  <2>1. TypeOK /\ m \in AllLogged /\ m \in Mutation
    BY OriginHasAll DEF UnseenInv
  <2>2. m.rec \in Nat /\ cursor[b][p] \in Nat
    BY <2>1 DEF Mutation, TypeOK
  <2>. QED  BY <2>1, <2>2 DEF UnseenInv, CursorsComplete
<1>. QED  BY <1>1, <1>2, InitUnseenInv, PTL DEF Spec

\* Without pushes the log of every broker is a prefix of the origin's, also where it
\* pulls from relays and rounds are interrupted.
THEOREM FollowersHoldPrefixes ==
    ASSUME OneWriter, Handlers = {}
    PROVE  Spec => []FollowerLogIsPrefix
<1>1. UnseenInv /\ [Next]_vars => UnseenInv'
  BY NextUnseenInv DEF RelaysInOrder
<1>2. UnseenInv => FollowerLogIsPrefix
  BY DEF UnseenInv
<1>. QED  BY <1>1, <1>2, InitUnseenInv, PTL DEF Spec

-----------------------------------------------------------------------------
(* Documents of the origin: their versions and those of its entries never go back. *)

Upserts(e) == {m \in AllLogged : m.ent = e /\ m.op = "upsert"}

VersionsBehindClock ==
    /\ \A m \in AllLogged : m.ver <= clock
    /\ \A e \in Entities : db[Origin][e] # NoDoc => db[Origin][e].ver <= clock
    /\ \A c \in Clients : client[c].pc # "idle" => client[c].ver <= clock

OriginHoldsLatest ==
    \A e \in Entities : db[Origin][e] # NoDoc =>
        \A m \in Upserts(e) : m.ver <= db[Origin][e].ver

\* The version of an entry to come, known from the start but for a batch deletion.
Versioned(c) ==
    /\ client[c].pc \in {"write", "written", "stamped"}
    /\ client[c].op = "batchDelete" => Stamped(c)
HandlerIsLater ==
    \A c \in Clients :
        /\ Versioned(c) => \A m \in Upserts(client[c].ent) : m.ver <= client[c].ver
        /\ /\ client[c].pc \in {"written", "stamped"}
           /\ client[c].op \in {"create", "update"}
           /\ db[Origin][client[c].ent] # NoDoc
           => client[c].ver <= db[Origin][client[c].ent].ver

VersionsFollowRecords ==
    \A k, m \in AllLogged :
        k.ent = m.ent /\ k.op = "upsert" /\ k.rec <= m.rec => k.ver <= m.ver

VersionInv ==
    /\ VersionsBehindClock
    /\ OriginHoldsLatest
    /\ HandlerIsLater
    /\ VersionsFollowRecords

LEMMA InitVersionInv == ASSUME OneWriter, Init PROVE VersionInv
<1>1. AllLogged = {} /\ \A e \in Entities : db[Origin][e] = NoDoc
  BY OriginIsOne DEF Init, AllLogged
<1>2. \A c \in Clients : client[c].pc = "idle"
  BY DEF Init, IdleClient
<1>. QED  BY <1>1, <1>2
          DEF VersionInv, VersionsBehindClock, OriginHoldsLatest, HandlerIsLater, Upserts,
              Versioned, VersionsFollowRecords

\* Types of what the origin's handler works on.
LEMMA OriginTypes ==
    ASSUME OneWriter, WriterInv
    PROVE  /\ clock \in Nat
           /\ client \in [Clients -> {IdleClient} \cup BusyClient]
           /\ \A c \in Clients : client[c].pc # "idle" =>
                 /\ client[c] \in BusyClient /\ client[c].at = Origin
                 /\ client[c].ent \in Entities /\ client[c].ver \in Nat
           /\ \A b \in Brokers : db[b] \in [Entities -> Doc \cup {NoDoc}]
           /\ db \in [Brokers -> [Entities -> Doc \cup {NoDoc}]]
           /\ \A e \in Entities : db[Origin][e] # NoDoc => db[Origin][e].ver \in Nat
           /\ \A m \in AllLogged : m.ver \in Nat /\ m.rec \in Nat /\ m.ent \in Entities
<1>1. TypeOK
  BY OriginHasAll
<1>2. \A c \in Clients : client[c].pc # "idle" => client[c] \in BusyClient
  BY <1>1, BusyTypes
<1>3. \A c \in BusyClient : c.ent \in Entities /\ c.ver \in Nat
  BY DEF BusyClient
<1>4. \A m \in AllLogged : m.ver \in Nat /\ m.rec \in Nat /\ m.ent \in Entities
  BY OriginHasAll DEF Mutation
<1>5. \A e \in Entities : db[Origin][e] # NoDoc => db[Origin][e].ver \in Nat
  BY <1>1, OriginIsOne DEF TypeOK, Doc
<1>. QED  BY <1>1, <1>2, <1>3, <1>4, <1>5 DEF TypeOK, WriterInv, WritesAtOrigin

\* Without pushes a step is the handler's, at the origin, or of one follower's pull.
LEMMA WhoSteps ==
    ASSUME OneWriter, WriterInv, [Next]_vars, Handlers = {}
    PROVE  \/ \E c \in Clients : ClientStep(c)
           \/ \E b \in Brokers :
                 /\ Progress(b) \/ FailTask(b) \/ \E p \in Brokers : StartPull(b, p)
                 /\ UNCHANGED <<clock, client>> /\ AllLogged' = AllLogged
                 /\ \A d \in Brokers : d # b =>
                       db'[d] = db[d] /\ log'[d] = log[d] /\ task'[d] = task[d]
                 /\ b = Origin => db'[b] = db[b]
           \/ UNCHANGED <<clock, client, db, log, task>> /\ AllLogged' = AllLogged
<1>1. TypeOK /\ Workers = Brokers
      /\ log \in [Brokers -> SUBSET Mutation] /\ task \in [Workers -> {IdleTask} \cup BusyTask]
      /\ db \in [Brokers -> [Entities -> Doc \cup {NoDoc}]]
  BY OriginHasAll DEF TypeOK, Workers
<1>2. UNCHANGED client => AllLogged' = AllLogged
  <2>. SUFFICES ASSUME UNCHANGED client, NEW c \in Clients, InsertLocal(c) PROVE FALSE
    BY NewEntriesAreLast
  <2>1. client[c] \in BusyClient /\ client[c].pc = "stamped"
    BY <1>1, BusyTypes DEF InsertLocal
  <2>. QED  BY <1>1, <2>1 DEF InsertLocal, BusyClient, TypeOK
<1>3. ASSUME NEW b \in Brokers, Progress(b) \/ FailTask(b)
      PROVE  /\ UNCHANGED <<clock, client>>
             /\ \A d \in Brokers : d # b =>
                   db'[d] = db[d] /\ log'[d] = log[d] /\ task'[d] = task[d]
             /\ b = Origin => db'[b] = db[b]
  <2>1. UNCHANGED <<clock, client>>
    BY <1>3 DEF Progress, Dedupe, GetExisting, Apply, InsertRemote, Finish, FailTask
  <2>2. \A d \in Brokers : d # b => task'[d] = task[d]
    BY <1>1, <1>3 DEF Progress, Dedupe, GetExisting, Apply, InsertRemote, Finish, FailTask
  <2>3. task[b].pc # "idle"
    BY <1>1, <1>3 DEF Progress, Dedupe, GetExisting, Apply, InsertRemote, Finish, FailTask,
                      IdleTask, BusyTask
  <2>4. task[b].at = b /\ (task[b].pc = "write" => b # Origin)
    BY <2>3, PullsHoldEntries
  <2>5. \A d \in Brokers : d # b => log'[d] = log[d]
    BY <1>1, <1>3, <2>4 DEF Progress, Dedupe, GetExisting, Apply, InsertRemote, Finish, FailTask
  <2>6. \A d \in Brokers : d # b \/ b = Origin => db'[d] = db[d]
    BY <1>1, <1>3, <2>4 DEF Progress, Dedupe, GetExisting, Apply, InsertRemote, Finish, FailTask
  <2>. QED  BY <2>1, <2>2, <2>5, <2>6
<1>4. ASSUME NEW b \in Brokers, NEW p \in Brokers, StartPull(b, p)
      PROVE  /\ UNCHANGED <<clock, client, db, log>>
             /\ \A d \in Brokers : d # b => task'[d] = task[d]
  BY <1>1, <1>4 DEF StartPull
<1>5. ASSUME NEW s \in Brokers, LosePush(s)
      PROVE  UNCHANGED <<clock, client, db, log, task>>
  BY <1>5 DEF LosePush
<1>6. UNCHANGED vars => UNCHANGED <<clock, client, db, log, task>>
  BY DEF vars
<1>. QED  BY <1>1, <1>2, <1>3, <1>4, <1>5, <1>6 DEF Next

LEMMA VersionsUnchanged ==
    ASSUME VersionInv, UNCHANGED <<clock, client>>, AllLogged' = AllLogged,
           db'[Origin] = db[Origin]
    PROVE  VersionInv'
BY DEF VersionInv, VersionsBehindClock, OriginHoldsLatest, HandlerIsLater, Upserts,
       Versioned, Stamped, VersionsFollowRecords

\* A handler that ends or has not begun asks for nothing.
LEMMA NextVersionInv ==
    ASSUME OneWriter, WriterInv, VersionInv, [Next]_vars, Handlers = {}
    PROVE  VersionInv'
<1>1. /\ TypeOK /\ Origin \in Brokers /\ \A c, d \in Clients : c = d
      /\ clock \in Nat /\ clock' \in Nat /\ clock <= clock'
  BY OriginHasAll, OriginIsOne, ClockAdvances DEF OneWriter, TypeOK
<1>2. ASSUME NEW c \in Clients, ClientStep(c), ~InsertLocal(c)
      PROVE  AllLogged' = AllLogged
  BY <1>1, <1>2, NewEntriesAreLast
<1>3. ASSUME NEW c \in Clients, NEW b \in Brokers, NEW e \in Entities, NEW op \in Ops,
             BeginWrite(c, b, op, e)
      PROVE  VersionInv'
  <2>1. AllLogged' = AllLogged /\ UNCHANGED db /\ b = Origin
    <3>1. ClientStep(c)
      BY <1>3 DEF ClientStep
    <3>2. ~InsertLocal(c)
      BY <1>3 DEF BeginWrite, InsertLocal, IdleClient
    <3>. QED  BY <1>2, <1>3, <3>1, <3>2, OriginIsOne DEF BeginWrite
  <2>2. PICK t \in Readings :
           /\ clock' = IF op = "delete" THEN clock ELSE t
           /\ client' = [client EXCEPT ![c] =
                 [pc |-> "write", at |-> b, op |-> op, ent |-> e, id |-> writes + 1,
                  ver |-> IF op = "delete" THEN db[b][e].ver ELSE t, rec |-> 0]]
    BY <1>3 DEF BeginWrite
  <2>3. t \in Nat /\ clock < t
    BY <1>1, ReadingsAdvance DEF OneWriter
  <2>4. /\ client'[c].pc = "write" /\ client'[c].ent = e
        /\ client'[c].ver = IF op = "delete" THEN db[Origin][e].ver ELSE t
    BY <2>1, <2>2, OriginTypes
  <2>5. op = "delete" => db[Origin][e] # NoDoc
    BY <1>3, <2>1 DEF BeginWrite
  <2>6. \A m \in Upserts(e) : m.ver <= client'[c].ver
    BY <1>1, <2>3, <2>4, <2>5, OriginTypes
       DEF VersionInv, VersionsBehindClock, OriginHoldsLatest, Upserts
  <2>7. client'[c].ver <= clock'
    BY <1>1, <2>2, <2>3, <2>4, <2>5, OriginTypes DEF VersionInv, VersionsBehindClock
  <2>8. VersionsBehindClock'
    BY <1>1, <2>1, <2>7, OriginTypes DEF VersionInv, VersionsBehindClock
  <2>. QED  BY <1>1, <2>1, <2>4, <2>6, <2>8
            DEF VersionInv, OriginHoldsLatest, HandlerIsLater, Upserts, VersionsFollowRecords
<1>4. ASSUME NEW c \in Clients, NEW b \in Brokers, NEW e \in Entities, BatchDelete(c, b, e)
      PROVE  VersionInv'
  <2>1. AllLogged' = AllLogged /\ UNCHANGED clock /\ b = Origin
    <3>1. ClientStep(c)
      BY <1>4 DEF ClientStep
    <3>2. ~InsertLocal(c)
      BY <1>4 DEF BatchDelete, InsertLocal, IdleClient
    <3>. QED  BY <1>2, <1>4, <3>1, <3>2, OriginIsOne DEF BatchDelete
  <2>2. client'[c].pc = "written" /\ client'[c].op = "batchDelete" /\ client'[c].ver = 0
    BY <1>4, OriginTypes DEF BatchDelete
  <2>3. \A d \in Entities : db'[Origin][d] = IF d = e THEN NoDoc ELSE db[Origin][d]
    BY <1>1, <1>4, <2>1, OriginTypes DEF BatchDelete
  <2>4. VersionsBehindClock'
    BY <1>1, <2>1, <2>2, <2>3, OriginTypes DEF VersionInv, VersionsBehindClock
  <2>5. OriginHoldsLatest'
    BY <2>1, <2>3 DEF VersionInv, OriginHoldsLatest, Upserts
  <2>6. HandlerIsLater'
    BY <1>1, <2>2 DEF HandlerIsLater, Versioned, Stamped
  <2>. QED  BY <2>1, <2>4, <2>5, <2>6 DEF VersionInv, VersionsFollowRecords
<1>5. ASSUME NEW c \in Clients, WriteStore(c) PROVE VersionInv'
  <2>1. AllLogged' = AllLogged /\ UNCHANGED clock
    <3>1. ClientStep(c) /\ ~InsertLocal(c)
      BY <1>5 DEF ClientStep, WriteStore, InsertLocal
    <3>. QED  BY <1>2, <1>5, <3>1 DEF WriteStore
  <2>2. client[c] \in BusyClient /\ client[c].at = Origin /\ client[c].ent \in Entities
        /\ client[c].ver \in Nat /\ client[c].pc = "write"
    BY <1>5, OriginTypes DEF WriteStore
  <2>. DEFINE e == client[c].ent
              doc == Result(ClientMutation(c))
  <2>3. CASE UNCHANGED db /\ client' = [client EXCEPT ![c] = IdleClient]
    <3>1. \A d \in Clients : client'[d].pc = "idle"
      BY <1>1, <2>3, OriginTypes DEF IdleClient
    <3>2. UNCHANGED db
      BY <2>3
    <3>. QED  BY <2>1, <3>1, <3>2
              DEF VersionInv, VersionsBehindClock, OriginHoldsLatest, HandlerIsLater, Upserts,
                  Versioned, VersionsFollowRecords
  <2>4. CASE /\ db' = [db EXCEPT ![Origin][e] = doc]
             /\ client' = [client EXCEPT ![c].pc = "written"]
    <3>1. /\ client'[c].pc = "written" /\ client'[c].op = client[c].op
          /\ client'[c].ent = e /\ client'[c].ver = client[c].ver
      BY <2>2, <2>4, OriginTypes DEF BusyClient
    <3>2. \A d \in Entities : db'[Origin][d] = IF d = e THEN doc ELSE db[Origin][d]
      BY <1>1, <2>2, <2>4, OriginTypes
    <3>3. doc = NoDoc \/ (doc.ver = client[c].ver /\ client[c].op \in {"create", "update"})
      BY <2>2 DEF Result, ClientMutation
    <3>4. client[c].op \in {"create", "update"} => doc.ver = client[c].ver
      BY <2>2 DEF Result, ClientMutation
    <3>5. doc # NoDoc => \A m \in Upserts(e) : m.ver <= client[c].ver
      BY <2>2, <3>3 DEF VersionInv, HandlerIsLater, Versioned
    <3>6. client[c].ver <= clock
      BY <2>2 DEF VersionInv, VersionsBehindClock
    <3>. HIDE DEF doc, e
    <3>7. VersionsBehindClock'
      BY <1>1, <2>1, <2>2, <3>1, <3>2, <3>3, <3>6 DEF VersionInv, VersionsBehindClock
    <3>8. OriginHoldsLatest'
      BY <2>1, <3>2, <3>3, <3>5 DEF VersionInv, OriginHoldsLatest, Upserts
    <3>9. HandlerIsLater'
      <4>1. Versioned(c)' => Versioned(c)
        BY <2>2, <3>1 DEF Versioned, Stamped
      <4>2. Versioned(c)' => \A m \in Upserts(e) : m.ver <= client[c].ver
        BY <4>1 DEF VersionInv, HandlerIsLater, e
      <4>3. client[c].op \in {"create", "update"} => client[c].ver <= db'[Origin][e].ver
        BY <2>2, <3>2, <3>4 DEF e
      <4>. QED  BY <1>1, <2>1, <3>1, <4>2, <4>3 DEF HandlerIsLater, Upserts
    <3>. QED  BY <2>1, <3>7, <3>8, <3>9 DEF VersionInv, VersionsFollowRecords
  <2>. QED  BY <1>5, <2>2, <2>3, <2>4 DEF WriteStore
<1>6. ASSUME NEW c \in Clients, Stamp(c) PROVE VersionInv'
  <2>1. AllLogged' = AllLogged /\ UNCHANGED db
    <3>1. ClientStep(c) /\ ~InsertLocal(c)
      BY <1>6 DEF ClientStep, Stamp, InsertLocal
    <3>. QED  BY <1>2, <1>6, <3>1 DEF Stamp
  <2>2. client[c] \in BusyClient /\ client[c].ent \in Entities /\ client[c].ver \in Nat
        /\ client[c].pc = "written"
    BY <1>6, OriginTypes DEF Stamp
  <2>3. PICK t \in Readings :
           /\ clock' = t
           /\ client' = [client EXCEPT
                 ![c].pc = "stamped", ![c].rec = t,
                 ![c].ver = IF client[c].op = "batchDelete" THEN t ELSE @]
    BY <1>6 DEF Stamp
  <2>4. t \in Nat /\ clock < t
    BY <1>1, ReadingsAdvance DEF OneWriter
  <2>5. /\ client'[c].pc = "stamped" /\ client'[c].op = client[c].op
        /\ client'[c].ent = client[c].ent
        /\ client'[c].ver = IF client[c].op = "batchDelete" THEN t ELSE client[c].ver
    BY <2>2, <2>3, OriginTypes DEF BusyClient
  <2>6. \A m \in Upserts(client[c].ent) : m.ver <= client'[c].ver
    <3>1. CASE client[c].op = "batchDelete"
      BY <1>1, <2>4, <2>5, <3>1, OriginTypes DEF VersionInv, VersionsBehindClock, Upserts
    <3>2. CASE client[c].op # "batchDelete"
      BY <2>2, <2>5, <3>2 DEF VersionInv, HandlerIsLater, Versioned
    <3>. QED  BY <3>1, <3>2
  <2>7. VersionsBehindClock'
    <3>1. client'[c].ver <= clock'
      BY <1>1, <2>2, <2>3, <2>4, <2>5, OriginTypes DEF VersionInv, VersionsBehindClock
    <3>. QED  BY <1>1, <2>1, <3>1, OriginTypes DEF VersionInv, VersionsBehindClock
  <2>8. HandlerIsLater'
    <3>1. /\ client[c].op \in {"create", "update"}
          /\ db[Origin][client[c].ent] # NoDoc
          => client'[c].ver <= db[Origin][client[c].ent].ver
      BY <2>2, <2>5 DEF VersionInv, HandlerIsLater
    <3>. QED  BY <1>1, <2>1, <2>5, <2>6, <3>1 DEF HandlerIsLater, Upserts
  <2>. QED  BY <2>1, <2>7, <2>8 DEF VersionInv, OriginHoldsLatest, Upserts, VersionsFollowRecords
<1>7. ASSUME NEW c \in Clients, InsertLocal(c) PROVE VersionInv'
  <2>. DEFINE n == ClientMutation(c)
  <2>1. AllLogged' = AllLogged \cup {n} /\ UNCHANGED <<clock, db>>
    <3>1. client[c].pc = "stamped" /\ n \notin AllLogged
      <4>1. client[c] \in BusyClient /\ Stamped(c)
        BY <1>1, <1>7, BusyTypes DEF InsertLocal, Stamped
      <4>2. n.rec = client[c].rec
        BY <4>1, ClientMutationType
      <4>. QED  BY <1>1, <4>1, <4>2 DEF Stamped, WriterInv, CursorInv, StampsUnique
    <3>2. \A d \in Clients : d = c
      BY <1>1
    <3>3. log \in [Brokers -> SUBSET Mutation] /\ client[c].at = Origin
      BY <1>1, <3>1, OriginTypes DEF TypeOK
    <3>4. n \in log'[Origin]
      BY <1>1, <1>7, <3>3 DEF InsertLocal
    <3>5. AllLogged' # AllLogged
      BY <1>1, <3>1, <3>4 DEF AllLogged
    <3>6. \E d \in Clients : AllLogged' = AllLogged \cup {ClientMutation(d)}
      BY <3>5, NewEntriesAreLast
    <3>. QED  BY <1>7, <3>2, <3>6 DEF InsertLocal
  <2>2. client[c] \in BusyClient /\ client[c].ent \in Entities /\ client[c].ver \in Nat
        /\ client[c].pc = "stamped" /\ Stamped(c)
    BY <1>7, OriginTypes DEF InsertLocal, Stamped
  <2>3. /\ n.ent = client[c].ent /\ n.ver = client[c].ver /\ n.rec = client[c].rec
        /\ n.op = "upsert" => client[c].op \in {"create", "update"}
    BY <2>2 DEF ClientMutation, BusyClient
  <2>4. client'[c].pc = "logged" /\ client'[c].ver = client[c].ver
    BY <1>7, <2>2, OriginTypes DEF InsertLocal, BusyClient
  <2>5. \A m \in AllLogged : m.ent = n.ent /\ m.op = "upsert" => m.ver <= n.ver
    BY <2>2, <2>3 DEF VersionInv, HandlerIsLater, Versioned, Upserts
  <2>6. n.op = "upsert" /\ db[Origin][n.ent] # NoDoc => n.ver <= db[Origin][n.ent].ver
    BY <2>2, <2>3 DEF VersionInv, HandlerIsLater
  <2>7. \A m \in AllLogged : m.rec < n.rec /\ m.rec \in Nat
    BY <2>2, <2>3, OriginTypes DEF WriterInv, StampsAreLast
  <2>8. n.rec \in Nat /\ n.ver <= clock
    BY <2>2, <2>3 DEF VersionInv, VersionsBehindClock, BusyClient
  <2>. HIDE DEF n
  <2>9. VersionsBehindClock'
    BY <1>1, <2>1, <2>3, <2>4, <2>8 DEF VersionInv, VersionsBehindClock
  <2>10. OriginHoldsLatest'
    BY <2>1, <2>6 DEF VersionInv, OriginHoldsLatest, Upserts
  <2>11. HandlerIsLater'
    BY <1>1, <2>4 DEF HandlerIsLater, Versioned
  <2>12. VersionsFollowRecords'
    <3>1. n.ver <= n.ver
      BY <2>2, <2>3
    <3>. QED  BY <2>1, <2>5, <2>7, <2>8, <3>1 DEF VersionInv, VersionsFollowRecords
  <2>. QED  BY <2>9, <2>10, <2>11, <2>12 DEF VersionInv
<1>8. ASSUME NEW c \in Clients, Publish(c) \/ FailClient(c) PROVE VersionInv'
  <2>1. AllLogged' = AllLogged /\ UNCHANGED <<clock, db>>
    <3>1. ClientStep(c) /\ UNCHANGED <<clock, db, log>>
      BY <1>8 DEF ClientStep, Publish, FailClient
    <3>. QED  BY <3>1 DEF AllLogged
  <2>2. \A d \in Clients : client'[d].pc = "idle"
    BY <1>1, <1>8, OriginTypes DEF Publish, FailClient, IdleClient
  <2>. QED  BY <2>1, <2>2
            DEF VersionInv, VersionsBehindClock, OriginHoldsLatest, HandlerIsLater, Upserts,
                Versioned, VersionsFollowRecords
<1>9. ASSUME NEW c \in Clients, ClientStep(c) PROVE VersionInv'
  BY <1>3, <1>4, <1>5, <1>6, <1>7, <1>8, <1>9 DEF ClientStep
<1>. QED  BY <1>1, <1>9, WhoSteps, VersionsUnchanged

-----------------------------------------------------------------------------
(* Documents of the followers. *)

Explains(k, b, e) == k.ent = e /\ db[b][e] = Result(k)

\* A follower holds what some entry made of an entity, no earlier than those it logged.
DocumentsExplained ==
    \A b \in Brokers \ {Origin}, e \in Entities :
        \/ db[b][e] = NoDoc /\ \A m \in log[b] : m.ent # e
        \/ \E k \in AllLogged :
              Explains(k, b, e) /\ \A m \in log[b] : m.ent = e => m.rec <= k.rec

\* A mutation in hand is new, and once applied or passed over it is explained too.
AppliesAreNew ==
    \A b \in Brokers : task[b].pc \in {"get", "write", "log"} =>
        /\ task[b].mut \notin log[b]
        /\ task[b].pc = "log" =>
              \E k \in AllLogged :
                 Explains(k, b, task[b].mut.ent) /\ task[b].mut.rec <= k.rec

DocumentInv ==
    /\ UnseenInv
    /\ VersionInv
    /\ DocumentsExplained
    /\ AppliesAreNew

LEMMA InitDocumentInv == ASSUME OneWriter, Init PROVE DocumentInv
<1>1. UnseenInv /\ VersionInv
  BY InitUnseenInv, InitVersionInv
<1>2. DocumentsExplained
  BY DEF Init, DocumentsExplained
<1>3. AppliesAreNew
  BY WorkerSets DEF Init, AppliesAreNew, IdleTask
<1>. QED  BY <1>1, <1>2, <1>3 DEF DocumentInv

\* What explains a follower goes on to where nothing of it changes.
LEMMA ExplanationsStay ==
    ASSUME OneWriter, DocumentInv, [Next]_vars, NEW b \in Brokers, b # Origin,
           db'[b] = db[b], log'[b] = log[b]
    PROVE  /\ \A e \in Entities :
                 \/ db'[b][e] = NoDoc /\ \A m \in log'[b] : m.ent # e
                 \/ \E k \in AllLogged' :
                       /\ k.ent = e /\ db'[b][e] = Result(k)
                       /\ \A m \in log'[b] : m.ent = e => m.rec <= k.rec
           /\ task'[b] = task[b] /\ task[b].pc \in {"get", "write", "log"} =>
                 /\ task'[b].mut \notin log'[b]
                 /\ task'[b].pc = "log" =>
                       \E k \in AllLogged' :
                          /\ k.ent = task'[b].mut.ent /\ db'[b][k.ent] = Result(k)
                          /\ task'[b].mut.rec <= k.rec
<1>1. AllLogged \subseteq AllLogged'
  BY NewEntriesAreLast DEF DocumentInv, UnseenInv
<1>. QED  BY <1>1 DEF DocumentInv, DocumentsExplained, AppliesAreNew, Explains

\* A follower that passes a mutation over holds the result of a later one.
LEMMA PassedOverIsExplained ==
    ASSUME OneWriter, DocumentInv, NEW b \in Brokers, b # Origin,
           task[b].pc = "get", ~Newer(task[b].mut, db[b][task[b].mut.ent])
    PROVE  \E k \in AllLogged :
              Explains(k, b, task[b].mut.ent) /\ task[b].mut.rec <= k.rec
<1>. DEFINE m == task[b].mut
            e == m.ent
<1>1. WriterInv
  BY DEF DocumentInv, UnseenInv
<1>2. m \in AllLogged /\ e \in Entities
  BY <1>1, PullsHoldEntries, OriginTypes
<1>3. db[b][e] # NoDoc /\ ~(m.ver >= db[b][e].ver)
  BY DEF Newer
<1>4. PICK k \in AllLogged : Explains(k, b, e)
  BY <1>2, <1>3 DEF DocumentInv, DocumentsExplained
<1>5. k.op = "upsert" /\ db[b][e].ver = k.ver
  BY <1>3, <1>4 DEF Explains, Result
<1>6. ~(k.rec <= m.rec)
  BY <1>1, <1>2, <1>3, <1>4, <1>5, OriginTypes
     DEF DocumentInv, VersionInv, VersionsFollowRecords, Explains
<1>7. m.rec <= k.rec
  BY <1>1, <1>2, <1>6, OriginTypes
<1>. QED  BY <1>4, <1>7

\* A follower's own step.
LEMMA FollowerStep ==
    ASSUME OneWriter, DocumentInv, [Next]_vars, Handlers = {}, NEW b \in Brokers, b # Origin,
           Progress(b) \/ FailTask(b) \/ \E p \in Brokers : StartPull(b, p),
           AllLogged' = AllLogged
    PROVE  /\ \A e \in Entities :
                 \/ db'[b][e] = NoDoc /\ \A m \in log'[b] : m.ent # e
                 \/ \E k \in AllLogged :
                       /\ k.ent = e /\ db'[b][e] = Result(k)
                       /\ \A m \in log'[b] : m.ent = e => m.rec <= k.rec
           /\ task'[b].pc \in {"get", "write", "log"} =>
                 /\ task'[b].mut \notin log'[b]
                 /\ task'[b].pc = "log" =>
                       \E k \in AllLogged :
                          /\ k.ent = task'[b].mut.ent /\ db'[b][k.ent] = Result(k)
                          /\ task'[b].mut.rec <= k.rec
<1>1. /\ WriterInv /\ TypeOK /\ b \in Workers
      /\ task \in [Workers -> {IdleTask} \cup BusyTask]
      /\ log \in [Brokers -> SUBSET Mutation]
      /\ db \in [Brokers -> [Entities -> Doc \cup {NoDoc}]]
  BY OriginHasAll, WorkerSets DEF DocumentInv, UnseenInv, TypeOK
<1>2. task[b].pc # "idle" =>
         /\ task[b] \in BusyTask /\ task[b].at = b
         /\ task[b].pc # "dedupe" => task[b].mut \in AllLogged /\ task[b].mut.ent \in Entities
  BY <1>1, PullsHoldEntries, OriginTypes
<1>3. CASE db'[b] = db[b] /\ log'[b] = log[b] /\ task'[b].pc \notin {"get", "write", "log"}
  BY <1>3, <1>1, ExplanationsStay
<1>4. CASE \E p \in Brokers : StartPull(b, p)
  <2>1. db'[b] = db[b] /\ log'[b] = log[b] /\ task'[b].pc = "dedupe"
    BY <1>1, <1>4 DEF StartPull
  <2>. QED  BY <1>3, <2>1
<1>5. CASE FailTask(b) \/ Finish(b)
  <2>1. db'[b] = db[b] /\ log'[b] = log[b] /\ task'[b].pc = "idle"
    BY <1>1, <1>5 DEF FailTask, Finish, IdleTask
  <2>. QED  BY <1>3, <2>1
<1>6. CASE Dedupe(b)
  <2>1. task[b] \in BusyTask /\ task[b].at = b /\ task[b].pc = "dedupe"
    BY <1>2, <1>6 DEF Dedupe
  <2>2. PICK m \in task[b].page :
           LET next == [task[b] EXCEPT !.page = @ \ {m}, !.cur = Larger(@, m.rec)]
           IN  task' = [task EXCEPT ![b] =
                  IF Seen(next.at, m) THEN next
                  ELSE [next EXCEPT !.pc = "get", !.mut = m]]
    BY <1>6 DEF Dedupe
  <2>3. db'[b] = db[b] /\ log'[b] = log[b]
    BY <1>6 DEF Dedupe
  <2>4. \/ task'[b].pc = "dedupe"
        \/ task'[b].pc = "get" /\ task'[b].mut = m /\ m \notin log[b]
    BY <1>1, <2>1, <2>2 DEF BusyTask, Seen
  <2>. QED  BY <2>3, <2>4, ExplanationsStay
<1>7. CASE GetExisting(b)
  <2>1. task[b] \in BusyTask /\ task[b].at = b /\ task[b].pc = "get"
    BY <1>2, <1>7 DEF GetExisting
  <2>2. db'[b] = db[b] /\ log'[b] = log[b]
    BY <1>7 DEF GetExisting
  <2>3. /\ task'[b].mut = task[b].mut
        /\ \/ task'[b].pc = "write"
           \/ task'[b].pc = "log" /\ ~Newer(task[b].mut, db[b][task[b].mut.ent])
    BY <1>1, <1>7, <2>1 DEF GetExisting, BusyTask
  <2>4. task[b].mut \notin log[b]
    BY <2>1 DEF DocumentInv, AppliesAreNew
  <2>5. task'[b].pc = "log" =>
           \E k \in AllLogged : Explains(k, b, task[b].mut.ent) /\ task[b].mut.rec <= k.rec
    BY <2>1, <2>3, PassedOverIsExplained
  <2>. QED  BY <2>2, <2>3, <2>4, <2>5, ExplanationsStay DEF Explains
<1>8. CASE Apply(b)
  <2>1. task[b] \in BusyTask /\ task[b].at = b /\ task[b].pc = "write"
        /\ task[b].mut \in AllLogged /\ task[b].mut.ent \in Entities
    BY <1>2, <1>8 DEF Apply
  <2>. DEFINE m == task[b].mut
  <2>2. /\ task'[b].mut = m /\ task'[b].pc = "log" /\ log'[b] = log[b]
        /\ \A e \in Entities : db'[b][e] = IF e = m.ent THEN Result(m) ELSE db[b][e]
    BY <1>1, <1>8, <2>1 DEF Apply, BusyTask
  <2>3. m \notin log[b] /\ m.rec \in Nat
    BY <1>1, <2>1, OriginTypes DEF DocumentInv, AppliesAreNew
  <2>4. \A k \in log[b] : k.rec <= m.rec
    <3>. SUFFICES ASSUME NEW k \in log[b], ~(k.rec <= m.rec) PROVE FALSE
      OBVIOUS
    <3>1. k \in AllLogged /\ k.rec \in Nat /\ m.rec < k.rec /\ k.src = Origin
      BY <1>1, <2>3, OriginHasAll, OriginTypes DEF WriterInv, WritesAtOrigin
    <3>2. m \in log[k.src]
      BY <1>1, <2>1, <3>1, OriginHasAll
    <3>. QED  BY <2>3, <3>1, <3>2 DEF DocumentInv, UnseenInv, FollowerLogIsPrefix
  <2>. HIDE DEF m
  <2>5. ASSUME NEW e \in Entities
        PROVE  \/ db'[b][e] = NoDoc /\ \A k \in log'[b] : k.ent # e
               \/ \E k \in AllLogged :
                     /\ k.ent = e /\ db'[b][e] = Result(k)
                     /\ \A l \in log'[b] : l.ent = e => l.rec <= k.rec
    <3>1. CASE e = m.ent
      BY <2>1, <2>2, <2>4, <3>1 DEF m
    <3>2. CASE e # m.ent
      BY <2>2, <3>2 DEF DocumentInv, DocumentsExplained, Explains
    <3>. QED  BY <3>1, <3>2
  <2>6. m \in AllLogged /\ m.ent \in Entities /\ db'[b][m.ent] = Result(m) /\ m.rec <= m.rec
    BY <2>1, <2>2, <2>3 DEF m
  <2>. QED  BY <2>2, <2>3, <2>5, <2>6
<1>9. CASE InsertRemote(b)
  <2>1. task[b] \in BusyTask /\ task[b].at = b /\ task[b].pc = "log"
        /\ task[b].mut \in AllLogged /\ task[b].mut.ent \in Entities
    BY <1>2, <1>9 DEF InsertRemote
  <2>. DEFINE m == task[b].mut
  <2>2. m \notin log[b]
    BY <2>1 DEF DocumentInv, AppliesAreNew
  <2>3. /\ task'[b].pc = "dedupe" /\ db'[b] = db[b]
        /\ log'[b] = log[b] \cup {m}
    BY <1>1, <1>9, <2>1, <2>2 DEF InsertRemote, BusyTask
  <2>4. \A k \in log[b] : k.rec <= m.rec
    <3>. SUFFICES ASSUME NEW k \in log[b], ~(k.rec <= m.rec) PROVE FALSE
      OBVIOUS
    <3>1. k \in AllLogged /\ k.rec \in Nat /\ m.rec \in Nat /\ m.rec < k.rec /\ k.src = Origin
      BY <1>1, <2>1, OriginHasAll, OriginTypes DEF WriterInv, WritesAtOrigin
    <3>2. m \in log[k.src]
      BY <1>1, <2>1, <3>1, OriginHasAll
    <3>. QED  BY <2>2, <3>1, <3>2 DEF DocumentInv, UnseenInv, FollowerLogIsPrefix
  <2>5. PICK x \in AllLogged : Explains(x, b, m.ent) /\ m.rec <= x.rec
    BY <2>1 DEF DocumentInv, AppliesAreNew
  <2>6. \A k \in log'[b] : k.rec <= x.rec
    <3>1. m.rec \in Nat /\ x.rec \in Nat /\ \A k \in log[b] : k.rec \in Nat
      BY <1>1, <2>1, OriginHasAll, OriginTypes
    <3>. QED  BY <2>3, <2>4, <2>5, <3>1
  <2>. HIDE DEF m
  <2>7. ASSUME NEW e \in Entities
        PROVE  \/ db'[b][e] = NoDoc /\ \A k \in log'[b] : k.ent # e
               \/ \E k \in AllLogged :
                     /\ k.ent = e /\ db'[b][e] = Result(k)
                     /\ \A l \in log'[b] : l.ent = e => l.rec <= k.rec
    <3>1. CASE e = m.ent
      BY <2>3, <2>5, <2>6, <3>1 DEF Explains
    <3>2. CASE e # m.ent
      BY <2>3, <3>2 DEF DocumentInv, DocumentsExplained, Explains
    <3>. QED  BY <3>1, <3>2
  <2>. QED  BY <2>3, <2>7
<1>. QED  BY <1>4, <1>5, <1>6, <1>7, <1>8, <1>9 DEF Progress

\* The handler's step changes nothing at the followers.
LEMMA HandlerLeavesFollowers ==
    ASSUME OneWriter, WriterInv, NEW c \in Clients, ClientStep(c), [Next]_vars
    PROVE  /\ UNCHANGED task
           /\ \A b \in Brokers : b # Origin => db'[b] = db[b] /\ log'[b] = log[b]
<1>1. log \in [Brokers -> SUBSET Mutation]
  BY OriginHasAll DEF TypeOK
<1>2. UNCHANGED task
  BY DEF ClientStep, BeginWrite, WriteStore, BatchDelete, Stamp, InsertLocal, Publish, FailClient
<1>3. CASE WriteStore(c) \/ InsertLocal(c)
  <2>1. client[c].at = Origin /\ client[c].ent \in Entities
    BY <1>3, OriginTypes DEF WriteStore, InsertLocal
  <2>. QED  BY <1>1, <1>2, <1>3, <2>1, OriginTypes DEF WriteStore, InsertLocal
<1>4. CASE \E b \in Brokers, e \in Entities : BatchDelete(c, b, e)
  BY <1>1, <1>2, <1>4, OriginTypes, OriginIsOne DEF BatchDelete
<1>5. CASE Stamp(c) \/ Publish(c) \/ FailClient(c)
           \/ \E b \in Brokers, e \in Entities, op \in Ops : BeginWrite(c, b, op, e)
  BY <1>2, <1>5 DEF Stamp, Publish, FailClient, BeginWrite
<1>. QED  BY <1>3, <1>4, <1>5 DEF ClientStep

LEMMA NextDocumentInv ==
    ASSUME OneWriter, DocumentInv, [Next]_vars, Handlers = {}
    PROVE  DocumentInv'
<1>1. WriterInv
  BY DEF DocumentInv, UnseenInv
<1>2. UnseenInv' /\ VersionInv'
  BY <1>1, NextUnseenInv, NextVersionInv DEF DocumentInv, RelaysInOrder
<1>3. \A b \in Brokers : task'[b].pc \in {"get", "write", "log"} => b # Origin
  <2>1. WriterInv'
    BY <1>2 DEF UnseenInv
  <2>2. \A b \in Brokers : task'[b].pc \in {"get", "write", "log"} =>
           task'[b] \in BusyTask /\ task'[b].at = b /\ AtOrigin(task'[b].mut, log')
             /\ task'[b].mut.src # task'[b].at
    <3>1. \A w \in Workers : task'[w] \in {IdleTask} \cup BusyTask
      BY <2>1 DEF WriterInv, CursorInv, OriginInv, TypeOK
    <3>2. \A w \in Workers : task'[w].pc # "idle" => SoundTask(w, task'[w], log')
      BY <2>1 DEF WriterInv, CursorInv, OriginInv, TasksAtOrigin
    <3>. QED  BY <3>1, <3>2, WorkerSets DEF SoundTask, IdleTask
  <2>. SUFFICES ASSUME NEW b \in Brokers, task'[b].pc \in {"get", "write", "log"}
                PROVE  b # Origin
    OBVIOUS
  <2>3. task'[b].mut.src \in Brokers
    BY <2>2 DEF BusyTask, Mutation
  <2>4. task'[b].mut \in AllLogged'
    BY <2>2, <2>3 DEF AtOrigin, AllLogged
  <2>. QED  BY <2>1, <2>2, <2>4 DEF WriterInv, WritesAtOrigin
<1>4. ASSUME NEW b \in Brokers, b # Origin
      PROVE  /\ \A e \in Entities :
                   \/ db'[b][e] = NoDoc /\ \A m \in log'[b] : m.ent # e
                   \/ \E k \in AllLogged' :
                         /\ k.ent = e /\ db'[b][e] = Result(k)
                         /\ \A m \in log'[b] : m.ent = e => m.rec <= k.rec
             /\ task'[b].pc \in {"get", "write", "log"} =>
                   /\ task'[b].mut \notin log'[b]
                   /\ task'[b].pc = "log" =>
                         \E k \in AllLogged' :
                            /\ k.ent = task'[b].mut.ent /\ db'[b][k.ent] = Result(k)
                            /\ task'[b].mut.rec <= k.rec
  <2>1. CASE db'[b] = db[b] /\ log'[b] = log[b] /\ task'[b] = task[b]
    BY <1>4, <2>1, ExplanationsStay
  <2>2. CASE /\ Progress(b) \/ FailTask(b) \/ \E p \in Brokers : StartPull(b, p)
             /\ AllLogged' = AllLogged
    BY <1>4, <2>2, FollowerStep
  <2>3. CASE \E c \in Clients : ClientStep(c)
    <3>1. db'[b] = db[b] /\ log'[b] = log[b] /\ task'[b] = task[b]
      BY <1>1, <1>4, <2>3, HandlerLeavesFollowers
    <3>. QED  BY <2>1, <3>1
  <2>. QED  BY <1>1, <1>4, <2>1, <2>2, <2>3, WhoSteps
<1>5. DocumentsExplained'
  BY <1>4 DEF DocumentsExplained, Explains
<1>6. AppliesAreNew'
  BY <1>3, <1>4 DEF AppliesAreNew, Explains
<1>. QED  BY <1>2, <1>5, <1>6 DEF DocumentInv

\* Without pushes no follower's document is behind its log, though the version check and
\* the write of an apply are two calls and a round may end between them.
THEOREM DocumentsKeepUpWithLogs ==
    ASSUME OneWriter, Handlers = {}
    PROVE  Spec => []FollowerNeverBehindLog
<1>1. Init => DocumentInv
  BY InitDocumentInv
<1>2. DocumentInv /\ [Next]_vars => DocumentInv'
  BY NextDocumentInv
<1>3. DocumentInv => FollowerNeverBehindLog
  <2>. SUFFICES ASSUME DocumentInv, NEW b \in Brokers \ Origins, NEW m \in log[b]
                PROVE  \E k \in AllLogged :
                          k.ent = m.ent /\ k.rec >= m.rec /\ db[b][m.ent] = Result(k)
    BY DEF FollowerNeverBehindLog
  <2>1. WriterInv /\ b # Origin
    BY OriginIsOne DEF DocumentInv, UnseenInv
  <2>2. m \in AllLogged /\ m.ent \in Entities
    BY <2>1, OriginHasAll, OriginTypes
  <2>3. PICK k \in AllLogged : Explains(k, b, m.ent) /\ m.rec <= k.rec
    BY <2>1, <2>2 DEF DocumentInv, DocumentsExplained
  <2>4. k.rec >= m.rec
    BY <2>1, <2>2, <2>3, OriginTypes
  <2>. QED  BY <2>3, <2>4 DEF Explains
<1>. QED  BY <1>1, <1>2, <1>3, PTL DEF Spec

-----------------------------------------------------------------------------
(* Deleted entities. *)

\* A creation or update is later than everything logged when it began.
UpsertsAreLater ==
    /\ \A k, m \in AllLogged : m.op = "upsert" /\ k.rec < m.rec => k.ver < m.ver
    /\ \A c \in Clients :
          /\ client[c].pc \in {"write", "written", "stamped"}
          /\ client[c].op \in {"create", "update"}
          => \A k \in AllLogged : k.ver < client[c].ver

LEMMA NextUpsertsAreLater ==
    ASSUME OneWriter, WriterInv, VersionInv, UpsertsAreLater, [Next]_vars, Handlers = {}
    PROVE  UpsertsAreLater'
<1>1. TypeOK /\ (\A c, d \in Clients : c = d) /\ clock \in Nat
  BY OriginHasAll DEF OneWriter, TypeOK
<1>2. \A c, d \in Clients : c = d
  BY <1>1
<1>3. ASSUME AllLogged' = AllLogged,
             \A c \in Clients :
                client'[c].pc \in {"write", "written", "stamped"}
                  /\ client'[c].op \in {"create", "update"} =>
                     \A k \in AllLogged : k.ver < client'[c].ver
      PROVE  UpsertsAreLater'
  BY <1>3 DEF UpsertsAreLater
<1>4. UNCHANGED client /\ AllLogged' = AllLogged => UpsertsAreLater'
  BY DEF UpsertsAreLater
<1>5. ASSUME NEW c \in Clients, InsertLocal(c) PROVE UpsertsAreLater'
  <2>. DEFINE n == ClientMutation(c)
  <2>1. client[c] \in BusyClient /\ client[c].pc = "stamped" /\ Stamped(c)
    BY <1>1, <1>5, BusyTypes DEF InsertLocal, Stamped
  <2>2. n.rec = client[c].rec /\ n.ver = client[c].ver /\ n.rec \in Nat
        /\ (n.op = "upsert" => client[c].op \in {"create", "update"})
    BY <2>1 DEF ClientMutation, BusyClient
  <2>3. AllLogged' = AllLogged \/ AllLogged' = AllLogged \cup {n}
    BY <1>2, NewEntriesAreLast
  <2>4. \A k \in AllLogged : k.rec < n.rec /\ k.rec \in Nat
    BY <2>1, <2>2, OriginTypes DEF WriterInv, StampsAreLast
  <2>5. n.op = "upsert" => \A k \in AllLogged : k.ver < n.ver
    BY <2>1, <2>2 DEF UpsertsAreLater
  <2>6. \A d \in Clients : client'[d].pc = "logged"
    BY <1>1, <1>2, <1>5, <2>1 DEF InsertLocal, TypeOK, BusyClient
  <2>. HIDE DEF n
  <2>7. \A k, m \in AllLogged' : m.op = "upsert" /\ k.rec < m.rec => k.ver < m.ver
    BY <2>2, <2>3, <2>4, <2>5 DEF UpsertsAreLater
  <2>. QED  BY <2>6, <2>7 DEF UpsertsAreLater
<1>6. ASSUME NEW c \in Clients, ClientStep(c), ~InsertLocal(c)
      PROVE  AllLogged' = AllLogged
  BY <1>2, <1>6, NewEntriesAreLast
<1>7. ASSUME NEW c \in Clients, NEW b \in Brokers, NEW e \in Entities, NEW op \in Ops,
             BeginWrite(c, b, op, e)
      PROVE  UpsertsAreLater'
  <2>1. ClientStep(c)
    BY <1>7 DEF ClientStep
  <2>2. ~InsertLocal(c)
    BY <1>7 DEF BeginWrite, InsertLocal, IdleClient
  <2>3. PICK t \in Readings :
           client' = [client EXCEPT ![c] =
                 [pc |-> "write", at |-> b, op |-> op, ent |-> e, id |-> writes + 1,
                  ver |-> IF op = "delete" THEN db[b][e].ver ELSE t, rec |-> 0]]
    BY <1>7 DEF BeginWrite
  <2>4. t \in Nat /\ clock < t
    BY <1>1, ReadingsAdvance DEF OneWriter
  <2>5. client'[c].op = op /\ (op # "delete" => client'[c].ver = t)
    BY <2>3, OriginTypes
  <2>6. op # "delete" => \A k \in AllLogged : k.ver < client'[c].ver
    BY <1>1, <2>4, <2>5, OriginTypes DEF VersionInv, VersionsBehindClock
  <2>. QED  BY <1>2, <1>3, <1>6, <2>1, <2>2, <2>5, <2>6
<1>8. ASSUME NEW c \in Clients, WriteStore(c) \/ Stamp(c) PROVE UpsertsAreLater'
  <2>1. ClientStep(c) /\ ~InsertLocal(c)
    BY <1>8 DEF ClientStep, WriteStore, Stamp, InsertLocal
  <2>2. client[c] \in BusyClient /\ client[c].pc \in {"write", "written"}
    BY <1>1, <1>8, BusyTypes DEF WriteStore, Stamp
  <2>3. \/ client'[c].pc = "idle"
        \/ /\ client'[c].op = client[c].op
           /\ client[c].op # "batchDelete" => client'[c].ver = client[c].ver
    <3>1. CASE WriteStore(c)
      BY <2>2, <3>1, OriginTypes DEF WriteStore, IdleClient, BusyClient
    <3>2. CASE Stamp(c)
      BY <2>2, <3>2, OriginTypes DEF Stamp, BusyClient
    <3>. QED  BY <1>8, <3>1, <3>2
  <2>4. client[c].op \in {"create", "update"} => \A k \in AllLogged : k.ver < client[c].ver
    BY <2>2 DEF UpsertsAreLater
  <2>. QED  BY <1>2, <1>3, <1>6, <2>1, <2>3, <2>4
<1>9. ASSUME NEW c \in Clients, Publish(c) \/ FailClient(c) PROVE UpsertsAreLater'
  <2>1. UNCHANGED log /\ \A d \in Clients : client'[d].pc = "idle"
    BY <1>2, <1>9, OriginTypes DEF Publish, FailClient, IdleClient
  <2>2. AllLogged' = AllLogged
    BY <2>1 DEF AllLogged
  <2>. QED  BY <1>3, <2>1, <2>2
<1>10. ASSUME NEW c \in Clients, NEW b \in Brokers, NEW e \in Entities, BatchDelete(c, b, e)
       PROVE  UpsertsAreLater'
  <2>1. UNCHANGED log /\ \A d \in Clients : client'[d].op = "batchDelete"
    BY <1>2, <1>10, OriginTypes DEF BatchDelete
  <2>2. AllLogged' = AllLogged
    BY <2>1 DEF AllLogged
  <2>. QED  BY <1>3, <2>1, <2>2
<1>11. ASSUME NEW c \in Clients, ClientStep(c) PROVE UpsertsAreLater'
  BY <1>5, <1>7, <1>8, <1>9, <1>10, <1>11 DEF ClientStep
<1>. QED  BY <1>4, <1>11, WhoSteps

\* An apply brings a deleted entity back only where pushes or a second writer change
\* the order: a follower of one writer that only pulls never does.
THEOREM FollowersDoNotResurrect ==
    ASSUME OneWriter, Handlers = {}
    PROVE  Spec => NeverRecreateDeleted
<1>. DEFINE Inv == DocumentInv /\ UpsertsAreLater
            Kept ==
              \A w \in Workers :
                 task[w].pc = "write" /\ task'[w].pc = "log" /\ task[w].mut.op = "upsert" =>
                    \A k \in log[task[w].at] :
                       k.op = "delete" /\ k.ent = task[w].mut.ent => k.ver < task[w].mut.ver
<1>1. Init => Inv
  <2>. SUFFICES ASSUME Init PROVE UpsertsAreLater
    BY InitDocumentInv
  <2>. QED  BY DEF Init, UpsertsAreLater, AllLogged, IdleClient
<1>2. Inv /\ [Next]_vars => Inv'
  <2>1. DocumentInv => WriterInv /\ VersionInv
    BY DEF DocumentInv, UnseenInv
  <2>. QED  BY <2>1, NextDocumentInv, NextUpsertsAreLater
<1>3. Inv => Kept
  <2>. SUFFICES ASSUME DocumentInv, UpsertsAreLater, NEW b \in Workers, task[b].pc = "write",
                       task[b].mut.op = "upsert", NEW k \in log[task[b].at]
                PROVE  k.ver < task[b].mut.ver
    OBVIOUS
  <2>. DEFINE m == task[b].mut
  <2>1. WriterInv /\ b \in Brokers
    BY DEF DocumentInv, UnseenInv, Workers
  <2>2. m \in AllLogged /\ task[b].at = b
    BY <2>1, PullsHoldEntries
  <2>3. m \notin log[b]
    BY <2>1 DEF DocumentInv, AppliesAreNew
  <2>4. k \in AllLogged /\ k.src = Origin /\ m \in log[k.src]
    BY <2>1, <2>2, OriginHasAll DEF WriterInv, WritesAtOrigin
  <2>5. ~(m.rec < k.rec) /\ m # k
    BY <2>1, <2>2, <2>3, <2>4 DEF DocumentInv, UnseenInv, FollowerLogIsPrefix
  <2>6. k.rec < m.rec
    BY <2>1, <2>2, <2>4, <2>5, OriginTypes DEF WriterInv, CursorInv, StampsUnique
  <2>. QED  BY <2>2, <2>4, <2>6 DEF UpsertsAreLater
<1>4. Inv /\ [Next]_vars => [Kept]_vars
  BY <1>3
<1>. QED  BY <1>1, <1>2, <1>4, PTL DEF Spec, NeverRecreateDeleted
=============================================================================
