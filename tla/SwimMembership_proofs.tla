------------------------- MODULE SwimMembership_proofs -------------------------
(* Theorems about SwimMembership, for any number of brokers and handlers. *)
EXTENDS SwimMembership, TLAPS

-----------------------------------------------------------------------------
(* The operators of the merge rule. *)

\* An incarnation that saturates is an incarnation, and not below a smaller number.
LEMMA SaturatedIncarnation ==
    ASSUME NEW n \in Nat
    PROVE  /\ Saturated(n) \in Incarnations
           /\ n <= MaxInc => Saturated(n) = n
BY MembershipAssumption DEF Saturated, Incarnations

\* The incarnation of an announcement exceeds the accusation it answers, unless
\* the accusation has the largest incarnation there is.
LEMMA NextIncarnationAboveAccusation ==
    ASSUME NEW own \in Record \cup {NoPeer},
           NEW accusation \in Incarnations \cup {NoPeer}
    PROVE  /\ NextIncarnation(own, accusation) \in Incarnations
           /\ accusation # NoPeer /\ accusation < MaxInc =>
                 NextIncarnation(own, accusation) > accusation
<1>1. (IF own = NoPeer THEN 1 ELSE Saturated(own.inc + 1)) \in Incarnations
  BY MembershipAssumption DEF Record, Incarnations, Saturated
<1>2. (IF accusation = NoPeer THEN 0 ELSE Saturated(accusation + 1)) \in Incarnations
  BY MembershipAssumption DEF Incarnations, Saturated
<1>3. accusation # NoPeer /\ accusation < MaxInc => Saturated(accusation + 1) > accusation
  BY MembershipAssumption DEF Incarnations, Saturated
<1>. QED  BY <1>1, <1>2, <1>3 DEF NextIncarnation, HigherOf, Incarnations

\* A merge keeps one of the two records.
LEMMA MergeKeepsOne ==
    ASSUME NEW existing, NEW incoming
    PROVE  \/ MergeRecords(existing, incoming) = incoming
           \/ existing # NoPeer /\ MergeRecords(existing, incoming) = existing
BY DEF MergeRecords

\* The stream gains only events that were to be enqueued.
LEMMA EnqueuedEvents ==
    ASSUME NEW events, Enqueue(events)
    PROVE  net \subseteq net' /\ net' \subseteq net \cup events
BY DEF Enqueue

\* A listing without one of its records is a listing.
LEMMA ShorterListing ==
    ASSUME NEW f \in Listings, NEW id
    PROVE  /\ DOMAIN f \subseteq PeerIds
           /\ \A i \in DOMAIN f : f[i] \in Incarnations
           /\ [i \in DOMAIN f \ {id} |-> f[i]] \in Listings
<1>1. PICK ids \in SUBSET PeerIds : f \in [ids -> Incarnations]
  BY DEF Listings
<1>2. [i \in DOMAIN f \ {id} |-> f[i]] \in [ids \ {id} -> Incarnations]
  BY <1>1
<1>3. ids \ {id} \in SUBSET PeerIds
  BY <1>1
<1>. QED  BY <1>1, <1>2, <1>3 DEF Listings

LEMMA WorkerSets == Brokers \subseteq Workers /\ Handlers \subseteq Workers
BY DEF Workers

-----------------------------------------------------------------------------
(* Type correctness. *)

LEMMA InitTypeOK == Init => TypeOK
<1>. SUFFICES ASSUME Init PROVE TypeOK
  OBVIOUS
<1>. USE DEF Incarnations
<1>1. \A b \in Brokers, id \in PeerIds : InitialRecord(b, id) \in Record \cup {NoPeer}
  BY MembershipAssumption DEF InitialRecord, Alive, Placeholder, Record, Statuses
<1>2. peers \in [Brokers -> [PeerIds -> Record \cup {NoPeer}]]
  BY <1>1 DEF Init
<1>3. accused \subseteq PeerIds \X Incarnations
  BY MembershipAssumption DEF Init
<1>4. task \in [Workers -> Tasks \cup {Idle}]
  BY DEF Init
<1>. QED  BY <1>2, <1>3, <1>4, MembershipAssumption DEF Init, TypeOK

\* What TypeOK says of the record under an id, spelled out for the steps below.
LEMMA StoredRecord ==
    ASSUME TypeOK, NEW b \in Brokers, NEW id \in PeerIds, peers[b][id] # NoPeer
    PROVE  peers[b][id] \in Record
BY DEF TypeOK

LEMMA EventsOfType ==
    ASSUME NEW b \in Brokers, NEW kind \in Statuses \cup {"mutation"},
           NEW id \in PeerIds, NEW peer \in Record
    PROVE  EventsOf(b, kind, id, peer) \subseteq Event
BY MembershipAssumption DEF EventsOf, Event

LEMMA NextTypeOK == TypeOK /\ [Next]_vars => TypeOK'
<1>. SUFFICES ASSUME TypeOK, [Next]_vars PROVE TypeOK'
  OBVIOUS
<1>. USE DEF TypeOK
<1>ids. \A b \in Brokers : IdOf(b) \in PeerIds /\ EndpointOf(b) \in PeerIds
  BY DEF PeerIds, IdOf, EndpointOf
<1>1. ASSUME NEW w \in Workers, ReadForMerge(w) PROVE TypeOK'
  <2>1. /\ task[w].at \in Brokers /\ task[w].id \in PeerIds /\ task[w].peer \in Record
        /\ task[w].announce \in BOOLEAN
        /\ task[w].accusation \in Incarnations \cup {NoPeer}
    BY <1>1 DEF ReadForMerge, Tasks, Idle
  <2>2. MergeRecords(peers[task[w].at][task[w].id], task[w].peer) \in Record
    BY <2>1, MergeKeepsOne
  <2>. QED  BY <1>1, <2>1, <2>2 DEF ReadForMerge, Tasks
<1>2. ASSUME NEW w \in Workers, StoreMerged(w) PROVE TypeOK'
  <2>1. /\ task[w].at \in Brokers /\ task[w].id \in PeerIds /\ task[w].peer \in Record
        /\ task[w].merged \in Record
    BY <1>2 DEF StoreMerged, Tasks, Idle
  <2>2. net' \subseteq Event
    BY <1>2, <2>1, EnqueuedEvents, EventsOfType DEF StoreMerged, Statuses
  <2>3. peers' \in [Brokers -> [PeerIds -> Record \cup {NoPeer}]]
    BY <1>2, <2>1 DEF StoreMerged
  <2>4. task' \in [Workers -> Tasks \cup {Idle}]
    BY <1>2, <2>1 DEF StoreMerged, Tasks
  <2>. QED  BY <1>2, <2>2, <2>3, <2>4 DEF StoreMerged
<1>3. ASSUME NEW w \in Workers, Announce(w) PROVE TypeOK'
  <2>. DEFINE b == task[w].at
              inc == NextIncarnation(Own(b), task[w].accusation)
  <2>1. b \in Brokers /\ task[w].accusation \in Incarnations \cup {NoPeer}
    BY <1>3 DEF Announce, Tasks, Idle
  <2>2. inc \in Incarnations
    BY <2>1, <1>ids, NextIncarnationAboveAccusation DEF Own
  <2>3. Alive(inc) \in Record
    BY <2>2 DEF Alive, Record, Statuses
  <2>4. task' \in [Workers -> Tasks \cup {Idle}]
    BY <1>3, <2>1, <2>3, <1>ids DEF Announce, Tasks
  <2>5. issued' \in [Brokers -> Incarnations]
    BY <1>3, <2>1, <2>2 DEF Announce, HigherOf
  <2>. QED  BY <1>3, <2>4, <2>5 DEF Announce
<1>4. ASSUME NEW b \in Brokers, StartRound(b) PROVE TypeOK'
  <2>1. task' \in [Workers -> Tasks \cup {Idle}]
    BY <1>4, WorkerSets, MembershipAssumption DEF StartRound, Tasks
  <2>2. rounds' \in 0 .. MaxRounds
    BY <1>4, MembershipAssumption DEF StartRound
  <2>. QED  BY <1>4, <2>1, <2>2 DEF StartRound
<1>5. ASSUME NEW b \in Brokers, NEW s \in Seeds[b], ReadSeed(b, s) PROVE TypeOK'
  <2>1. task[b].todo \in SUBSET Brokers /\ s \in Brokers
    BY <1>5, WorkerSets DEF ReadSeed, Tasks, Idle
  <2>2. (IF peers[b][EndpointOf(s)] = NoPeer THEN Placeholder ELSE peers[b][EndpointOf(s)])
           \in Record
    BY <2>1, <1>ids, MembershipAssumption DEF Placeholder, Record, Statuses, Incarnations
  <2>. QED  BY <1>5, <2>1, <2>2, WorkerSets DEF ReadSeed, Tasks
<1>6. ASSUME NEW b \in Brokers, WriteSeed(b) PROVE TypeOK'
  <2>1. /\ task[b].todo \in SUBSET Brokers /\ task[b].seed \in Brokers
        /\ task[b].peer \in Record
    BY <1>6, WorkerSets DEF WriteSeed, Tasks, Idle
  <2>. QED  BY <1>6, <2>1, <1>ids, WorkerSets DEF WriteSeed, Tasks
<1>7. ASSUME NEW b \in Brokers, SeedsDone(b) PROVE TypeOK'
  BY <1>7, WorkerSets DEF SeedsDone, Tasks
<1>8. ASSUME NEW b \in Brokers, NEW overdue \in SUBSET RemoteIds(b), Expire(b, overdue)
      PROVE TypeOK'
  <2>. DEFINE told(id) == Expiry(peers[b][id])
              published == {id \in overdue : told(id) # "none"}
              about(id) == EventsOf(b, told(id), id, [peers[b][id] EXCEPT !.status = told(id)])
  <2>1. ASSUME NEW id \in published
        PROVE  /\ id \in PeerIds
               /\ peers[b][id] \in Record
               /\ about(id) \subseteq Event
    <3>1. id \in PeerIds /\ peers[b][id] \in Record
      BY StoredRecord DEF RemoteIds
    <3>2. told(id) \in Statuses
      BY <2>1 DEF Expiry, Statuses
    <3>3. [peers[b][id] EXCEPT !.status = told(id)] \in Record
      BY <3>1, <3>2 DEF Record
    <3>. HIDE DEF told
    <3>. QED  BY <3>1, <3>2, <3>3, EventsOfType
  <2>2. net' \subseteq Event
    <3>1. Enqueue(UNION {about(id) : id \in published})
      BY <1>8 DEF Expire
    <3>2. \A id \in published : about(id) \subseteq Event
      BY <2>1
    <3>. HIDE DEF published, about
    <3>. QED  BY <3>1, <3>2, EnqueuedEvents
  <2>3. accused' \subseteq PeerIds \X Incarnations
    <3>1. accused' = accused \cup
             {<<id, peers[b][id].inc>> : id \in {i \in published : told(i) = "suspect"}}
      BY <1>8 DEF Expire
    <3>2. \A id \in published : <<id, peers[b][id].inc>> \in PeerIds \X Incarnations
      BY <2>1 DEF Record
    <3>. HIDE DEF published, told
    <3>. QED  BY <3>1, <3>2
  <2>4. task' \in [Workers -> Tasks \cup {Idle}]
    BY <1>8, WorkerSets DEF Expire, Tasks
  <2>. QED  BY <1>8, <2>2, <2>3, <2>4 DEF Expire
<1>9. ASSUME NEW b \in Brokers, ListPeers(b) PROVE TypeOK'
  <2>. DEFINE listed == [id \in PulledIds(b) |-> peers[b][id].inc]
  <2>1. \A id \in PulledIds(b) : id \in PeerIds /\ peers[b][id].inc \in Incarnations
    BY StoredRecord DEF PulledIds, RemoteIds, Record
  <2>2. listed \in Listings
    BY <2>1 DEF Listings
  <2>3. task' = [task EXCEPT ![b] = [pc |-> "sync", at |-> b, listed |-> listed]]
    BY <1>9 DEF ListPeers
  <2>. HIDE DEF listed
  <2>4. [pc |-> "sync", at |-> b, listed |-> listed] \in Tasks
    BY <2>2 DEF Tasks
  <2>. QED  BY <1>9, <2>3, <2>4, WorkerSets DEF ListPeers
<1>10. ASSUME NEW b \in Brokers, NEW id \in PeerIds, task[b].pc = "sync",
              id \in Listed(b), task' = Unlist(b, id)
       PROVE  /\ task' \in [Workers -> Tasks \cup {Idle}]
              /\ Alive(task[b].listed[id]) \in Record
  <2>. DEFINE rest == [i \in DOMAIN task[b].listed \ {id} |-> task[b].listed[i]]
  <2>1. task[b].at \in Brokers /\ task[b].listed \in Listings
        /\ task[b] = [pc |-> "sync", at |-> task[b].at, listed |-> task[b].listed]
    BY <1>10, WorkerSets DEF Tasks, Idle
  <2>2. rest \in Listings /\ task[b].listed[id] \in Incarnations
    BY <2>1, <1>10, ShorterListing DEF Listed
  <2>3. task' = [task EXCEPT ![b] = [task[b] EXCEPT !.listed = rest]]
    BY <1>10 DEF Unlist
  <2>. HIDE DEF rest
  <2>4. [task[b] EXCEPT !.listed = rest] \in Tasks
    BY <2>1, <2>2 DEF Tasks
  <2>. QED  BY <2>2, <2>3, <2>4 DEF Alive, Record, Statuses
<1>11. ASSUME NEW b \in Brokers, NEW id \in PeerIds, SyncPeer(b, id) PROVE TypeOK'
  BY <1>11, <1>10 DEF SyncPeer
<1>12. ASSUME NEW b \in Brokers, NEW id \in PeerIds, SyncFails(b, id) PROVE TypeOK'
  BY <1>12, <1>10 DEF SyncFails
<1>13. ASSUME NEW b \in Brokers, EndRound(b) PROVE TypeOK'
  BY <1>13, WorkerSets DEF EndRound
<1>14. ASSUME NEW h \in Handlers, NEW event \in net, Deliver(event, h) PROVE TypeOK'
  <2>1. event.to \in Brokers /\ event.id \in PeerIds /\ event.peer \in Record
        /\ event.peer.inc \in Incarnations
    BY DEF Event, Record
  <2>2. task' \in [Workers -> Tasks \cup {Idle}]
    BY <1>14, <2>1, WorkerSets DEF Deliver, Tasks
  <2>. QED  BY <1>14, <2>2 DEF Deliver
<1>15. ASSUME NEW h \in Handlers, NEW b \in Brokers, PublishMutation(b, h) PROVE TypeOK'
  <2>1. CASE Own(b) # NoPeer
    <3>1. EventsOf(b, "mutation", IdOf(b), Own(b)) \subseteq Event
      BY <2>1, <1>ids, StoredRecord, EventsOfType DEF Own
    <3>2. net' \subseteq Event
      BY <1>15, <2>1, <3>1, EnqueuedEvents DEF PublishMutation
    <3>. QED  BY <1>15, <2>1, <3>2 DEF PublishMutation
  <2>2. CASE Own(b) = NoPeer
    <3>1. Alive(1) \in Record /\ 1 \in Incarnations
      BY MembershipAssumption DEF Alive, Record, Statuses, Incarnations
    <3>. DEFINE new == [pc |-> "merge", at |-> b, id |-> IdOf(b), peer |-> Alive(1),
                        announce |-> TRUE, accusation |-> NoPeer]
    <3>2. new \in Tasks
      BY <3>1, <1>ids DEF Tasks
    <3>3. task' = [task EXCEPT ![h] = new]
      BY <1>15, <2>2 DEF PublishMutation
    <3>. HIDE DEF new
    <3>4. task' \in [Workers -> Tasks \cup {Idle}]
      BY <3>2, <3>3, WorkerSets
    <3>5. issued' \in [Brokers -> Incarnations]
      BY <1>15, <2>2, <3>1 DEF PublishMutation, HigherOf
    <3>. QED  BY <1>15, <2>2, <3>4, <3>5 DEF PublishMutation
  <2>. QED  BY <2>1, <2>2
<1>16. ASSUME NEW b \in Brokers, Crash(b) PROVE TypeOK'
  <2>1. crashes' \in 0 .. MaxCrashes
    BY <1>16, MembershipAssumption DEF Crash
  <2>. QED  BY <1>16, <2>1 DEF Crash
<1>17. ASSUME NEW b \in Brokers, Restart(b) PROVE TypeOK'
  BY <1>17 DEF Restart
<1>18. CASE UNCHANGED vars
  BY <1>18 DEF vars
<1>. QED  BY <1>1, <1>2, <1>3, <1>4, <1>5, <1>6, <1>7, <1>8, <1>9, <1>11, <1>12, <1>13,
             <1>14, <1>15, <1>16, <1>17, <1>18 DEF Next, Proceed, Round

\* Every variable of SwimMembership keeps its type; in particular an incarnation
\* never leaves u64 (saturating_add, federation.rs).
THEOREM TypeCorrect == Spec => []TypeOK
BY InitTypeOK, NextTypeOK, PTL DEF Spec

-----------------------------------------------------------------------------
(* The inductive invariant.  A record is founded if its broker has claimed the *)
(* incarnation and, for a record that is not alive, some broker published a    *)
(* suspicion of that incarnation.  Records are founded wherever they are: in   *)
(* the stores, in the events under way and in the hands of a task between its  *)
(* read and its write.                                                         *)

Founded(id, record, claims, suspicions) ==
    /\ record.inc <= claims[id[1]]
    /\ record.status # "alive" /\ id[2] = "id" => <<id, record.inc>> \in suspicions

\* What may be written under an id of a store of b.
Sound(b, id, record, claims, suspicions) ==
    /\ Founded(id, record, claims, suspicions)
    /\ id = IdOf(b) => record.status = "alive"

StoredSound ==
    \A b \in Brokers, id \in PeerIds :
        peers[b][id] # NoPeer => Sound(b, id, peers[b][id], issued, accused)

EventsSound ==
    \A e \in net :
        /\ Founded(e.id, e.peer, issued, accused)
        /\ e.kind \in {"alive", "mutation"} => e.peer.status = "alive"

SoundTask(t, claims, suspicions) ==
    /\ t.pc \in {"merge", "store"} =>
          /\ Sound(t.at, t.id, t.peer, claims, suspicions)
          /\ t.announce => t.peer.status = "alive"
    /\ t.pc = "store" => Sound(t.at, t.id, t.merged, claims, suspicions)
    /\ t.pc = "placeholder" => Founded(EndpointOf(t.seed), t.peer, claims, suspicions)
    /\ t.pc = "sync" => \A id \in DOMAIN t.listed : t.listed[id] <= claims[id[1]]

TasksSound == \A w \in Workers : SoundTask(task[w], issued, accused)

IInv ==
    /\ TypeOK
    /\ StoredSound
    /\ EventsSound
    /\ TasksSound
    /\ RefutationOutranksAccusation

-----------------------------------------------------------------------------
\* Claims and suspicions only grow, so what is founded stays so.
LEMMA SoundStaysSound ==
    ASSUME NEW claims \in [Brokers -> Incarnations], NEW claims2 \in [Brokers -> Incarnations],
           \A b \in Brokers : claims[b] <= claims2[b],
           NEW suspicions, NEW suspicions2, suspicions \subseteq suspicions2
    PROVE  /\ \A id \in PeerIds, r \in Record :
                 Founded(id, r, claims, suspicions) => Founded(id, r, claims2, suspicions2)
           /\ \A b \in Brokers, id \in PeerIds, r \in Record :
                 Sound(b, id, r, claims, suspicions) => Sound(b, id, r, claims2, suspicions2)
           /\ \A t \in Tasks \cup {Idle} :
                 SoundTask(t, claims, suspicions) => SoundTask(t, claims2, suspicions2)
<1>1. \A id \in PeerIds : id[1] \in Brokers
  BY DEF PeerIds
<1>2. \A i, j, k \in Incarnations : i <= j /\ j <= k => i <= k
  BY MembershipAssumption DEF Incarnations
<1>3. ASSUME NEW id \in PeerIds, NEW r \in Record, Founded(id, r, claims, suspicions)
      PROVE  Founded(id, r, claims2, suspicions2)
  BY <1>1, <1>2, <1>3 DEF Founded, Record
<1>4. ASSUME NEW b \in Brokers, NEW id \in PeerIds, NEW r \in Record,
             Sound(b, id, r, claims, suspicions)
      PROVE  Sound(b, id, r, claims2, suspicions2)
  BY <1>3, <1>4 DEF Sound
<1>5. ASSUME NEW t \in Tasks \cup {Idle}, SoundTask(t, claims, suspicions)
      PROVE  SoundTask(t, claims2, suspicions2)
  <2>1. t.pc \in {"merge", "store"} =>
           t.at \in Brokers /\ t.id \in PeerIds /\ t.peer \in Record
    BY DEF Tasks, Idle
  <2>2. t.pc = "store" => t.merged \in Record
    BY DEF Tasks, Idle
  <2>3. t.pc = "placeholder" => EndpointOf(t.seed) \in PeerIds /\ t.peer \in Record
    BY DEF Tasks, Idle, EndpointOf, PeerIds
  <2>4. ASSUME t.pc = "sync", NEW id \in DOMAIN t.listed
        PROVE  t.listed[id] <= claims2[id[1]]
    <3>1. t.listed \in Listings
      BY <2>4 DEF Tasks, Idle
    <3>2. id \in PeerIds /\ t.listed[id] \in Incarnations
      BY <3>1, <2>4, ShorterListing
    <3>3. t.listed[id] <= claims[id[1]]
      BY <1>5, <2>4 DEF SoundTask
    <3>. QED  BY <3>2, <3>3, <1>1, <1>2
  <2>. QED  BY <1>5, <2>1, <2>2, <2>3, <2>4, <1>3, <1>4 DEF SoundTask
<1>. QED  BY <1>3, <1>4, <1>5

LEMMA InitIInv == Init => IInv
<1>. SUFFICES ASSUME Init PROVE IInv
  OBVIOUS
<1>1. StoredSound
  <2>. SUFFICES ASSUME NEW b \in Brokers, NEW id \in PeerIds, peers[b][id] # NoPeer
                PROVE  Sound(b, id, peers[b][id], issued, accused)
    BY DEF StoredSound
  <2>1. peers[b][id] = InitialRecord(b, id) /\ Start # "empty"
    BY DEF Init, InitialRecord
  <2>2. issued[id[1]] = 1 /\ id[1] \in Brokers
    BY <2>1 DEF Init, PeerIds
  <2>3. CASE id = IdOf(b)
    BY <2>1, <2>2, <2>3 DEF InitialRecord, Alive, Sound, Founded
  <2>4. CASE id # IdOf(b) /\ \E p \in Brokers : b \in Seeds[p] /\ id = IdOf(p)
    <3>1. peers[b][id] = [status |-> Start, inc |-> 1]
      BY <2>1, <2>4 DEF InitialRecord
    <3>2. Start # "alive" => <<id, 1>> \in accused
      BY <2>1, MembershipAssumption DEF Init
    <3>. QED  BY <3>1, <3>2, <2>2, <2>4 DEF Sound, Founded
  <2>5. CASE id # IdOf(b) /\ ~ \E p \in Brokers : b \in Seeds[p] /\ id = IdOf(p)
    <3>1. peers[b][id] = Placeholder /\ id[2] = "endpoint"
      BY <2>1, <2>5 DEF InitialRecord, EndpointOf
    <3>. QED  BY <3>1, <2>2, <2>5 DEF Sound, Founded, Placeholder
  <2>. QED  BY <2>3, <2>4, <2>5
<1>2. EventsSound /\ TasksSound /\ RefutationOutranksAccusation
  BY DEF Init, EventsSound, TasksSound, RefutationOutranksAccusation, SoundTask, Idle
<1>. QED  BY <1>1, <1>2, InitTypeOK DEF IInv

\* One task changes, claims and suspicions grow: the tasks stay sound if the new
\* one is, and refutations still outrank accusations if the new one does.
LEMMA OneTaskChanges ==
    ASSUME IInv, TypeOK', NEW w \in Workers, NEW new, task' = [task EXCEPT ![w] = new],
           \A b \in Brokers : issued[b] <= issued'[b], accused \subseteq accused',
           SoundTask(new, issued', accused'),
           /\ new.pc \in {"merge", "store"}
           /\ new.accusation # NoPeer
           /\ new.accusation < MaxInc
           => new.peer.inc > new.accusation
    PROVE  TasksSound' /\ RefutationOutranksAccusation'
<1>1. \A v \in Workers : SoundTask(task[v], issued', accused')
  <2>. SUFFICES ASSUME NEW v \in Workers PROVE SoundTask(task[v], issued', accused')
    OBVIOUS
  <2>1. task[v] \in Tasks \cup {Idle} /\ SoundTask(task[v], issued, accused)
    BY DEF IInv, TypeOK, TasksSound
  <2>2. issued \in [Brokers -> Incarnations] /\ issued' \in [Brokers -> Incarnations]
    BY DEF IInv, TypeOK
  <2>. QED  BY <2>1, <2>2, SoundStaysSound
<1>2. \A v \in Workers : task'[v] = IF v = w THEN new ELSE task[v]
  BY DEF IInv, TypeOK
<1>. QED  BY <1>1, <1>2 DEF IInv, TasksSound, RefutationOutranksAccusation

\* Stores and events that do not change stay sound.
LEMMA StoresAndEventsUnchanged ==
    ASSUME IInv, TypeOK', \A b \in Brokers : issued[b] <= issued'[b], accused \subseteq accused'
    PROVE  /\ UNCHANGED peers => StoredSound'
           /\ net' \subseteq net => EventsSound'
<1>1. issued \in [Brokers -> Incarnations] /\ issued' \in [Brokers -> Incarnations]
  BY DEF IInv, TypeOK
<1>2. ASSUME UNCHANGED peers PROVE StoredSound'
  <2>. SUFFICES ASSUME NEW b \in Brokers, NEW id \in PeerIds, peers[b][id] # NoPeer
                PROVE  Sound(b, id, peers[b][id], issued', accused')
    BY <1>2 DEF StoredSound
  <2>1. peers[b][id] \in Record /\ Sound(b, id, peers[b][id], issued, accused)
    BY StoredRecord DEF IInv, StoredSound
  <2>. QED  BY <2>1, <1>1, SoundStaysSound
<1>3. ASSUME net' \subseteq net PROVE EventsSound'
  <2>. SUFFICES ASSUME NEW e \in net
                PROVE  /\ Founded(e.id, e.peer, issued', accused')
                       /\ e.kind \in {"alive", "mutation"} => e.peer.status = "alive"
    BY <1>3 DEF EventsSound
  <2>1. e.id \in PeerIds /\ e.peer \in Record
    BY DEF IInv, TypeOK, Event
  <2>2. /\ Founded(e.id, e.peer, issued, accused)
        /\ e.kind \in {"alive", "mutation"} => e.peer.status = "alive"
    BY DEF IInv, EventsSound
  <2>. QED  BY <2>1, <2>2, <1>1, SoundStaysSound
<1>. QED  BY <1>2, <1>3

LEMMA NextIInv == IInv /\ [Next]_vars => IInv'
<1>. SUFFICES ASSUME IInv, [Next]_vars PROVE IInv'
  OBVIOUS
<1>type. TypeOK /\ TypeOK'
  BY NextTypeOK DEF IInv
<1>ids. \A b \in Brokers : IdOf(b) \in PeerIds /\ EndpointOf(b) \in PeerIds
  BY DEF PeerIds, IdOf, EndpointOf
<1>same. /\ \A b \in Brokers : issued[b] <= issued[b]
         /\ accused \subseteq accused
  BY <1>type, MembershipAssumption DEF TypeOK, Incarnations
<1>task. \A w \in Workers : task[w] \in Tasks \cup {Idle} /\ SoundTask(task[w], issued, accused)
  BY DEF IInv, TypeOK, TasksSound
<1>1. ASSUME NEW w \in Workers, ReadForMerge(w) PROVE IInv'
  <2>. DEFINE t == task[w]
              merged == MergeRecords(peers[t.at][t.id], t.peer)
              new == [pc |-> "store", at |-> t.at, id |-> t.id, peer |-> t.peer,
                      announce |-> t.announce, accusation |-> t.accusation,
                      merged |-> merged]
  <2>1. /\ t.at \in Brokers /\ t.id \in PeerIds
        /\ Sound(t.at, t.id, t.peer, issued, accused)
        /\ t.announce => t.peer.status = "alive"
    BY <1>1, <1>task DEF ReadForMerge, Tasks, Idle, SoundTask
  <2>2. Sound(t.at, t.id, merged, issued, accused)
    BY <2>1, MergeKeepsOne DEF IInv, StoredSound
  <2>3. SoundTask(new, issued, accused)
    BY <2>1, <2>2 DEF SoundTask
  <2>4. new.accusation # NoPeer /\ new.accusation < MaxInc => new.peer.inc > new.accusation
    BY <1>1 DEF IInv, RefutationOutranksAccusation, ReadForMerge
  <2>5. task' = [task EXCEPT ![w] = new] /\ UNCHANGED <<peers, net, issued, accused>>
    BY <1>1 DEF ReadForMerge
  <2>. HIDE DEF new
  <2>6. TasksSound' /\ RefutationOutranksAccusation'
    BY <2>3, <2>4, <2>5, <1>type, <1>same, OneTaskChanges
  <2>7. StoredSound' /\ EventsSound'
    BY <2>5, <1>type, <1>same, StoresAndEventsUnchanged
  <2>. QED  BY <2>6, <2>7, <1>type DEF IInv
<1>2. ASSUME NEW w \in Workers, StoreMerged(w) PROVE IInv'
  <2>. DEFINE t == task[w]
              new == IF w \in Brokers THEN [pc |-> "expire", at |-> t.at] ELSE Idle
              events == IF t.announce THEN EventsOf(t.at, "alive", t.id, t.peer) ELSE {}
  <2>1. /\ t.at \in Brokers /\ t.id \in PeerIds /\ t.merged \in Record
        /\ Sound(t.at, t.id, t.peer, issued, accused)
        /\ Sound(t.at, t.id, t.merged, issued, accused)
        /\ t.announce => t.peer.status = "alive"
    BY <1>2, <1>task DEF StoreMerged, Tasks, Idle, SoundTask
  <2>2. /\ task' = [task EXCEPT ![w] = new]
        /\ peers' = [peers EXCEPT ![t.at][t.id] = t.merged]
        /\ Enqueue(events)
        /\ UNCHANGED <<issued, accused>>
    BY <1>2 DEF StoreMerged
  <2>3. TasksSound' /\ RefutationOutranksAccusation'
    <3>1. SoundTask(new, issued, accused) /\ new.pc \notin {"merge", "store"}
      BY DEF SoundTask, Idle
    <3>. HIDE DEF new
    <3>. QED  BY <3>1, <2>2, <1>type, <1>same, OneTaskChanges
  <2>4. StoredSound'
    BY <2>1, <2>2, <1>type DEF StoredSound, IInv, TypeOK
  <2>5. EventsSound'
    <3>1. \A e \in events : /\ Founded(e.id, e.peer, issued, accused)
                           /\ e.peer.status = "alive"
      BY <2>1 DEF EventsOf, Sound
    <3>2. net' \subseteq net \cup events
      BY <2>2, EnqueuedEvents
    <3>. HIDE DEF events
    <3>. QED  BY <3>1, <3>2, <2>2 DEF IInv, EventsSound
  <2>. QED  BY <2>3, <2>4, <2>5, <1>type DEF IInv
<1>3. ASSUME NEW w \in Workers, Announce(w) PROVE IInv'
  <2>. DEFINE b == task[w].at
              accusation == task[w].accusation
              inc == NextIncarnation(Own(b), accusation)
              new == [pc |-> "merge", at |-> b, id |-> IdOf(b), peer |-> Alive(inc),
                      announce |-> TRUE, accusation |-> accusation]
  <2>1. b \in Brokers /\ accusation \in Incarnations \cup {NoPeer}
    BY <1>3, <1>task DEF Announce, Tasks, Idle
  <2>2. /\ inc \in Incarnations
        /\ accusation # NoPeer /\ accusation < MaxInc => inc > accusation
    BY <2>1, <1>ids, <1>type, NextIncarnationAboveAccusation DEF Own, TypeOK
  <2>3. /\ task' = [task EXCEPT ![w] = new]
        /\ issued' = [issued EXCEPT ![b] = HigherOf(@, inc)]
        /\ UNCHANGED <<peers, net, accused>>
    BY <1>3 DEF Announce
  <2>4. inc <= issued'[b] /\ \A c \in Brokers : issued[c] <= issued'[c]
    BY <2>1, <2>2, <2>3, <1>type, MembershipAssumption DEF HigherOf, TypeOK, Incarnations
  <2>5. SoundTask(new, issued', accused')
    BY <2>4 DEF SoundTask, Sound, Founded, Alive, IdOf
  <2>6. new.accusation # NoPeer /\ new.accusation < MaxInc => new.peer.inc > new.accusation
    BY <2>2 DEF Alive
  <2>. HIDE DEF new
  <2>7. TasksSound' /\ RefutationOutranksAccusation'
    BY <2>3, <2>4, <2>5, <2>6, <1>type, OneTaskChanges
  <2>8. StoredSound' /\ EventsSound'
    BY <2>3, <2>4, <1>type, StoresAndEventsUnchanged
  <2>. QED  BY <2>7, <2>8, <1>type DEF IInv
\* Steps that change only one task, to one that neither merges nor holds records.
<1>4. ASSUME NEW b \in Brokers, NEW new, task' = [task EXCEPT ![b] = new],
             new.pc \in {"idle", "seeds", "announce"},
             UNCHANGED <<peers, net, issued, accused>>
      PROVE  IInv'
  <2>1. SoundTask(new, issued, accused)
    BY <1>4 DEF SoundTask
  <2>2. TasksSound' /\ RefutationOutranksAccusation'
    BY <2>1, <1>4, <1>type, <1>same, WorkerSets, OneTaskChanges
  <2>. QED  BY <2>2, <1>4, <1>type, <1>same, StoresAndEventsUnchanged DEF IInv
<1>5. ASSUME NEW b \in Brokers, StartRound(b) PROVE IInv'
  BY <1>4, <1>5 DEF StartRound
<1>6. ASSUME NEW b \in Brokers, NEW s \in Seeds[b], ReadSeed(b, s) PROVE IInv'
  <2>. DEFINE existing == peers[b][EndpointOf(s)]
              new == [pc |-> "placeholder", at |-> b, todo |-> task[b].todo \ {s},
                      seed |-> s,
                      peer |-> IF existing = NoPeer THEN Placeholder ELSE existing]
  <2>1. s \in Brokers /\ issued[s] \in Nat
    BY <1>type, MembershipAssumption DEF TypeOK, Incarnations
  <2>2. Founded(EndpointOf(s), new.peer, issued, accused)
    <3>1. CASE existing = NoPeer
      BY <2>1, <3>1 DEF Founded, Placeholder, EndpointOf
    <3>2. CASE existing # NoPeer
      <4>1. Sound(b, EndpointOf(s), existing, issued, accused)
        BY <2>1, <3>2, <1>ids DEF IInv, StoredSound
      <4>. QED  BY <3>2, <4>1 DEF Sound
    <3>. QED  BY <3>1, <3>2
  <2>3. SoundTask(new, issued, accused)
    BY <2>2 DEF SoundTask
  <2>4. task' = [task EXCEPT ![b] = new] /\ UNCHANGED <<peers, net, issued, accused>>
    BY <1>6 DEF ReadSeed
  <2>5. new.pc = "placeholder"
    OBVIOUS
  <2>. HIDE DEF new
  <2>6. TasksSound' /\ RefutationOutranksAccusation'
    BY <2>3, <2>4, <2>5, <1>type, <1>same, WorkerSets, OneTaskChanges
  <2>. QED  BY <2>4, <2>6, <1>type, <1>same, StoresAndEventsUnchanged DEF IInv
<1>7. ASSUME NEW b \in Brokers, WriteSeed(b) PROVE IInv'
  <2>. DEFINE t == task[b]
              new == [pc |-> "seeds", at |-> b, todo |-> t.todo]
  <2>1. t.seed \in Brokers /\ Founded(EndpointOf(t.seed), t.peer, issued, accused)
    BY <1>7, <1>task, WorkerSets DEF WriteSeed, Tasks, Idle, SoundTask
  <2>2. /\ peers' = [peers EXCEPT ![b][EndpointOf(t.seed)] = t.peer]
        /\ task' = [task EXCEPT ![b] = new]
        /\ UNCHANGED <<net, issued, accused>>
    BY <1>7 DEF WriteSeed
  <2>3. StoredSound'
    <3>1. \A c \in Brokers : EndpointOf(t.seed) # IdOf(c)
      BY DEF EndpointOf, IdOf
    <3>. QED  BY <3>1, <2>1, <2>2, <1>type, <1>ids DEF StoredSound, Sound, IInv, TypeOK
  <2>4. SoundTask(new, issued, accused) /\ new.pc = "seeds"
    BY DEF SoundTask
  <2>. HIDE DEF new
  <2>5. TasksSound' /\ RefutationOutranksAccusation'
    BY <2>2, <2>4, <1>type, <1>same, WorkerSets, OneTaskChanges
  <2>. QED  BY <2>2, <2>3, <2>5, <1>type, <1>same, StoresAndEventsUnchanged DEF IInv
<1>8. ASSUME NEW b \in Brokers, SeedsDone(b) PROVE IInv'
  BY <1>4, <1>8 DEF SeedsDone
<1>9. ASSUME NEW b \in Brokers, NEW overdue \in SUBSET RemoteIds(b), Expire(b, overdue)
      PROVE  IInv'
  <2>. DEFINE told(id) == Expiry(peers[b][id])
              published == {id \in overdue : told(id) # "none"}
              about(id) == EventsOf(b, told(id), id, [peers[b][id] EXCEPT !.status = told(id)])
              new == [pc |-> "list", at |-> b]
              events == UNION {about(id) : id \in published}
              suspected == {<<id, peers[b][id].inc>> : id \in {i \in published : told(i) = "suspect"}}
  <2>1. /\ Enqueue(events)
        /\ accused' = accused \cup suspected
        /\ task' = [task EXCEPT ![b] = new]
        /\ UNCHANGED <<peers, issued>>
    BY <1>9 DEF Expire
  <2>2. ASSUME NEW id \in published, NEW e \in about(id)
        PROVE  /\ Founded(e.id, e.peer, issued', accused')
               /\ e.kind \notin {"alive", "mutation"}
    <3>1. /\ id \in PeerIds /\ peers[b][id] \in Record
          /\ Founded(id, peers[b][id], issued, accused)
      BY <1>type, StoredRecord DEF RemoteIds, IInv, StoredSound, Sound
    <3>2. told(id) \in {"suspect", "dead"}
      BY <2>2 DEF Expiry
    <3>3. e.id = id /\ e.kind = told(id) /\ e.peer.inc = peers[b][id].inc
      BY <2>2, <3>1 DEF EventsOf, Record
    <3>4. CASE told(id) = "suspect"
      <4>1. <<id, peers[b][id].inc>> \in accused'
        BY <2>1, <3>4
      <4>. QED  BY <4>1, <3>1, <3>2, <3>3, <2>1 DEF Founded
    <3>5. CASE told(id) = "dead"
      <4>1. peers[b][id].status # "alive"
        BY <3>5 DEF Expiry
      <4>. QED  BY <4>1, <3>1, <3>2, <3>3, <2>1 DEF Founded
    <3>. QED  BY <3>2, <3>4, <3>5
  <2>3. net' \subseteq net \cup events
    BY <2>1, EnqueuedEvents
  <2>4. accused \subseteq accused' /\ \A c \in Brokers : issued[c] <= issued'[c]
    BY <2>1, <1>same
  <2>5. EventsSound'
    <3>. SUFFICES ASSUME NEW e \in net'
                  PROVE  /\ Founded(e.id, e.peer, issued', accused')
                         /\ e.kind \in {"alive", "mutation"} => e.peer.status = "alive"
      BY DEF EventsSound
    <3>1. CASE e \in net
      <4>1. e.id \in PeerIds /\ e.peer \in Record
        BY <3>1, <1>type DEF TypeOK, Event
      <4>2. /\ Founded(e.id, e.peer, issued, accused)
            /\ e.kind \in {"alive", "mutation"} => e.peer.status = "alive"
        BY <3>1 DEF IInv, EventsSound
      <4>3. issued \in [Brokers -> Incarnations] /\ issued' \in [Brokers -> Incarnations]
        BY <1>type DEF TypeOK
      <4>. QED  BY <4>1, <4>2, <4>3, <2>4, SoundStaysSound
    <3>2. CASE e \in events
      <4>1. PICK id \in published : e \in about(id)
        BY <3>2
      <4>. QED  BY <4>1, <2>2
    <3>. QED  BY <3>1, <3>2, <2>3
  <2>6. SoundTask(new, issued', accused') /\ new.pc = "list"
    BY DEF SoundTask
  <2>. HIDE DEF new
  <2>7. TasksSound' /\ RefutationOutranksAccusation'
    BY <2>1, <2>4, <2>6, <1>type, WorkerSets, OneTaskChanges
  <2>8. StoredSound'
    BY <2>1, <2>4, <1>type, StoresAndEventsUnchanged
  <2>. QED  BY <2>5, <2>7, <2>8, <1>type DEF IInv
<1>10. ASSUME NEW b \in Brokers, ListPeers(b) PROVE IInv'
  <2>. DEFINE new == [pc |-> "sync", at |-> b,
                      listed |-> [id \in PulledIds(b) |-> peers[b][id].inc]]
  <2>1. \A id \in PulledIds(b) : peers[b][id].inc <= issued[id[1]]
    BY DEF PulledIds, RemoteIds, IInv, StoredSound, Sound, Founded
  <2>2. SoundTask(new, issued, accused) /\ new.pc = "sync"
    BY <2>1 DEF SoundTask
  <2>3. task' = [task EXCEPT ![b] = new] /\ UNCHANGED <<peers, net, issued, accused>>
    BY <1>10 DEF ListPeers
  <2>. HIDE DEF new
  <2>4. TasksSound' /\ RefutationOutranksAccusation'
    BY <2>2, <2>3, <1>type, <1>same, WorkerSets, OneTaskChanges
  <2>. QED  BY <2>3, <2>4, <1>type, <1>same, StoresAndEventsUnchanged DEF IInv
<1>11. ASSUME NEW b \in Brokers, NEW id \in PeerIds, task[b].pc = "sync", id \in Listed(b),
              task' = Unlist(b, id), UNCHANGED <<issued, accused>>
       PROVE  /\ TasksSound' /\ RefutationOutranksAccusation'
              /\ task[b].listed[id] <= issued[id[1]]
  <2>. DEFINE rest == [i \in DOMAIN task[b].listed \ {id} |-> task[b].listed[i]]
              new == [task[b] EXCEPT !.listed = rest]
  <2>1. /\ task[b] = [pc |-> "sync", at |-> task[b].at, listed |-> task[b].listed]
        /\ \A i \in DOMAIN task[b].listed : task[b].listed[i] <= issued[i[1]]
    BY <1>11, <1>task, WorkerSets DEF Tasks, Idle, SoundTask
  <2>2. \A i \in DOMAIN rest : rest[i] <= issued[i[1]]
    BY <2>1
  <2>3. task' = [task EXCEPT ![b] = new]
    BY <1>11 DEF Unlist
  <2>. HIDE DEF rest
  <2>4. new.pc = "sync" /\ new.listed = rest
    BY <2>1
  <2>5. SoundTask(new, issued, accused)
    BY <2>2, <2>4 DEF SoundTask
  <2>. HIDE DEF new
  <2>6. TasksSound' /\ RefutationOutranksAccusation'
    BY <2>3, <2>4, <2>5, <1>11, <1>type, <1>same, WorkerSets, OneTaskChanges
  <2>. QED  BY <2>1, <2>6, <1>11 DEF Listed
<1>12. ASSUME NEW b \in Brokers, NEW id \in PeerIds, SyncPeer(b, id) PROVE IInv'
  <2>1. /\ TasksSound' /\ RefutationOutranksAccusation'
        /\ task[b].listed[id] <= issued[id[1]]
    BY <1>11, <1>12 DEF SyncPeer
  <2>2. /\ peers' = [peers EXCEPT ![b][id] = Alive(task[b].listed[id])]
        /\ UNCHANGED <<net, issued, accused>>
    BY <1>12 DEF SyncPeer
  <2>3. Sound(b, id, Alive(task[b].listed[id]), issued, accused)
    BY <2>1 DEF Sound, Founded, Alive
  <2>4. StoredSound'
    BY <2>2, <2>3, <1>type DEF StoredSound, IInv, TypeOK
  <2>. QED  BY <2>1, <2>2, <2>4, <1>type, <1>same, StoresAndEventsUnchanged DEF IInv
<1>13. ASSUME NEW b \in Brokers, NEW id \in PeerIds, SyncFails(b, id) PROVE IInv'
  <2>1. TasksSound' /\ RefutationOutranksAccusation'
    BY <1>11, <1>13 DEF SyncFails
  <2>. QED  BY <2>1, <1>13, <1>type, <1>same, StoresAndEventsUnchanged DEF IInv, SyncFails
<1>14. ASSUME NEW b \in Brokers, EndRound(b) PROVE IInv'
  BY <1>4, <1>14 DEF EndRound, Idle
<1>15. ASSUME NEW h \in Handlers, NEW event \in net, Deliver(event, h) PROVE IInv'
  <2>. DEFINE answer == [pc |-> "announce", at |-> event.to, accusation |-> event.peer.inc]
              merge == [pc |-> "merge", at |-> event.to, id |-> event.id, peer |-> event.peer,
                        announce |-> FALSE, accusation |-> NoPeer]
              new == IF Refutes(event) THEN answer ELSE merge
  <2>1. /\ task' = [task EXCEPT ![h] = new]
        /\ net' \subseteq net
        /\ UNCHANGED <<peers, issued, accused>>
    BY <1>15 DEF Deliver
  <2>2. /\ event.to \in Brokers /\ event.id \in PeerIds
        /\ event.kind \in Statuses \cup {"mutation"}
        /\ Founded(event.id, event.peer, issued, accused)
        /\ event.kind \in {"alive", "mutation"} => event.peer.status = "alive"
    BY <1>type DEF TypeOK, Event, IInv, EventsSound
  <2>3. ~Refutes(event) => Sound(event.to, event.id, event.peer, issued, accused)
    BY <2>2 DEF Refutes, RefersTo, IdOf, Sound
  <2>4. SoundTask(new, issued, accused)
    BY <2>3 DEF SoundTask
  <2>5. new.pc = "announce" \/ new.accusation = NoPeer
    OBVIOUS
  <2>. HIDE DEF new
  <2>6. TasksSound' /\ RefutationOutranksAccusation'
    BY <2>1, <2>4, <2>5, <1>type, <1>same, WorkerSets, OneTaskChanges
  <2>. QED  BY <2>1, <2>6, <1>type, <1>same, StoresAndEventsUnchanged DEF IInv
<1>16. ASSUME NEW h \in Handlers, NEW b \in Brokers, PublishMutation(b, h) PROVE IInv'
  <2>1. CASE Own(b) # NoPeer
    <3>1. /\ Enqueue(EventsOf(b, "mutation", IdOf(b), Own(b)))
          /\ UNCHANGED <<peers, task, issued, accused>>
      BY <1>16, <2>1 DEF PublishMutation
    <3>2. Sound(b, IdOf(b), Own(b), issued, accused)
      BY <2>1, <1>ids DEF Own, IInv, StoredSound
    <3>3. \A e \in EventsOf(b, "mutation", IdOf(b), Own(b)) :
             Founded(e.id, e.peer, issued, accused) /\ e.peer.status = "alive"
      BY <3>2 DEF EventsOf, Sound
    <3>4. EventsSound'
      BY <3>1, <3>3, EnqueuedEvents DEF EventsSound, IInv
    <3>5. StoredSound' /\ TasksSound' /\ RefutationOutranksAccusation'
      BY <3>1 DEF IInv, StoredSound, TasksSound, RefutationOutranksAccusation
    <3>. QED  BY <3>4, <3>5, <1>type DEF IInv
  <2>2. CASE Own(b) = NoPeer
    <3>. DEFINE new == [pc |-> "merge", at |-> b, id |-> IdOf(b), peer |-> Alive(1),
                        announce |-> TRUE, accusation |-> NoPeer]
    <3>1. /\ task' = [task EXCEPT ![h] = new]
          /\ issued' = [issued EXCEPT ![b] = HigherOf(@, 1)]
          /\ UNCHANGED <<peers, net, accused>>
      BY <1>16, <2>2 DEF PublishMutation
    <3>2. 1 <= issued'[b] /\ \A c \in Brokers : issued[c] <= issued'[c]
      BY <3>1, <1>type, MembershipAssumption DEF HigherOf, TypeOK, Incarnations
    <3>3. SoundTask(new, issued', accused')
      BY <3>2 DEF SoundTask, Sound, Founded, Alive, IdOf
    <3>4. new.accusation = NoPeer
      OBVIOUS
    <3>. HIDE DEF new
    <3>5. TasksSound' /\ RefutationOutranksAccusation'
      BY <3>1, <3>2, <3>3, <3>4, <1>type, WorkerSets, OneTaskChanges
    <3>. QED  BY <3>1, <3>2, <3>5, <1>type, StoresAndEventsUnchanged DEF IInv
  <2>. QED  BY <2>1, <2>2
<1>17. ASSUME NEW b \in Brokers, Crash(b) PROVE IInv'
  <2>1. /\ \A w \in Workers : task'[w] = Idle \/ task'[w] = task[w]
        /\ UNCHANGED <<peers, net, issued, accused>>
    BY <1>17 DEF Crash
  <2>2. TasksSound' /\ RefutationOutranksAccusation'
    BY <2>1, <1>task DEF TasksSound, SoundTask, Idle, IInv, RefutationOutranksAccusation
  <2>. QED  BY <2>1, <2>2, <1>type, <1>same, StoresAndEventsUnchanged DEF IInv
<1>18. ASSUME UNCHANGED <<peers, net, task, issued, accused>> PROVE IInv'
  BY <1>18, <1>type DEF IInv, StoredSound, EventsSound, TasksSound,
                        RefutationOutranksAccusation
<1>19. ASSUME NEW b \in Brokers, Restart(b) PROVE IInv'
  BY <1>18, <1>19 DEF Restart
<1>20. CASE UNCHANGED vars
  BY <1>18, <1>20 DEF vars
<1>. QED  BY <1>1, <1>2, <1>3, <1>5, <1>6, <1>7, <1>8, <1>9, <1>10, <1>12, <1>13, <1>14,
             <1>15, <1>16, <1>17, <1>19, <1>20 DEF Next, Proceed, Round

-----------------------------------------------------------------------------

\* The inductive invariant holds: a record is founded on what its broker claimed and
\* on what was published as suspect, in every store, listing, event and merge.
THEOREM Invariance == Spec => []IInv
BY InitIInv, NextIInv, PTL DEF Spec

\* No store ever holds an incarnation of a broker that the broker did not claim.
THEOREM IncarnationsComeFromTheirBroker == Spec => []NoInventedIncarnation
<1>1. IInv => NoInventedIncarnation
  BY DEF IInv, StoredSound, Sound, Founded, NoInventedIncarnation
<1>. QED  BY <1>1, Invariance, PTL

\* A broker's own record always says alive, whatever arrives in whatever order.
THEOREM OwnRecordStaysAlive == Spec => []OwnRecordAlive
<1>1. IInv => OwnRecordAlive
  BY DEF IInv, StoredSound, Sound, OwnRecordAlive, Own, IdOf, PeerIds
<1>. QED  BY <1>1, Invariance, PTL

\* Every refutation outranks the accusation it answers.
THEOREM RefutationsOutrank == Spec => []RefutationOutranksAccusation
<1>1. IInv => RefutationOutranksAccusation
  BY DEF IInv
<1>. QED  BY <1>1, Invariance, PTL

\* A broker is held for dead only at an incarnation that was published as suspect.
THEOREM DeadWereSuspected == Spec => []DeadOnlyAfterSuspected
<1>1. IInv => DeadOnlyAfterSuspected
  BY DEF IInv, StoredSound, Sound, Founded, DeadOnlyAfterSuspected, IdOf, PeerIds
<1>. QED  BY <1>1, Invariance, PTL

=============================================================================
