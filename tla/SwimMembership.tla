----------------------------- MODULE SwimMembership -----------------------------
(***************************************************************************)
(* SWIM-style membership of one tenant's swarm.                            *)
(*                                                                         *)
(* Each broker stores peer records (collection "peers"): its own, one per  *)
(* broker it has heard of, and a placeholder per configured seed, whose    *)
(* peer_id is the seed's endpoint.  A worker runs rounds: seed the         *)
(* placeholders, announce the local broker with a higher incarnation,      *)
(* publish suspicions, then pull mutations from every listed peer and write *)
(* its record back as alive.  Handlers of POST /internal/swim merge what   *)
(* peers publish.  A merge is a get and an upsert with an await between.   *)
(*                                                                         *)
(* Time is asynchronous: any alive or suspect record may have passed its   *)
(* timeout when a round looks at it.                                       *)
(***************************************************************************)
EXTENDS Naturals, FiniteSets

CONSTANTS
    Brokers,     \* brokers of the swarm
    Handlers,    \* concurrent request handlers, of any broker
    Seeds,       \* per broker, the brokers configured as its seeds
    Start,       \* stores at the start: empty, or with every broker known alive or dead
    MaxInc,      \* the largest incarnation (u64::MAX): additions saturate there
    MaxRounds,   \* bound: rounds started, 0 for no bound
    MaxCrashes,  \* bound: crashes of brokers
    MaxInFlight, \* bound: events in flight; one that does not fit is lost
    NoPeer       \* no record under a peer_id

Incarnations == 0 .. MaxInc
Statuses == {"alive", "suspect", "dead"}
Record == [status: Statuses, inc: Incarnations]

ASSUME MembershipAssumption ==
    /\ Handlers \cap Brokers = {}
    /\ Seeds \in [Brokers -> SUBSET Brokers]
    /\ \A b \in Brokers : b \notin Seeds[b]
    /\ Start \in {"empty", "alive", "dead"}
    /\ MaxInc \in Nat \ {0}
    /\ MaxRounds \in Nat
    /\ MaxCrashes \in Nat
    /\ MaxInFlight \in Nat
    /\ NoPeer \notin Record
    /\ NoPeer \notin Incarnations

VARIABLES
    peers,    \* [broker -> [peer_id -> record or NoPeer]]
    net,      \* SWIM events enqueued and not yet delivered
    task,     \* [broker -> its round], [handler -> its request]
    up,       \* the brokers that are running
    rounds,   \* rounds started, counted only under a bound
    crashes,  \* crashes so far
    issued,   \* history: the highest incarnation a broker has claimed
    accused   \* history: <<peer_id, incarnation>> some broker published as suspect

vars == <<peers, net, task, up, rounds, crashes, issued, accused>>

Workers == Brokers \cup Handlers

\* A peer_id: a broker's own id, or the endpoint a seed was configured with.
PeerIds == Brokers \X {"id", "endpoint"}
IdOf(b) == <<b, "id">>
EndpointOf(b) == <<b, "endpoint">>
RefersTo(id, b) == id[1] = b     \* same_local_peer, same_local_swim_peer

Event == [to: Brokers, kind: Statuses \cup {"mutation"}, id: PeerIds, peer: Record]

\* The incarnations of some of the records.
Listings == UNION {[ids -> Incarnations] : ids \in SUBSET PeerIds}

Idle == [pc |-> "idle"]
Tasks ==
    [pc: {"seeds"}, at: Brokers, todo: SUBSET Brokers]
    \cup [pc: {"placeholder"}, at: Brokers, todo: SUBSET Brokers, seed: Brokers, peer: Record]
    \cup [pc: {"announce"}, at: Brokers, accusation: Incarnations \cup {NoPeer}]
    \cup [pc: {"merge"}, at: Brokers, id: PeerIds, peer: Record, announce: BOOLEAN,
          accusation: Incarnations \cup {NoPeer}]
    \cup [pc: {"store"}, at: Brokers, id: PeerIds, peer: Record, announce: BOOLEAN,
          accusation: Incarnations \cup {NoPeer}, merged: Record]
    \cup [pc: {"expire", "list"}, at: Brokers]
    \cup [pc: {"sync"}, at: Brokers, listed: Listings]

-----------------------------------------------------------------------------
(* The merge rules.                                                        *)

Rank(status) == CASE status = "alive" -> 1
                  [] status = "suspect" -> 2
                  [] status = "dead" -> 3

Unsaturated(n) == n
Saturated(n) == IF n > MaxInc THEN MaxInc ELSE n
HigherOf(a, b) == IF a >= b THEN a ELSE b

\* incoming_membership_is_newer: its timestamp is the time of the merge, so equal
\* incarnation and status count as newer.
Supersedes(incoming, existing) ==
    \/ incoming.inc > existing.inc
    \/ incoming.inc = existing.inc /\ Rank(incoming.status) >= Rank(existing.status)

MergeRecords(existing, incoming) ==
    IF existing = NoPeer THEN incoming
    ELSE IF Supersedes(incoming, existing) THEN incoming ELSE existing

\* The incarnation a broker announces: one above its record, and above the
\* accusation it answers.
AnswerWithCurrent(own, accusation) ==
    IF own = NoPeer THEN 1
    ELSE IF accusation = NoPeer THEN Saturated(own.inc + 1)
    ELSE HigherOf(own.inc, accusation)
NextIncarnation(own, accusation) ==
    HigherOf(IF own = NoPeer THEN 1 ELSE Saturated(own.inc + 1),
             IF accusation = NoPeer THEN 0 ELSE Saturated(accusation + 1))

-----------------------------------------------------------------------------
(* Publishing and merging.                                                 *)

\* Enqueues any part of the events: an enqueue may fail, a stream entry may be
\* lost with its worker, a post is not retried.
Enqueue(events) ==
    \E sent \in SUBSET events :
        /\ Cardinality(net \cup sent) <= MaxInFlight
        /\ net' = net \cup sent

EventsOf(b, kind, id, peer) ==
    {[to |-> s, kind |-> kind, id |-> id, peer |-> peer] : s \in Seeds[b]}

Own(b) == peers[b][IdOf(b)]
Alive(inc) == [status |-> "alive", inc |-> inc]

\* merge_peer reads the record and decides what to keep.
ReadForMerge(w) ==
    /\ task[w].pc = "merge"
    /\ LET t == task[w]
           existing == peers[t.at][t.id]
       IN  task' = [task EXCEPT ![w] =
              [pc |-> "store", at |-> t.at, id |-> t.id, peer |-> t.peer,
               announce |-> t.announce, accusation |-> t.accusation,
               merged |-> MergeRecords(existing, t.peer)]]
    /\ UNCHANGED <<peers, net, up, rounds, crashes, issued, accused>>

\* merge_peer writes the record; an announcement then goes to the neighbours with
\* the incarnation that was computed, whatever the merge kept.
StoreMerged(w) ==
    /\ task[w].pc = "store"
    /\ LET t == task[w] IN
       /\ peers' = [peers EXCEPT ![t.at][t.id] = t.merged]
       /\ Enqueue(IF t.announce THEN EventsOf(t.at, "alive", t.id, t.peer) ELSE {})
       /\ task' = [task EXCEPT ![w] =
             IF w \in Brokers THEN [pc |-> "expire", at |-> t.at] ELSE Idle]
    /\ UNCHANGED <<up, rounds, crashes, issued, accused>>

\* upsert_local_peer reads the local record and picks the next incarnation.
Announce(w) ==
    /\ task[w].pc = "announce"
    /\ LET b == task[w].at
           inc == NextIncarnation(Own(b), task[w].accusation)
       IN  /\ task' = [task EXCEPT ![w] =
                 [pc |-> "merge", at |-> b, id |-> IdOf(b), peer |-> Alive(inc),
                  announce |-> TRUE, accusation |-> task[w].accusation]]
           /\ issued' = [issued EXCEPT ![b] = HigherOf(@, inc)]
    /\ UNCHANGED <<peers, net, up, rounds, crashes, accused>>

-----------------------------------------------------------------------------
(* The round of a broker's worker.                                         *)

StartRound(b) ==
    /\ up[b]
    /\ task[b] = Idle
    /\ MaxRounds = 0 \/ rounds < MaxRounds
    /\ rounds' = IF MaxRounds = 0 THEN 0 ELSE rounds + 1
    /\ task' = [task EXCEPT ![b] = [pc |-> "seeds", at |-> b, todo |-> Seeds[b]]]
    /\ UNCHANGED <<peers, net, up, crashes, issued, accused>>

\* sync_seed_peers reads the record of a seed's endpoint and writes it back, or
\* writes a placeholder if there is none.
PlaceholderFromOne == [status |-> "suspect", inc |-> 1]
Placeholder == [status |-> "suspect", inc |-> 0]

ReadSeed(b, s) ==
    /\ task[b].pc = "seeds"
    /\ s \in task[b].todo
    /\ LET existing == peers[b][EndpointOf(s)] IN
       task' = [task EXCEPT ![b] =
          [pc |-> "placeholder", at |-> b, todo |-> task[b].todo \ {s}, seed |-> s,
           peer |-> IF existing = NoPeer THEN Placeholder ELSE existing]]
    /\ UNCHANGED <<peers, net, up, rounds, crashes, issued, accused>>

WriteSeed(b) ==
    /\ task[b].pc = "placeholder"
    /\ peers' = [peers EXCEPT ![b][EndpointOf(task[b].seed)] = task[b].peer]
    /\ task' = [task EXCEPT ![b] = [pc |-> "seeds", at |-> b, todo |-> task[b].todo]]
    /\ UNCHANGED <<net, up, rounds, crashes, issued, accused>>

SeedsDone(b) ==
    /\ task[b].pc = "seeds"
    /\ task[b].todo = {}
    /\ task' = [task EXCEPT ![b] = [pc |-> "announce", at |-> b, accusation |-> NoPeer]]
    /\ UNCHANGED <<peers, net, up, rounds, crashes, issued, accused>>

\* What expire_peer_membership publishes about a record past its timeout.
DeadAtOnce(record) == IF record.status = "dead" THEN "none" ELSE "dead"
Expiry(record) ==
    CASE record.status = "alive" -> "suspect"
      [] record.status = "suspect" -> "dead"
      [] OTHER -> "none"

RemoteIds(b) == {id \in PeerIds : peers[b][id] # NoPeer /\ ~RefersTo(id, b)}

\* The records past their timeout are only published; the store keeps them as
\* they were.
Expire(b, overdue) ==
    /\ task[b].pc = "expire"
    /\ LET told(id) == Expiry(peers[b][id])
           about(id) == EventsOf(b, told(id), id, [peers[b][id] EXCEPT !.status = told(id)])
           published == {id \in overdue : told(id) # "none"}
       IN  /\ Enqueue(UNION {about(id) : id \in published})
           /\ accused' = accused \cup
                 {<<id, peers[b][id].inc>> : id \in {i \in published : told(i) = "suspect"}}
    /\ task' = [task EXCEPT ![b] = [pc |-> "list", at |-> b]]
    /\ UNCHANGED <<peers, up, rounds, crashes, issued>>

\* The records a round pulls from: all listed ones but the local one, of any status.
LivingIds(b) == {id \in RemoteIds(b) : peers[b][id].status # "dead"}
PulledIds(b) == RemoteIds(b)

ListPeers(b) ==
    /\ task[b].pc = "list"
    /\ task' = [task EXCEPT ![b] =
          [pc |-> "sync", at |-> b,
           listed |-> [id \in PulledIds(b) |-> peers[b][id].inc]]]
    /\ UNCHANGED <<peers, net, up, rounds, crashes, issued, accused>>

\* The listed records still to be pulled from, of which only the incarnation lasts.
Listed(b) == DOMAIN task[b].listed
Unlist(b, id) == [task EXCEPT ![b].listed = [i \in DOMAIN @ \ {id} |-> @[i]]]

\* A pull that succeeds writes the record as it was listed, marked alive.
SyncPeer(b, id) ==
    /\ task[b].pc = "sync"
    /\ id \in Listed(b)
    /\ up[id[1]]
    /\ peers' = [peers EXCEPT ![b][id] = Alive(task[b].listed[id])]
    /\ task' = Unlist(b, id)
    /\ UNCHANGED <<net, up, rounds, crashes, issued, accused>>

\* A pull that fails is logged and leaves the record alone.
SyncFails(b, id) ==
    /\ task[b].pc = "sync"
    /\ id \in Listed(b)
    /\ task' = Unlist(b, id)
    /\ UNCHANGED <<peers, net, up, rounds, crashes, issued, accused>>

EndRound(b) ==
    /\ task[b].pc = "sync"
    /\ Listed(b) = {}
    /\ task' = [task EXCEPT ![b] = Idle]
    /\ UNCHANGED <<peers, net, up, rounds, crashes, issued, accused>>

-----------------------------------------------------------------------------
(* Handlers.                                                               *)

\* apply_swim_event: a suspicion or death of the local broker is answered with a
\* new announcement and not recorded; everything else is merged.
NeverRefutes(event) == FALSE
Refutes(event) ==
    event.kind \notin {"mutation", "alive"} /\ RefersTo(event.id, event.to)

Deliver(event, h) ==
    /\ up[event.to]
    /\ task[h] = Idle
    /\ net' = net \ {event}
    /\ task' = [task EXCEPT ![h] =
          IF Refutes(event)
          THEN [pc |-> "announce", at |-> event.to, accusation |-> event.peer.inc]
          ELSE [pc |-> "merge", at |-> event.to, id |-> event.id, peer |-> event.peer,
                announce |-> FALSE, accusation |-> NoPeer]]
    /\ UNCHANGED <<peers, up, rounds, crashes, issued, accused>>

\* publish_swarm_mutation sends the local record along with a mutation; without
\* one it first stores and then sends incarnation 1.
PublishMutation(b, h) ==
    /\ up[b]
    /\ task[h] = Idle
    /\ IF Own(b) # NoPeer
       THEN /\ Enqueue(EventsOf(b, "mutation", IdOf(b), Own(b)))
            /\ UNCHANGED <<task, issued>>
       ELSE /\ task' = [task EXCEPT ![h] =
                  [pc |-> "merge", at |-> b, id |-> IdOf(b), peer |-> Alive(1),
                   announce |-> TRUE, accusation |-> NoPeer]]
            /\ issued' = [issued EXCEPT ![b] = HigherOf(@, 1)]
            /\ UNCHANGED net
    /\ UNCHANGED <<peers, up, rounds, crashes, accused>>

\* A crash ends everything the broker was doing; its store survives.
Crash(b) ==
    /\ up[b]
    /\ crashes < MaxCrashes
    /\ crashes' = crashes + 1
    /\ up' = [up EXCEPT ![b] = FALSE]
    /\ task' = [w \in Workers |->
          IF task[w] # Idle /\ task[w].at = b THEN Idle ELSE task[w]]
    /\ UNCHANGED <<peers, net, rounds, issued, accused>>

Restart(b) ==
    /\ ~up[b]
    /\ up' = [up EXCEPT ![b] = TRUE]
    /\ UNCHANGED <<peers, net, task, rounds, crashes, issued, accused>>

-----------------------------------------------------------------------------

\* An empty store, or what a first announcement of every broker leaves: its own
\* record, the announcements of those that have it as seed, its placeholders.
\* With "dead", the announced brokers have since been suspected and declared dead.
InitialRecord(b, id) ==
    IF Start = "empty" THEN NoPeer
    ELSE IF id = IdOf(b) THEN Alive(1)
    ELSE IF \E p \in Brokers : b \in Seeds[p] /\ id = IdOf(p)
         THEN [status |-> Start, inc |-> 1]
    ELSE IF \E s \in Seeds[b] : id = EndpointOf(s)
         THEN Placeholder
    ELSE NoPeer

Init ==
    /\ peers = [b \in Brokers |-> [id \in PeerIds |-> InitialRecord(b, id)]]
    /\ net = {}
    /\ task = [w \in Workers |-> Idle]
    /\ up = [b \in Brokers |-> TRUE]
    /\ rounds = 0
    /\ crashes = 0
    /\ issued = [b \in Brokers |-> IF Start = "empty" THEN 0 ELSE 1]
    /\ accused = IF Start = "dead" THEN PeerIds \X {1} ELSE {}

\* The steps of a worker that do not depend on another broker.
Proceed(w) ==
    \/ Announce(w)
    \/ ReadForMerge(w)
    \/ StoreMerged(w)

Round(b) ==
    \/ StartRound(b)
    \/ \E s \in Seeds[b] : ReadSeed(b, s)
    \/ WriteSeed(b)
    \/ SeedsDone(b)
    \/ \E overdue \in SUBSET RemoteIds(b) : Expire(b, overdue)
    \/ ListPeers(b)
    \/ \E id \in PeerIds : SyncFails(b, id)
    \/ EndRound(b)

Next ==
    \/ \E w \in Workers : Proceed(w)
    \/ \E b \in Brokers : Round(b) \/ Crash(b) \/ Restart(b)
    \/ \E b \in Brokers, id \in PeerIds : SyncPeer(b, id)
    \/ \E h \in Handlers :
          \/ \E event \in net : Deliver(event, h)
          \/ \E b \in Brokers : PublishMutation(b, h)

Spec == Init /\ [][Next]_vars

\* A round in which every record of a broker that is down is past its timeout.
ExpireDown(b) ==
    \E overdue \in SUBSET RemoteIds(b) :
        /\ {id \in RemoteIds(b) : ~up[id[1]]} \subseteq overdue
        /\ Expire(b, overdue)

\* The worker loops for ever and each of its awaits returns; a pull from a broker
\* that keeps running succeeds again and again; a record whose broker stays down
\* is past its timeout in some later round.
Fairness ==
    /\ \A w \in Workers : WF_vars(Proceed(w))
    /\ \A b \in Brokers : WF_vars(Round(b)) /\ SF_vars(ExpireDown(b))
    /\ \A b \in Brokers : \A p \in Brokers \ {b} :
          SF_vars(SyncPeer(b, IdOf(p))) /\ SF_vars(SyncPeer(b, EndpointOf(p)))

FairSpec == Spec /\ Fairness

-----------------------------------------------------------------------------
(* Properties.                                                             *)

TypeOK ==
    /\ peers \in [Brokers -> [PeerIds -> Record \cup {NoPeer}]]
    /\ net \subseteq Event
    /\ task \in [Workers -> Tasks \cup {Idle}]
    /\ up \in [Brokers -> BOOLEAN]
    /\ rounds \in 0 .. MaxRounds
    /\ crashes \in 0 .. MaxCrashes
    /\ issued \in [Brokers -> Incarnations]
    /\ accused \subseteq PeerIds \X Incarnations

\* No store holds an incarnation of a broker that the broker did not claim itself:
\* suspicions, deaths and pulls carry incarnations on, they never raise them.
NoInventedIncarnation ==
    \A b \in Brokers, id \in PeerIds :
        peers[b][id] # NoPeer => peers[b][id].inc <= issued[id[1]]

\* A broker's own record says alive, whatever it was accused of meanwhile:
\* accusations of itself are answered and not merged.
OwnRecordAlive ==
    \A b \in Brokers : Own(b) # NoPeer => Own(b).status = "alive"

\* The announcement that answers an accusation has a higher incarnation, so the
\* merge rule lets it replace the accusation everywhere (unless u64 is used up).
RefutationOutranksAccusation ==
    \A w \in Workers :
        /\ task[w].pc \in {"merge", "store"}
        /\ task[w].accusation # NoPeer
        /\ task[w].accusation < MaxInc
        => task[w].peer.inc > task[w].accusation

\* A broker is held for dead only at an incarnation at which some broker first
\* published a suspicion, so there was something it could refute.
DeadOnlyAfterSuspected ==
    \A b \in Brokers, p \in Brokers :
        LET record == peers[b][IdOf(p)] IN
        record # NoPeer /\ record.status = "dead" => <<IdOf(p), record.inc>> \in accused

KnownAs(b, id, status) == peers[b][id] # NoPeer /\ peers[b][id].status = status

\* A record of a running broker that says suspect or dead becomes alive again: the
\* rounds go on pulling from peers of any status.
RunningPeerRecovers ==
    \A b \in Brokers, id \in PeerIds :
        (~RefersTo(id, b) /\ (KnownAs(b, id, "suspect") \/ KnownAs(b, id, "dead")))
            ~> KnownAs(b, id, "alive")

=============================================================================
