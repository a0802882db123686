-------------------------------- MODULE QueryService --------------------------------
(***************************************************************************)
(* The handlers that read many entities: a query, a retrieval, discovery,  *)
(* and the loop that matches an event against the subscriptions.  Each     *)
(* reads the store more than once and fetches the JSON-LD contexts of what *)
(* it looks at in between, while writers change the store.                 *)
(***************************************************************************)
EXTENDS EntityQuery

CONSTANTS
    Requests,  \* [kind, ...]: what a client asks, or an entity and its event
    Stores,    \* initial stores
    Web,       \* [URL -> the JSON document there]
    Written,   \* entities that concurrent writers may store
    Contexts,  \* every JSON value that a context is or holds
    MaxWrites, \* bound: concurrent writes
    MaxFaults, \* bound: failed fetches and enqueues
    None       \* no answer yet

\* What links an entry of a context to others: a URL to the document there, an array
\* to its items, an object to the context nested in it.
Onward(v) == Items(v) \cup get(v, "@context") \cup {Web[url] : url \in Texts({v}) \cap DOMAIN Web}

Notified == {r \in Requests : r.kind = "notify"}
Entities == (UNION Stores) \cup Written \cup {r.entity : r \in Notified}
Optional(values) == \A v, w \in values : v = w

\* The members of an entity that validate_entity (services/common.rs) looks at: its id
\* is a URI, and its type may be any text or array.
ASSUME EntityAssumption ==
    /\ \A e \in Entities :
         /\ e = Object([name \in DOMAIN e.m |-> e.m[name]])
         /\ get(e, "id") # {} /\ Id(e) # ""
         /\ \A t \in get(e, "type") : t.k = "array" => t.items \in Seq(ToSet(t.items))
         /\ get(e, "@context") \subseteq Contexts
    /\ \A s \in Stores : IsFiniteSet(s) /\ \A e, f \in s : Id(e) = Id(f) => e = f

ASSUME ContextAssumption ==
    \A v \in Contexts :
        /\ Onward(v) \subseteq Contexts
        /\ v.k = "array" => v.items \in Seq(Contexts)

\* Parameters and members are there or not.  A tenant's subscriptions have ids of
\* their own.
ASSUME RequestAssumption ==
    /\ \A r \in Requests : r.kind \in {"query", "retrieve", "discover", "notify"}
    /\ \A r \in Requests : r.kind = "query" =>
         /\ Optional(r.query.id) /\ Optional(r.query.limit) /\ r.query.limit \subseteq Nat
         /\ Optional(r.link) /\ r.link \subseteq Contexts
    /\ \A r \in Notified :
         /\ r.event.kind \in {"Created", "Updated", "Deleted"}
         /\ r.subscriptions \in Seq(ToSet(r.subscriptions))
         /\ \A i, j \in DOMAIN r.subscriptions :
              r.subscriptions[i].id = r.subscriptions[j].id => i = j
         /\ \A s \in ToSet(r.subscriptions) :
              /\ DOMAIN s = {"id", "is_active", "entities", "q", "scope_q", "watched", "triggers",
                             "endpoint", "accept", "format", "jsonld_context", "at_context",
                             "expand_values", "json_keys"}
              /\ Optional(s.entities) /\ \A selectors \in s.entities : \A selector \in selectors :
                   Optional(selector.id) /\ Optional(selector.type)
              /\ \A contexts \in {s.jsonld_context, s.at_context} :
                   Optional(contexts) /\ contexts \subseteq Contexts
              /\ Optional(s.accept) /\ Optional(s.format) /\ s.endpoint \in BOOLEAN

ASSUME BoundAssumption == MaxWrites \in Nat /\ MaxFaults \in Nat

VARIABLES
    store,   \* the entities, one per id
    request,
    pc,      \* the handler's next step
    todo,    \* entities, or subscriptions, it has not looked at
    linked,  \* [id -> entity] for linked entities
    context, \* the resolution of one context: [queue, visited, terms]
    matched, \* those that matched, in order
    answer,
    writes,  \* concurrent writes so far
    faults   \* failed fetches and enqueues so far

vars == <<store, request, pc, todo, linked, context, matched, answer, writes, faults>>

Ids == {Id(e) : e \in (UNION Stores) \cup Written}
ById(entities) == [id \in {Id(e) : e \in entities} |-> CHOOSE e \in entities : Id(e) = id]
\* f, and g where f says nothing.
Over(f, g) == [x \in DOMAIN f \cup DOMAIN g |-> IF x \in DOMAIN f THEN f[x] ELSE g[x]]
Fresh == [queue |-> <<>>, visited |-> {}, terms |-> <<>>]
Notifies == request.kind = "notify"

End(status, body) ==
    /\ pc' = "end"
    /\ answer' = [status |-> status, body |-> body]
Fail(error) == End(IF error = NotImplemented THEN 501 ELSE 400, {}) /\ matched' = <<>>

-----------------------------------------------------------------------------
(* The start of each handler.                                              *)

\* The filter of a plan, or what is wrong with the plan.
FilterOf(plan) == IF plan = BadRequest THEN {BadRequest} ELSE to_bson_filter(plan)

Refuse ==
    /\ pc = "start"
    /\ request.kind = "query"
    /\ \E error \in FilterOf(from_entity_query(request.query)) \cap Errors : Fail(error)
    /\ UNCHANGED <<store, request, todo, linked, context, writes, faults>>

\* find gives the entities in any order, and with a limit any that many of them.
Limited(n, limit) == IF limit \in {{}, {0}} THEN n ELSE Min({n} \cup limit)
Orders(entities, n) ==
    {s \in [1 .. n -> entities] : \A i, j \in 1 .. n : s[i] = s[j] => i = j}
Find ==
    /\ pc = "start"
    /\ request.kind = "query"
    /\ \E plan \in {from_entity_query(request.query)} :
         /\ FilterOf(plan) \cap Errors = {}
         /\ LET selected == {e \in store : SelectedBy(FilterOf(plan), e)}
                n == Limited(Cardinality(selected), plan.limit)
            IN \E found \in Orders(selected, n) : todo' = found
    /\ pc' = "graph"
    /\ UNCHANGED <<store, request, linked, context, matched, answer, writes, faults>>

\* enqueue_notifications lists the subscriptions of the tenant.
ListSubscriptions ==
    /\ pc = "start"
    /\ Notifies
    /\ todo' = request.subscriptions
    /\ pc' = "graph"
    /\ UNCHANGED <<store, request, linked, context, matched, answer, writes, faults>>

\* A linked entity is looked up in a second reading of the store, then in the first.
LoadLinked ==
    /\ pc = "graph"
    /\ LET own == IF Notifies THEN {request.entity} ELSE ToSet(todo)
           queries == IF Notifies THEN {todo[i].q : i \in DOMAIN todo} ELSE {request.query.q}
       IN linked' = IF \E q \in queries : query_needs_linked_graph(q)
                    THEN Over(ById(store), ById(own)) ELSE <<>>
    /\ pc' = "next"
    /\ UNCHANGED <<store, request, todo, context, matched, answer, writes, faults>>

Retrieve ==
    /\ pc = "start"
    /\ request.kind = "retrieve"
    /\ LET found == {e \in store : /\ Id(e) = request.id
                                   /\ \A t \in request.type : entity_type_matches(e, t)}
           r == representation_from_request(request.query)
       IN IF found = {} THEN End(404, {})
          ELSE End(200, {project_entity(e, request.query, r) : e \in found})
    /\ UNCHANGED <<store, request, todo, linked, context, matched, writes, faults>>

Discover ==
    /\ pc = "start"
    /\ request.kind = "discover"
    /\ End(200, build_discovery(store))
    /\ UNCHANGED <<store, request, todo, linked, context, matched, writes, faults>>

-----------------------------------------------------------------------------
(* Resolving the context of one entity or subscription.                    *)

OrElse(option, other) == IF option # {} THEN option ELSE other

\* For a subscription the first of three.
SubscriptionContexts(s) ==
    SetToSeq(OrElse(s.jsonld_context, OrElse(s.at_context, get(request.entity, "@context"))))

\* For an entity its own and then that of the request's Link header.
StartContexts ==
    IF Notifies THEN SubscriptionContexts(Head(todo))
    ELSE SetToSeq(get(Head(todo), "@context")) \o SetToSeq(request.link)

BeginResolve ==
    /\ pc = "next"
    /\ todo # <<>>
    /\ context' = [Fresh EXCEPT !.queue = StartContexts]
    /\ pc' = "resolve"
    /\ UNCHANGED <<store, request, todo, linked, matched, answer, writes, faults>>

term_definition_uri(v) == Texts({v} \cup get(v, "@id"))

\* Mutant: the contexts nested in a context are dropped.
PoppedShallow(entry) ==
    [queue |-> Tail(context.queue)
               \o (CASE entry.k = "string" ->
                          IF entry.s \in DOMAIN Web \ context.visited THEN <<Web[entry.s]>> ELSE <<>>
                     [] entry.k = "array" -> entry.items
                     [] OTHER -> <<>>),
     visited |-> context.visited \cup Texts({entry}),
     terms |-> IF entry.k # "object" THEN context.terms
               ELSE LET terms == {t \in DOMAIN entry.m \ {"@context"} :
                                    term_definition_uri(entry.m[t]) # {}}
                    IN Over([t \in terms |-> CHOOSE u \in term_definition_uri(entry.m[t]) : TRUE],
                            context.terms)]

\* Mutant: a document fetched before is fetched again.
PoppedAgain(entry) ==
    [queue |-> Tail(context.queue)
               \o (CASE entry.k = "string" ->
                          IF entry.s \in DOMAIN Web THEN <<Web[entry.s]>> ELSE <<>>
                     [] entry.k = "array" -> entry.items
                     [] OTHER -> SetToSeq(get(entry, "@context"))),
     visited |-> context.visited \cup Texts({entry}),
     terms |-> IF entry.k # "object" THEN context.terms
               ELSE LET terms == {t \in DOMAIN entry.m \ {"@context"} :
                                    term_definition_uri(entry.m[t]) # {}}
                    IN Over([t \in terms |-> CHOOSE u \in term_definition_uri(entry.m[t]) : TRUE],
                            context.terms)]

\* What an entry of the queue adds to it and to the terms: a URL its document, an
\* array its items, an object its own terms and the context nested in it.
Popped(entry) ==
    [queue |-> Tail(context.queue)
               \o (CASE entry.k = "string" ->
                          IF entry.s \in DOMAIN Web \ context.visited THEN <<Web[entry.s]>> ELSE <<>>
                     [] entry.k = "array" -> entry.items
                     [] OTHER -> SetToSeq(get(entry, "@context"))),
     visited |-> context.visited \cup Texts({entry}),
     terms |-> IF entry.k # "object" THEN context.terms
               ELSE LET terms == {t \in DOMAIN entry.m \ {"@context"} :
                                    term_definition_uri(entry.m[t]) # {}}
                    IN Over([t \in terms |-> CHOOSE u \in term_definition_uri(entry.m[t]) : TRUE],
                            context.terms)]

Resolve ==
    /\ pc = "resolve"
    /\ context.queue # <<>>
    /\ context' = Popped(Head(context.queue))
    /\ UNCHANGED <<store, request, pc, todo, linked, matched, answer, writes, faults>>

\* A URL that does not answer with a document fails the whole request.
FetchFails ==
    /\ pc = "resolve"
    /\ context.queue # <<>>
    /\ \E url \in Texts({Head(context.queue)}) : url \in DOMAIN Web \ context.visited
    /\ faults < MaxFaults
    /\ faults' = faults + 1
    /\ IF Notifies THEN End(400, {}) /\ UNCHANGED matched ELSE Fail(BadRequest)
    /\ UNCHANGED <<store, request, todo, linked, context, writes>>

-----------------------------------------------------------------------------
(* Matching.                                                               *)

Options(source) == match_options(source, context.terms, linked)

MatchEntity ==
    /\ pc = "resolve"
    /\ ~Notifies
    /\ context.queue = <<>>
    /\ matched' = IF entity_matches_query(Head(todo), request.query, Options(request.query))
                  THEN Append(matched, Head(todo)) ELSE matched
    /\ todo' = Tail(todo)
    /\ pc' = "next"
    /\ UNCHANGED <<store, request, linked, context, answer, writes, faults>>

\* A subscription that matches and has an endpoint gets a message in the queue.
Due(s) ==
    /\ subscription_matches_event(s, request.entity, request.event, Options(s))
    /\ s.endpoint
Enqueued == Append(matched, build_notification_payload(Head(todo), request.entity))

\* Mutant: the first subscription that gets no message ends the loop.
MatchSubscriptionOrStop ==
    /\ pc = "resolve"
    /\ Notifies
    /\ context.queue = <<>>
    /\ IF Due(Head(todo)) THEN matched' = Enqueued /\ todo' = Tail(todo)
       ELSE matched' = matched /\ todo' = <<>>
    /\ pc' = "next"
    /\ UNCHANGED <<store, request, linked, context, answer, writes, faults>>

MatchSubscription ==
    /\ pc = "resolve"
    /\ Notifies
    /\ context.queue = <<>>
    /\ matched' = IF Due(Head(todo)) THEN Enqueued ELSE matched
    /\ todo' = Tail(todo)
    /\ pc' = "next"
    /\ UNCHANGED <<store, request, linked, context, answer, writes, faults>>

\* An enqueue that fails ends the loop.  The message is in the queue for all that if
\* only the answer of the queue was lost.
EnqueueFails ==
    /\ pc = "resolve"
    /\ Notifies
    /\ context.queue = <<>>
    /\ faults < MaxFaults
    /\ faults' = faults + 1
    /\ matched' \in IF Due(Head(todo)) THEN {matched, Enqueued} ELSE {}
    /\ End(500, {})
    /\ UNCHANGED <<store, request, todo, linked, context, writes>>

AnswerQuery ==
    /\ pc = "next"
    /\ ~Notifies
    /\ todo = <<>>
    /\ LET n == Min({Len(matched)} \cup request.query.limit)
           r == representation_from_request(request.query)
       IN End(200, {project_entity(matched[i], request.query, r) : i \in 1 .. n})
    /\ UNCHANGED <<store, request, todo, linked, context, matched, writes, faults>>

EndNotify ==
    /\ pc = "next"
    /\ Notifies
    /\ todo = <<>>
    /\ End(200, {})
    /\ UNCHANGED <<store, request, todo, linked, context, matched, writes, faults>>

-----------------------------------------------------------------------------

\* Another handler stores or deletes an entity.
Write ==
    /\ pc # "end"
    /\ writes < MaxWrites
    /\ writes' = writes + 1
    /\ \/ \E e \in Written : store' = {f \in store : Id(f) # Id(e)} \cup {e}
       \/ \E e \in store : store' = store \ {e}
    /\ UNCHANGED <<request, pc, todo, linked, context, matched, answer, faults>>

Init ==
    /\ store \in Stores
    /\ request \in Requests
    /\ pc = "start"
    /\ todo = <<>>
    /\ linked = <<>>
    /\ context = Fresh
    /\ matched = <<>>
    /\ answer = None
    /\ writes = 0
    /\ faults = 0

Handle ==
    \/ Refuse
    \/ Find
    \/ ListSubscriptions
    \/ LoadLinked
    \/ Retrieve
    \/ Discover
    \/ BeginResolve
    \/ Resolve
    \/ FetchFails
    \/ MatchEntity
    \/ MatchSubscription
    \/ EnqueueFails
    \/ AnswerQuery
    \/ EndNotify

\* An answered request: nothing is left to do, and being stuck before is a deadlock.
Idle == pc = "end" /\ UNCHANGED vars

Next == Handle \/ Write \/ Idle

\* A handler runs as a task whose calls all return, MongoDB's with an answer or an
\* error, a fetch's within the outbound timeout: until it has answered, which it can
\* always go on to do (TLC looks for deadlocks), it takes steps that are not a
\* writer's.  (This is weak fairness of Handle, written without ENABLED.)
HandlerRuns == <>[](pc = "end") \/ []<><<UNCHANGED writes>>_vars
Spec == Init /\ [][Next]_vars /\ HandlerRuns
-----------------------------------------------------------------------------
(* Properties.                                                             *)

\* The terms a resolution may leave: each term that is defined where the context leads,
\* through references, arrays and nested contexts, with one of its definitions.
Closed == {vs \in SUBSET Contexts : \A v \in vs : Onward(v) \subseteq vs}
Reached(contexts) == {v \in Contexts : \A vs \in Closed : contexts \subseteq vs => v \in vs}
DefinedTerms(entries) ==
    UNION {UNION {{t} \X term_definition_uri(v.m[t]) : t \in DOMAIN v.m \ {"@context"}} :
           v \in {w \in entries : w.k = "object"}}
TermsOf(contexts) ==
    LET defined == DefinedTerms(Reached(contexts))
    IN {terms \in [{d[1] : d \in defined} -> {d[2] : d \in defined}] :
          \A t \in DOMAIN terms : <<t, terms[t]>> \in defined}

\* A filter that names no linked entity is matched without any as it is with them.
Sources(r) == IF r.kind = "notify" THEN ToSet(r.subscriptions) ELSE {r.query}
AllTerms == UNION {TermsOf(contexts) : contexts \in SUBSET Contexts}
AllLinks == {ById(entities) : entities \in SUBSET Entities}
ASSUME LinkAssumption ==
    \A r \in Requests : \A source \in Sources(r) :
        query_needs_linked_graph(source.q) \/
        \A e \in Entities, terms \in AllTerms, links \in AllLinks :
            query_matches_value(e, source.q, match_options(source, terms, links))
              <=> query_matches_value(e, source.q, match_options(source, terms, <<>>))

\* The terms of a resolved context are those of the documents that can be reached
\* from it, also when documents refer to each other.
TermsAreThoseReached ==
    pc = "resolve" /\ context.queue = <<>> => context.terms \in TermsOf(ToSet(StartContexts))

\* The entities of the store that a query asks for, under the terms that their contexts
\* may leave and with the whole store for links: those it certainly asks for, and those
\* it may ask for where definitions of a term differ.
Selected == {e \in store : SelectedBy(FilterOf(from_entity_query(request.query)), e)}
Asks(e, terms) ==
    entity_matches_query(e, request.query, match_options(request.query, terms, ById(store)))
TermsFor(e) == TermsOf(get(e, "@context") \cup request.link)
Certain == {e \in Selected : \A terms \in TermsFor(e) : Asks(e, terms)}
Possible == {e \in Selected : \E terms \in TermsFor(e) : Asks(e, terms)}

\* A query that no write crossed answers with entities that match it, each once, and
\* with all of them unless its limit is smaller: MongoDB applies the limit before the q
\* and scopeQ filters only if there are none.
Limiting(n) == Min({n} \cup request.query.limit)
AnswerIsExact ==
    request.kind = "query" /\ pc = "end" /\ answer.status = 200 /\ writes = 0 =>
        /\ ToSet(matched) \subseteq Possible
        /\ Len(matched) = Cardinality(ToSet(matched))
        /\ Limiting(Len(matched))
             \in Limiting(Cardinality(Certain)) .. Limiting(Cardinality(Possible))

\* A query without parameters.
EveryEntity ==
    [id |-> {}, entity_type |-> {}, id_pattern |-> {}, attrs |-> {}, pick |-> {}, omit |-> {},
     q |-> {}, scope_q |-> {}, limit |-> {},
     geo |-> [geometry |-> {}, georel |-> {}, coordinates |-> {}, geoproperty |-> {}],
     expand_values |-> {}, json_keys |-> {}, accept |-> {}, format |-> {}, options |-> {}]

\* Discovery and queries agree: a query by a listed type finds at least the entities
\* counted for it, one for a listed attribute just those counted and those without a
\* type, which discovery leaves out.  (A query cannot ask for an empty name.)
Asking(query) == {e \in store : entity_matches_query(e, query, match_options(query, <<>>, <<>>))}
DiscoveryAgreesWithQueries ==
    request.kind = "discover" /\ pc = "end" /\ writes = 0 =>
        LET found == answer.body
            OfThe(type) == Asking([EveryEntity EXCEPT !.entity_type = {<<type>>}])
            With(attr) == Asking([EveryEntity EXCEPT !.attrs = {<<attr>>}])
        IN /\ \A t \in DOMAIN found.by_type \ {""} :
                found.by_type[t].count <= Cardinality(OfThe(t))
           /\ \A attr \in DOMAIN found.by_attribute \ {""} :
                found.by_attribute[attr].count = Cardinality(Discovered(With(attr)))
           /\ DOMAIN found.by_attribute
                = UNION {DOMAIN found.by_type[t].attributes : t \in DOMAIN found.by_type}

\* A subscription selects the entities that a query with the same parameters finds
\* (the two are written apart), and represents them as that query does, but for the
\* format "simplified", which is keyValues only to queries.  (A query cannot ask for an
\* empty name.)
SameQuery(s, selector) ==
    LET one(values) == {<<v>> : v \in values} IN
    [EveryEntity EXCEPT !.id = one(selector.id), !.entity_type = one(selector.type),
                        !.id_pattern = selector.id_pattern, !.q = s.q, !.scope_q = s.scope_q,
                        !.accept = s.accept, !.format = s.format]
SubscriptionsSelectLikeQueries ==
    Notifies => \A i \in DOMAIN request.subscriptions :
        LET every == [request.subscriptions[i] EXCEPT !.is_active = TRUE, !.watched = {},
                         !.triggers = {event_triggers(request.event)}]
            options == match_options(every, context.terms, ById(store))
        IN \A selectors \in every.entities, e \in store :
             LET queries == {SameQuery(every, selector) : selector \in selectors} IN
             (\A selector \in selectors : "" \notin selector.type) =>
             /\ subscription_matches_event(every, e, request.event, options)
                  <=> \E q \in queries : entity_matches_query(e, q, options)
             /\ \A q \in queries : every.format # {"simplified"} =>
                  build_notification_payload(every, e).data
                    = project_entity(e, q, representation_from_request(q))

\* Every subscription that matches is sent one notification.  If a context cannot be
\* fetched, or a message not enqueued, those behind it in the list are sent none; the
\* one whose message failed may have been sent it.
Concerned(s, terms) ==
    subscription_matches_event(s, request.entity, request.event,
        match_options(s, terms, Over(ById(store), ById({request.entity}))))
Sent(s) == Cardinality({i \in DOMAIN matched : matched[i].subscription = s.id})
NotifiedOnceOrBehindFailure ==
    Notifies /\ pc = "end" /\ writes = 0 =>
        LET looked == Len(request.subscriptions) - Len(todo) IN
        /\ answer.status = 200 => todo = <<>>
        /\ \A i \in DOMAIN request.subscriptions :
             LET s == request.subscriptions[i] IN
             \E terms \in TermsOf(ToSet(SubscriptionContexts(s))) :
                LET due == IF s.endpoint /\ Concerned(s, terms) THEN 1 ELSE 0 IN
                \/ i <= looked /\ Sent(s) = due
                \/ i > looked /\ Sent(s) = 0
                \/ i = looked + 1 /\ answer.status = 500 /\ Sent(s) = due
\* Every request is answered, also one whose contexts refer to each other.
Answered == <>(answer # None)
=============================================================================
