----------------------------- MODULE QueryService_proofs -----------------------------
(***************************************************************************)
(* What is proved about the handlers that read many entities, for any      *)
(* filter languages, stores, requests and documents of the web.            *)
(***************************************************************************)
EXTENDS QueryService, FiniteSetTheorems, SequenceTheorems, TLAPS

-----------------------------------------------------------------------------
(* Sequences of sets.                                                      *)

\* A sequence made of an optional value holds that value.
LEMMA OptionalAsSequence ==
    ASSUME NEW S, Optional(S)
    PROVE  SetToSeq(S) \in Seq(S) /\ ToSet(SetToSeq(S)) = S
<1>1. CASE S = {}
  <2>1. Cardinality(S) = 0
    BY <1>1, FS_EmptySet
  <2>2. <<>> \in [1 .. Cardinality(S) -> S] /\ IsInjective(<<>>)
    BY <2>1 DEF IsInjective
  <2>3. SetToSeq(S) \in [1 .. Cardinality(S) -> S]
    BY <2>2 DEF SetToSeq
  <2>. QED  BY <1>1, <2>1, <2>3 DEF ToSet
<1>2. CASE S # {}
  <2>1. PICK x : S = {x}
    BY <1>2 DEF Optional
  <2>2. Cardinality(S) = 1
    BY <2>1, FS_Singleton
  <2>3. <<x>> \in [1 .. Cardinality(S) -> S] /\ IsInjective(<<x>>)
    BY <2>1, <2>2 DEF IsInjective
  <2>4. SetToSeq(S) \in [1 .. Cardinality(S) -> S]
    BY <2>3 DEF SetToSeq
  <2>5. ASSUME NEW f \in [1 .. 1 -> {x}]
        PROVE  f \in Seq({x}) /\ DOMAIN f = 1 .. 1 /\ f[1] = x
    <3>1. \A i \in 1 .. 1 : f[i] \in {x}
      OBVIOUS
    <3>2. f \in [1 .. 1 -> {x}] /\ 1 \in Nat /\ DOMAIN f = 1 .. 1 /\ 1 \in 1 .. 1
      OBVIOUS
    <3>. QED  BY <3>1, <3>2, SeqDef
  <2>6. SetToSeq(S) \in Seq(S) /\ DOMAIN SetToSeq(S) = 1 .. 1 /\ SetToSeq(S)[1] = x
    BY <2>1, <2>2, <2>4, <2>5
  <2>7. ToSet(SetToSeq(S)) = {SetToSeq(S)[i] : i \in {1}}
    BY <2>6 DEF ToSet
  <2>. QED  BY <2>1, <2>6, <2>7
<1>. QED  BY <1>1, <1>2

LEMMA MemberIsOptional == \A v, name : Optional(get(v, name))
BY DEF get, Optional

LEMMA ConcatenationHolds ==
    ASSUME NEW S, NEW s \in Seq(S), NEW t \in Seq(S)
    PROVE  s \o t \in Seq(S) /\ ToSet(s \o t) = ToSet(s) \cup ToSet(t)
<1>1. s \o t \in Seq(S) /\ Len(s \o t) = Len(s) + Len(t)
  OBVIOUS
<1>2. \A i \in 1 .. Len(s) : (s \o t)[i] = s[i]
  OBVIOUS
<1>3. \A i \in 1 .. Len(t) : Len(s) + i \in 1 .. Len(s \o t) /\ (s \o t)[Len(s) + i] = t[i]
  OBVIOUS
<1>4. \A i \in 1 .. Len(s) + Len(t) :
         (s \o t)[i] \in {s[j] : j \in 1 .. Len(s)} \cup {t[j] : j \in 1 .. Len(t)}
  OBVIOUS
<1>5. /\ ToSet(s) = {s[j] : j \in 1 .. Len(s)} /\ ToSet(t) = {t[j] : j \in 1 .. Len(t)}
      /\ ToSet(s \o t) = {(s \o t)[i] : i \in 1 .. Len(s) + Len(t)}
  BY <1>1 DEF ToSet
<1>6. ToSet(s) \subseteq ToSet(s \o t) /\ ToSet(t) \subseteq ToSet(s \o t)
  <2>1. \A j \in 1 .. Len(s) : j \in 1 .. Len(s) + Len(t)
    OBVIOUS
  <2>. QED  BY <1>1, <1>2, <1>3, <1>5, <2>1
<1>. QED  BY <1>1, <1>4, <1>5, <1>6

LEMMA TailAndHead ==
    ASSUME NEW S, NEW s \in Seq(S), s # <<>>
    PROVE  /\ Head(s) \in S /\ Tail(s) \in Seq(S) /\ Len(Tail(s)) = Len(s) - 1
           /\ \A i \in 1 .. Len(s) - 1 : Tail(s)[i] = s[i + 1]
           /\ ToSet(s) = {Head(s)} \cup ToSet(Tail(s))
<1>1. Head(s) = s[1] /\ Len(s) \in Nat \ {0}
  OBVIOUS
<1>2. Tail(s) \in Seq(S) /\ Len(Tail(s)) = Len(s) - 1
       /\ \A i \in 1 .. Len(s) - 1 : Tail(s)[i] = s[i + 1]
  OBVIOUS
<1>3. \A i \in 1 .. Len(s) : i = 1 \/ (i - 1 \in 1 .. Len(s) - 1 /\ Tail(s)[i - 1] = s[i])
  BY <1>1, <1>2
<1>4. \A i \in 1 .. Len(s) - 1 : i + 1 \in 1 .. Len(s)
  BY <1>1
<1>5. DOMAIN s = 1 .. Len(s) /\ DOMAIN Tail(s) = 1 .. Len(s) - 1 /\ s[1] \in S
  BY <1>1, <1>2
<1>6. ToSet(s) \subseteq {Head(s)} \cup ToSet(Tail(s))
  BY <1>1, <1>3, <1>5 DEF ToSet
<1>7. ToSet(Tail(s)) \subseteq ToSet(s)
  BY <1>2, <1>4, <1>5 DEF ToSet
<1>8. Head(s) \in ToSet(s)
  BY <1>1, <1>5 DEF ToSet
<1>. QED  BY <1>1, <1>2, <1>5, <1>6, <1>7, <1>8

-----------------------------------------------------------------------------
(* The resolution of a context.                                            *)

LEMMA TermIsDefined ==
    ASSUME NEW vs, NEW t, NEW u
    PROVE  <<t, u>> \in DefinedTerms(vs) <=>
             \E v \in vs : /\ v.k = "object"
                           /\ t \in DOMAIN v.m \ {"@context"}
                           /\ u \in term_definition_uri(v.m[t])
BY DEF DefinedTerms

LEMMA DefinedIsPair ==
    ASSUME NEW vs, NEW d \in DefinedTerms(vs)
    PROVE  d = <<d[1], d[2]>>
BY DEF DefinedTerms

LEMMA DefinedOfUnion ==
    ASSUME NEW vs, NEW ws
    PROVE  DefinedTerms(vs \cup ws) = DefinedTerms(vs) \cup DefinedTerms(ws)
BY DEF DefinedTerms

\* terms has a definition from vs for each term that vs defines.
Defines(terms, vs) ==
    /\ terms = [t \in DOMAIN terms |-> terms[t]]
    /\ DOMAIN terms = {d[1] : d \in DefinedTerms(vs)}
    /\ \A t \in DOMAIN terms : <<t, terms[t]>> \in DefinedTerms(vs)

LEMMA TermsOfReached ==
    ASSUME NEW terms, NEW contexts
    PROVE  terms \in TermsOf(contexts) <=> Defines(terms, Reached(contexts))
<1>. DEFINE defined == DefinedTerms(Reached(contexts))
<1>1. ASSUME Defines(terms, Reached(contexts))
      PROVE  terms \in TermsOf(contexts)
  <2>1. \A t \in DOMAIN terms : terms[t] \in {d[2] : d \in defined}
    <3>. SUFFICES ASSUME NEW t \in DOMAIN terms
                  PROVE  terms[t] \in {d[2] : d \in defined}
      OBVIOUS
    <3>1. <<t, terms[t]>> \in defined /\ <<t, terms[t]>>[2] = terms[t]
      BY <1>1 DEF Defines
    <3>. QED  BY <3>1
  <2>2. terms \in [{d[1] : d \in defined} -> {d[2] : d \in defined}]
    BY <1>1, <2>1 DEF Defines
  <2>. QED  BY <1>1, <2>2 DEF Defines, TermsOf
<1>2. ASSUME terms \in TermsOf(contexts)
      PROVE  Defines(terms, Reached(contexts))
  BY <1>2 DEF Defines, TermsOf
<1>. QED  BY <1>1, <1>2

LEMMA SomeTerms ==
    ASSUME NEW contexts
    PROVE  TermsOf(contexts) # {}
<1>. DEFINE defined == DefinedTerms(Reached(contexts))
            names == {d[1] : d \in defined}
            Pick(t) == CHOOSE u : <<t, u>> \in defined
            terms == [t \in names |-> Pick(t)]
<1>1. \A t \in names : <<t, terms[t]>> \in defined
  <2>. SUFFICES ASSUME NEW t \in names  PROVE \E u : <<t, u>> \in defined
    OBVIOUS
  <2>1. PICK d \in defined : d[1] = t
    OBVIOUS
  <2>2. d = <<t, d[2]>>
    BY <2>1, DefinedIsPair
  <2>. QED  BY <2>1, <2>2
<1>. HIDE DEF names, Pick
<1>2. DOMAIN terms = names /\ terms = [t \in DOMAIN terms |-> terms[t]]
  OBVIOUS
<1>. HIDE DEF terms
<1>3. Defines(terms, Reached(contexts))
  BY <1>1, <1>2 DEF Defines, names
<1>. QED  BY <1>3, TermsOfReached

LEMMA ReachedIsLeast ==
    ASSUME NEW contexts \in SUBSET Contexts
    PROVE  /\ contexts \subseteq Reached(contexts) /\ Reached(contexts) \subseteq Contexts
           /\ \A v \in Reached(contexts) : Onward(v) \subseteq Reached(contexts)
           /\ \A vs \in SUBSET Contexts :
                contexts \subseteq vs /\ (\A v \in vs : Onward(v) \subseteq vs)
                  => Reached(contexts) \subseteq vs
<1>1. \A v \in Contexts : Onward(v) \subseteq Contexts
  BY ContextAssumption
<1>2. ASSUME NEW v \in Reached(contexts), NEW w \in Onward(v)
      PROVE  w \in Reached(contexts)
  <2>1. v \in Contexts /\ \A vs \in Closed : contexts \subseteq vs => v \in vs
    BY <1>2 DEF Reached
  <2>2. \A vs \in Closed : contexts \subseteq vs => w \in vs
    BY <1>2, <2>1 DEF Closed
  <2>. QED  BY <1>1, <1>2, <2>1, <2>2 DEF Reached
<1>3. contexts \subseteq Reached(contexts) /\ Reached(contexts) \subseteq Contexts
  BY DEF Reached
<1>4. \A vs \in SUBSET Contexts :
         contexts \subseteq vs /\ (\A v \in vs : Onward(v) \subseteq vs)
            => Reached(contexts) \subseteq vs
  BY DEF Reached, Closed
<1>. QED  BY <1>2, <1>3, <1>4

\* A resolution that has popped the entries of done: its queue and these lead to all
\* that can be reached, the URLs among them are the visited ones, and the terms are
\* theirs.
Walking(contexts, r, done) ==
    /\ r.queue \in Seq(Contexts)
    /\ done \cup ToSet(r.queue) \subseteq Reached(contexts)
    /\ contexts \subseteq done \cup ToSet(r.queue)
    /\ \A v \in done : Onward(v) \subseteq done \cup ToSet(r.queue)
    /\ r.visited = Texts(done)
    /\ Defines(r.terms, done)
Walked(contexts, r) == \E done \in SUBSET Contexts : Walking(contexts, r, done)

LEMMA WalkEnds ==
    ASSUME NEW contexts \in SUBSET Contexts, NEW r, Walked(contexts, r), r.queue = <<>>
    PROVE  r.terms \in TermsOf(contexts)
<1>1. PICK done \in SUBSET Contexts : Walking(contexts, r, done)
  BY DEF Walked
<1>2. ToSet(r.queue) = {}
  BY DEF ToSet
<1>3. done = Reached(contexts)
  BY <1>1, <1>2, ReachedIsLeast DEF Walking
<1>. QED  BY <1>1, <1>3, TermsOfReached DEF Walking

LEMMA WalkBegins ==
    ASSUME NEW s \in Seq(Contexts)
    PROVE  Walked(ToSet(s), [Fresh EXCEPT !.queue = s])
<1>. DEFINE r == [Fresh EXCEPT !.queue = s]
<1>1. r.queue = s /\ r.visited = {} /\ r.terms = <<>>
  BY DEF Fresh
<1>. HIDE DEF r
<1>2. ToSet(s) \subseteq Contexts
  BY DEF ToSet
<1>3. Texts({}) = {} /\ DefinedTerms({}) = {}
  BY DEF Texts, DefinedTerms
<1>4. Defines(<<>>, {})
  <2>1. DOMAIN <<>> = {} /\ <<>> = [t \in {} |-> <<>>[t]]
    OBVIOUS
  <2>. QED  BY <1>3, <2>1 DEF Defines
<1>5. Walking(ToSet(s), r, {})
  <2>1. ToSet(s) \subseteq Reached(ToSet(s))
    BY <1>2, ReachedIsLeast
  <2>. QED  BY <1>1, <1>3, <1>4, <2>1 DEF Walking
<1>. QED  BY <1>5 DEF Walked, r

\* The terms of an object that has been popped come before those found so far.
LEMMA TermsGrow ==
    ASSUME NEW entry, entry.k = "object", NEW done, NEW old, Defines(old, done)
    PROVE  LET terms == {t \in DOMAIN entry.m \ {"@context"} :
                           term_definition_uri(entry.m[t]) # {}}
           IN Defines(Over([t \in terms |-> CHOOSE u \in term_definition_uri(entry.m[t]) : TRUE],
                           old), done \cup {entry})
<1>. DEFINE terms == {t \in DOMAIN entry.m \ {"@context"} :
                        term_definition_uri(entry.m[t]) # {}}
            Pick(t) == CHOOSE u \in term_definition_uri(entry.m[t]) : TRUE
            own == [t \in terms |-> Pick(t)]
            all == Over(own, old)
<1>1. \A t, u : <<t, u>> \in DefinedTerms({entry})
         <=> t \in DOMAIN entry.m \ {"@context"} /\ u \in term_definition_uri(entry.m[t])
  BY TermIsDefined
<1>2. \A t \in terms : <<t, Pick(t)>> \in DefinedTerms({entry})
  BY <1>1
<1>. DEFINE new == DefinedTerms({entry})
<1>3. {d[1] : d \in new} = terms
  <2>1. \A d \in DefinedTerms({entry}) : d[1] \in terms
    BY <1>1, DefinedIsPair
  <2>2. \A t \in terms : <<t, Pick(t)>> \in new /\ <<t, Pick(t)>>[1] = t
    BY <1>2
  <2>. HIDE DEF new, terms, Pick
  <2>3. terms \subseteq {d[1] : d \in new}
    BY <2>2
  <2>. QED  BY <2>1, <2>3 DEF new
<1>. HIDE DEF terms, Pick
<1>4. DOMAIN own = terms /\ \A t \in terms : own[t] = Pick(t)
  OBVIOUS
<1>. HIDE DEF own
<1>5. /\ DOMAIN all = terms \cup DOMAIN old /\ all = [t \in DOMAIN all |-> all[t]]
      /\ \A t \in DOMAIN all : all[t] = IF t \in terms THEN Pick(t) ELSE old[t]
  <2>1. all = [t \in terms \cup DOMAIN old |-> IF t \in terms THEN own[t] ELSE old[t]]
    BY <1>4 DEF Over
  <2>. HIDE DEF all
  <2>. QED  BY <1>4, <2>1
<1>. HIDE DEF all
<1>6. DefinedTerms(done \cup {entry}) = DefinedTerms(done) \cup DefinedTerms({entry})
  BY DefinedOfUnion
<1>7. DOMAIN all = {d[1] : d \in DefinedTerms(done \cup {entry})}
  <2>1. DOMAIN old = {d[1] : d \in DefinedTerms(done)}
    BY DEF Defines
  <2>. QED  BY <1>3, <1>5, <1>6, <2>1
<1>8. \A t \in DOMAIN all : <<t, all[t]>> \in DefinedTerms(done \cup {entry})
  BY <1>2, <1>5, <1>6 DEF Defines
<1>9. Defines(all, done \cup {entry})
  BY <1>5, <1>7, <1>8 DEF Defines
<1>. QED  BY <1>9 DEF all, own, Pick, terms

LEMMA EntryLeadsOn ==
    ASSUME NEW entry \in Contexts
    PROVE  /\ entry.k = "string" =>
                /\ Texts({entry}) = {entry.s}
                /\ entry.s \in DOMAIN Web => Onward(entry) = {Web[entry.s]} /\ Web[entry.s] \in Contexts
                /\ entry.s \notin DOMAIN Web => Onward(entry) = {}
           /\ entry.k # "string" => Texts({entry}) = {}
           /\ entry.k = "array" => entry.items \in Seq(Contexts) /\ Onward(entry) = ToSet(entry.items)
           /\ entry.k \notin {"string", "array"} =>
                /\ SetToSeq(get(entry, "@context")) \in Seq(Contexts)
                /\ Onward(entry) = ToSet(SetToSeq(get(entry, "@context")))
           /\ entry.k # "object" => DefinedTerms({entry}) = {}
<1>1. Onward(entry) \subseteq Contexts /\ (entry.k = "array" => entry.items \in Seq(Contexts))
  BY ContextAssumption
<1>2. /\ entry.k = "string" => Texts({entry}) = {entry.s}
      /\ entry.k # "string" => Texts({entry}) = {}
  BY DEF Texts
<1>3. entry.k # "object" => get(entry, "@context") = {}
  BY DEF get
<1>4. entry.k = "array" => Items(entry) = ToSet(entry.items)
  BY DEF Items
<1>5. entry.k # "array" => Items(entry) = {}
  BY DEF Items
<1>6. entry.k # "object" => DefinedTerms({entry}) = {}
  BY DEF DefinedTerms
<1>7. entry.k # "string" => {Web[url] : url \in Texts({entry}) \cap DOMAIN Web} = {}
  BY <1>2
<1>8. CASE entry.k = "string"
  <2>1. Onward(entry) = {Web[url] : url \in {entry.s} \cap DOMAIN Web}
    BY <1>2, <1>3, <1>5, <1>8 DEF Onward
  <2>. QED  BY <1>1, <1>2, <1>6, <1>8, <2>1
<1>9. CASE entry.k = "array"
  BY <1>1, <1>2, <1>3, <1>4, <1>6, <1>7, <1>9 DEF Onward
<1>10. CASE entry.k \notin {"string", "array"}
  <2>1. Onward(entry) = get(entry, "@context")
    BY <1>5, <1>7, <1>10 DEF Onward
  <2>2. /\ SetToSeq(get(entry, "@context")) \in Seq(get(entry, "@context"))
        /\ ToSet(SetToSeq(get(entry, "@context"))) = get(entry, "@context")
    BY OptionalAsSequence, MemberIsOptional
  <2>3. SetToSeq(get(entry, "@context")) \in Seq(Contexts)
    BY <1>1, <2>1, <2>2
  <2>. QED  BY <1>2, <1>6, <1>10, <2>1, <2>2, <2>3
<1>. QED  BY <1>8, <1>9, <1>10

\* What an entry puts into the queue, under the URLs visited.
LEMMA PoppedLeadsOn ==
    ASSUME NEW entry \in Contexts, NEW done \in SUBSET Contexts, context.visited = Texts(done),
           NEW rest, \A v \in done : Onward(v) \subseteq rest,
           context.queue \in Seq(Contexts), context.queue # <<>>
    PROVE  \E more \in Seq(Contexts) :
              /\ Popped(entry).queue = Tail(context.queue) \o more
              /\ ToSet(more) \subseteq Onward(entry)
              /\ Onward(entry) \subseteq rest \cup ToSet(more)
<1>1. CASE entry.k = "string" /\ entry.s \in DOMAIN Web \ context.visited
  <2>1. Onward(entry) = {Web[entry.s]} /\ Web[entry.s] \in Contexts
    BY <1>1, EntryLeadsOn
  <2>2. <<Web[entry.s]>> \in Seq(Contexts) /\ ToSet(<<Web[entry.s]>>) = {Web[entry.s]}
    BY <2>1 DEF ToSet
  <2>3. Popped(entry).queue = Tail(context.queue) \o <<Web[entry.s]>>
    BY <1>1 DEF Popped
  <2>. QED  BY <2>1, <2>2, <2>3
<1>2. CASE entry.k = "string" /\ entry.s \notin DOMAIN Web \ context.visited
  <2>1. Popped(entry).queue = Tail(context.queue) \o <<>>
    BY <1>2 DEF Popped
  <2>2. <<>> \in Seq(Contexts) /\ ToSet(<<>>) = {}
    BY DEF ToSet
  <2>3. Onward(entry) \subseteq rest
    <3>1. CASE entry.s \notin DOMAIN Web
      BY <1>2, <3>1, EntryLeadsOn
    <3>2. CASE entry.s \in Texts(done)
      <4>1. PICK v \in done : v.k = "string" /\ v.s = entry.s
        BY <3>2 DEF Texts
      <4>2. Onward(v) = Onward(entry)
        BY <1>2, <4>1, EntryLeadsOn
      <4>. QED  BY <4>1, <4>2
    <3>. QED  BY <1>2, <3>1, <3>2
  <2>. QED  BY <2>1, <2>2, <2>3
<1>3. CASE entry.k = "array"
  <2>1. Popped(entry).queue = Tail(context.queue) \o entry.items
    BY <1>3 DEF Popped
  <2>2. entry.items \in Seq(Contexts) /\ Onward(entry) = ToSet(entry.items)
    BY <1>3, EntryLeadsOn
  <2>. QED  BY <2>1, <2>2
<1>4. CASE entry.k \notin {"string", "array"}
  <2>1. Popped(entry).queue = Tail(context.queue) \o SetToSeq(get(entry, "@context"))
    BY <1>4 DEF Popped
  <2>2. /\ SetToSeq(get(entry, "@context")) \in Seq(Contexts)
        /\ Onward(entry) = ToSet(SetToSeq(get(entry, "@context")))
    BY <1>4, EntryLeadsOn
  <2>. QED  BY <2>1, <2>2
<1>. QED  BY <1>1, <1>2, <1>3, <1>4

LEMMA TextsOfUnion == \A vs, ws : Texts(vs \cup ws) = Texts(vs) \cup Texts(ws)
BY DEF Texts

\* One entry is popped: the resolution goes on to what it leads to.
LEMMA WalkGoesOn ==
    ASSUME NEW contexts \in SUBSET Contexts, Walked(contexts, context), context.queue # <<>>
    PROVE  Walked(contexts, Popped(Head(context.queue)))
<1>. DEFINE entry == Head(context.queue)
            r == Popped(entry)
<1>1. PICK done \in SUBSET Contexts : Walking(contexts, context, done)
  BY DEF Walked
<1>. DEFINE after == done \cup {entry}
<1>2. /\ context.queue \in Seq(Contexts)
      /\ entry \in Contexts /\ Tail(context.queue) \in Seq(Contexts)
      /\ ToSet(context.queue) = {entry} \cup ToSet(Tail(context.queue))
  BY <1>1, TailAndHead DEF Walking
<1>. HIDE DEF entry
<1>3. PICK more \in Seq(Contexts) :
         /\ r.queue = Tail(context.queue) \o more
         /\ ToSet(more) \subseteq Onward(entry)
         /\ Onward(entry) \subseteq (done \cup ToSet(context.queue)) \cup ToSet(more)
  <2>1. /\ context.visited = Texts(done)
        /\ \A v \in done : Onward(v) \subseteq done \cup ToSet(context.queue)
    BY <1>1 DEF Walking
  <2>. QED  BY <1>2, <2>1, PoppedLeadsOn
<1>. HIDE DEF r
<1>4. r.queue \in Seq(Contexts) /\ ToSet(r.queue) = ToSet(Tail(context.queue)) \cup ToSet(more)
  <2>1. \A s, u \in Seq(Contexts) :
           s \o u \in Seq(Contexts) /\ ToSet(s \o u) = ToSet(s) \cup ToSet(u)
    BY ConcatenationHolds
  <2>. QED  BY <1>2, <1>3, <2>1
<1>5. entry \in Reached(contexts) /\ Onward(entry) \subseteq Reached(contexts)
  BY <1>1, <1>2, ReachedIsLeast DEF Walking
<1>6. after \cup ToSet(r.queue) \subseteq Reached(contexts)
  BY <1>1, <1>2, <1>3, <1>4, <1>5 DEF Walking
<1>7. contexts \subseteq after \cup ToSet(r.queue)
  BY <1>1, <1>2, <1>4 DEF Walking
<1>8. \A v \in after : Onward(v) \subseteq after \cup ToSet(r.queue)
  BY <1>1, <1>2, <1>3, <1>4 DEF Walking
<1>9. r.visited = Texts(after)
  <2>1. r.visited = context.visited \cup Texts({entry})
    BY DEF Popped, r
  <2>. QED  BY <1>1, <2>1, TextsOfUnion DEF Walking
<1>10. Defines(r.terms, after)
  <2>1. Defines(context.terms, done)
    BY <1>1 DEF Walking
  <2>2. CASE entry.k = "object"
    BY <2>1, <2>2, TermsGrow DEF Popped, r
  <2>3. CASE entry.k # "object"
    <3>1. r.terms = context.terms
      BY <2>3 DEF Popped, r
    <3>2. DefinedTerms({entry}) = {}
      BY <1>2, <2>3, EntryLeadsOn
    <3>3. DefinedTerms(after) = DefinedTerms(done)
      <4>1. DefinedTerms(after) = DefinedTerms(done) \cup DefinedTerms({entry})
        BY DefinedOfUnion
      <4>. QED  BY <3>2, <4>1
    <3>. QED  BY <2>1, <3>1, <3>3 DEF Defines
  <2>. QED  BY <2>2, <2>3
<1>11. Walking(contexts, r, after) /\ after \in SUBSET Contexts
  BY <1>2, <1>4, <1>6, <1>7, <1>8, <1>9, <1>10 DEF Walking
<1>. QED  BY <1>11 DEF Walked, entry, r

-----------------------------------------------------------------------------
(* The store and the handler's place in its loop.                          *)

LEMMA LeastIsThere ==
    ASSUME NEW n \in Nat, NEW limit \in SUBSET Nat, Optional(limit)
    PROVE  /\ Min({n} \cup limit) \in Nat /\ Min({n} \cup limit) <= n
           /\ \A l \in limit : Min({n} \cup limit) = IF l < n THEN l ELSE n
           /\ limit = {} => Min({n} \cup limit) = n
<1>. DEFINE least == CHOOSE x \in {n} \cup limit : \A y \in {n} \cup limit : x <= y
<1>1. \E x \in {n} \cup limit : \A y \in {n} \cup limit : x <= y
  BY DEF Optional
<1>2. least \in {n} \cup limit /\ \A y \in {n} \cup limit : least <= y
  BY <1>1
<1>3. Min({n} \cup limit) = least
  BY DEF Min
<1>. HIDE DEF least
<1>. QED  BY <1>2, <1>3 DEF Optional

LEMMA LimitedIsNatural ==
    ASSUME NEW n \in Nat, NEW limit \in SUBSET Nat, Optional(limit)
    PROVE  Limited(n, limit) \in Nat /\ Limited(n, limit) <= n
BY LeastIsThere DEF Limited

\* One entity per id, all of them what a client or a writer may store.
StoreInv ==
    /\ store \in SUBSET Entities
    /\ IsFiniteSet(store)
    /\ \A e, f \in store : Id(e) = Id(f) => e = f

\* What the handler has not looked at is of the request, and in its loop it resolves
\* the contexts of the first of these.
ControlInv ==
    /\ request \in Requests
    /\ pc \in {"start", "graph", "next", "resolve", "end"}
    /\ pc = "start" => todo = <<>> /\ matched = <<>>
    /\ pc \in {"graph", "next", "resolve"} => request.kind \in {"query", "notify"}
    /\ writes \in Nat
    /\ ~Notifies => todo \in Seq(Entities)
    /\ Notifies => todo \in Seq(ToSet(request.subscriptions))
    /\ pc = "resolve" => todo # <<>> /\ Walked(ToSet(StartContexts), context)

LEMMA EntitiesAreThese ==
    /\ Written \subseteq Entities
    /\ \A s \in Stores : s \subseteq Entities
    /\ \A r \in Requests : r.kind = "notify" => r \in Notified /\ r.entity \in Entities
<1>1. \A r \in Requests : r.kind = "notify" => r \in Notified
  BY DEF Notified
<1>2. \A r \in Notified : r.entity \in Entities
  BY DEF Entities
<1>3. Written \subseteq Entities
  BY DEF Entities
<1>4. \A s \in Stores : s \subseteq Entities
  BY DEF Entities
<1>. QED  BY <1>1, <1>2, <1>3, <1>4

LEMMA StoreInit == Init => StoreInv
BY EntityAssumption, EntitiesAreThese DEF Init, StoreInv

LEMMA StoreStep == StoreInv /\ [Next]_vars => StoreInv'
<1>. SUFFICES ASSUME StoreInv, [Next]_vars
              PROVE  StoreInv'
  OBVIOUS
<1>1. ASSUME NEW e \in Written, store' = {f \in store : Id(f) # Id(e)} \cup {e}
      PROVE  StoreInv'
  <2>1. IsFiniteSet({f \in store : Id(f) # Id(e)})
    BY FS_Subset DEF StoreInv
  <2>2. IsFiniteSet(store')
    BY <1>1, <2>1, FS_AddElement
  <2>3. store' \subseteq Entities
    BY <1>1, EntitiesAreThese DEF StoreInv
  <2>4. \A f, g \in store' : Id(f) = Id(g) => f = g
    BY <1>1 DEF StoreInv
  <2>. QED  BY <2>2, <2>3, <2>4 DEF StoreInv
<1>2. ASSUME NEW e \in store, store' = store \ {e}
      PROVE  StoreInv'
  BY <1>2, FS_RemoveElement DEF StoreInv
<1>3. CASE UNCHANGED store
  BY <1>3 DEF StoreInv
<1>. QED  BY <1>1, <1>2, <1>3 DEF Next, Handle, Write, Idle, vars, Refuse, Find, ListSubscriptions,
            LoadLinked, Retrieve, Discover, BeginResolve, Resolve, FetchFails, MatchEntity,
            MatchSubscription, EnqueueFails, AnswerQuery, EndNotify

LEMMA StartContextsAreContexts ==
    ASSUME ControlInv, request.kind \in {"query", "notify"}, todo # <<>>
    PROVE  StartContexts \in Seq(Contexts) /\ ToSet(StartContexts) \in SUBSET Contexts
<1>. SUFFICES StartContexts \in Seq(Contexts)
  BY DEF ToSet
<1>1. CASE Notifies
  <2>. DEFINE s == Head(todo)
              own == OrElse(s.jsonld_context, OrElse(s.at_context, get(request.entity, "@context")))
  <2>1. s \in ToSet(request.subscriptions)
    BY <1>1, TailAndHead DEF ControlInv
  <2>2. request \in Notified /\ request.entity \in Entities
    BY <1>1, EntitiesAreThese DEF ControlInv, Notifies
  <2>3. \A contexts \in {s.jsonld_context, s.at_context} :
           Optional(contexts) /\ contexts \subseteq Contexts
    BY <2>1, <2>2, RequestAssumption
  <2>4. Optional(get(request.entity, "@context")) /\ get(request.entity, "@context") \subseteq Contexts
    BY <2>2, EntityAssumption, MemberIsOptional
  <2>5. Optional(own) /\ own \subseteq Contexts
    BY <2>3, <2>4 DEF OrElse
  <2>. HIDE DEF own
  <2>6. SetToSeq(own) \in Seq(own)
    BY <2>5, OptionalAsSequence
  <2>7. SetToSeq(own) \in Seq(Contexts)
    BY <2>5, <2>6
  <2>. QED  BY <1>1, <2>7 DEF StartContexts, SubscriptionContexts, own
<1>2. CASE ~Notifies
  <2>. DEFINE own == get(Head(todo), "@context")
  <2>1. Head(todo) \in Entities
    BY <1>2, TailAndHead DEF ControlInv
  <2>2. Optional(own) /\ own \subseteq Contexts
    BY <2>1, EntityAssumption, MemberIsOptional
  <2>3. Optional(request.link) /\ request.link \subseteq Contexts
    BY <1>2, RequestAssumption DEF ControlInv, Notifies
  <2>. HIDE DEF own
  <2>4. SetToSeq(own) \in Seq(Contexts) /\ SetToSeq(request.link) \in Seq(Contexts)
    <3>1. SetToSeq(own) \in Seq(own) /\ SetToSeq(request.link) \in Seq(request.link)
      BY <2>2, <2>3, OptionalAsSequence
    <3>. QED  BY <2>2, <2>3, <3>1
  <2>. QED  BY <1>2, <2>4, ConcatenationHolds DEF StartContexts, own
<1>. QED  BY <1>1, <1>2

LEMMA PlanIsNoError ==
    ASSUME NEW query, FilterOf(from_entity_query(query)) \cap Errors = {}
    PROVE  /\ from_entity_query(query).limit
                = IF query.q # {} \/ query.scope_q # {} THEN {} ELSE query.limit
           /\ from_entity_query(query).ids = parse_csv(query.id)
           /\ from_entity_query(query).types = parse_csv(query.entity_type)
           /\ from_entity_query(query).id_pattern = query.id_pattern
           /\ from_entity_query(query).attrs = parse_csv(query.attrs)
           /\ FilterOf(from_entity_query(query)) = to_bson_filter(from_entity_query(query))
<1>1. from_entity_query(query) # BadRequest
  BY DEF FilterOf, Errors
<1>2. FilterOf(from_entity_query(query)) = to_bson_filter(from_entity_query(query))
  BY <1>1 DEF FilterOf
<1>. QED  BY <1>1, <1>2 DEF from_entity_query

\* What find returns for a query.
Filter == FilterOf(from_entity_query(request.query))
Limit == from_entity_query(request.query).limit

LEMMA FoundInSomeOrder ==
    ASSUME StoreInv, ControlInv, Find
    PROVE  /\ request.kind = "query" /\ Filter \cap Errors = {}
           /\ IsFiniteSet(Selected) /\ Selected \in SUBSET store
           /\ Limit \subseteq Nat /\ Optional(Limit)
           /\ Limited(Cardinality(Selected), Limit) \in Nat
           /\ todo' \in Orders(Selected, Limited(Cardinality(Selected), Limit))
           /\ todo' \in Seq(Selected)
<1>. DEFINE n == Limited(Cardinality(Selected), Limit)
<1>1. /\ request.kind = "query" /\ Filter \cap Errors = {}
      /\ todo' \in Orders(Selected, n)
  BY DEF Find, Selected, Filter, Limit
<1>2. Selected \in SUBSET store /\ IsFiniteSet(Selected)
  BY FS_Subset DEF Selected, StoreInv
<1>3. Limit \subseteq Nat /\ Optional(Limit)
  BY <1>1, PlanIsNoError, RequestAssumption DEF Limit, Filter, ControlInv, Optional
<1>4. n \in Nat
  BY <1>2, <1>3, FS_CardinalityType, LimitedIsNatural
<1>5. todo' \in [1 .. n -> Selected]
  BY <1>1 DEF Orders
<1>6. todo' \in Seq(Selected)
  BY <1>4, <1>5, SeqDef
<1>. QED  BY <1>1, <1>2, <1>3, <1>4, <1>6

LEMMA ControlInit == Init => ControlInv
BY DEF Init, ControlInv, Notifies

LEMMA ControlStep == StoreInv /\ ControlInv /\ [Next]_vars => ControlInv'
<1>. SUFFICES ASSUME StoreInv, ControlInv, [Next]_vars
              PROVE  ControlInv'
  OBVIOUS
<1>. USE DEF ControlInv, Notifies
<1>1. CASE Refuse \/ Retrieve \/ Discover \/ AnswerQuery \/ EndNotify
  BY <1>1 DEF Refuse, Retrieve, Discover, AnswerQuery, EndNotify, End, Fail
<1>2. CASE Find
  <2>1. todo' \in Seq(Entities) /\ request.kind = "query"
    BY <1>2, FoundInSomeOrder DEF StoreInv
  <2>. QED  BY <1>2, <2>1 DEF Find
<1>3. CASE ListSubscriptions
  <2>1. request.subscriptions \in Seq(ToSet(request.subscriptions))
    BY <1>3, EntitiesAreThese, RequestAssumption DEF ListSubscriptions
  <2>. QED  BY <1>3, <2>1 DEF ListSubscriptions
<1>4. CASE LoadLinked
  BY <1>4 DEF LoadLinked
<1>5. CASE BeginResolve
  <2>1. Walked(ToSet(StartContexts), [Fresh EXCEPT !.queue = StartContexts])
    BY <1>5, StartContextsAreContexts, WalkBegins DEF BeginResolve
  <2>2. StartContexts' = StartContexts
    BY <1>5 DEF BeginResolve, StartContexts, SubscriptionContexts
  <2>. QED  BY <1>5, <2>1, <2>2 DEF BeginResolve
<1>6. CASE Resolve
  <2>1. Walked(ToSet(StartContexts), Popped(Head(context.queue)))
    BY <1>6, StartContextsAreContexts, WalkGoesOn DEF Resolve
  <2>2. StartContexts' = StartContexts
    BY <1>6 DEF Resolve, StartContexts, SubscriptionContexts
  <2>. QED  BY <1>6, <2>1, <2>2 DEF Resolve
<1>7. CASE FetchFails \/ EnqueueFails
  BY <1>7 DEF FetchFails, EnqueueFails, End, Fail
<1>8. CASE MatchEntity
  <2>1. Tail(todo) \in Seq(Entities)
    BY <1>8, TailAndHead DEF MatchEntity
  <2>. QED  BY <1>8, <2>1 DEF MatchEntity
<1>9. CASE MatchSubscription
  <2>1. Tail(todo) \in Seq(ToSet(request.subscriptions))
    BY <1>9, TailAndHead DEF MatchSubscription
  <2>. QED  BY <1>9, <2>1 DEF MatchSubscription
<1>10. CASE Write
  <2>1. StartContexts' = StartContexts
    BY <1>10 DEF Write, StartContexts, SubscriptionContexts
  <2>. QED  BY <1>10, <2>1 DEF Write
<1>11. CASE UNCHANGED vars
  <2>1. StartContexts' = StartContexts
    BY <1>11 DEF vars, StartContexts, SubscriptionContexts
  <2>. QED  BY <1>11, <2>1 DEF vars
<1>. QED  BY <1>1, <1>2, <1>3, <1>4, <1>5, <1>6, <1>7, <1>8, <1>9, <1>10, <1>11 DEF Next, Handle, Idle

\* In every state the store has one entity per id, and the handler is at a step of what
\* was asked.
THEOREM HandlerInvariant == Spec => [](StoreInv /\ ControlInv)
<1>1. Init => StoreInv /\ ControlInv
  BY StoreInit, ControlInit
<1>2. StoreInv /\ ControlInv /\ [Next]_vars => (StoreInv /\ ControlInv)'
  BY StoreStep, ControlStep
<1>. QED  BY <1>1, <1>2, PTL DEF Spec

\* The terms of a resolved context are those of the documents that can be reached
\* from it (resolve_context_terms of query/context.rs), also when documents refer
\* to each other, whatever writers do meanwhile.
THEOREM TermsAreReached == Spec => []TermsAreThoseReached
<1>1. ControlInv => TermsAreThoseReached
  BY StartContextsAreContexts, WalkEnds DEF ControlInv, TermsAreThoseReached
<1>. QED  BY <1>1, HandlerInvariant, PTL

-----------------------------------------------------------------------------
(* Discovery and queries.                                                  *)

\* Discovery has answered from the store, and no write has come since.
DiscoverInv ==
    request.kind = "discover" /\ pc = "end" /\ writes = 0 => answer.body = build_discovery(store)

LEMMA DiscoverStep ==
    StoreInv /\ ControlInv /\ DiscoverInv /\ [Next]_vars => DiscoverInv'
<1>. SUFFICES ASSUME ControlInv, DiscoverInv, [Next]_vars, (request.kind = "discover")',
                     (pc = "end")', (writes = 0)'
              PROVE  (answer.body = build_discovery(store))'
  BY DEF DiscoverInv
<1>1. CASE Refuse \/ Find \/ ListSubscriptions \/ LoadLinked \/ Retrieve \/ BeginResolve \/ Resolve
           \/ FetchFails \/ MatchEntity \/ MatchSubscription \/ EnqueueFails
           \/ AnswerQuery \/ EndNotify
  BY <1>1 DEF ControlInv, Refuse, Find, ListSubscriptions, LoadLinked, Retrieve, BeginResolve, Resolve,
            FetchFails, MatchEntity, MatchSubscription, EnqueueFails, AnswerQuery, EndNotify, End, Fail, Notifies
<1>2. CASE Discover
  <2>1. answer'.body = build_discovery(store) /\ store' = store
    BY <1>2 DEF Discover, End
  <2>. QED  BY <2>1
<1>3. CASE Write
  BY <1>3 DEF Write, ControlInv
<1>4. CASE UNCHANGED vars
  <2>1. answer' = answer /\ store' = store /\ pc = "end" /\ writes = 0 /\ request.kind = "discover"
    BY <1>4 DEF vars
  <2>. QED  BY <2>1 DEF DiscoverInv
<1>. QED  BY <1>1, <1>2, <1>3, <1>4 DEF Next, Handle, Idle

LEMMA PrimaryTypeIsOptional ==
    ASSUME NEW e
    PROVE  Optional(entity_primary_type(e))
<1>. DEFINE Of(v) == Texts({v}) \cup (IF v.k = "array" /\ v.items # <<>> THEN Texts({v.items[1]}) ELSE {})
<1>1. \A v : Optional(Texts({v}))
  BY DEF Texts, Optional
<1>2. \A v : v.k # "string" => Texts({v}) = {}
  BY DEF Texts
<1>3. ASSUME NEW v  PROVE Optional(Of(v))
  BY <1>1, <1>2 DEF Optional
<1>. HIDE DEF Of
<1>4. entity_primary_type(e) = UNION {Of(v) : v \in get(e, "type")}
  BY DEF entity_primary_type, Of
<1>5. CASE get(e, "type") = {}
  BY <1>4, <1>5 DEF Optional
<1>6. ASSUME NEW v, get(e, "type") = {v}  PROVE Optional(entity_primary_type(e))
  BY <1>3, <1>4, <1>6
<1>. QED  BY <1>5, <1>6 DEF get

LEMMA PrimaryTypeIsAType ==
    ASSUME NEW e \in Entities, NEW t \in entity_primary_type(e)
    PROVE  entity_type_matches(e, t)
<1>. DEFINE values == get(e, "type")
<1>1. PICK v \in values :
         t \in Texts({v}) \/ (v.k = "array" /\ v.items # <<>> /\ t \in Texts({v.items[1]}))
  BY DEF entity_primary_type
<1>. SUFFICES t \in Texts(values) \/ \E w \in values : t \in Texts(Items(w))
  BY DEF entity_type_matches, value_matches_string
<1>2. CASE t \in Texts({v})
  BY <1>1, <1>2 DEF Texts
<1>3. CASE v.k = "array" /\ v.items # <<>> /\ t \in Texts({v.items[1]})
  <2>1. v.items \in Seq(ToSet(v.items))
    BY <1>1, <1>3, EntityAssumption
  <2>2. v.items[1] \in ToSet(v.items)
    BY <1>3, <2>1
  <2>3. Texts({v.items[1]}) \subseteq Texts(ToSet(v.items))
    BY <2>2 DEF Texts
  <2>. QED  BY <1>1, <1>3, <2>3 DEF Items
<1>. QED  BY <1>1, <1>2, <1>3

LEMMA OneAlone == \A x : ToSet(<<x>>) = {x}
<1>1. \A x : ToSet(<<x>>) = {<<x>>[i] : i \in 1 .. 1}
  BY DEF ToSet
<1>2. \A i : i \in 1 .. 1 <=> i = 1
  OBVIOUS
<1>. QED  BY <1>1, <1>2

LEMMA NamesOfOne == \A name : name # "" => parse_csv({<<name>>}) = {name}
<1>. SUFFICES ASSUME NEW name, name # ""  PROVE parse_csv({<<name>>}) = {name}
  OBVIOUS
<1>1. ToSet(<<name>>) = {name}
  BY OneAlone
<1>2. parse_csv({<<name>>}) = ToSet(<<name>>) \ {""}
  BY DEF parse_csv
<1>. QED  BY <1>1, <1>2

LEMMA NoNames == parse_csv({}) = {}
BY DEF parse_csv

\* What is not asked for is not looked at.
LEMMA AskedForNothing ==
    ASSUME NEW v, NEW scopes, NEW options
    PROVE  query_matches_value(v, {}, options) /\ scope_query_matches(scopes, {})
BY DEF query_matches_value, scope_query_matches, parse_q_expression, parse_scope_expression, NoFilter,
       BadRequest

LEMMA AskingByType ==
    ASSUME NEW t, t # ""
    PROVE  Asking([EveryEntity EXCEPT !.entity_type = {<<t>>}])
             = {e \in store : entity_type_matches(e, t)}
<1>. DEFINE query == [EveryEntity EXCEPT !.entity_type = {<<t>>}]
<1>1. /\ query.id = {} /\ query.id_pattern = {} /\ query.attrs = {} /\ query.q = {}
      /\ query.scope_q = {} /\ query.entity_type = {<<t>>}
  BY DEF EveryEntity
<1>. HIDE DEF query
<1>2. ASSUME NEW e, NEW options
      PROVE  entity_matches_query(e, query, options) <=> entity_type_matches(e, t)
  <2>1. parse_csv(query.entity_type) = {t} /\ parse_csv(query.attrs) = {}
    BY <1>1, NamesOfOne, NoNames
  <2>2. /\ query_matches_value(e, query.q, options)
        /\ scope_query_matches(extract_scope_values(e), query.scope_q)
    BY <1>1, AskedForNothing
  <2>. QED  BY <1>1, <2>1, <2>2 DEF entity_matches_query
<1>3. Asking(query) = {e \in store : entity_type_matches(e, t)}
  BY <1>2 DEF Asking
<1>. QED  BY <1>3 DEF query

LEMMA AskingByAttribute ==
    ASSUME NEW attr, attr # ""
    PROVE  Asking([EveryEntity EXCEPT !.attrs = {<<attr>>}]) = {e \in store : attr \in DOMAIN e.m}
<1>. DEFINE query == [EveryEntity EXCEPT !.attrs = {<<attr>>}]
<1>1. /\ query.id = {} /\ query.id_pattern = {} /\ query.attrs = {<<attr>>} /\ query.q = {}
      /\ query.scope_q = {} /\ query.entity_type = {}
  BY DEF EveryEntity
<1>. HIDE DEF query
<1>2. ASSUME NEW e, NEW options
      PROVE  entity_matches_query(e, query, options) <=> attr \in DOMAIN e.m
  <2>1. parse_csv(query.attrs) = {attr}
    BY <1>1, NamesOfOne
  <2>2. /\ query_matches_value(e, query.q, options)
        /\ scope_query_matches(extract_scope_values(e), query.scope_q)
    BY <1>1, AskedForNothing
  <2>. QED  BY <1>1, <2>1, <2>2 DEF entity_matches_query
<1>3. Asking(query) = {e \in store : attr \in DOMAIN e.m}
  BY <1>2 DEF Asking
<1>. QED  BY <1>3 DEF query

LEMMA CountedByType ==
    ASSUME StoreInv, NEW t, t # ""
    PROVE  Cardinality(OfType(store, t))
             <= Cardinality(Asking([EveryEntity EXCEPT !.entity_type = {<<t>>}]))
<1>. DEFINE found == {e \in store : entity_type_matches(e, t)}
<1>1. OfType(store, t) \subseteq found
  BY PrimaryTypeIsAType DEF OfType, Discovered, StoreInv
<1>2. IsFiniteSet(found)
  BY FS_Subset DEF StoreInv
<1>. HIDE DEF found
<1>3. Cardinality(OfType(store, t)) <= Cardinality(found)
  BY <1>1, <1>2, FS_Subset
<1>. QED  BY <1>3, AskingByType DEF found

LEMMA CountedByAttribute ==
    ASSUME NEW attr, attr # "", ~reserved_member(attr)
    PROVE  Having(store, attr) = Discovered(Asking([EveryEntity EXCEPT !.attrs = {<<attr>>}]))
<1>1. Having(store, attr) = Discovered({e \in store : attr \in DOMAIN e.m})
  BY DEF Having, Discovered, entity_attribute_names
<1>. QED  BY <1>1, AskingByAttribute

\* Each entity with a type is counted for one type.
LEMMA AttributesOfTheTypes ==
    UNION {entity_attribute_names(e) : e \in Discovered(store)}
      = UNION {UNION {entity_attribute_names(e) : e \in Discovered(OfType(store, t))} :
               t \in UNION {entity_primary_type(e) : e \in store}}
<1>. DEFINE types == UNION {entity_primary_type(e) : e \in store}
<1>1. ASSUME NEW e \in Discovered(store)
      PROVE  \E t \in types : e \in Discovered(OfType(store, t))
  <2>1. PICK t : t \in entity_primary_type(e)
    BY DEF Discovered
  <2>2. entity_primary_type(e) = {t}
    BY <2>1, PrimaryTypeIsOptional DEF Optional
  <2>3. t \in types
    BY <2>1 DEF Discovered
  <2>. QED  BY <2>2, <2>3 DEF Discovered, OfType
<1>2. \A t : Discovered(OfType(store, t)) \subseteq Discovered(store)
  BY DEF Discovered, OfType
<1>. HIDE DEF types
<1>3. UNION {entity_attribute_names(e) : e \in Discovered(store)}
        = UNION {UNION {entity_attribute_names(e) : e \in Discovered(OfType(store, t))} : t \in types}
  BY <1>1, <1>2
<1>. QED  BY <1>3 DEF types

LEMMA DiscoveryTells ==
    ASSUME NEW found, found = build_discovery(store)
    PROVE  /\ DOMAIN found.by_type = UNION {entity_primary_type(e) : e \in store}
           /\ \A t \in DOMAIN found.by_type :
                /\ found.by_type[t].count = Cardinality(OfType(store, t))
                /\ DOMAIN found.by_type[t].attributes
                     = UNION {entity_attribute_names(e) : e \in Discovered(OfType(store, t))}
           /\ DOMAIN found.by_attribute = UNION {entity_attribute_names(e) : e \in Discovered(store)}
           /\ \A attr \in DOMAIN found.by_attribute :
                found.by_attribute[attr].count = Cardinality(Having(store, attr))
<1>. DEFINE types == UNION {entity_primary_type(e) : e \in store}
<1>1. /\ found.by_type = [t \in types |-> type_info(store, t)]
      /\ found.by_attribute = AttributesOf(store)
  BY DEF build_discovery
<1>. HIDE DEF types
<1>2. /\ DOMAIN found.by_type = types
      /\ \A t \in types : found.by_type[t] = type_info(store, t)
  BY <1>1
<1>3. \A t : /\ type_info(store, t).count = Cardinality(OfType(store, t))
             /\ type_info(store, t).attributes = AttributesOf(OfType(store, t))
  BY DEF type_info
<1>4. ASSUME NEW entities
      PROVE  /\ DOMAIN AttributesOf(entities)
                  = UNION {entity_attribute_names(e) : e \in Discovered(entities)}
             /\ \A attr \in DOMAIN AttributesOf(entities) :
                  AttributesOf(entities)[attr].count = Cardinality(Having(entities, attr))
  <2>1. \A attr : attribute_info(entities, attr).count = Cardinality(Having(entities, attr))
    BY DEF attribute_info
  <2>. QED  BY <2>1 DEF AttributesOf
<1>5. \A t \in DOMAIN found.by_type :
         /\ found.by_type[t].count = Cardinality(OfType(store, t))
         /\ DOMAIN found.by_type[t].attributes
              = UNION {entity_attribute_names(e) : e \in Discovered(OfType(store, t))}
  BY <1>2, <1>3, <1>4
<1>6. /\ DOMAIN found.by_attribute = UNION {entity_attribute_names(e) : e \in Discovered(store)}
      /\ \A attr \in DOMAIN found.by_attribute :
           found.by_attribute[attr].count = Cardinality(Having(store, attr))
  BY <1>1, <1>4
<1>. QED  BY <1>2, <1>5, <1>6 DEF types

\* Discovery and queries agree: a query by a listed type finds at least the entities
\* counted for it, one for a listed attribute just those counted and those without a
\* type (build_discovery and its four readers in services/discovery.rs).
THEOREM DiscoveryAgrees == Spec => []DiscoveryAgreesWithQueries
<1>1. StoreInv /\ DiscoverInv => DiscoveryAgreesWithQueries
  <2>. SUFFICES ASSUME StoreInv, DiscoverInv, request.kind = "discover", pc = "end", writes = 0,
                       NEW found, found = answer.body
                PROVE  /\ \A t \in DOMAIN found.by_type \ {""} :
                            found.by_type[t].count
                              <= Cardinality(Asking([EveryEntity EXCEPT !.entity_type = {<<t>>}]))
                       /\ \A attr \in DOMAIN found.by_attribute \ {""} :
                            found.by_attribute[attr].count
                              = Cardinality(Discovered(Asking([EveryEntity EXCEPT !.attrs = {<<attr>>}])))
                       /\ DOMAIN found.by_attribute
                            = UNION {DOMAIN found.by_type[t].attributes : t \in DOMAIN found.by_type}
    BY DEF DiscoveryAgreesWithQueries
  <2>1. found = build_discovery(store)
    BY DEF DiscoverInv
  <2>2. /\ DOMAIN found.by_type = UNION {entity_primary_type(e) : e \in store}
        /\ \A t \in DOMAIN found.by_type :
             /\ found.by_type[t].count = Cardinality(OfType(store, t))
             /\ DOMAIN found.by_type[t].attributes
                  = UNION {entity_attribute_names(e) : e \in Discovered(OfType(store, t))}
        /\ DOMAIN found.by_attribute = UNION {entity_attribute_names(e) : e \in Discovered(store)}
        /\ \A attr \in DOMAIN found.by_attribute :
             found.by_attribute[attr].count = Cardinality(Having(store, attr))
    BY <2>1, DiscoveryTells
  <2>3. ASSUME NEW t \in DOMAIN found.by_type \ {""}
        PROVE  found.by_type[t].count
                 <= Cardinality(Asking([EveryEntity EXCEPT !.entity_type = {<<t>>}]))
    BY <2>2, CountedByType
  <2>4. ASSUME NEW attr \in DOMAIN found.by_attribute \ {""}
        PROVE  found.by_attribute[attr].count
                 = Cardinality(Discovered(Asking([EveryEntity EXCEPT !.attrs = {<<attr>>}])))
    <3>1. ~reserved_member(attr)
      BY <2>2 DEF entity_attribute_names
    <3>. QED  BY <2>2, <3>1, CountedByAttribute
  <2>5. DOMAIN found.by_attribute
          = UNION {DOMAIN found.by_type[t].attributes : t \in DOMAIN found.by_type}
    <3>. DEFINE Of(t) == UNION {entity_attribute_names(e) : e \in Discovered(OfType(store, t))}
    <3>1. DOMAIN found.by_attribute = UNION {Of(t) : t \in DOMAIN found.by_type}
      BY <2>2, AttributesOfTheTypes
    <3>2. \A t \in DOMAIN found.by_type : DOMAIN found.by_type[t].attributes = Of(t)
      BY <2>2
    <3>. HIDE DEF Of
    <3>. QED  BY <3>1, <3>2
  <2>. QED  BY <2>3, <2>4, <2>5
<1>2. Init => DiscoverInv
  BY DEF Init, DiscoverInv
<1>. QED  BY <1>1, <1>2, DiscoverStep, HandlerInvariant, PTL DEF Spec

-----------------------------------------------------------------------------
(* Subscriptions and queries.                                              *)

\* A subscription that asks only for entities: no attribute it watches, any trigger.
AnyEvent(s, event) ==
    [s EXCEPT !.is_active = TRUE, !.watched = {}, !.triggers = {event_triggers(event)}]

LEMMA AnyEventFields ==
    ASSUME NEW r \in Notified, NEW s \in ToSet(r.subscriptions)
    PROVE  LET every == AnyEvent(s, r.event) IN
           /\ every.is_active = TRUE /\ every.watched = {}
           /\ every.triggers = {event_triggers(r.event)}
           /\ every.id = s.id /\ every.entities = s.entities
           /\ every.q = s.q /\ every.scope_q = s.scope_q
           /\ every.accept = s.accept /\ every.format = s.format
<1>1. DOMAIN s = {"id", "is_active", "entities", "q", "scope_q", "watched", "triggers",
                  "endpoint", "accept", "format", "jsonld_context", "at_context",
                  "expand_values", "json_keys"}
  BY RequestAssumption
<1>. QED  BY <1>1 DEF AnyEvent

LEMMA EventHasTriggers ==
    ASSUME NEW event, event.kind \in {"Created", "Updated", "Deleted"}
    PROVE  event_triggers(event) # {}
BY DEF event_triggers

LEMMA MatchesAnyEvent ==
    ASSUME NEW r \in Notified, NEW s \in ToSet(r.subscriptions), NEW selectors \in s.entities,
           NEW e, NEW options
    PROVE  subscription_matches_event(AnyEvent(s, r.event), e, r.event, options)
             <=> /\ \E selector \in selectors : SelectorMatches(selector, e)
                 /\ query_matches_value(e, s.q, options)
                 /\ scope_query_matches(extract_scope_values(e), s.scope_q)
<1>. DEFINE every == AnyEvent(s, r.event)
<1>1. /\ every.is_active = TRUE /\ every.watched = {}
      /\ every.triggers = {event_triggers(r.event)}
      /\ every.entities = s.entities /\ every.q = s.q /\ every.scope_q = s.scope_q
  BY AnyEventFields
<1>2. s.entities = {selectors}
  BY RequestAssumption DEF Optional
<1>3. event_triggers(r.event) # {} /\ UNION {event_triggers(r.event)} = event_triggers(r.event)
  BY RequestAssumption, EventHasTriggers
<1>. HIDE DEF every
<1>. QED  BY <1>1, <1>2, <1>3 DEF subscription_matches_event, every

LEMMA SameQueryFields ==
    ASSUME NEW s, NEW selector
    PROVE  LET query == SameQuery(s, selector) IN
           /\ query.id = {<<v>> : v \in selector.id}
           /\ query.entity_type = {<<v>> : v \in selector.type}
           /\ query.id_pattern = selector.id_pattern
           /\ query.attrs = {} /\ query.pick = {} /\ query.omit = {} /\ query.options = {}
           /\ query.q = s.q /\ query.scope_q = s.scope_q
           /\ query.accept = s.accept /\ query.format = s.format
BY DEF SameQuery, EveryEntity

\* A query with the parameters of a selector is matched as the selector is.
LEMMA SelectorLikeQuery ==
    ASSUME NEW s, NEW selector, Optional(selector.type), "" \notin selector.type, NEW e, NEW options
    PROVE  entity_matches_query(e, SameQuery(s, selector), options)
             <=> /\ SelectorMatches(selector, e)
                 /\ query_matches_value(e, s.q, options)
                 /\ scope_query_matches(extract_scope_values(e), s.scope_q)
<1>. DEFINE query == SameQuery(s, selector)
<1>1. /\ query.id = {<<v>> : v \in selector.id}
      /\ query.entity_type = {<<v>> : v \in selector.type}
      /\ query.id_pattern = selector.id_pattern
      /\ query.attrs = {} /\ query.q = s.q /\ query.scope_q = s.scope_q
  BY SameQueryFields
<1>. HIDE DEF query
<1>2. (\A ids \in query.id : Id(e) \in ToSet(ids)) <=> \A id \in selector.id : id = Id(e)
  <2>1. (\A ids \in query.id : Id(e) \in ToSet(ids)) <=> \A id \in selector.id : Id(e) \in ToSet(<<id>>)
    BY <1>1
  <2>2. ASSUME NEW id  PROVE Id(e) \in ToSet(<<id>>) <=> id = Id(e)
    <3>1. ToSet(<<id>>) = {id}
      BY OneAlone
    <3>. QED  BY <3>1
  <2>. QED  BY <2>1, <2>2
<1>3. (query.entity_type # {} => \E t \in parse_csv(query.entity_type) : entity_type_matches(e, t))
        <=> \A t \in selector.type : entity_type_matches(e, t)
  <2>1. CASE selector.type = {}
    BY <1>1, <2>1
  <2>2. ASSUME NEW t, selector.type = {t}
        PROVE  (query.entity_type # {} => \E u \in parse_csv(query.entity_type) : entity_type_matches(e, u))
                 <=> \A u \in selector.type : entity_type_matches(e, u)
    <3>1. query.entity_type = {<<t>>}
      BY <1>1, <2>2
    <3>2. parse_csv(query.entity_type) = {t}
      BY <2>2, <3>1, NamesOfOne
    <3>. QED  BY <2>2, <3>1, <3>2
  <2>. QED  BY <2>1, <2>2 DEF Optional
<1>4. parse_csv(query.attrs) \subseteq DOMAIN e.m
  BY <1>1, NoNames
<1>5. entity_matches_query(e, query, options)
        <=> /\ SelectorMatches(selector, e)
            /\ query_matches_value(e, s.q, options)
            /\ scope_query_matches(extract_scope_values(e), s.scope_q)
  BY <1>1, <1>2, <1>3, <1>4 DEF entity_matches_query, SelectorMatches
<1>. QED  BY <1>5 DEF query

\* Nothing is left out where nothing is picked or omitted.
LEMMA ProjectedWhole ==
    ASSUME NEW e \in Entities, NEW query, query.pick = {}, query.attrs = {}, query.omit = {},
           NEW representation
    PROVE  project_entity(e, query, representation) = Represented(e, representation)
<1>. DEFINE kept == {key \in DOMAIN e.m : {} = {} \/ reserved_member(key) \/ key \in {}}
<1>1. kept = DOMAIN e.m
  OBVIOUS
<1>2. DOMAIN e.m \cap (kept \ {}) = DOMAIN e.m
  BY <1>1
<1>3. OnlyMembers(e, kept \ {}) = e
  BY <1>2, EntityAssumption DEF OnlyMembers
<1>. HIDE DEF kept
<1>4. project_entity(e, query, representation) = Represented(OnlyMembers(e, kept \ {}), representation)
  BY NoNames DEF project_entity, kept
<1>. QED  BY <1>3, <1>4

\* Formats that are not keyValues are represented as they are, but for GeoJSON.
LEMMA SameRepresentation ==
    ASSUME NEW s, Optional(s.accept), Optional(s.format), s.format # {"simplified"},
           NEW query, query.accept = s.accept, query.format = s.format, query.options = {}, NEW e
    PROVE  Represented(e, representation_from_request(query))
             = Represented(e, NotificationRepresentation(s))
<1>1. CASE s.accept = {"application/geo+json"}
  BY <1>1 DEF representation_from_request, NotificationRepresentation
<1>2. CASE s.accept # {"application/geo+json"} /\ s.format = {"keyValues"}
  BY <1>2 DEF representation_from_request, NotificationRepresentation
<1>3. CASE s.accept # {"application/geo+json"} /\ s.format # {"keyValues"}
  <2>1. s.format \cap {"keyValues", "simplified"} = {}
    BY <1>3 DEF Optional
  <2>2. representation_from_request(query) \in {"aggregated", "temporal", "normalized"}
    BY <1>3, <2>1 DEF representation_from_request
  <2>3. NotificationRepresentation(s) = "normalized"
    BY <1>3 DEF NotificationRepresentation
  <2>. QED  BY <2>2, <2>3 DEF Represented
<1>. QED  BY <1>1, <1>2, <1>3

\* A subscription selects the entities that a query with the same parameters finds and
\* represents them as that query does (subscription_matches_event and
\* build_notification_payload, written apart from entity_matches_query and
\* project_entity), but for the format "simplified".
THEOREM SubscriptionsSelect == Spec => []SubscriptionsSelectLikeQueries
<1>1. StoreInv /\ ControlInv => SubscriptionsSelectLikeQueries
  <2>. DEFINE Goal(every, options, selectors, e) ==
                LET queries == {SameQuery(every, selector) : selector \in selectors} IN
                (\A selector \in selectors : "" \notin selector.type) =>
                /\ subscription_matches_event(every, e, request.event, options)
                     <=> \E q \in queries : entity_matches_query(e, q, options)
                /\ \A q \in queries : every.format # {"simplified"} =>
                     build_notification_payload(every, e).data
                       = project_entity(e, q, representation_from_request(q))
  <2>. SUFFICES ASSUME StoreInv, ControlInv, Notifies,
                       NEW i \in DOMAIN request.subscriptions,
                       NEW every, every = AnyEvent(request.subscriptions[i], request.event),
                       NEW options, NEW selectors \in every.entities, NEW e \in store
                PROVE  Goal(every, options, selectors, e)
    <3>. DEFINE Every(i) == AnyEvent(request.subscriptions[i], request.event)
                Under(i) == match_options(Every(i), context.terms, ById(store))
    <3>1. SubscriptionsSelectLikeQueries <=>
            (Notifies => \A i \in DOMAIN request.subscriptions :
                \A selectors \in Every(i).entities, e \in store :
                   Goal(Every(i), Under(i), selectors, e))
      BY DEF SubscriptionsSelectLikeQueries, AnyEvent
    <3>. HIDE DEF Goal, Every, Under
    <3>2. \A i : Every(i) = AnyEvent(request.subscriptions[i], request.event)
      BY DEF Every
    <3>. QED  BY <3>1, <3>2
  <2>. SUFFICES ASSUME \A selector \in selectors : "" \notin selector.type
                PROVE  /\ subscription_matches_event(every, e, request.event, options)
                            <=> \E selector \in selectors :
                                   entity_matches_query(e, SameQuery(every, selector), options)
                       /\ \A selector \in selectors : every.format # {"simplified"} =>
                            build_notification_payload(every, e).data
                              = project_entity(e, SameQuery(every, selector),
                                    representation_from_request(SameQuery(every, selector)))
    OBVIOUS
  <2>. DEFINE s == request.subscriptions[i]
  <2>1. request \in Notified /\ s \in ToSet(request.subscriptions) /\ e \in Entities
    BY EntitiesAreThese DEF ControlInv, StoreInv, Notifies, ToSet
  <2>2. /\ every.entities = s.entities /\ every.q = s.q /\ every.scope_q = s.scope_q
        /\ every.accept = s.accept /\ every.format = s.format
    BY <2>1, AnyEventFields
  <2>3. \A selector \in selectors : Optional(selector.type)
    BY <2>1, <2>2, RequestAssumption
  <2>4. subscription_matches_event(every, e, request.event, options)
          <=> \E selector \in selectors : entity_matches_query(e, SameQuery(every, selector), options)
    <3>1. subscription_matches_event(every, e, request.event, options)
            <=> /\ \E selector \in selectors : SelectorMatches(selector, e)
                /\ query_matches_value(e, every.q, options)
                /\ scope_query_matches(extract_scope_values(e), every.scope_q)
      BY <2>1, <2>2, MatchesAnyEvent
    <3>2. \A selector \in selectors :
             entity_matches_query(e, SameQuery(every, selector), options)
               <=> /\ SelectorMatches(selector, e)
                   /\ query_matches_value(e, every.q, options)
                   /\ scope_query_matches(extract_scope_values(e), every.scope_q)
      BY <2>3, SelectorLikeQuery
    <3>. QED  BY <3>1, <3>2
  <2>5. ASSUME NEW selector \in selectors, every.format # {"simplified"}
        PROVE  build_notification_payload(every, e).data
                 = project_entity(e, SameQuery(every, selector),
                                  representation_from_request(SameQuery(every, selector)))
    <3>. DEFINE query == SameQuery(every, selector)
    <3>1. /\ query.pick = {} /\ query.attrs = {} /\ query.omit = {} /\ query.options = {}
          /\ query.accept = every.accept /\ query.format = every.format
      BY SameQueryFields
    <3>2. Optional(every.accept) /\ Optional(every.format)
      BY <2>1, <2>2, RequestAssumption
    <3>. HIDE DEF query
    <3>3. project_entity(e, query, representation_from_request(query))
            = Represented(e, NotificationRepresentation(every))
      <4>1. project_entity(e, query, representation_from_request(query))
              = Represented(e, representation_from_request(query))
        BY <2>1, <3>1, ProjectedWhole
      <4>2. Represented(e, representation_from_request(query))
              = Represented(e, NotificationRepresentation(every))
        BY <2>5, <3>1, <3>2, SameRepresentation
      <4>. QED  BY <4>1, <4>2
    <3>4. build_notification_payload(every, e).data = Represented(e, NotificationRepresentation(every))
      BY DEF build_notification_payload
    <3>. QED  BY <3>3, <3>4 DEF query
  <2>. QED  BY <2>4, <2>5
<1>. QED  BY <1>1, HandlerInvariant, PTL

-----------------------------------------------------------------------------
(* Sequences without repetition.                                           *)

LEMMA CardinalityOfInjective ==
    ASSUME NEW S, IsFiniteSet(S), NEW s \in Seq(S), IsInjective(s)
    PROVE  Cardinality(ToSet(s)) = Len(s) /\ IsFiniteSet(ToSet(s)) /\ ToSet(s) \subseteq S
<1>. DEFINE n == Len(s)
<1>1. n \in Nat /\ DOMAIN s = 1 .. n /\ \A i \in 1 .. n : s[i] \in S
  OBVIOUS
<1>2. ToSet(s) = {s[i] : i \in 1 .. n}
  BY <1>1 DEF ToSet
<1>3. s \in [1 .. n -> ToSet(s)]
  BY <1>1, <1>2
<1>4. \A i, j \in 1 .. n : s[i] = s[j] => i = j
  BY <1>1 DEF IsInjective
<1>5. s \in Bijection(1 .. n, ToSet(s))
  BY <1>2, <1>3, <1>4 DEF Bijection, Injection, Surjection, IsInjective
<1>6. ToSet(s) \subseteq S
  BY <1>1, <1>2
<1>7. IsFiniteSet(ToSet(s))
  BY <1>6, FS_Subset
<1>8. Cardinality(ToSet(s)) = n
  <2>1. ExistsBijection(1 .. n, ToSet(s))
    BY <1>5 DEF ExistsBijection
  <2>. QED  BY <1>1, <2>1, FS_CountingElements
<1>. QED  BY <1>6, <1>7, <1>8

LEMMA TailOfInjective ==
    ASSUME NEW S, NEW s \in Seq(S), s # <<>>, IsInjective(s)
    PROVE  IsInjective(Tail(s)) /\ Head(s) \notin ToSet(Tail(s))
<1>1. Len(s) \in Nat /\ Len(s) > 0 /\ DOMAIN s = 1 .. Len(s) /\ Head(s) = s[1]
  OBVIOUS
<1>2. /\ DOMAIN Tail(s) = 1 .. Len(s) - 1
      /\ \A i \in 1 .. Len(s) - 1 : Tail(s)[i] = s[i + 1] /\ i + 1 \in 1 .. Len(s)
  BY <1>1
<1>3. \A i, j \in 1 .. Len(s) : s[i] = s[j] => i = j
  BY <1>1 DEF IsInjective
<1>4. IsInjective(Tail(s))
  BY <1>2, <1>3 DEF IsInjective
<1>5. \A i \in 1 .. Len(s) - 1 : Tail(s)[i] # s[1]
  BY <1>1, <1>2, <1>3
<1>6. ToSet(Tail(s)) = {Tail(s)[i] : i \in 1 .. Len(s) - 1}
  BY <1>2 DEF ToSet
<1>. QED  BY <1>1, <1>4, <1>5, <1>6

LEMMA AppendToInjective ==
    ASSUME NEW S, NEW s \in Seq(S), NEW x \in S, IsInjective(s), x \notin ToSet(s)
    PROVE  /\ Append(s, x) \in Seq(S) /\ IsInjective(Append(s, x))
           /\ ToSet(Append(s, x)) = ToSet(s) \cup {x}
           /\ Len(Append(s, x)) = Len(s) + 1
<1>. DEFINE n == Len(s)
            more == Append(s, x)
<1>1. /\ n \in Nat /\ DOMAIN s = 1 .. n /\ more \in Seq(S) /\ Len(more) = n + 1
      /\ DOMAIN more = 1 .. n + 1 /\ more[n + 1] = x /\ \A i \in 1 .. n : more[i] = s[i]
  OBVIOUS
<1>2. \A i \in 1 .. n + 1 : i = n + 1 \/ i \in 1 .. n
  BY <1>1
<1>3. \A i \in 1 .. n : i \in 1 .. n + 1
  BY <1>1
<1>4. n + 1 \in 1 .. n + 1
  BY <1>1
<1>5. ToSet(s) = {s[i] : i \in 1 .. n} /\ ToSet(more) = {more[i] : i \in 1 .. n + 1}
  BY <1>1 DEF ToSet
<1>. HIDE DEF more, n
<1>6. ToSet(more) = ToSet(s) \cup {x}
  BY <1>1, <1>2, <1>3, <1>4, <1>5
<1>7. \A i, j \in 1 .. n : s[i] = s[j] => i = j
  BY <1>1 DEF IsInjective
<1>8. \A i \in 1 .. n : s[i] # x
  BY <1>5
<1>9. IsInjective(more)
  BY <1>1, <1>2, <1>7, <1>8 DEF IsInjective
<1>. QED  BY <1>1, <1>6, <1>9 DEF more, n

-----------------------------------------------------------------------------
(* The answer of a query.                                                  *)

LEMMA CertainIsPossible ==
    StoreInv => /\ Certain \subseteq Possible /\ Possible \subseteq Selected
                /\ Selected \subseteq store /\ IsFiniteSet(Selected)
<1>1. Certain \subseteq Possible
  BY SomeTerms DEF Certain, Possible, TermsFor
<1>2. Possible \subseteq Selected /\ Selected \subseteq store
  BY DEF Possible, Selected
<1>3. StoreInv => IsFiniteSet(Selected)
  BY <1>2, FS_Subset DEF StoreInv
<1>. QED  BY <1>1, <1>2, <1>3

LEMMA TermsAreAll ==
    ASSUME NEW contexts \in SUBSET Contexts, NEW terms \in TermsOf(contexts)
    PROVE  terms \in AllTerms
BY DEF AllTerms

LEMMA LinksAreAll ==
    ASSUME NEW entities \in SUBSET Entities
    PROVE  ById(entities) \in AllLinks
BY DEF AllLinks

\* The store says what the entities found in it say.
LEMMA StoreSaysAll ==
    ASSUME NEW own \in SUBSET store
    PROVE  Over(ById(store), ById(own)) = ById(store)
<1>. DEFINE Of(entities, id) == CHOOSE e \in entities : Id(e) = id
            ids(entities) == {Id(e) : e \in entities}
<1>1. \A entities : ById(entities) = [id \in ids(entities) |-> Of(entities, id)]
  BY DEF ById
<1>2. ids(own) \subseteq ids(store)
  OBVIOUS
<1>. HIDE DEF Of, ids
<1>3. /\ DOMAIN ById(store) = ids(store) /\ DOMAIN ById(own) = ids(own)
      /\ ById(store) = [id \in DOMAIN ById(store) |-> ById(store)[id]]
  BY <1>1
<1>4. DOMAIN ById(store) \cup DOMAIN ById(own) = DOMAIN ById(store)
  BY <1>2, <1>3
<1>5. Over(ById(store), ById(own))
        = [id \in DOMAIN ById(store) |->
              IF id \in DOMAIN ById(store) THEN ById(store)[id] ELSE ById(own)[id]]
  BY <1>4 DEF Over
<1>. QED  BY <1>3, <1>5

LEMMA ErrorsSpoil ==
    /\ BadRequest \in Errors
    /\ \A op, values : Given(op, values) = IF values = {} THEN {} ELSE {[op |-> op, value |-> values]}
BY DEF Errors, Given

\* Where the filter of a query is complete, its clauses select what the check after it
\* lets pass.
LEMMA FilterIsCheck ==
    ASSUME NEW query, query.q = {}, query.scope_q = {},
           FilterOf(from_entity_query(query)) \cap Errors = {},
           NEW e, SelectedBy(FilterOf(from_entity_query(query)), e),
           NEW options
    PROVE  entity_matches_query(e, query, options)
             <=> /\ \A ids \in query.id : Id(e) \in ToSet(ids)
                 /\ query.entity_type # {} => parse_csv(query.entity_type) # {}
<1>. DEFINE plan == from_entity_query(query)
            filter == FilterOf(plan)
<1>1. /\ plan.types = parse_csv(query.entity_type) /\ plan.id_pattern = query.id_pattern
      /\ plan.attrs = parse_csv(query.attrs) /\ filter = to_bson_filter(plan)
  BY PlanIsNoError
<1>. HIDE DEF plan
<1>2. \A clause \in filter : Selects(clause, e) /\ clause # BadRequest
  BY ErrorsSpoil DEF SelectedBy, plan
<1>3. query.entity_type # {} /\ parse_csv(query.entity_type) # {}
        => \E t \in parse_csv(query.entity_type) : entity_type_matches(e, t)
  <2>. SUFFICES ASSUME parse_csv(query.entity_type) # {}
                PROVE  \E t \in parse_csv(query.entity_type) : entity_type_matches(e, t)
    OBVIOUS
  <2>. DEFINE clause == [op |-> "type in", value |-> parse_csv(query.entity_type)]
  <2>1. clause \in filter
    BY <1>1, ErrorsSpoil DEF to_bson_filter
  <2>2. Selects(clause, e)
    BY <1>2, <2>1
  <2>. QED  BY <2>2 DEF Selects
<1>4. \A token \in query.id_pattern : token \in DOMAIN Regex /\ Id(e) \in Regex[token]
  <2>. SUFFICES ASSUME NEW token \in query.id_pattern
                PROVE  token \in DOMAIN Regex /\ Id(e) \in Regex[token]
    OBVIOUS
  <2>. DEFINE clause == [op |-> "id matches", value |-> Regex[token]]
  <2>1. (IF token \in DOMAIN Regex THEN clause ELSE BadRequest) \in filter
    BY <1>1 DEF to_bson_filter
  <2>2. token \in DOMAIN Regex /\ Selects(clause, e)
    BY <1>2, <2>1
  <2>. QED  BY <2>2 DEF Selects
<1>5. parse_csv(query.attrs) \subseteq DOMAIN e.m
  <2>1. CASE parse_csv(query.attrs) = {}
    BY <2>1
  <2>2. CASE parse_csv(query.attrs) # {}
    <3>. DEFINE clause == [op |-> "exist", value |-> parse_csv(query.attrs)]
    <3>1. clause \in filter
      BY <1>1, <2>2, ErrorsSpoil DEF to_bson_filter
    <3>2. Selects(clause, e)
      BY <1>2, <3>1
    <3>. QED  BY <3>2 DEF Selects
  <2>. QED  BY <2>1, <2>2
<1>6. query_matches_value(e, query.q, options) /\ scope_query_matches(extract_scope_values(e), query.scope_q)
  BY AskedForNothing
<1>7. (query.entity_type # {} => \E t \in parse_csv(query.entity_type) : entity_type_matches(e, t))
        <=> (query.entity_type # {} => parse_csv(query.entity_type) # {})
  BY <1>3
<1>. QED  BY <1>4, <1>5, <1>6, <1>7 DEF entity_matches_query

\* The same of the ids.
LEMMA FilterIsCheckOfIds ==
    ASSUME NEW query, Optional(query.id),
           FilterOf(from_entity_query(query)) \cap Errors = {},
           NEW e \in Entities, SelectedBy(FilterOf(from_entity_query(query)), e)
    PROVE  (\A ids \in query.id : Id(e) \in ToSet(ids))
             <=> (query.id # {} => parse_csv(query.id) # {})
<1>. DEFINE plan == from_entity_query(query)
            filter == FilterOf(plan)
<1>1. plan.ids = parse_csv(query.id) /\ filter = to_bson_filter(plan)
  BY PlanIsNoError
<1>. HIDE DEF plan
<1>2. \A clause \in filter : Selects(clause, e)
  BY DEF SelectedBy, plan
<1>3. CASE query.id = {}
  BY <1>3
<1>4. ASSUME NEW ids, query.id = {ids}
      PROVE  Id(e) \in ToSet(ids) <=> parse_csv(query.id) # {}
  <2>1. parse_csv(query.id) = ToSet(ids) \ {""}
    BY <1>4 DEF parse_csv
  <2>2. Id(e) # ""
    BY EntityAssumption
  <2>3. ASSUME parse_csv(query.id) # {}
        PROVE  Id(e) \in parse_csv(query.id)
    <3>. DEFINE clause == [op |-> "id in", value |-> parse_csv(query.id)]
    <3>1. clause \in filter
      BY <1>1, <2>3, ErrorsSpoil DEF to_bson_filter
    <3>2. Selects(clause, e)
      BY <1>2, <3>1
    <3>. QED  BY <3>2 DEF Selects
  <2>. QED  BY <2>1, <2>2, <2>3
<1>. QED  BY <1>3, <1>4 DEF Optional

\* Without q and scopeQ a query asks for all that its filter selects or for nothing.
LEMMA AllOrNothing ==
    ASSUME StoreInv, ControlInv, request.kind = "query", Filter \cap Errors = {},
           request.query.q = {}, request.query.scope_q = {}
    PROVE  Possible = {} \/ Certain = Selected
<1>. DEFINE query == request.query
            asksForSome == /\ query.id # {} => parse_csv(query.id) # {}
                           /\ query.entity_type # {} => parse_csv(query.entity_type) # {}
<1>1. Optional(query.id)
  BY RequestAssumption DEF ControlInv
<1>2. ASSUME NEW e \in Selected, NEW terms
      PROVE  Asks(e, terms) <=> asksForSome
  <2>1. e \in Entities /\ SelectedBy(FilterOf(from_entity_query(query)), e)
    BY <1>2 DEF Selected, StoreInv
  <2>2. FilterOf(from_entity_query(query)) \cap Errors = {}
    BY DEF Filter
  <2>3. Asks(e, terms) <=> /\ \A ids \in query.id : Id(e) \in ToSet(ids)
                           /\ query.entity_type # {} => parse_csv(query.entity_type) # {}
    BY <2>1, <2>2, FilterIsCheck DEF Asks
  <2>. QED  BY <1>1, <2>1, <2>2, <2>3, FilterIsCheckOfIds
<1>. HIDE DEF asksForSome
<1>3. asksForSome => Certain = Selected
  BY <1>2 DEF Certain
<1>4. ~asksForSome => Possible = {}
  BY <1>2 DEF Possible
<1>. QED  BY <1>3, <1>4

\* MongoDB finds all that is selected.
Unlimited == Limit \in {{}, {0}}

Looping ==
    /\ request.kind = "query" /\ writes = 0
    /\ pc \in {"graph", "next", "resolve"} \/ (pc = "end" /\ answer.status = 200)

\* What was found and not yet looked at, and what matched, are selected entities, none
\* of them twice.  Without a limit of MongoDB's they include all that the query certainly
\* asks for.  With one, they are as many as it allows of entities that all match.
QueryInv ==
    Looping =>
        /\ todo \in Seq(Selected) /\ IsInjective(todo)
        /\ matched \in Seq(Possible) /\ IsInjective(matched)
        /\ ToSet(todo) \cap ToSet(matched) = {}
        /\ Unlimited => Certain \subseteq ToSet(todo) \cup ToSet(matched)
        /\ ~Unlimited =>
             /\ request.query.limit = Limit
             /\ \/ Possible = {}
                \/ /\ Certain = Selected
                   /\ Len(todo) + Len(matched) = Limited(Cardinality(Selected), Limit)
        /\ pc \in {"next", "resolve"} =>
             linked = IF query_needs_linked_graph(request.query.q) THEN ById(store) ELSE <<>>
        /\ pc = "end" => todo = <<>>

\* As long as nobody writes, the query asks for the same entities.
LEMMA AsksForTheSame ==
    ASSUME UNCHANGED <<store, request>>
    PROVE  Selected' = Selected /\ Certain' = Certain /\ Possible' = Possible /\ Limit' = Limit
<1>1. Selected' = Selected /\ Limit' = Limit
  BY DEF Selected, Limit
<1>2. \A e, terms : Asks(e, terms)' = Asks(e, terms) /\ TermsFor(e)' = TermsFor(e)
  BY DEF Asks, TermsFor
<1>. QED  BY <1>1, <1>2 DEF Certain, Possible

LEMMA FindStep ==
    ASSUME StoreInv, ControlInv, Find
    PROVE  QueryInv'
<1>. DEFINE n == Limited(Cardinality(Selected), Limit)
<1>1. /\ request.kind = "query" /\ Filter \cap Errors = {}
      /\ IsFiniteSet(Selected) /\ Selected \in SUBSET store
      /\ n \in Nat /\ todo' \in Orders(Selected, n) /\ todo' \in Seq(Selected)
  BY FoundInSomeOrder
<1>2. /\ UNCHANGED <<store, request>> /\ pc' = "graph" /\ matched' = <<>>
  BY DEF Find, ControlInv
<1>3. Selected' = Selected /\ Certain' = Certain /\ Possible' = Possible /\ Limit' = Limit
  BY <1>2, AsksForTheSame
<1>4. todo' \in [1 .. n -> Selected] /\ Len(todo') = n /\ IsInjective(todo')
  BY <1>1 DEF Orders, IsInjective
<1>5. matched' \in Seq(Possible) /\ IsInjective(matched') /\ ToSet(matched') = {} /\ Len(matched') = 0
  BY <1>2 DEF IsInjective, ToSet
<1>6. Unlimited => Certain \subseteq ToSet(todo')
  <2>. SUFFICES ASSUME Unlimited  PROVE Certain \subseteq ToSet(todo')
    OBVIOUS
  <2>1. n = Cardinality(Selected)
    BY DEF Unlimited, Limited
  <2>2. Cardinality(ToSet(todo')) = n /\ ToSet(todo') \subseteq Selected
    BY <1>1, <1>4, CardinalityOfInjective
  <2>3. ToSet(todo') = Selected
    BY <1>1, <2>1, <2>2, FS_Subset
  <2>. QED  BY <2>3, CertainIsPossible
<1>7. ~Unlimited => /\ request.query.limit = Limit /\ (Possible = {} \/ Certain = Selected)
                    /\ Len(todo') + Len(matched') = n
  <2>. SUFFICES ASSUME ~Unlimited
                PROVE  request.query.limit = Limit /\ (Possible = {} \/ Certain = Selected)
    BY <1>1, <1>4, <1>5
  <2>1. Limit = IF request.query.q # {} \/ request.query.scope_q # {} THEN {} ELSE request.query.limit
    BY <1>1, PlanIsNoError DEF Limit, Filter
  <2>2. request.query.q = {} /\ request.query.scope_q = {} /\ request.query.limit = Limit
    BY <2>1 DEF Unlimited
  <2>. QED  BY <1>1, <2>2, AllOrNothing
<1>. QED  BY <1>1, <1>2, <1>3, <1>4, <1>5, <1>6, <1>7 DEF QueryInv, Unlimited

LEMMA EntityContexts ==
    ASSUME ControlInv, request.kind = "query", todo # <<>>
    PROVE  ToSet(StartContexts) = get(Head(todo), "@context") \cup request.link
<1>. DEFINE own == get(Head(todo), "@context")
<1>1. /\ SetToSeq(own) \in Seq(own) /\ ToSet(SetToSeq(own)) = own
  BY MemberIsOptional, OptionalAsSequence
<1>2. Optional(request.link)
  BY RequestAssumption DEF ControlInv
<1>3. SetToSeq(request.link) \in Seq(request.link) /\ ToSet(SetToSeq(request.link)) = request.link
  BY <1>2, OptionalAsSequence
<1>. HIDE DEF own
<1>4. SetToSeq(own) \in Seq(own \cup request.link) /\ SetToSeq(request.link) \in Seq(own \cup request.link)
  BY <1>1, <1>3
<1>5. StartContexts = SetToSeq(own) \o SetToSeq(request.link)
  BY DEF StartContexts, Notifies, own
<1>6. ToSet(SetToSeq(own) \o SetToSeq(request.link)) = own \cup request.link
  BY <1>1, <1>3, <1>4, ConcatenationHolds
<1>. QED  BY <1>5, <1>6 DEF own

\* The loop matches an entity as a query asks for it, under terms its context may leave.
LEMMA LoopMatches ==
    ASSUME StoreInv, ControlInv, request.kind = "query", pc = "resolve", context.queue = <<>>,
           Head(todo) \in Selected,
           linked = IF query_needs_linked_graph(request.query.q) THEN ById(store) ELSE <<>>
    PROVE  /\ context.terms \in TermsFor(Head(todo))
           /\ entity_matches_query(Head(todo), request.query, Options(request.query))
                <=> Asks(Head(todo), context.terms)
<1>. DEFINE e == Head(todo)
            query == request.query
            terms == context.terms
<1>1. todo # <<>> /\ ToSet(StartContexts) \in SUBSET Contexts /\ terms \in TermsOf(ToSet(StartContexts))
  BY StartContextsAreContexts, WalkEnds DEF ControlInv
<1>2. terms \in TermsFor(e)
  BY <1>1, EntityContexts DEF TermsFor
<1>3. /\ e \in Entities /\ terms \in AllTerms /\ ById(store) \in AllLinks
      /\ query \in Sources(request) /\ request \in Requests
  <2>1. e \in Entities /\ request \in Requests
    BY DEF Selected, StoreInv, ControlInv
  <2>2. terms \in AllTerms
    BY <1>1, TermsAreAll
  <2>3. ById(store) \in AllLinks
    BY LinksAreAll DEF StoreInv
  <2>. QED  BY <2>1, <2>2, <2>3 DEF Sources
<1>4. query_needs_linked_graph(query.q) \/
        (query_matches_value(e, query.q, match_options(query, terms, ById(store)))
           <=> query_matches_value(e, query.q, match_options(query, terms, <<>>)))
  BY <1>3, LinkAssumption
<1>5. query_matches_value(e, query.q, match_options(query, terms, ById(store)))
        <=> query_matches_value(e, query.q, match_options(query, terms, linked))
  BY <1>4
<1>6. Options(query) = match_options(query, terms, linked)
  BY DEF Options
<1>7. entity_matches_query(e, query, Options(query)) <=> Asks(e, terms)
  BY <1>5, <1>6 DEF entity_matches_query, Asks
<1>. QED  BY <1>2, <1>7

LEMMA MatchEntityStep ==
    ASSUME StoreInv, ControlInv, QueryInv, MatchEntity, Looping'
    PROVE  QueryInv'
<1>. DEFINE e == Head(todo)
            matches == entity_matches_query(e, request.query, Options(request.query))
<1>1. /\ UNCHANGED <<store, request, linked>> /\ pc = "resolve" /\ pc' = "next" /\ todo # <<>>
      /\ todo' = Tail(todo) /\ matched' = IF matches THEN Append(matched, e) ELSE matched
      /\ Looping /\ request.kind = "query" /\ context.queue = <<>>
  BY DEF MatchEntity, Looping, ControlInv, Notifies
<1>2. Selected' = Selected /\ Certain' = Certain /\ Possible' = Possible /\ Limit' = Limit
  BY <1>1, AsksForTheSame
<1>3. /\ todo \in Seq(Selected) /\ IsInjective(todo)
      /\ matched \in Seq(Possible) /\ IsInjective(matched)
      /\ ToSet(todo) \cap ToSet(matched) = {}
      /\ Unlimited => Certain \subseteq ToSet(todo) \cup ToSet(matched)
      /\ linked = IF query_needs_linked_graph(request.query.q) THEN ById(store) ELSE <<>>
  BY <1>1 DEF QueryInv
<1>4. /\ e \in Selected /\ Tail(todo) \in Seq(Selected) /\ Len(Tail(todo)) = Len(todo) - 1
      /\ ToSet(todo) = {e} \cup ToSet(Tail(todo))
      /\ IsInjective(Tail(todo)) /\ e \notin ToSet(Tail(todo)) /\ Len(todo) \in Nat
  BY <1>1, <1>3, TailAndHead, TailOfInjective
<1>5. context.terms \in TermsFor(e) /\ (matches <=> Asks(e, context.terms))
  BY <1>1, <1>3, <1>4, LoopMatches
<1>6. (matches => e \in Possible) /\ (e \in Certain => matches)
  BY <1>4, <1>5 DEF Possible, Certain
<1>. HIDE DEF e, matches
<1>7. /\ matched' \in Seq(Possible) /\ IsInjective(matched')
      /\ ToSet(matched') = ToSet(matched) \cup (IF matches THEN {e} ELSE {})
      /\ Len(matched') = Len(matched) + (IF matches THEN 1 ELSE 0) /\ Len(matched) \in Nat
  <2>1. CASE matches
    <3>1. e \notin ToSet(matched) /\ matched' = Append(matched, e)
      BY <1>1, <1>3, <1>4, <2>1
    <3>. QED  BY <1>3, <1>6, <2>1, <3>1, AppendToInjective
  <2>2. CASE ~matches
    BY <1>1, <1>3, <2>2
  <2>. QED  BY <2>1, <2>2
<1>8. ToSet(Tail(todo)) \cap ToSet(matched') = {}
  BY <1>3, <1>4, <1>7
<1>9. Unlimited => Certain \subseteq ToSet(Tail(todo)) \cup ToSet(matched')
  BY <1>3, <1>4, <1>6, <1>7
<1>10. ~Unlimited =>
          /\ request.query.limit = Limit
          /\ \/ Possible = {}
             \/ /\ Certain = Selected
                /\ Len(Tail(todo)) + Len(matched') = Limited(Cardinality(Selected), Limit)
  <2>. SUFFICES ASSUME ~Unlimited, Possible # {}
                PROVE  Certain = Selected /\ Len(Tail(todo)) + Len(matched') = Len(todo) + Len(matched)
    BY <1>1 DEF QueryInv
  <2>1. Certain = Selected
    BY <1>1 DEF QueryInv
  <2>2. matches
    BY <1>4, <1>6, <2>1
  <2>. QED  BY <1>4, <1>7, <2>1, <2>2
<1>11. Unlimited' = Unlimited
  BY <1>2 DEF Unlimited
<1>. QED  BY <1>1, <1>2, <1>3, <1>4, <1>7, <1>8, <1>9, <1>10, <1>11 DEF QueryInv

LEMMA LoadLinkedStep ==
    ASSUME StoreInv, QueryInv, LoadLinked, Looping'
    PROVE  QueryInv'
<1>1. /\ UNCHANGED <<store, request, todo, matched>> /\ pc = "graph" /\ pc' = "next"
      /\ Looping /\ request.kind = "query"
  BY DEF LoadLinked, Looping
<1>2. Selected' = Selected /\ Certain' = Certain /\ Possible' = Possible /\ Limit' = Limit
  BY <1>1, AsksForTheSame
<1>3. ToSet(todo) \in SUBSET store
  BY <1>1 DEF QueryInv, ToSet, Selected
<1>4. linked' = IF query_needs_linked_graph(request.query.q) THEN Over(ById(store), ById(ToSet(todo)))
                ELSE <<>>
  BY <1>1 DEF LoadLinked, Notifies
<1>5. linked' = IF query_needs_linked_graph(request.query.q) THEN ById(store) ELSE <<>>
  BY <1>3, <1>4, StoreSaysAll
<1>. QED  BY <1>1, <1>2, <1>5 DEF QueryInv, Unlimited

LEMMA QueryStep == StoreInv /\ ControlInv /\ QueryInv /\ [Next]_vars => QueryInv'
<1>. SUFFICES ASSUME StoreInv, ControlInv, QueryInv, [Next]_vars, Looping'
              PROVE  QueryInv'
  BY DEF QueryInv
<1>1. CASE Find
  BY <1>1, FindStep
<1>2. CASE LoadLinked
  BY <1>2, LoadLinkedStep
<1>3. CASE MatchEntity
  BY <1>3, MatchEntityStep
<1>4. CASE Refuse \/ FetchFails
  <2>1. ASSUME NEW error, Fail(error)
        PROVE  pc' = "end" /\ answer'.status # 200
    BY <2>1 DEF Fail, End
  <2>2. pc' = "end" /\ answer'.status # 200
    <3>1. CASE Refuse
      BY <2>1, <3>1 DEF Refuse
    <3>2. CASE FetchFails
      BY <2>1, <3>2 DEF FetchFails, Notifies, Looping
    <3>. QED  BY <1>4, <3>1, <3>2
  <2>. QED  BY <2>2 DEF Looping
<1>5. CASE ListSubscriptions \/ Retrieve \/ Discover \/ MatchSubscription \/ EnqueueFails \/ EndNotify
  BY <1>5 DEF ListSubscriptions, Retrieve, Discover, MatchSubscription, EnqueueFails, EndNotify,
            Looping, Notifies
<1>6. CASE Write
  BY <1>6 DEF Write, Looping, ControlInv
<1>7. CASE BeginResolve \/ Resolve \/ AnswerQuery \/ UNCHANGED vars
  <2>1. /\ UNCHANGED <<store, request, todo, matched, linked, writes>> /\ Looping
        /\ pc' \in {"next", "resolve"} => pc \in {"next", "resolve"}
        /\ pc' = "end" => todo = <<>>
    BY <1>7 DEF BeginResolve, Resolve, AnswerQuery, End, vars, Looping, QueryInv
  <2>2. Selected' = Selected /\ Certain' = Certain /\ Possible' = Possible /\ Limit' = Limit
    BY <2>1, AsksForTheSame
  <2>. QED  BY <2>1, <2>2 DEF QueryInv, Unlimited
<1>. QED  BY <1>1, <1>2, <1>3, <1>4, <1>5, <1>6, <1>7 DEF Next, Handle, Idle

LEMMA LimitingOf ==
    ASSUME ControlInv, request.kind = "query", NEW m \in Nat
    PROVE  /\ Limiting(m) \in Nat
           /\ \A l \in request.query.limit : Limiting(m) = IF l < m THEN l ELSE m
           /\ request.query.limit = {} => Limiting(m) = m
<1>1. request.query.limit \in SUBSET Nat /\ Optional(request.query.limit)
  BY RequestAssumption DEF ControlInv
<1>. QED  BY <1>1, LeastIsThere DEF Limiting

LEMMA LimitingIsMonotone ==
    ASSUME ControlInv, request.kind = "query", NEW m \in Nat, NEW n \in Nat, m <= n
    PROVE  Limiting(m) <= Limiting(n) /\ Limiting(m) \in Nat /\ Limiting(n) \in Nat
<1>1. request.query.limit \in SUBSET Nat /\ Optional(request.query.limit)
  BY RequestAssumption DEF ControlInv
<1>2. CASE request.query.limit = {}
  BY <1>2, LimitingOf
<1>3. ASSUME NEW l \in request.query.limit
      PROVE  Limiting(m) <= Limiting(n) /\ Limiting(m) \in Nat /\ Limiting(n) \in Nat
  <2>1. l \in Nat
    BY <1>1
  <2>. QED  BY <2>1, LimitingOf
<1>. QED  BY <1>2, <1>3

\* A query that no write crossed answers with entities that match it, each once, and
\* with all of them unless its limit is smaller (query of services/entities.rs and of
\* persistence/mongo.rs), whatever order MongoDB and the contexts' documents come in.
THEOREM AnswersAreExact == Spec => []AnswerIsExact
<1>1. StoreInv /\ ControlInv /\ QueryInv => AnswerIsExact
  <2>. SUFFICES ASSUME StoreInv, ControlInv, QueryInv, request.kind = "query", pc = "end",
                       answer.status = 200, writes = 0
                PROVE  /\ ToSet(matched) \subseteq Possible
                       /\ Len(matched) = Cardinality(ToSet(matched))
                       /\ Limiting(Len(matched))
                            \in Limiting(Cardinality(Certain)) .. Limiting(Cardinality(Possible))
    BY DEF AnswerIsExact
  <2>. DEFINE m == Len(matched)
              c == Cardinality(Certain)
              p == Cardinality(Possible)
  <2>1. /\ todo = <<>> /\ matched \in Seq(Possible) /\ IsInjective(matched)
        /\ Unlimited => Certain \subseteq ToSet(todo) \cup ToSet(matched)
        /\ ~Unlimited =>
             /\ request.query.limit = Limit
             /\ \/ Possible = {}
                \/ /\ Certain = Selected
                   /\ Len(todo) + Len(matched) = Limited(Cardinality(Selected), Limit)
    BY DEF QueryInv, Looping
  <2>2. /\ Certain \subseteq Possible /\ Possible \subseteq Selected
        /\ IsFiniteSet(Selected) /\ IsFiniteSet(Possible) /\ IsFiniteSet(Certain)
    BY CertainIsPossible, FS_Subset
  <2>3. m = Cardinality(ToSet(matched)) /\ IsFiniteSet(ToSet(matched)) /\ ToSet(matched) \subseteq Possible
    BY <2>1, <2>2, CardinalityOfInjective
  <2>4. m \in Nat /\ c \in Nat /\ p \in Nat /\ m <= p /\ c <= p
    BY <2>2, <2>3, FS_CardinalityType, FS_Subset
  <2>5. Limiting(m) <= Limiting(p) /\ Limiting(m) \in Nat /\ Limiting(p) \in Nat /\ Limiting(c) \in Nat
    BY <2>4, LimitingIsMonotone
  <2>6. Limiting(c) <= Limiting(m)
    <3>1. CASE Unlimited
      <4>1. ToSet(todo) = {}
        BY <2>1 DEF ToSet
      <4>2. c <= m
        BY <2>1, <2>3, <3>1, <4>1, FS_Subset
      <4>. QED  BY <2>4, <4>2, LimitingIsMonotone
    <3>2. CASE ~Unlimited /\ Possible = {}
      <4>1. c = 0
        BY <2>2, <3>2, FS_EmptySet
      <4>. QED  BY <2>4, <4>1, LimitingIsMonotone
    <3>3. CASE ~Unlimited /\ Possible # {}
      <4>1. /\ Certain = Selected /\ request.query.limit = Limit
            /\ m = Limited(Cardinality(Selected), Limit)
        BY <2>1, <2>4, <3>3
      <4>2. Limiting(c) = m
        BY <3>3, <4>1 DEF Limiting, Limited, Unlimited
      <4>3. \A l \in request.query.limit : l \in Nat
        BY RequestAssumption DEF ControlInv
      <4>4. Limiting(m) = m
        <5>1. CASE request.query.limit = {}
          BY <2>4, <5>1, LimitingOf
        <5>2. ASSUME NEW l \in request.query.limit
              PROVE  Limiting(m) = m
          <6>1. Limiting(c) = IF l < c THEN l ELSE c
            BY <2>4, LimitingOf
          <6>2. Limiting(m) = IF l < m THEN l ELSE m
            BY <2>4, LimitingOf
          <6>. QED  BY <2>4, <4>2, <4>3, <6>1, <6>2
        <5>. QED  BY <5>1, <5>2
      <4>. QED  BY <2>4, <4>2, <4>4
    <3>. QED  BY <3>1, <3>2, <3>3
  <2>. QED  BY <2>3, <2>5, <2>6
<1>2. Init => QueryInv
  BY DEF Init, QueryInv, Looping
<1>. QED  BY <1>1, <1>2, QueryStep, HandlerInvariant, PTL DEF Spec

-----------------------------------------------------------------------------
(* The notifications of an event.                                          *)

Subscriptions == request.subscriptions
Looked == Len(Subscriptions) - Len(todo)
Links == Over(ById(store), ById({request.entity}))
Payloads == {build_notification_payload(s, request.entity) : s \in ToSet(Subscriptions)}
SentAsConcerned(s, looked) ==
    \E terms \in TermsOf(ToSet(SubscriptionContexts(s))) :
       Sent(s) = IF looked /\ s.endpoint /\ Concerned(s, terms) THEN 1 ELSE 0

\* The loop has looked at the first of the subscriptions, and each of these was sent
\* what it should be; the others were sent nothing yet, but for the message that failed.
FailedAt(i) == pc = "end" /\ answer.status = 500 /\ i = Looked + 1
NotifyInv ==
    Notifies /\ writes = 0 /\ pc # "start" =>
        /\ Len(todo) <= Len(Subscriptions)
        /\ \A j \in 1 .. Len(todo) : todo[j] = Subscriptions[Looked + j]
        /\ matched \in Seq(Payloads)
        /\ \A i \in DOMAIN Subscriptions :
             \/ SentAsConcerned(Subscriptions[i], i <= Looked)
             \/ FailedAt(i) /\ SentAsConcerned(Subscriptions[i], TRUE)
        /\ pc = "graph" => todo = Subscriptions
        /\ pc \in {"next", "resolve"} =>
             linked = IF \E i \in DOMAIN Subscriptions : query_needs_linked_graph(Subscriptions[i].q)
                      THEN Links ELSE <<>>
        /\ pc = "end" /\ answer.status = 200 => todo = <<>>

LEMMA SubscriptionsAreThese ==
    ASSUME ControlInv, Notifies
    PROVE  /\ request \in Notified /\ request \in Requests /\ request.entity \in Entities
           /\ Subscriptions \in Seq(ToSet(Subscriptions)) /\ Len(Subscriptions) \in Nat
           /\ DOMAIN Subscriptions = 1 .. Len(Subscriptions)
           /\ \A i, j \in DOMAIN Subscriptions : Subscriptions[i].id = Subscriptions[j].id => i = j
           /\ todo \in Seq(ToSet(Subscriptions)) /\ Len(todo) \in Nat
<1>1. request \in Notified /\ request \in Requests /\ request.entity \in Entities
  BY EntitiesAreThese DEF ControlInv, Notifies
<1>2. /\ Subscriptions \in Seq(ToSet(Subscriptions))
      /\ \A i, j \in DOMAIN Subscriptions : Subscriptions[i].id = Subscriptions[j].id => i = j
  BY <1>1, RequestAssumption DEF Subscriptions
<1>3. todo \in Seq(ToSet(Subscriptions))
  BY DEF ControlInv, Subscriptions
<1>. QED  BY <1>1, <1>2, <1>3

\* The notifications of a subscription among some.
SentIn(payloads, id) == Cardinality({i \in DOMAIN payloads : payloads[i].subscription = id})

LEMMA OneMoreSent ==
    ASSUME NEW S, NEW s \in Seq(S), NEW x \in S, NEW id
    PROVE  /\ SentIn(s, id) \in Nat
           /\ SentIn(Append(s, x), id) = SentIn(s, id) + (IF x.subscription = id THEN 1 ELSE 0)
<1>. DEFINE sent(t) == {i \in DOMAIN t : t[i].subscription = id}
            n == Len(s)
            more == Append(s, x)
<1>1. /\ n \in Nat /\ DOMAIN s = 1 .. n /\ DOMAIN more = 1 .. n + 1
      /\ more[n + 1] = x /\ \A i \in 1 .. n : more[i] = s[i]
  OBVIOUS
<1>2. IsFiniteSet(sent(s)) /\ Cardinality(sent(s)) \in Nat
  <2>1. IsFiniteSet(1 .. n)
    BY <1>1, FS_Interval
  <2>2. sent(s) \subseteq 1 .. n
    BY <1>1
  <2>3. IsFiniteSet(sent(s))
    BY <2>1, <2>2, FS_Subset
  <2>. QED  BY <2>3, FS_CardinalityType
<1>3. \A i : i \in 1 .. n + 1 <=> i \in 1 .. n \/ i = n + 1
  BY <1>1
<1>4. n + 1 \notin 1 .. n
  BY <1>1
<1>. HIDE DEF more, n
<1>5. CASE x.subscription = id
  <2>1. sent(more) = sent(s) \cup {n + 1} /\ n + 1 \notin sent(s)
    BY <1>1, <1>3, <1>4, <1>5
  <2>2. Cardinality(sent(s) \cup {n + 1}) = Cardinality(sent(s)) + 1
    BY <1>2, <2>1, FS_AddElement
  <2>. QED  BY <1>2, <1>5, <2>1, <2>2 DEF more, SentIn
<1>6. CASE x.subscription # id
  <2>1. sent(more) = sent(s)
    BY <1>1, <1>3, <1>4, <1>6
  <2>. HIDE DEF sent
  <2>2. Cardinality(sent(more)) = Cardinality(sent(s)) + 0
    BY <1>2, <2>1
  <2>3. Cardinality(sent(more))
          = Cardinality(sent(s)) + (IF x.subscription = id THEN 1 ELSE 0)
    BY <1>6, <2>2
  <2>. QED  BY <1>2, <2>3 DEF more, sent, SentIn
<1>. QED  BY <1>5, <1>6

\* The store with the entity of an event, which it has not if it was deleted.
LEMMA LinksAreOfEntities ==
    ASSUME StoreInv, NEW entity \in Entities
    PROVE  Over(ById(store), ById({entity})) \in AllLinks
<1>. DEFINE id == Id(entity)
            all == IF \E e \in store : Id(e) = id THEN store ELSE store \cup {entity}
            ids(entities) == {Id(e) : e \in entities}
            links == Over(ById(store), ById({entity}))
<1>1. all \in SUBSET Entities /\ \A e, f \in all : Id(e) = Id(f) => e = f
  BY DEF StoreInv
<1>2. ASSUME NEW entities, \A e, f \in entities : Id(e) = Id(f) => e = f
      PROVE  /\ DOMAIN ById(entities) = ids(entities)
             /\ ById(entities) = [i \in DOMAIN ById(entities) |-> ById(entities)[i]]
             /\ \A e \in entities : ById(entities)[Id(e)] = e
  BY <1>2 DEF ById
<1>3. ids(all) = ids(store) \cup {id} /\ ids({entity}) = {id}
  OBVIOUS
<1>4. DOMAIN ById(store) = ids(store) /\ \A e \in store : ById(store)[Id(e)] = e
  BY <1>2 DEF StoreInv
<1>5. DOMAIN ById({entity}) = {id} /\ ById({entity})[id] = entity
  BY <1>2, <1>3
<1>6. /\ DOMAIN ById(all) = ids(store) \cup {id}
      /\ ById(all) = [i \in ids(store) \cup {id} |-> ById(all)[i]]
      /\ \A e \in all : ById(all)[Id(e)] = e
  BY <1>1, <1>2, <1>3
<1>7. links = [i \in ids(store) \cup {id} |->
                 IF i \in ids(store) THEN ById(store)[i] ELSE ById({entity})[i]]
  BY <1>4, <1>5 DEF Over
<1>8. ASSUME NEW i \in ids(store) \cup {id}
      PROVE  ById(all)[i] = IF i \in ids(store) THEN ById(store)[i] ELSE ById({entity})[i]
  <2>1. CASE i \in ids(store)
    <3>1. PICK e \in store : Id(e) = i
      BY <2>1
    <3>2. e \in all
      BY <3>1
    <3>. QED  BY <1>4, <1>6, <2>1, <3>1, <3>2
  <2>2. CASE i \notin ids(store)
    <3>1. i = id /\ entity \in all
      BY <2>2
    <3>. QED  BY <1>5, <1>6, <2>2, <3>1
  <2>. QED  BY <2>1, <2>2
<1>. HIDE DEF all, ids, links, id
<1>9. links = ById(all)
  BY <1>6, <1>7, <1>8
<1>. QED  BY <1>1, <1>9, LinksAreAll DEF links, id

LEMMA ConcernsTheSame ==
    ASSUME UNCHANGED <<store, request>>
    PROVE  /\ Subscriptions' = Subscriptions /\ Links' = Links /\ Payloads' = Payloads
           /\ \A s : SubscriptionContexts(s)' = SubscriptionContexts(s)
           /\ \A s, terms : Concerned(s, terms)' = Concerned(s, terms)
BY DEF Subscriptions, Links, Payloads, SubscriptionContexts, Concerned

\* A step that sends nothing.
LEMMA SendsTheSame ==
    ASSUME UNCHANGED <<store, request, matched>>
    PROVE  \A s, looked : SentAsConcerned(s, looked)' = SentAsConcerned(s, looked)
<1>1. \A s : Sent(s)' = Sent(s)
  BY DEF Sent
<1>. QED  BY <1>1, ConcernsTheSame DEF SentAsConcerned

LEMMA NothingSentYet ==
    ASSUME matched = <<>>, NEW s
    PROVE  SentAsConcerned(s, FALSE)
<1>1. {i \in DOMAIN matched : matched[i].subscription = s.id} = {}
  OBVIOUS
<1>2. Sent(s) = 0
  BY <1>1, FS_EmptySet DEF Sent
<1>. QED  BY <1>2, SomeTerms DEF SentAsConcerned

LEMMA ListSubscriptionsStep ==
    ASSUME StoreInv, ControlInv, ListSubscriptions
    PROVE  NotifyInv'
<1>1. /\ UNCHANGED <<store, request, matched>> /\ matched = <<>> /\ todo' = Subscriptions
      /\ pc' = "graph" /\ Notifies
  BY DEF ListSubscriptions, ControlInv, Subscriptions
<1>2. Subscriptions' = Subscriptions /\ Payloads' = Payloads /\ Len(Subscriptions) \in Nat
      /\ DOMAIN Subscriptions = 1 .. Len(Subscriptions)
  BY <1>1, ConcernsTheSame, SubscriptionsAreThese
<1>3. Looked' = 0
  BY <1>1, <1>2 DEF Looked
<1>4. ASSUME NEW i \in DOMAIN Subscriptions
      PROVE  SentAsConcerned(Subscriptions[i], i <= 0)'
  <2>1. (i <= 0) = FALSE
    BY <1>2
  <2>2. SentAsConcerned(Subscriptions[i], FALSE)
    BY <1>1, NothingSentYet
  <2>3. SentAsConcerned(Subscriptions[i], i <= 0)
    BY <2>1, <2>2
  <2>. QED  BY <1>1, <1>2, <2>3, SendsTheSame
<1>5. matched' \in Seq(Payloads)
  BY <1>1
<1>6. \A j \in 1 .. Len(todo') : todo'[j] = Subscriptions[0 + j]
  BY <1>1, <1>2
<1>7. \A i \in DOMAIN Subscriptions' :
         \/ SentAsConcerned(Subscriptions[i], i <= Looked)'
         \/ FailedAt(i)' /\ SentAsConcerned(Subscriptions[i], TRUE)'
  BY <1>2, <1>3, <1>4
<1>8. \A j \in 1 .. Len(todo') : todo'[j] = Subscriptions'[Looked' + j]
  BY <1>2, <1>3, <1>6
<1>9. Len(todo') <= Len(Subscriptions')
  BY <1>1, <1>2
<1>10. matched' \in Seq(Payloads')
  BY <1>2, <1>5
<1>11. pc' = "graph" => todo' = Subscriptions'
  BY <1>1, <1>2
<1>12. pc' = "graph"
  BY <1>1
<1>. QED  BY <1>7, <1>8, <1>9, <1>10, <1>11, <1>12 DEF NotifyInv

\* A step that looks at no subscription.
LEMMA QuietStep ==
    ASSUME NotifyInv, UNCHANGED <<store, request, todo, matched, writes>>, pc # "start",
           pc = "end" => pc' = "end" /\ answer' = answer,
           pc' # "graph" \/ pc = "graph",
           pc' \in {"next", "resolve"} =>
             \/ UNCHANGED linked /\ pc \in {"next", "resolve"}
             \/ linked' = IF \E i \in DOMAIN Subscriptions : query_needs_linked_graph(Subscriptions[i].q)
                          THEN Links ELSE <<>>,
           pc' = "end" /\ answer'.status = 200 => todo = <<>>
    PROVE  NotifyInv'
<1>1. Subscriptions' = Subscriptions /\ Links' = Links /\ Payloads' = Payloads /\ Looked' = Looked
  BY ConcernsTheSame DEF Looked
<1>2. \A s, looked : SentAsConcerned(s, looked)' = SentAsConcerned(s, looked)
  BY SendsTheSame
<1>3. Notifies' = Notifies
  BY DEF Notifies
<1>4. \A i : FailedAt(i) => FailedAt(i)'
  BY <1>1 DEF FailedAt
<1>. QED  BY <1>1, <1>2, <1>3, <1>4 DEF NotifyInv

\* The loop matches a subscription as the event concerns it, under terms that its
\* context may leave.
LEMMA LoopConcerns ==
    ASSUME StoreInv, ControlInv, Notifies, pc = "resolve", context.queue = <<>>,
           linked = IF \E i \in DOMAIN Subscriptions : query_needs_linked_graph(Subscriptions[i].q)
                    THEN Links ELSE <<>>
    PROVE  LET s == Head(todo) IN
           /\ context.terms \in TermsOf(ToSet(SubscriptionContexts(s)))
           /\ subscription_matches_event(s, request.entity, request.event, Options(s))
                <=> Concerned(s, context.terms)
<1>. DEFINE s == Head(todo)
            e == request.entity
            terms == context.terms
<1>1. todo # <<>> /\ ToSet(StartContexts) \in SUBSET Contexts /\ terms \in TermsOf(ToSet(StartContexts))
  BY StartContextsAreContexts, WalkEnds DEF ControlInv, Notifies
<1>2. StartContexts = SubscriptionContexts(s)
  BY DEF StartContexts
<1>3. /\ e \in Entities /\ request \in Requests /\ s \in ToSet(Subscriptions)
      /\ Subscriptions \in Seq(ToSet(Subscriptions))
  BY <1>1, SubscriptionsAreThese, TailAndHead
<1>4. terms \in AllTerms /\ Links \in AllLinks /\ s \in Sources(request)
  <2>1. terms \in AllTerms
    BY <1>1, TermsAreAll
  <2>2. Links \in AllLinks
    BY <1>3, LinksAreOfEntities DEF Links
  <2>3. s \in Sources(request)
    BY <1>3 DEF Sources, Notifies, Subscriptions
  <2>. QED  BY <2>1, <2>2, <2>3
<1>5. query_needs_linked_graph(s.q) \/
        (query_matches_value(e, s.q, match_options(s, terms, Links))
           <=> query_matches_value(e, s.q, match_options(s, terms, <<>>)))
  BY <1>3, <1>4, LinkAssumption
<1>6. PICK i \in DOMAIN Subscriptions : s = Subscriptions[i]
  BY <1>3 DEF ToSet
<1>7. linked \in {Links, <<>>} /\ (query_needs_linked_graph(s.q) => linked = Links)
  BY <1>6
<1>8. query_matches_value(e, s.q, match_options(s, terms, Links))
        <=> query_matches_value(e, s.q, match_options(s, terms, linked))
  BY <1>5, <1>7
<1>9. Options(s) = match_options(s, terms, linked)
  BY DEF Options
<1>. HIDE DEF s, terms
<1>10. subscription_matches_event(s, e, request.event, Options(s)) <=> Concerned(s, terms)
  BY <1>8, <1>9 DEF subscription_matches_event, Concerned, Links
<1>. QED  BY <1>1, <1>2, <1>10 DEF s, terms

\* A message more in the queue.
LEMMA SentOneMore ==
    ASSUME matched \in Seq(Payloads), NEW payload \in Payloads, NEW t
    PROVE  /\ Sent(t) \in Nat
           /\ matched' = Append(matched, payload) =>
                 Sent(t)' = Sent(t) + (IF payload.subscription = t.id THEN 1 ELSE 0)
<1>1. /\ SentIn(matched, t.id) \in Nat
      /\ SentIn(Append(matched, payload), t.id)
           = SentIn(matched, t.id) + (IF payload.subscription = t.id THEN 1 ELSE 0)
  BY OneMoreSent
<1>2. Sent(t) = SentIn(matched, t.id) /\ Sent(t)' = SentIn(matched', t.id)
  BY DEF Sent, SentIn
<1>. QED  BY <1>1, <1>2

LEMMA MatchSubscriptionStep ==
    ASSUME StoreInv, ControlInv, NotifyInv, MatchSubscription, writes' = 0
    PROVE  NotifyInv'
<1>. PICK s, n : s = Head(todo) /\ n = Looked + 1
  OBVIOUS
<1>. DEFINE sends == /\ subscription_matches_event(s, request.entity, request.event, Options(s))
                     /\ s.endpoint
            payload == build_notification_payload(s, request.entity)
<1>1. /\ UNCHANGED <<store, request, linked, writes>> /\ Notifies /\ pc = "resolve" /\ pc' = "next"
      /\ todo # <<>> /\ todo' = Tail(todo) /\ context.queue = <<>> /\ writes = 0
      /\ matched' = IF sends THEN Append(matched, payload) ELSE matched
  BY DEF MatchSubscription, Due, Enqueued, ControlInv
<1>2. /\ Len(todo) <= Len(Subscriptions)
      /\ \A j \in 1 .. Len(todo) : todo[j] = Subscriptions[Looked + j]
      /\ matched \in Seq(Payloads)
      /\ \A i \in DOMAIN Subscriptions : SentAsConcerned(Subscriptions[i], i <= Looked)
      /\ linked = IF \E i \in DOMAIN Subscriptions : query_needs_linked_graph(Subscriptions[i].q)
                  THEN Links ELSE <<>>
  BY <1>1 DEF NotifyInv, FailedAt
<1>3. /\ Len(Subscriptions) \in Nat /\ DOMAIN Subscriptions = 1 .. Len(Subscriptions)
      /\ \A i, j \in DOMAIN Subscriptions : Subscriptions[i].id = Subscriptions[j].id => i = j
      /\ todo \in Seq(ToSet(Subscriptions)) /\ Len(todo) \in Nat
  BY <1>1, SubscriptionsAreThese
<1>4. /\ s \in ToSet(Subscriptions) /\ Len(Tail(todo)) = Len(todo) - 1
      /\ \A j \in 1 .. Len(todo) - 1 : Tail(todo)[j] = todo[j + 1]
      /\ Len(todo) > 0 /\ s = todo[1]
  BY <1>1, <1>3, TailAndHead
<1>5. /\ Looked \in Nat /\ n \in DOMAIN Subscriptions /\ s = Subscriptions[n]
      /\ Looked' = n /\ Subscriptions' = Subscriptions
  <2>1. Subscriptions' = Subscriptions
    BY <1>1, ConcernsTheSame
  <2>2. Looked \in Nat /\ n \in DOMAIN Subscriptions /\ s = Subscriptions[n]
    BY <1>2, <1>3, <1>4 DEF Looked
  <2>3. Looked' = n
    BY <1>1, <1>3, <1>4, <2>1 DEF Looked
  <2>. QED  BY <2>1, <2>2, <2>3
<1>6. \A j \in 1 .. Len(todo') : todo'[j] = Subscriptions[n + j]
  <2>. SUFFICES ASSUME NEW j \in 1 .. Len(todo) - 1
                PROVE  Tail(todo)[j] = Subscriptions[n + j]
    BY <1>1, <1>4
  <2>1. j + 1 \in 1 .. Len(todo) /\ Looked + (j + 1) = n + j
    BY <1>3, <1>5
  <2>. QED  BY <1>2, <1>4, <2>1
<1>7. payload \in Payloads /\ payload.subscription = s.id
  BY <1>4 DEF Payloads, build_notification_payload
<1>8. /\ context.terms \in TermsOf(ToSet(SubscriptionContexts(s)))
      /\ sends <=> (Concerned(s, context.terms) /\ s.endpoint)
  BY <1>1, <1>2, LoopConcerns
<1>. HIDE DEF payload, sends
<1>9. matched' \in Seq(Payloads)
  BY <1>1, <1>2, <1>7
<1>10. ASSUME NEW t
       PROVE  Sent(t) \in Nat /\ Sent(t)' = Sent(t) + (IF sends /\ s.id = t.id THEN 1 ELSE 0)
  <2>1. /\ Sent(t) \in Nat
        /\ matched' = Append(matched, payload) =>
              Sent(t)' = Sent(t) + (IF payload.subscription = t.id THEN 1 ELSE 0)
    BY <1>2, <1>7, SentOneMore
  <2>2. matched' = matched => Sent(t)' = Sent(t)
    BY DEF Sent
  <2>3. CASE sends
    BY <1>1, <1>7, <2>1, <2>3
  <2>4. CASE ~sends
    BY <1>1, <2>1, <2>2, <2>4
  <2>. QED  BY <2>3, <2>4
<1>11. ASSUME NEW i \in DOMAIN Subscriptions
       PROVE  SentAsConcerned(Subscriptions[i], i <= n)'
  <2>. PICK t : t = Subscriptions[i]
    OBVIOUS
  <2>1. PICK terms \in TermsOf(ToSet(SubscriptionContexts(t))) :
           Sent(t) = IF (i <= Looked) /\ t.endpoint /\ Concerned(t, terms) THEN 1 ELSE 0
    BY <1>2 DEF SentAsConcerned
  <2>2. /\ Subscriptions[i]' = t /\ SubscriptionContexts(t)' = SubscriptionContexts(t)
        /\ \A any : Concerned(t, any)' = Concerned(t, any)
    BY <1>1, <1>5, ConcernsTheSame
  <2>3. CASE i = n
    <3>1. t = s /\ ~(i <= Looked)
      BY <1>5, <2>3
    <3>2. Sent(t) = 0
      BY <2>1, <3>1
    <3>3. Sent(t)' = IF s.endpoint /\ Concerned(s, context.terms) THEN 1 ELSE 0
      BY <1>8, <1>10, <3>1, <3>2
    <3>4. i <= n
      BY <1>3, <2>3
    <3>. QED  BY <1>8, <2>2, <3>1, <3>3, <3>4 DEF SentAsConcerned
  <2>4. CASE i # n
    <3>1. s.id # t.id
      BY <1>3, <1>5, <2>4
    <3>2. Sent(t)' = Sent(t)
      BY <1>10, <3>1
    <3>3. i <= n <=> i <= Looked
      BY <1>3, <1>5, <2>4
    <3>. QED  BY <2>1, <2>2, <3>2, <3>3 DEF SentAsConcerned
  <2>. QED  BY <2>3, <2>4
<1>12. Payloads' = Payloads /\ Links' = Links
  BY <1>1, ConcernsTheSame
<1>13. Len(todo') <= Len(Subscriptions)
  BY <1>1, <1>2, <1>3, <1>4
<1>. QED  BY <1>1, <1>2, <1>5, <1>6, <1>9, <1>11, <1>12, <1>13 DEF NotifyInv

\* A failing enqueue has sent its message or not.
LEMMA EnqueueFailsStep ==
    ASSUME StoreInv, ControlInv, NotifyInv, EnqueueFails, writes' = 0
    PROVE  NotifyInv'
<1>. PICK s, n : s = Head(todo) /\ n = Looked + 1
  OBVIOUS
<1>. DEFINE payload == build_notification_payload(s, request.entity)
<1>1. /\ UNCHANGED <<store, request, todo, linked, writes>> /\ Notifies /\ pc = "resolve"
      /\ todo # <<>> /\ context.queue = <<>> /\ writes = 0
      /\ pc' = "end" /\ answer'.status = 500
      /\ matched' \in {matched, Append(matched, payload)}
      /\ subscription_matches_event(s, request.entity, request.event, Options(s)) /\ s.endpoint
  BY DEF EnqueueFails, Due, Enqueued, End, ControlInv
<1>2. CASE matched' = matched
  BY <1>1, <1>2, QuietStep
<1>3. CASE matched' = Append(matched, payload)
  <2>1. /\ Len(todo) <= Len(Subscriptions)
        /\ \A j \in 1 .. Len(todo) : todo[j] = Subscriptions[Looked + j]
        /\ matched \in Seq(Payloads)
        /\ \A i \in DOMAIN Subscriptions : SentAsConcerned(Subscriptions[i], i <= Looked)
        /\ linked = IF \E i \in DOMAIN Subscriptions : query_needs_linked_graph(Subscriptions[i].q)
                    THEN Links ELSE <<>>
    BY <1>1 DEF NotifyInv, FailedAt
  <2>2. /\ Len(Subscriptions) \in Nat /\ DOMAIN Subscriptions = 1 .. Len(Subscriptions)
        /\ \A i, j \in DOMAIN Subscriptions : Subscriptions[i].id = Subscriptions[j].id => i = j
        /\ todo \in Seq(ToSet(Subscriptions)) /\ Len(todo) \in Nat
    BY <1>1, SubscriptionsAreThese
  <2>3. s \in ToSet(Subscriptions) /\ Len(todo) > 0 /\ s = todo[1]
    BY <1>1, <2>2, TailAndHead
  <2>4. Looked \in Nat /\ n \in DOMAIN Subscriptions /\ s = Subscriptions[n]
    BY <2>1, <2>2, <2>3 DEF Looked
  <2>5. /\ Subscriptions' = Subscriptions /\ Payloads' = Payloads /\ Looked' = Looked
        /\ \A t : SubscriptionContexts(t)' = SubscriptionContexts(t)
        /\ \A t, terms : Concerned(t, terms)' = Concerned(t, terms)
    BY <1>1, ConcernsTheSame DEF Looked
  <2>6. payload \in Payloads /\ payload.subscription = s.id
    BY <2>3 DEF Payloads, build_notification_payload
  <2>7. /\ context.terms \in TermsOf(ToSet(SubscriptionContexts(s)))
        /\ Concerned(s, context.terms) /\ s.endpoint
    BY <1>1, <2>1, LoopConcerns
  <2>. HIDE DEF payload
  <2>8. matched' \in Seq(Payloads)
    BY <1>3, <2>1, <2>6
  <2>9. \A t : Sent(t) \in Nat /\ Sent(t)' = Sent(t) + (IF s.id = t.id THEN 1 ELSE 0)
    BY <1>3, <2>1, <2>6, SentOneMore
  <2>10. ASSUME NEW i \in DOMAIN Subscriptions
         PROVE  \/ SentAsConcerned(Subscriptions[i], i <= Looked)'
                \/ FailedAt(i)' /\ SentAsConcerned(Subscriptions[i], TRUE)'
    <3>. PICK t : t = Subscriptions[i]
      OBVIOUS
    <3>1. PICK terms \in TermsOf(ToSet(SubscriptionContexts(t))) :
             Sent(t) = IF (i <= Looked) /\ t.endpoint /\ Concerned(t, terms) THEN 1 ELSE 0
      BY <2>1 DEF SentAsConcerned
    <3>2. Subscriptions[i]' = t
      BY <2>5
    <3>3. CASE i = n
      <4>1. t = s /\ ~(i <= Looked)
        BY <2>4, <3>3
      <4>2. Sent(t)' = 1
        BY <2>9, <3>1, <4>1
      <4>3. SentAsConcerned(Subscriptions[i], TRUE)'
        BY <2>5, <2>7, <3>2, <4>1, <4>2 DEF SentAsConcerned
      <4>4. FailedAt(i)'
        BY <1>1, <2>5, <3>3 DEF FailedAt
      <4>. QED  BY <4>3, <4>4
    <3>4. CASE i # n
      <4>1. s.id # t.id
        BY <2>2, <2>4, <3>4
      <4>2. Sent(t)' = Sent(t)
        BY <2>9, <4>1
      <4>. QED  BY <2>5, <3>1, <3>2, <4>2 DEF SentAsConcerned
    <3>. QED  BY <3>3, <3>4
  <2>11. \A i \in DOMAIN Subscriptions' :
           \/ SentAsConcerned(Subscriptions[i], i <= Looked)'
           \/ FailedAt(i)' /\ SentAsConcerned(Subscriptions[i], TRUE)'
    BY <2>5, <2>10
  <2>12. \A j \in 1 .. Len(todo') : todo'[j] = Subscriptions'[Looked' + j]
    BY <1>1, <2>1, <2>5
  <2>13. Len(todo') <= Len(Subscriptions')
    BY <1>1, <2>1, <2>5
  <2>14. matched' \in Seq(Payloads')
    BY <2>5, <2>8
  <2>15. pc' # "graph" /\ pc' \notin {"next", "resolve"} /\ answer'.status # 200
    BY <1>1
  <2>. QED  BY <2>11, <2>12, <2>13, <2>14, <2>15 DEF NotifyInv
<1>. QED  BY <1>1, <1>2, <1>3

LEMMA NotifyStep == StoreInv /\ ControlInv /\ NotifyInv /\ [Next]_vars => NotifyInv'
<1>. SUFFICES ASSUME StoreInv, ControlInv, NotifyInv, [Next]_vars,
                     Notifies', writes' = 0, pc' # "start"
              PROVE  NotifyInv'
  BY DEF NotifyInv
<1>1. CASE ListSubscriptions
  BY <1>1, ListSubscriptionsStep
<1>2. CASE MatchSubscription
  BY <1>2, MatchSubscriptionStep
<1>9. CASE EnqueueFails
  BY <1>9, EnqueueFailsStep
<1>3. CASE Refuse \/ Find \/ Retrieve \/ Discover \/ MatchEntity \/ AnswerQuery
  BY <1>3 DEF Refuse, Find, Retrieve, Discover, MatchEntity, AnswerQuery, Notifies
<1>4. CASE Write
  BY <1>4 DEF Write, ControlInv
<1>5. CASE LoadLinked
  <2>1. /\ UNCHANGED <<store, request, todo, matched, writes>> /\ pc = "graph" /\ pc' = "next"
        /\ Notifies
        /\ linked' = IF \E q \in {todo[i].q : i \in DOMAIN todo} : query_needs_linked_graph(q)
                     THEN Links ELSE <<>>
    BY <1>5 DEF LoadLinked, Notifies, Links
  <2>2. todo = Subscriptions
    BY <2>1 DEF NotifyInv, Notifies
  <2>3. linked' = IF \E i \in DOMAIN Subscriptions : query_needs_linked_graph(Subscriptions[i].q)
                  THEN Links ELSE <<>>
    BY <2>1, <2>2
  <2>. QED  BY <2>1, <2>3, QuietStep
<1>6. CASE BeginResolve \/ Resolve \/ EndNotify
  <2>1. /\ UNCHANGED <<store, request, todo, matched, writes, linked>>
        /\ pc \in {"next", "resolve"} /\ pc' \in {"next", "resolve", "end"}
        /\ pc' = "end" => todo = <<>>
    BY <1>6 DEF BeginResolve, Resolve, EndNotify, End
  <2>. QED  BY <2>1, QuietStep
<1>7. CASE FetchFails
  <2>1. /\ UNCHANGED <<store, request, todo, matched, writes>> /\ pc = "resolve" /\ pc' = "end"
        /\ answer'.status = 400
    BY <1>7 DEF FetchFails, End, Notifies
  <2>. QED  BY <2>1, QuietStep
<1>8. CASE UNCHANGED vars
  <2>1. /\ UNCHANGED <<store, request, todo, matched, writes, linked>> /\ pc' = pc /\ answer' = answer
        /\ pc # "start" /\ Notifies /\ writes = 0
    BY <1>8 DEF vars, Notifies
  <2>2. pc' = "end" /\ answer'.status = 200 => todo = <<>>
    BY <2>1 DEF NotifyInv
  <2>. QED  BY <2>1, <2>2, QuietStep
<1>. QED  BY <1>1, <1>2, <1>3, <1>4, <1>5, <1>6, <1>7, <1>8, <1>9 DEF Next, Handle, Idle

\* Every subscription that matches an event is sent one notification, as long as nobody
\* writes meanwhile; if a context cannot be fetched or a message not enqueued, those
\* behind it in the list are sent none (enqueue_notifications returns the error out of
\* its loop).
THEOREM NotifiedOnce == Spec => []NotifiedOnceOrBehindFailure
<1>1. ControlInv /\ NotifyInv => NotifiedOnceOrBehindFailure
  <2>. SUFFICES ASSUME ControlInv, NotifyInv, Notifies, pc = "end", writes = 0
                PROVE  NotifiedOnceOrBehindFailure
    BY DEF NotifiedOnceOrBehindFailure
  <2>1. Len(Subscriptions) \in Nat /\ DOMAIN Subscriptions = 1 .. Len(Subscriptions)
        /\ Len(todo) \in Nat
    BY SubscriptionsAreThese
  <2>2. ASSUME NEW i \in DOMAIN Subscriptions
        PROVE  \E terms \in TermsOf(ToSet(SubscriptionContexts(Subscriptions[i]))) :
                  LET t == Subscriptions[i]
                      due == IF t.endpoint /\ Concerned(t, terms) THEN 1 ELSE 0
                  IN \/ i <= Looked /\ Sent(t) = due
                     \/ i > Looked /\ Sent(t) = 0
                     \/ i = Looked + 1 /\ answer.status = 500 /\ Sent(t) = due
    <3>. PICK t : t = Subscriptions[i]
      OBVIOUS
    <3>1. (i <= Looked) \/ i > Looked
      BY <2>1 DEF Looked
    <3>2. CASE SentAsConcerned(t, i <= Looked)
      BY <3>1, <3>2 DEF SentAsConcerned
    <3>3. CASE FailedAt(i) /\ SentAsConcerned(t, TRUE)
      BY <3>3 DEF SentAsConcerned, FailedAt
    <3>. QED  BY <3>2, <3>3 DEF NotifyInv
  <2>3. answer.status = 200 => todo = <<>>
    BY DEF NotifyInv
  <2>. QED  BY <2>2, <2>3 DEF NotifiedOnceOrBehindFailure, Subscriptions, Looked
<1>2. Init => NotifyInv
  BY DEF Init, NotifyInv
<1>. QED  BY <1>1, <1>2, NotifyStep, HandlerInvariant, PTL DEF Spec
=============================================================================
