------------------------------- MODULE QueryMeaning -------------------------------
(***************************************************************************)
(* QueryService with the filter languages, and what it means that the      *)
(* languages are right.                                                    *)
(***************************************************************************)
EXTENDS QueryService, QueryLanguage

\* request.meaning is the expression its q was written from, with parentheses where
\* the grammar asks for them and, in some, where it does not, and scopes the one its
\* scopeQ was written from.  "Parses optional `q` string into expression tree"
\* (language.rs): they read back as those expressions.  A group of alternatives that is
\* itself an alternative does not: parse_q_and drops the parentheses of a branch and
\* then knows no "|".
RECURSIVE HasNestedOr(_)
HasNestedOr(e) ==
    e.op \in {"and", "or"} /\ \E i \in DOMAIN e.parts :
        HasNestedOr(e.parts[i]) \/ (e.op = "or" /\ e.parts[i].op = "or")
ReadsBack ==
    request.meaning # NoFilter => parse_q_expression(request.query.q) = request.meaning
WritingsParse ==
    request.kind = "query" =>
        /\ ReadsBack \/ HasNestedOr(request.meaning)
        /\ request.scopes # NoFilter =>
              parse_scope_expression(request.query.scope_q) = request.scopes

\* "Parses one `q` term or parenthesized group" (language.rs): the same for a group
\* wherever it stands.
GroupsReadBack == pc # "start" /\ request.kind = "query" => ReadsBack

\* The terms and linked entities a filter is evaluated with when nobody writes.
Alone == match_options(request.query, context.terms, ById(store))

RECURSIVE Leaves(_)
Leaves(e) ==
    IF e.op \in {"and", "or"} THEN UNION {Leaves(e.parts[i]) : i \in DOMAIN e.parts}
    ELSE {e} \ {NoFilter}
Asked == IF request.kind = "query" THEN Leaves(request.meaning) ELSE {}

Opposite == "==" :> "!=" @@ "~=" :> "!~="

\* The comparisons that go with one, as <<operator, operand>>, and those of them that
\* hold of an entity.
Variants(leaf) ==
    {<<"exists", {}>>}
    \cup {<<op, leaf.operand>> :
           op \in IF leaf.op \in DOMAIN Opposite THEN {leaf.op, Opposite[leaf.op]} ELSE {}}
    \cup (IF leaf.op = "==" /\ leaf.operand.op = "range"
          THEN {<<">=", leaf.operand.lower>>, <<"<=", leaf.operand.upper>>} ELSE {})
Said(leaf, entity) ==
    {v[1] : v \in {w \in Variants(leaf) :
        q_expression_matches([op |-> w[1], attribute |-> leaf.attribute, operand |-> w[2]],
                             entity, Alone)}}

\* An operator and its negation split the entities that have the attribute: with ==
\* and != each falls on one side, also if it has several instances, values or
\* languages; with ~= and !~= none falls on both.
NegationSplits(leaf, said) ==
    /\ leaf.op = "==" =>
          Cardinality(said \cap {"==", "!="}) = IF "exists" \in said THEN 1 ELSE 0
    /\ leaf.op = "~=" => Cardinality(said \cap {"~=", "!~="}) <= 1

\* What lies in a range lies above its lower and below its upper bound, whatever the
\* values are, except where the bounds do not look: at relationships, and into arrays
\* in arrays.
Compared(leaf, entity) ==
    \A v \in resolve_query_attribute(entity, leaf.attribute, Alone) :
        /\ ~relationship_like(attribute_kind(v))
        /\ \A t \in target_values(v, leaf.attribute, Alone) : \A item \in Items(t) : item.k # "array"
RangeIsBetweenBounds(leaf, entity, said) ==
    "==" \in said /\ leaf.operand.op = "range" /\ Compared(leaf, entity)
        => {">=", "<="} \subseteq said

\* Operators mean the same wherever they are used: what one says of an entity fits what
\* its negation and the operators it is made of say.
OperatorsAgree ==
    \A leaf \in Asked, e \in store : \A said \in {Said(leaf, e)} :
       NegationSplits(leaf, said) /\ RangeIsBetweenBounds(leaf, e, said)
=============================================================================
