-------------------------------- MODULE QueryValues --------------------------------
(***************************************************************************)
(* What requests and entities are made of: JSON values, texts that are     *)
(* regular expressions, and the outcomes of parsing that are no filter.    *)
(*                                                                         *)
(* An optional value is a set of at most one value, and so is what JSON's  *)
(* get returns.                                                            *)
(***************************************************************************)
EXTENDS Integers, Sequences, FiniteSets, SequencesExt, FiniteSetsExt

CONSTANT Regex \* [token -> the texts it matches], for tokens that are valid regexes

Text(s) == [k |-> "string", s |-> s]
Number(n) == [k |-> "number", n |-> n]
Null == [k |-> "null"]
Flag(b) == [k |-> "bool", b |-> b]
List(items) == [k |-> "array", items |-> items]
Object(members) == [k |-> "object", m |-> members]

get(v, name) == IF v.k = "object" /\ name \in DOMAIN v.m THEN {v.m[name]} ELSE {}
Items(v) == IF v.k = "array" THEN ToSet(v.items) ELSE {}
Texts(vs) == {v.s : v \in {u \in vs : u.k = "string"}}

value_matches_string(values, expected) ==
    expected \in Texts(values) \cup UNION {Texts(Items(v)) : v \in values}

\* An empty array has no instances.
expand_attribute_instances(v) ==
    IF v.k = "array" /\ \A item \in Items(v) : get(item, "type") # {} THEN Items(v) ELSE {v}

extract_scope_values(value) ==
    LET scope == get(value, "scope") IN Texts(scope \cup UNION {Items(v) : v \in scope})

\* Every error of parsing.
BadRequest == [op |-> "bad request"]

\* None, or a text of blanks, is no filter.
NoFilter == [op |-> "no filter"]
=============================================================================
