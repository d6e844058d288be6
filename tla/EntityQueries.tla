---------------------------- MODULE EntityQueries ----------------------------
(***************************************************************************)
(* What the SQL that store/postgres generates for entity queries returns:  *)
(* filters (with SQL's three-valued logic), windows of children per        *)
(* parent, sort keys, ranges, and the lookup queries.  The text of the     *)
(* queries is not modelled, only the rows they select and their order.     *)
(*                                                                         *)
(* A row is one version of an entity.  Its fields:                         *)
(*   type, id, vid   entity type (table), id, and the row's own number     *)
(*   lo, hi          its block range, hi exclusive, Unbounded when current *)
(*   name            a string column compared by prefix, or Null           *)
(*   key             a column compared as a whole, or Null                 *)
(*   ref, refs       ids it refers to: a scalar (or Null) and a list       *)
(* Strings are sequences of characters, numbers are one-element sequences, *)
(* so that one lexicographic order serves every column.                    *)
(***************************************************************************)
EXTENDS Integers, SequencesExt

CONSTANTS
    Null,            \* SQL's null
    Failed,          \* the result of a query or a conversion that ends in an error
    PrefixSize,      \* STRING_PREFIX_SIZE and BYTE_ARRAY_PREFIX_SIZE
    BlockNumberMax,  \* BLOCK_NUMBER_MAX
    TypeABatchSize,  \* GRAPH_TYPEA_BATCH_SIZE
    TypeDSetSize,    \* GRAPH_STORE_TYPED_CHILDREN_SET_SIZE
    Reversible       \* not GRAPH_STORE_... reversible_order_by_off

ASSUME QueriesAssumption ==
    /\ PrefixSize \in Nat \ {0}
    /\ {BlockNumberMax, TypeABatchSize, TypeDSetSize} \subseteq Nat
    /\ Reversible \in BOOLEAN

Unbounded == BlockNumberMax + 1

-----------------------------------------------------------------------------
(* Postgres: three-valued logic, comparison, LIKE.                         *)

Sql(S, zero, unit) == IF zero \in S THEN zero ELSE IF Null \in S THEN Null ELSE unit
SqlAnd(S) == Sql(S, FALSE, TRUE)
SqlOr(S) == Sql(S, TRUE, FALSE)
SqlNot(x) == IF x = Null THEN Null ELSE ~x

Lex(s, t) ==
    \/ IsStrictPrefix(s, t)
    \/ \E i \in DOMAIN s \cap DOMAIN t :
          s[i] < t[i] /\ \A j \in 1..(i - 1) : s[j] = t[j]

Holds(op, s, t) ==
    CASE op = "="  -> s = t
      [] op = "!=" -> s # t
      [] op = "<"  -> Lex(s, t)
      [] op = ">"  -> Lex(t, s)
      [] op = "<=" -> ~Lex(t, s)
      [] op = ">=" -> ~Lex(s, t)

SqlCompare(op, s, t) == IF Null \in {s, t} THEN Null ELSE Holds(op, s, t)

(* Characters: 0 is %, 9 is _, 11..18 are the capitals of 1..8.            *)
Percent == 0
Underscore == 9
Fold(s) == [i \in DOMAIN s |-> s[i] % 10]

RECURSIVE Like(_, _)
Like(s, p) ==
    IF p = << >> THEN s = << >>
    ELSE IF Head(p) = Percent
         THEN Like(s, Tail(p)) \/ (s # << >> /\ Like(Tail(s), p))
         ELSE /\ s # << >>
              /\ Head(p) \in {Underscore, Head(s)}
              /\ Like(Tail(s), Tail(p))

-----------------------------------------------------------------------------
(* Block ranges.                                                           *)

Upper(row) == IF row.hi = Unbounded THEN BlockNumberMax ELSE row.hi

contains_block(row, block, immutable, accountLike) ==
    IF immutable THEN block = BlockNumberMax \/ row.lo <= block
    ELSE /\ row.lo <= block /\ block < row.hi
         /\ accountLike /\ block < BlockNumberMax =>
                Upper(row) > block /\ row.lo <= block

changed_since(row, block) == row.lo >= block

-----------------------------------------------------------------------------
(* Filters.                                                                *)

push_prefix(s) ==
    IF s = Null THEN Null ELSE SubSeq(s, 1, Min({Len(s), PrefixSize}))

is_large(s) == Len(s) > PrefixSize - 1

PrefixComparison(op, s, t) ==
    LET prefix(o) == SqlCompare(o, push_prefix(s), push_prefix(t))
        full == SqlCompare(op, s, t)
        strict == CASE op = "<=" -> "<" [] op = ">=" -> ">" [] OTHER -> op
    IN  IF ~is_large(t) THEN prefix(op)
        ELSE IF op = "=" THEN SqlAnd({prefix(op), full})
        ELSE IF op = "!=" THEN full
        ELSE SqlOr({prefix(strict), SqlAnd({prefix("="), full})})

filter_equals(row, f) ==
    IF f.value = Null
    THEN IF f.op = "=" THEN row[f.attr] = Null ELSE row[f.attr] # Null
    ELSE IF f.attr = "name" THEN PrefixComparison(f.op, row[f.attr], f.value)
         ELSE SqlCompare(f.op, row[f.attr], f.value)

filter_compare(row, f) ==
    IF f.attr = "name" THEN PrefixComparison(f.op, row[f.attr], f.value)
    ELSE SqlCompare(f.op, row[f.attr], f.value)

filter_in_array(row, f, negated) ==
    LET short == f.attr = "name" /\ \A v \in f.values : v # Null /\ Len(v) < PrefixSize
        column == IF short THEN push_prefix(row[f.attr]) ELSE row[f.attr]
        nonNull == f.values \ {Null}
        null == IF negated THEN row[f.attr] # Null ELSE row[f.attr] = Null
        in == IF column = Null THEN Null ELSE column \in nonNull
    IN  SqlOr({null : x \in f.values \cap {Null}} \cup
              {IF negated THEN SqlNot(in) ELSE in : x \in nonNull})

SqlLike(s, p, negated, strict) ==
    LET like == IF s = Null THEN Null
                ELSE IF strict THEN Like(s, p) ELSE Like(Fold(s), Fold(p))
    IN  IF negated THEN SqlNot(like) ELSE like

filter_contains(row, f, negated, strict) ==
    LET v == f.value
        p == IF v # << >> /\ Percent \in {Head(v), Last(v)} THEN v
             ELSE <<Percent>> \o v \o <<Percent>>
    IN  SqlLike(row[f.attr], p, negated, strict)

filter_list_contains(row, f, negated) ==
    IF negated THEN ToSet(row[f.attr]) \cap f.values = {}
    ELSE f.values \subseteq ToSet(row[f.attr])

starts_or_ends_with(row, f, startsWith, negated, strict) ==
    LET p == IF startsWith THEN f.value \o <<Percent>> ELSE <<Percent>> \o f.value
    IN  SqlLike(row[f.attr], p, negated, strict)

(* How a child and a parent are linked: attr is a field of the child when  *)
(* the relation is derived, and of the parent otherwise.                   *)
LinkedBy(parent, child, attr, derived) ==
    LET holder == IF derived THEN child ELSE parent
        target == IF derived THEN parent ELSE child
    IN  IF attr = "refs" THEN target.id \in ToSet(holder.refs)
        ELSE target.id = holder[attr]

RowsAt(db, type, block) ==
    {r \in db[type].rows :
        contains_block(r, block, db[type].immutable, db[type].accountLike)}

(* A filter applied to a row, RECURSIVE through And, Or and Child.         *)
RECURSIVE QueryFilter(_, _, _, _)

binary_op(row, f, db, block) ==
    LET values == {QueryFilter(row, g, db, block) : g \in f.filters}
    IN  IF f.op = "And" THEN SqlAnd(values) ELSE SqlOr(values)

filter_child(row, f, db, block) ==
    \E i \in RowsAt(db, f.type, block) :
        /\ LinkedBy(row, i, f.attr, f.derived)
        /\ QueryFilter(i, f.filter, db, block) = TRUE

QueryFilter(row, f, db, block) ==
    CASE f.op = "None" -> TRUE
      [] f.op \in {"And", "Or"} -> binary_op(row, f, db, block)
      [] f.op = "Child" -> filter_child(row, f, db, block)
      [] f.op \in {"=", "!="} -> filter_equals(row, f)
      [] f.op \in {"<", ">", "<=", ">="} -> filter_compare(row, f)
      [] f.op \in {"In", "NotIn"} -> filter_in_array(row, f, f.op = "NotIn")
      [] f.op = "Contains" -> filter_contains(row, f, f.negated, f.strict)
      [] f.op = "ListContains" -> filter_list_contains(row, f, f.negated)
      [] f.op = "StartsWith" -> starts_or_ends_with(row, f, TRUE, f.negated, f.strict)
      [] f.op = "EndsWith" -> starts_or_ends_with(row, f, FALSE, f.negated, f.strict)
      [] f.op = "ChangeBlockGte" -> changed_since(row, f.block)

Selected(db, type, filter, block) ==
    {r \in RowsAt(db, type, block) : QueryFilter(r, filter, db, block) = TRUE}

-----------------------------------------------------------------------------
(* Sort keys and ranges.  A sort key is [kind, attr, dir, ...]; kind is    *)
(* "none", "id", "key", "child" for a column of a joined child, or         *)
(* "childid" for the child's id.  Queries sort candidates: a row, the      *)
(* children joined to it (via), and the value it is sorted by.             *)

with_key(order) ==
    IF order.attr = "id" THEN [kind |-> "id", dir |-> order.dir]
    ELSE [kind |-> "key", attr |-> order.attr, dir |-> order.dir]

ChildKey(order, types) ==
    [kind |-> IF order.attr = "id" THEN "childid" ELSE "child", attr |-> order.attr,
     dir |-> order.dir, types |-> types, join |-> order.join, derived |-> order.derived]

with_child_object_key(order) == ChildKey(order, <<order.type>>)

with_child_interface_key(order) == ChildKey(order, order.types)

SortKey(order) ==
    CASE order.by = "default" -> [kind |-> "id", dir |-> "asc"]
      [] order.by = "unordered" -> [kind |-> "none"]
      [] order.by = "attribute" -> with_key(order)
      [] order.by = "child" -> with_child_object_key(order)
      [] order.by = "interface" -> with_child_interface_key(order)

IsChildKey(key) == key.kind \in {"child", "childid"}

(* The left joins that a child sort key adds: one per type, on the rows    *)
(* whose block_range column contains the block.  An immutable table has no *)
(* such column, and the query fails.                                       *)
add_child(row, key, db, block) ==
    LET joined(i) == {c \in db[key.types[i]].rows :
                         /\ LinkedBy(row, c, key.join, key.derived)
                         /\ contains_block(c, block, FALSE, FALSE)}
        all == UNION {joined(i) : i \in DOMAIN key.types}
    IN  {via \in [DOMAIN key.types -> all \cup {Null}] :
            \A i \in DOMAIN key.types :
                IF joined(i) = {} THEN via[i] = Null ELSE via[i] \in joined(i)}

Coalesce(via, attr) ==
    LET value(i) == IF via[i] = Null THEN Null
                    ELSE IF attr = "id" THEN <<via[i].id>> ELSE via[i][attr]
        found == {i \in DOMAIN via : value(i) # Null}
    IN  IF found = {} THEN Null ELSE value(Min(found))

Candidate(row, key) ==
    [row |-> row, via |-> << >>, value |-> IF key.kind = "key" THEN row[key.attr] ELSE Null]

Candidates(row, key, db, block) ==
    IF IsChildKey(key)
    THEN {[row |-> row, via |-> via, value |-> Coalesce(via, key.attr)] :
             via \in add_child(row, key, db, block)}
    ELSE {Candidate(row, key)}

(* Postgres sorts nulls last when ascending and first when descending.     *)
Smaller(v, w) == v # Null /\ (w = Null \/ Lex(v, w))
SmallerNullsLast(v, w, dir) ==
    IF dir = "asc" \/ Null \in {v, w} THEN Smaller(v, w) ELSE Smaller(w, v)

sort_expr_IdAscending(x, y, dir) ==
    IF dir = "asc" THEN Smaller(x.value, y.value) \/ (x.value = y.value /\ x.row.id < y.row.id)
    ELSE Smaller(y.value, x.value) \/ (x.value = y.value /\ x.row.id < y.row.id)

sort_expr(x, y, dir) ==
    LET earlier(a, b) == Smaller(a.value, b.value) \/ (a.value = b.value /\ a.row.id < b.row.id)
    IN  IF ~Reversible
        THEN \/ SmallerNullsLast(x.value, y.value, dir)
             \/ x.value = y.value /\ x.row.id < y.row.id
        ELSE IF dir = "asc" THEN earlier(x, y) ELSE earlier(y, x)

order_by(x, y, key) ==
    CASE key.kind = "none" -> FALSE
      [] key.kind = "id" -> IF key.dir = "asc" THEN x.row.id < y.row.id ELSE y.row.id < x.row.id
      [] key.kind = "childid" -> IF key.dir = "asc" THEN Smaller(x.value, y.value)
                                 ELSE Smaller(y.value, x.value)
      [] OTHER -> sort_expr(x, y, key.dir)

FilterRange(s, range) ==
    LET to == IF range.first = Null THEN Len(s) ELSE Min({Len(s), range.skip + range.first})
    IN  SubSeq(s, range.skip + 1, to)

Ranked(candidates, key, range) ==
    FilterRange(SetToSortSeq(candidates, LAMBDA x, y : order_by(x, y, key)), range)

-----------------------------------------------------------------------------
(* Windows: the children of a list of parents.  link.kind is "direct" (the *)
(* child holds the parent's id in link.attr) or "list"/"scalar" (the       *)
(* parents' own child ids are in link.ids, in step with window.ids).       *)

ParentIds(ids) ==
    LET width == Max({Len(ids[i]) : i \in DOMAIN ids})
    IN  [i \in DOMAIN ids |-> [k \in 1..width |-> IF k \in DOMAIN ids[i] THEN ids[i][k] ELSE Null]]

type_a(c, w, i) == w.ids[i] \in ToSet(c.refs)
single_type_a(c, w, i) ==
    /\ w.ids[i] \in ToSet(c.refs)
    /\ Len(w.ids) < TypeABatchSize => ToSet(c.refs) \cap ToSet(w.ids) # {}
type_b(c, w, i) == w.ids[i] = c.ref
type_c(c, w, i) == c.id \in ToSet(ParentIds(w.link.ids)[i])
type_d(c, w, i) ==
    /\ TypeDSetSize > 0 /\ Cardinality(ToSet(w.link.ids)) <= TypeDSetSize =>
           c.id \in ToSet(w.link.ids)
    /\ c.id = w.link.ids[i]

IsChild(c, w, i) ==
    CASE w.link.kind = "list" -> type_c(c, w, i)
      [] w.link.kind = "scalar" -> type_d(c, w, i)
      [] w.link.attr = "refs" -> IF w.link.many THEN type_a(c, w, i) ELSE single_type_a(c, w, i)
      [] OTHER -> type_b(c, w, i)

ManyChildren(w) == w.link.kind = "list" \/ (w.link.kind = "direct" /\ w.link.many)

children(w, i, filter, db, block) ==
    {c \in Selected(db, w.type, filter, block) : IsChild(c, w, i)}

-----------------------------------------------------------------------------
(* The four kinds of queries.  An answer is a sequence of [row, parent];   *)
(* a query has a set of possible answers, because a single_limit without   *)
(* an order leaves the choice to Postgres.                                 *)

Answer(s, parent) == [k \in DOMAIN s |-> [row |-> s[k].row, parent |-> parent]]

AllCandidates(q, key, db) ==
    UNION {UNION {Candidates(r, key, db, q.block) : r \in Selected(db, t, q.filter, q.block)} :
               t \in ToSet(q.types)}

query_no_window_one_entity(q, key, db) ==
    IF IsChildKey(key) /\ \E i \in DOMAIN key.types : db[key.types[i]].immutable THEN {Failed}
    ELSE {Answer(Ranked(AllCandidates(q, key, db), key, q.range), Null)}

query_no_window(q, key, db) ==
    IF IsChildKey(key) THEN {Failed}
    ELSE LET matches == ToSet(Ranked(AllCandidates(q, key, db), key, q.range))
         IN  {Answer(SetToSortSeq(matches, LAMBDA x, y : order_by(x, y, key)), Null)}

(* order by g$parent_id, then by the sort key.                             *)
order_by_parent(S, key) ==
    SetToSortSeq(S, LAMBDA x, y :
        \/ x.parent < y.parent
        \/ x.parent = y.parent /\ order_by(Candidate(x.row, key), Candidate(y.row, key), key))

single_limit(S, n) == {T \in SUBSET S : Cardinality(T) = Min({n + 1, Cardinality(S)})}

query_window_one_entity(q, w, key, db) ==
    LET cs(i) == children(w, i, q.filter, db, q.block)
        top(i) == ToSet(Ranked({Candidate(c, key) : c \in cs(i)}, key, q.range))
        pairs == UNION {{[row |-> c, parent |-> w.ids[i]] : c \in cs(i)} : i \in DOMAIN w.ids}
        ranked == UNION {{[row |-> x.row, parent |-> w.ids[i]] : x \in top(i)} : i \in DOMAIN w.ids}
    IN  IF IsChildKey(key) THEN {Failed}
        ELSE IF ManyChildren(w) THEN {order_by_parent(ranked, key)}
        ELSE {order_by_parent(T, key) : T \in single_limit(pairs, Len(w.ids))}

collect_parents(windows) == UNION {ToSet(windows[k].ids) : k \in DOMAIN windows}

query_window(q, key, db) ==
    LET of(p) == UNION {UNION {children(q.windows[k], i, q.filter, db, q.block) :
                                   i \in {j \in DOMAIN q.windows[k].ids : q.windows[k].ids[j] = p}} :
                            k \in DOMAIN q.windows}
        matches == UNION {{[row |-> x.row, parent |-> p] :
                              x \in ToSet(Ranked({Candidate(c, key) : c \in of(p)}, key, q.range))} :
                              p \in collect_parents(q.windows)}
    IN  IF IsChildKey(key) THEN {Failed} ELSE {order_by_parent(matches, key)}

FilterQuery(q, db) ==
    LET key == SortKey(q.order)
    IN  CASE Len(q.windows) = 1 -> query_window_one_entity(q, q.windows[1], key, db)
          [] Len(q.windows) > 1 -> query_window(q, key, db)
          [] Len(q.types) = 1 -> query_no_window_one_entity(q, key, db)
          [] OTHER -> query_no_window(q, key, db)

-----------------------------------------------------------------------------
(* Lookups, changes of a block, and insertion in chunks.                   *)

=============================================================================
