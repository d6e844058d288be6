------------------------------ MODULE MCQueries ------------------------------
(***************************************************************************)
(* Queries on small databases, one input at a time, checked against what   *)
(* each of them is supposed to mean.  The entities: type A with ids 1, 2   *)
(* and type B with ids 3, 4, both implementing interface I.                *)
(***************************************************************************)
EXTENDS QueryExecution

VARIABLE asked

-----------------------------------------------------------------------------
(* The schema.                                                             *)

Stored(base, list, attr) ==
    [base |-> base, list |-> list, nonNull |-> FALSE, attr |-> attr, derived |-> FALSE]
Derived(base, list, attr) == [Stored(base, list, attr) EXCEPT !.derived = TRUE]

MCInterfaces == [I |-> <<"A", "B">>]
MCFieldDefs ==
    [Query |-> [as |-> Stored("A", TRUE, Null), bs |-> Stored("B", TRUE, Null),
                is |-> Stored("I", TRUE, Null), a |-> Stored("A", FALSE, Null)],
     I |-> [name |-> Stored(Scalar, FALSE, "name"), ref |-> Stored("I", FALSE, "ref")],
     A |-> [name |-> Stored(Scalar, FALSE, "name"),
            key  |-> [Stored(Scalar, FALSE, "key") EXCEPT !.nonNull = TRUE],
            ref  |-> Stored("I", FALSE, "ref"), refs |-> Stored("I", TRUE, "refs"),
            kids |-> Derived("B", TRUE, "ref"), fans |-> Derived("I", TRUE, "refs"),
            only |-> Derived("B", FALSE, "ref")],
     B |-> [name |-> Stored(Scalar, FALSE, "name"), key |-> Stored(Scalar, FALSE, "key"),
            ref  |-> Stored("A", FALSE, "ref"), refs |-> Stored("A", TRUE, "refs"),
            sole |-> Derived("A", FALSE, "refs")]]

NoArgs == [id |-> Null, first |-> Null, variable |-> FALSE, skip |-> 0, order |-> Null, where |-> Null]
Field(name, args, sel) ==
    [kind |-> "field", name |-> name, key |-> name, skip |-> FALSE, args |-> args, sel |-> sel]
Leaf(name) == Field(name, NoArgs, << >>)
On(type, sel) == [kind |-> "inline", on |-> type, skip |-> FALSE, sel |-> sel]
Spread(frag) == [kind |-> "spread", frag |-> frag]

MCFragments ==
    [OnI |-> [on |-> "I", skip |-> FALSE, sel |-> <<Leaf("name"), Field("ref", NoArgs, <<Leaf("name")>>)>>],
     OnA |-> [on |-> "A", skip |-> FALSE, sel |-> <<Leaf("key"), Field("kids", NoArgs, <<Leaf("key")>>)>>]]

-----------------------------------------------------------------------------
(* The databases.                                                          *)

Row(type, id, lo, hi, name, key, ref, refs) ==
    [type |-> type, id |-> id, vid |-> 10 * id + lo, lo |-> lo, hi |-> hi,
     name |-> name, key |-> key, ref |-> ref, refs |-> refs]

Names == <<<<1>>, <<1, 2, 3>>, Null, <<1, 2>>>>
Keys == <<<<1>>, <<1>>, <<2>>, Null>>
TypeOf(id) == IF id <= 2 THEN "A" ELSE "B"

(* Every entity exists since block 1; entity 3 had another version before  *)
(* block 2 and entity 2 is removed at block 3.                             *)
Database(ref, refs, immutableB) ==
    LET current(id) == Row(TypeOf(id), id, IF id = 3 /\ ~immutableB THEN 2 ELSE 1,
                           IF id = 2 THEN 3 ELSE Unbounded, Names[id], Keys[id], ref[id], refs[id])
        old == Row("B", 3, 1, 2, <<1, 2, 3, 4>>, <<1>>, 1, <<2>>)
    IN  [A |-> [rows |-> {current(1), current(2)}, immutable |-> FALSE, accountLike |-> TRUE],
         B |-> [rows |-> {current(3), current(4)} \cup (IF immutableB THEN {} ELSE {old}),
                immutable |-> immutableB, accountLike |-> FALSE]]

Refs == {<<<<3>>, <<1, 4>>, <<2>>, << >>>>, <<<<3, 3>>, <<3>>, << >>, <<2, 1>>>>}
RefFunctions == {f \in [1..4 -> {Null, 1, 2, 3}] :
                     f[1] # 2 /\ f[2] = 1 /\ f[3] # 3 /\ f[4] \in {1, 2}}
Databases == {Database(ref, refs, b) : ref \in RefFunctions, refs \in Refs, b \in BOOLEAN}
Blocks == {1, 2, 3, BlockNumberMax}

-----------------------------------------------------------------------------
(* The queries.                                                            *)

Page(n) == [NoArgs EXCEPT !.first = n]
Sorted(attr, dir, n) == [NoArgs EXCEPT !.order = [attr |-> attr, dir |-> dir], !.first = n]
Name == <<Leaf("name")>>
Alias(f, key) == [f EXCEPT !.key = key]

Nested ==
    {<<Field("kids", Page(n), Name)>> : n \in {1, 2, Null}}
        \cup {<<Field("kids", Sorted("key", dir, n), Name)>> : dir \in {"asc", "desc"}, n \in {1, Null}}
        \cup {<<Field("refs", Sorted("name", "desc", n), <<On("A", <<Leaf("key")>>), Leaf("name")>>)>> : n \in {1, 2}}
        \cup {<<Field("fans", Page(n), <<Spread("OnA"), Spread("OnI")>>)>> : n \in {1, 2}}
        \cup {<<Field("only", NoArgs, <<Leaf("key"), Field("sole", NoArgs, Name)>>)>>,
              <<Spread("OnI"), Leaf("key"), Alias(Field("ref", NoArgs, <<On("B", <<Leaf("key")>>)>>), "other"),
                Field("ref", NoArgs, <<On("A", <<Leaf("key")>>)>>)>>,
              <<Leaf("name"), Alias(Leaf("name"), "again"),
                Field("ref", NoArgs, <<Field("ref", NoArgs, Name)>>)>>}

Trees ==
    {<<Field("as", args, sel)>> : sel \in Nested, args \in {NoArgs, Page(1), Sorted("key", "desc", 2)}}
        \cup {<<Field("a", [NoArgs EXCEPT !.id = id], sel)>> : id \in {1, 2}, sel \in Nested}
        \cup {<<Field("is", Page(3), <<Leaf("name"), On("A", sel), Spread("OnI")>>)>> : sel \in Nested}
        \cup {<<Field("bs", args, <<Field("ref", NoArgs, sel)>>)>> :
                 args \in {NoArgs, [Page(1) EXCEPT !.skip = 1]}, sel \in Nested}

-----------------------------------------------------------------------------
(* What a query means: entity by entity, straight from the selections.     *)

RECURSIVE CollectFields(_, _), RefObject(_, _, _, _), Means(_, _, _, _, _)

CollectFields(items, type) ==
    LET applies(on) == on = Null \/ type \in resolve_object_types(on)
        of(s) == IF s.kind = "field" THEN IF s.skip THEN << >> ELSE <<s>>
                 ELSE IF s.kind = "inline"
                 THEN IF applies(s.on) /\ ~s.skip THEN CollectFields(s.sel, type) ELSE << >>
                 ELSE IF applies(Fragments[s.frag].on) THEN CollectFields(Fragments[s.frag].sel, type)
                 ELSE << >>
    IN  FlattenSeq([i \in DOMAIN items |-> of(items[i])])

(* A where-object holds for a row when all its entries do.                 *)
Means(entity, obj, row, db, block) ==
    LET all(list) == {Means(entity, list[i], row, db, block) : i \in DOMAIN list}
        def(e) == FieldDefs[row.type][e.field]
        child(e) == \E t \in resolve_object_types(def(e).base) :
                        \E c \in RowsAt(db, t, block) :
                            /\ LinkedBy(row, c, def(e).attr, def(e).derived)
                            /\ Means(def(e).base, e.obj, c, db, block) = TRUE
        entry(e) == CASE e.k = "column" -> QueryFilter(row, e.filter, db, block)
                      [] e.k = "and" -> SqlAnd(all(e.list))
                      [] e.k = "or" -> SqlOr(all(e.list))
                      [] e.k = "child" -> child(e)
    IN  SqlAnd({entry(e) : e \in obj})

RefRows(types, args, row, def, db, block) ==
    LET rows == {c \in UNION {RowsAt(db, t, block) : t \in types} :
                    /\ row # Null => LinkedBy(row, c, def.attr, def.derived)
                    /\ args.id # Null => c.id = args.id
                    /\ args.where # Null => Means(def.base, args.where, c, db, block) = TRUE}
        key == SortKey(IF args.order = Null THEN [by |-> "default"]
                       ELSE args.order @@ [by |-> "attribute"])
        sorted == SetToSortSeq(rows, LAMBDA c, d : order_by(Candidate(c, key), Candidate(d, key), key))
    IN  IF ~def.list THEN SetToSeq(rows)
        ELSE FilterRange(sorted, [first |-> IF args.first = Null THEN 100 ELSE args.first,
                                  skip |-> args.skip])

RefObjects(rows, sel, db, block) ==
    LET add(values, v) == IF values = Failed \/ v = Failed THEN Failed ELSE Append(values, v)
    IN  FoldLeft(LAMBDA values, r : add(values, RefObject(r, CollectFields(sel, r.type), db, block)),
                 << >>, rows)

RefField(row, def, args, sel, db, block) ==
    LET one(objects) == IF def.list \/ objects = Failed THEN objects
                        ELSE IF objects = << >> THEN Null
                        ELSE IF Len(objects) > 1 THEN Failed ELSE objects[1]
        rows == RefRows(resolve_object_types(def.base), args, row, def, db, block)
        required(value) == IF value = Null /\ def.nonNull THEN Failed ELSE value
    IN  required(IF def.base = Scalar THEN row[def.attr] ELSE one(RefObjects(rows, sel, db, block)))

RefObject(row, fields, db, block) ==
    LET type == IF row = Null THEN "Query" ELSE row.type
        add(values, key, v) == IF values = Failed THEN Failed
                               ELSE IF key \in DOMAIN values THEN values
                               ELSE IF v = Failed THEN Failed ELSE values @@ (key :> v)
        sel(f) == FlattenSeq([i \in DOMAIN fields |-> IF fields[i].key = f.key THEN fields[i].sel ELSE << >>])
        value(f) == RefField(row, FieldDefs[type][f.name], f.args, sel(f), db, block)
    IN  FoldLeft(LAMBDA values, f : add(values, f.key, value(f)), << >>, fields)

-----------------------------------------------------------------------------
(* The other inputs.                                                       *)

Column(op, attr, value) == [k |-> "column", filter |-> [op |-> op, attr |-> attr, value |-> value]]
ColumnEntries == {Column("=", "name", <<1, 2>>), Column("!=", "name", <<1>>), Column(">", "key", <<1>>),
                  [k |-> "column", filter |-> [op |-> "ChangeBlockGte", block |-> 2]]}
Simple == {{e} : e \in ColumnEntries} \cup {{e, Column("<=", "name", <<1, 2, 3>>)} : e \in ColumnEntries}
Lists == {<<o, {Column("=", "key", Null)}>> : o \in Simple} \cup {<< >>}
Compound == {{[k |-> op, list |-> l]} : op \in {"and", "or"}, l \in Lists}
                \cup {{[k |-> "child", field |-> "ref", obj |-> o]} : o \in Simple}
Where == Simple \cup Compound
             \cup {{[k |-> op, list |-> <<o, {Column("=", "name", <<1>>)}>>]} :
                       op \in {"and", "or"}, o \in Compound}
             \cup {{[k |-> "child", field |-> "ref", obj |-> o], e} : o \in Compound, e \in ColumnEntries}

SmallDatabases == {Database(ref, refs, FALSE) : ref \in {<<3, 1, 1, 2>>, <<1, 3, Null, 1>>}, refs \in Refs}

-----------------------------------------------------------------------------
(* One action per kind of input.                                           *)

Init == asked = [kind |-> "idle"]

AskTree == \E items \in Trees, db \in Databases, block \in {1, 3} :
    asked' = [kind |-> "tree", items |-> items, db |-> db, block |-> block]
AskWhere == \E obj \in Where, entity \in {"A", "B", "I"}, db \in SmallDatabases, block \in {1, 2} :
    asked' = [kind |-> "where", obj |-> obj, entity |-> entity, db |-> db, block |-> block]
AskPage == \E types \in {<<"A">>, <<"A", "B">>}, attr \in {"id", "name", "key"}, size \in 1..3,
              db \in Databases, block \in Blocks :
    asked' = [kind |-> "page", types |-> types, attr |-> attr, size |-> size, db |-> db, block |-> block,
              child |-> FALSE]
(* A join with an immutable table fails, so its rows are not sorted by.    *)
AskChildPage == \E attr \in {"name", "key"}, size \in 1..2, db \in Databases, block \in Blocks :
    /\ ~db["B"].immutable
    /\ asked' = [kind |-> "page", types |-> <<"A">>, attr |-> attr, size |-> size, db |-> db,
                 block |-> block, child |-> TRUE]

Next ==
    /\ asked.kind = "idle"
    /\ \/ AskWhere \/ AskPage \/ AskChildPage \/ AskTree

Spec == Init /\ [][Next]_asked

-----------------------------------------------------------------------------
(* The answer of prefetch, which asks the store once per level and field   *)
(* for all entities of a type, limits single references to one row more    *)
(* than there are parents, selects only some columns and hands children    *)
(* out by g$parent_id, is what resolving every entity on its own gives:    *)
(* the same lists in the same order, or an error exactly when a required   *)
(* field is null or a single reference has two candidates.                 *)
PrefetchIsPerEntity ==
    asked.kind = "tree" =>
        execute_root_selection_set(asked.items, asked.db, asked.block)
            = {RefObject(Null, CollectFields(asked.items, "Query"), asked.db, asked.block)}

(* A where-object selects the rows for which all its entries hold: `and`   *)
(* all of its list, `or` some of it, a child filter some linked child that *)
(* exists at the block.  At most one of `and` and `or` is in an object.    *)
WhereMeans ==
    asked.kind = "where" =>
        LET fs == build_filter_from_object(asked.entity, asked.obj)
        IN  \A t \in resolve_object_types(asked.entity) : \A row \in RowsAt(asked.db, t, asked.block) :
                QueryFilter(row, And(fs), asked.db, asked.block)
                    = Means(asked.entity, asked.obj, row, asked.db, asked.block)

(* Sorted by a column of its own or of the entity it refers to, whatever  *)
(* is null, equal, dangling or not there at the block, a list has one      *)
(* order, so that pages of any size, each asked for on its own, put        *)
(* together are the whole list: no row is on two pages or on none.         *)
(* Sorting the other way round gives the reverse list.                     *)
PagesPartition ==
    asked.kind = "page" =>
        LET order(dir) == [attr |-> asked.attr, dir |-> dir]
                              @@ (IF asked.child THEN [field |-> "ref"] ELSE << >>)
            q(dir, first, skip) ==
                [types |-> asked.types, filter |-> [op |-> "None"], block |-> asked.block,
                 windows |-> << >>, order |-> build_order_by("A", order(dir)),
                 range |-> [first |-> first, skip |-> skip]]
            answers(dir, first, skip) == FilterQuery(q(dir, first, skip), asked.db)
            pages(dir) == FlattenSeq([p \in 1..4 |-> CHOOSE a \in
                              answers(dir, asked.size, asked.size * (p - 1)) : TRUE])
            all == UNION {RowsAt(asked.db, t, asked.block) : t \in ToSet(asked.types)}
        IN  \E list \in {pages("asc")} :
                /\ answers("asc", Null, 0) = {list}
                /\ pages("desc") = Reverse(list)
                /\ {p.row : p \in ToSet(list)} = all
                /\ Len(list) = Cardinality(all)

=============================================================================
