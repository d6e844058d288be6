---------------------------- MODULE QueryExecution ----------------------------
(***************************************************************************)
(* From a GraphQL query to its answer, without time: fragments are         *)
(* expanded into the fields of every concrete type, one EntityQuery is     *)
(* built per interior field and level of the query (prefetch), its rows    *)
(* are handed out to their parents, and the tree is completed into values. *)
(*                                                                         *)
(* A query is a sequence of selections:                                    *)
(*   [kind |-> "field", name, key, skip, args, sel]  key is the alias      *)
(*   [kind |-> "inline", on, skip, sel]              on: a type or Null    *)
(*   [kind |-> "spread", frag]                                             *)
(* args is [id, first, variable, skip, order, where], variable when first  *)
(* is given by a variable.  Only object-valued fields have a non-empty     *)
(* sel.  Queries have passed the validation rules of graphql_tools         *)
(* (known fields and types, mergeable fields), which is not modelled.      *)
(***************************************************************************)
EXTENDS EntityQueries

CONSTANTS
    Interfaces,  \* interface name -> sequence of the types implementing it
    FieldDefs,   \* type or interface -> field -> [base, list, nonNull, attr, derived]
    Fragments,   \* fragment name -> [on, skip, sel], none of them cyclic
    MaxFirst, MaxSkip

ASSUME ExecutionAssumption == {MaxFirst, MaxSkip} \subseteq Nat

Scalar == "scalar"

resolve_object_types(name) ==
    IF name \in DOMAIN Interfaces THEN ToSet(Interfaces[name]) ELSE {name}

-----------------------------------------------------------------------------
(* Expansion: a selection set maps every concrete type to its fields.      *)

RECURSIVE merge(_, _)

merge_field(fields, f) ==
    LET same == {i \in DOMAIN fields : fields[i].key = f.key}
    IN  IF same = {} THEN Append(fields, f)
        ELSE [fields EXCEPT ![Min(same)].sel = merge(@, f.sel)]

push(set, f) == [t \in DOMAIN set |-> merge_field(set[t], f)]

merge(set, other) ==
    [t \in DOMAIN set |->
        IF t \in DOMAIN other THEN FoldLeft(merge_field, set[t], other[t]) ELSE set[t]]

RECURSIVE expand_selection_set(_, _, _)

expand_field(f, ty) ==
    LET base == FieldDefs[ty][f.name].base
    IN  [key |-> f.key, name |-> f.name, args |-> f.args,
         sel |-> IF base = Scalar THEN << >>
                 ELSE expand_selection_set(f.sel, resolve_object_types(base), base)]

expand_fragment(on, skip, sel, types, ty, set) ==
    LET cond == IF on = Null THEN ty ELSE on
        narrowed == IF on = Null THEN types ELSE types \cap resolve_object_types(on)
    IN  IF skip THEN set ELSE merge(set, expand_selection_set(sel, narrowed, cond))

expand_selection_set(items, types, ty) ==
    LET step(acc, s) ==
            IF s.kind = "field"
            THEN IF s.skip THEN acc ELSE [acc EXCEPT !.set = push(@, expand_field(s, ty))]
            ELSE IF s.kind = "inline"
            THEN [acc EXCEPT !.set = expand_fragment(s.on, s.skip, s.sel, types, ty, @)]
            ELSE IF s.frag \in acc.visited THEN acc
            ELSE LET f == Fragments[s.frag]
                 IN  [set |-> expand_fragment(f.on, f.skip, f.sel, types, ty, acc.set),
                      visited |-> acc.visited \cup {s.frag}]
        new == [t \in types \cap resolve_object_types(ty) |-> << >>]
    IN  FoldLeft(step, [set |-> new, visited |-> {}], items).set

-----------------------------------------------------------------------------
(* The EntityQuery of a field.  A where-object is a set of entries:        *)
(*   [k |-> "and"/"or", list]  a sequence of where-objects                 *)
(*   [k |-> "column", filter]  [k |-> "child", field, obj]                 *)

RECURSIVE build_filter_from_object(_, _)

And(filters) == [op |-> "And", filters |-> filters]
Or(filters) == [op |-> "Or", filters |-> filters]

build_list_filter_from_object(entity, obj) ==
    IF \E e \in obj : e.k \notin {"and", "or"} THEN Failed
    ELSE LET lists == UNION {{build_filter_from_object(entity, e.list[i]) : i \in DOMAIN e.list} :
                                 e \in obj}
         IN  IF Failed \in lists THEN Failed ELSE {And(fs) : fs \in lists}

(* The types a child filter is built for.  When only the parent is an      *)
(* interface, one filter per implementing type of the parent is or-ed.     *)
build_child_filter_from_object(entity, field, obj) ==
    LET def == FieldDefs[entity][field]
        filters == build_filter_from_object(def.base, obj)
        child(type, d) == [op |-> "Child", attr |-> d.attr, type |-> type,
                           filter |-> And(filters), derived |-> d.derived]
    IN  IF filters = Failed THEN Failed
        ELSE IF def.base \in DOMAIN Interfaces
        THEN {Or({child(t, def) : t \in resolve_object_types(def.base)})}
        ELSE IF entity \in DOMAIN Interfaces
        THEN {Or({child(def.base, FieldDefs[t][field]) : t \in resolve_object_types(entity)})}
        ELSE {child(def.base, def)}

EntryFilter_OrAsAnd(entity, obj, e) ==
    LET list == build_list_filter_from_object(entity, obj)
    IN  IF e.k = "column" THEN {e.filter}
        ELSE IF e.k = "child" THEN build_child_filter_from_object(entity, e.field, e.obj)
        ELSE IF list = Failed THEN Failed ELSE {And(list)}

EntryFilter(entity, obj, e) ==
    LET list == build_list_filter_from_object(entity, obj)
    IN  IF e.k = "column" THEN {e.filter}
        ELSE IF e.k = "child" THEN build_child_filter_from_object(entity, e.field, e.obj)
        ELSE IF list = Failed THEN Failed
        ELSE IF e.k = "and" THEN {And(list)} ELSE {Or(list)}

build_filter_from_object(entity, obj) ==
    LET filters == {EntryFilter(entity, obj, e) : e \in obj}
    IN  IF Failed \in filters THEN Failed ELSE UNION filters

build_filter(entity, where) ==
    IF where = Null THEN [op |-> "None"]
    ELSE LET fs == build_filter_from_object(entity, where)
         IN  IF fs = Failed THEN Failed ELSE And(fs)

build_range(args) ==
    LET first == IF args.first = Null THEN 100 ELSE args.first
    IN  IF (args.first = Null \/ first \in 1..MaxFirst) /\ args.skip \in 0..MaxSkip
        THEN [first |-> first, skip |-> args.skip] ELSE Failed

(* args.order is Null, [attr, dir], or [field, attr, dir] to sort by a     *)
(* field of a child.                                                       *)
build_order_by(entity, order) ==
    IF order = Null THEN [by |-> "default"]
    ELSE IF "field" \notin DOMAIN order
    THEN [by |-> "attribute", attr |-> order.attr, dir |-> order.dir]
    ELSE IF entity \in DOMAIN Interfaces THEN Failed
    ELSE LET def == FieldDefs[entity][order.field]
             child == [attr |-> order.attr, dir |-> order.dir, join |-> def.attr,
                       derived |-> def.derived]
         IN  IF def.base \in DOMAIN Interfaces
             THEN child @@ [by |-> "interface", types |-> Interfaces[def.base]]
             ELSE child @@ [by |-> "child", type |-> def.base]

build_query(entity, args, block) ==
    LET filter == build_filter(entity, args.where)
        range == build_range(args)
        order == build_order_by(entity, args.order)
    IN  IF Failed \in {filter, range, order} THEN Failed
        ELSE [types |-> IF entity \in DOMAIN Interfaces THEN Interfaces[entity] ELSE <<entity>>,
              filter |-> filter, range |-> range, order |-> order, block |-> block,
              windows |-> << >>]

-----------------------------------------------------------------------------
(* Prefetch: a tree of nodes, built level by level.  A node has the columns *)
(* that were selected (row), the id of the parent it was selected for, and *)
(* the lists of its children under their response keys.  Because an answer *)
(* of the store may be any of several, so may the tree.                    *)

is_leaf(f) == \A t \in DOMAIN f.sel : f.sel[t] = << >>

RootNode == [row |-> Null, parent |-> Null, children |-> << >>]

NodeGet(node, attr) == IF attr \in DOMAIN node.row THEN node.row[attr] ELSE Null

SelectedAttributes(f, t) ==
    {"type", "id"}
        \cup {FieldDefs[t][g.name].attr : g \in {h \in ToSet(f.sel[t]) : ~FieldDefs[t][h.name].derived}}
        \cup (IF f.args.order = Null \/ "field" \in DOMAIN f.args.order THEN {} ELSE {f.args.order.attr})

NewNode(pair, f) ==
    [row |-> [a \in SelectedAttributes(f, pair.row.type) |-> pair.row[a]],
     parent |-> pair.parent, children |-> << >>]

(* The window of the parents for one child type: their ids in order, and   *)
(* for a stored reference the child ids, of the parents that have any.     *)
entity_link(parents, def, type) ==
    LET sorted(S) == SetToSortSeq(S, <)
        ids == {p.row.id : p \in ToSet(parents)}
        held(id) == NodeGet(CHOOSE p \in ToSet(parents) : p.row.id = id, def.attr)
        holders == sorted({id \in ids : held(id) # Null /\ (def.list => held(id) # << >>)})
    IN  IF def.derived
        THEN [type |-> type, ids |-> sorted(ids),
              link |-> [kind |-> "direct", attr |-> def.attr, many |-> def.list]]
        ELSE [type |-> type, ids |-> holders,
              link |-> [kind |-> IF def.list THEN "list" ELSE "scalar",
                        ids |-> [i \in DOMAIN holders |-> held(holders[i])]]]

join_windows(parents, def) ==
    LET types == IF def.base \in DOMAIN Interfaces THEN Interfaces[def.base] ELSE <<def.base>>
    IN  [i \in DOMAIN types |-> entity_link(parents, def, types[i])]

fetch(parents, ty, f, db, block) ==
    LET def == FieldDefs[ty][f.name]
        q == build_query(def.base, f.args, block)
        byId == [op |-> "=", attr |-> "id", value |-> f.args.id]
    IN  IF q = Failed THEN {Failed}
        ELSE FilterQuery(
                 [q EXCEPT !.order = IF def.list THEN @ ELSE [by |-> "unordered"],
                           !.filter = IF f.args.id = Null THEN @ ELSE And({byId, @}),
                           !.windows = IF parents[1].row = Null THEN << >>
                                       ELSE join_windows(parents, def)], db)

perform_ByPosition(parents, kids, key) ==
    [i \in DOMAIN parents |->
        [parents[i] EXCEPT !.children = (key :> SubSeq(kids, i, Min({i, Len(kids)}))) @@ @]]

perform(parents, kids, key) ==
    LET mine(p) == IF Len(parents) = 1 THEN kids
                   ELSE SelectSeq(kids, LAMBDA c : c.parent = p.row.id)
    IN  [i \in DOMAIN parents |->
            [parents[i] EXCEPT !.children = (key :> mine(parents[i])) @@ @]]

RECURSIVE prefetch_selection_set(_, _, _, _)

(* One interior field of the parents of type ty.                           *)
prefetch_field(parents, ty, f, db, block) ==
    UNION {IF a = Failed THEN {Failed}
           ELSE {IF nodes = Failed THEN Failed ELSE perform(parents, nodes, f.key) :
                    nodes \in prefetch_selection_set([i \in DOMAIN a |-> NewNode(a[i], f)],
                                                    f.sel, db, block)} :
               a \in fetch(parents, ty, f, db, block)}

prefetch_type(nodes, ty, fields, db, block) ==
    LET isMine(n) == n.row = Null \/ n.row.type = ty
        at == SetToSortSeq({i \in DOMAIN nodes : isMine(nodes[i])}, <)
        step(results, f) ==
            UNION {IF r = Failed THEN {Failed} ELSE prefetch_field(r, ty, f, db, block) : r \in results}
        put(r) == [i \in DOMAIN nodes |->
                      IF isMine(nodes[i]) THEN r[CHOOSE k \in DOMAIN at : at[k] = i] ELSE nodes[i]]
    IN  IF at = << >> THEN {nodes}
        ELSE {IF r = Failed THEN Failed ELSE put(r) :
                 r \in FoldLeft(step, {[k \in DOMAIN at |-> nodes[at[k]]]},
                                SelectSeq(fields, LAMBDA f : ~is_leaf(f)))}

prefetch_selection_set(nodes, sel, db, block) ==
    LET step(results, ty) ==
            UNION {IF r = Failed THEN {Failed} ELSE prefetch_type(r, ty, sel[ty], db, block) :
                       r \in results}
    IN  FoldLeft(step, {nodes}, SetToSeq(DOMAIN sel))

-----------------------------------------------------------------------------
(* Completion: the tree of nodes becomes the value of the query.  An error *)
(* anywhere fails the whole query.                                         *)

RECURSIVE execute_selection_set_to_map(_, _, _)

resolve_object(kids, sel) ==
    IF Len(kids) > 1 THEN Failed
    ELSE IF kids = << >> THEN Null
    ELSE execute_selection_set_to_map(kids[1], sel, kids[1].row.type)

resolve_objects(kids, sel) ==
    LET add(values, v) == IF values = Failed \/ v = Failed THEN Failed ELSE Append(values, v)
    IN  FoldLeft(LAMBDA values, kid :
                     add(values, execute_selection_set_to_map(kid, sel, kid.row.type)), << >>, kids)

complete_value(value, def) == IF def.nonNull /\ value = Null THEN Failed ELSE value

resolve_field_value(node, f, def) ==
    IF def.base = Scalar THEN NodeGet(node, def.attr)
    ELSE IF f.key \notin DOMAIN node.children THEN Failed
    ELSE IF def.list THEN resolve_objects(node.children[f.key], f.sel)
    ELSE resolve_object(node.children[f.key], f.sel)

execute_selection_set_to_map(node, sel, ty) ==
    LET add(values, key, v) ==
            IF values = Failed \/ v = Failed THEN Failed ELSE values @@ (key :> v)
        value(f, def) == complete_value(resolve_field_value(node, f, def), def)
    IN  IF ty \notin DOMAIN sel THEN Failed
        ELSE FoldLeft(LAMBDA values, f : add(values, f.key, value(f, FieldDefs[ty][f.name])),
                      << >>, sel[ty])

(* The possible values of a query on a database at a block.                *)
execute_root_selection_set(items, db, block) ==
    LET sel == expand_selection_set(items, {"Query"}, "Query")
    IN  {IF tree = Failed THEN Failed ELSE execute_selection_set_to_map(tree[1], sel, "Query") :
            tree \in prefetch_selection_set(<<RootNode>>, sel, db, block)}
=============================================================================
