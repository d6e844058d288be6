----------------------------- MODULE Deployments -----------------------------
(***************************************************************************)
(* What the primary database records about deployments (primary.rs) and    *)
(* the operations of subgraph_store.rs and graphman that change it: deploy *)
(* a subgraph version, copy a deployment into another shard, activate a    *)
(* copy, promote a deployment once it is synced, and remove deployments    *)
(* that nothing uses any more.  An operation that spans the primary and a  *)
(* shard is a sequence of transactions, in one process, with a crash       *)
(* possible between any two of them.                                       *)
(*                                                                         *)
(* A site is one copy of a deployment (hash) in one shard.  Which node an  *)
(* assigned site runs on is the business of module NodeAssignments.        *)
(***************************************************************************)
EXTENDS Naturals, FiniteSets, FiniteSetsExt

CONSTANTS
    Hashes,         \* deployment hashes
    Names,          \* subgraph names
    Shards,
    Procs,          \* processes (nodes, graphman) that run operations
    Nothing,
    MaxSites,       \* bound on the sites ever created
    MaxDeploys,     \* bounds on deploys, copies, removals of a name, crashes
    MaxCopies,      \* and uses of graphman unassign
    MaxNameRemovals,
    MaxDepCrashes,
    MaxUnassigns

VARIABLES
    mode,        \* SubgraphVersionSwitchingMode
    sites,       \* deployment_schemas: site id -> [hash, shard, active]
    data,        \* sites with a schema and a subgraph_deployment row
    synced,      \* sites whose subgraph_deployment row says synced
    onSync,      \* the on_sync setting of a site
    source,      \* copy_state: the site a copy or graft was made from
    subgraph,    \* subgraph name -> [current, pending], Nothing if not created
    versions,    \* subgraph_version rows, as <<name, hash>>
    assigned,    \* sites in subgraph_deployment_assignment
    copies,      \* active_copies: destination -> [src, cancelled]
    unused,      \* unused_deployments rows that are not removed
    op,          \* the operation each process is in the middle of
    used         \* what is left of the bounds

depVars == <<mode, sites, data, synced, onSync, source, subgraph, versions,
             assigned, copies, unused, op, used>>

Ids == 1..MaxSites
NoOperation == [kind |-> "idle"]
NoVersions == [current |-> Nothing, pending |-> Nothing]

-----------------------------------------------------------------------------
(* Queries on the primary.                                                 *)

find_active_site(h) == {i \in Ids : sites[i] # Nothing /\ sites[i].hash = h /\ sites[i].active}

find_site_in_shard(h, s) ==
    {i \in Ids : sites[i] # Nothing /\ sites[i].hash = h /\ sites[i].shard = s}

(* The deployment a version id leads to: none once drop_site has deleted   *)
(* the version row.                                                        *)
deployment_of(n, h) == IF <<n, h>> \in versions THEN h ELSE Nothing

current_or_pending(sub, vs) ==
    {h \in Hashes : \E n \in Names :
        sub[n] # Nothing /\ <<n, h>> \in vs /\ h \in {sub[n].current, sub[n].pending}}

remove_unused_assignments(sub, vs, asg) ==
    {i \in asg : sites[i] # Nothing /\ sites[i].hash \in current_or_pending(sub, vs)}

cancel_copies(ids) ==
    [i \in Ids |-> IF i \in ids /\ copies[i] # Nothing
                   THEN [copies[i] EXCEPT !.cancelled = TRUE] ELSE copies[i]]

(* remove_unused_assignments returns the changes for the sites it removed; *)
(* an assignment whose site is gone is deleted but has no copies.          *)
SetAssignments(sub, vs, asg) ==
    /\ assigned' = remove_unused_assignments(sub, vs, asg)
    /\ copies' = cancel_copies(asg \ assigned')

exists_and_synced(h) == find_active_site(h) \cap synced # {}

NewSite(h, s, active) == [hash |-> h, shard |-> s, active |-> active]

NextId == CHOOSE i \in Ids : sites[i] = Nothing /\ \A j \in Ids : sites[j] = Nothing => i <= j

(* The sites an insert of (h, s) may yield: an existing one that 'found'   *)
(* names, or a new one unless an index of deployment_schemas forbids it    *)
(* (one site per hash and shard; site ids are not reused in the bound).    *)
create_site(found, h, s, active) ==
    IF found # {} THEN {<<i, sites>> : i \in found}
    ELSE IF find_site_in_shard(h, s) # {} \/ \A i \in Ids : sites[i] # Nothing THEN {}
    ELSE {<<NextId, [sites EXCEPT ![NextId] = NewSite(h, s, active)]>>}

allocate_site(h, s) == create_site(find_active_site(h), h, s, TRUE)
copy_site(src, s) ==
    create_site(find_site_in_shard(sites[src].hash, s), sites[src].hash, s, FALSE)

record_active_copy(src, dst) ==
    IF copies[dst] = Nothing THEN [copies EXCEPT ![dst] = [src |-> src, cancelled |-> FALSE]]
    ELSE copies

-----------------------------------------------------------------------------
Use(what) == used[what] > 0 /\ used' = [used EXCEPT ![what] = @ - 1]
Begin(p, o) == op[p] = NoOperation /\ op' = [op EXCEPT ![p] = o]
At(p, kind, stage) == op[p].kind = kind /\ op[p].stage = stage
Goto(p, stage) == op' = [op EXCEPT ![p].stage = stage]
Done(p) == op' = [op EXCEPT ![p] = NoOperation]

create_subgraph(n) ==
    /\ subgraph[n] = Nothing
    /\ subgraph' = [subgraph EXCEPT ![n] = NoVersions]
    /\ UNCHANGED <<mode, sites, data, synced, onSync, source, versions, assigned,
                   copies, unused, op, used>>

(* create_deployment_internal, up to its first transaction in the shard.   *)
create_deployment(p, n, h, base) ==
    /\ subgraph[n] # Nothing
    /\ Use("deploys")
    /\ base # Nothing => base # h /\ find_active_site(base) \cap data # {}
    /\ \E s \in Shards : \E site \in allocate_site(h, s) :
          /\ sites' = site[2]
          /\ copies' = IF base = Nothing THEN copies
                       ELSE record_active_copy(CHOOSE b \in find_active_site(base) : TRUE,
                                               site[1])
          /\ Begin(p, [kind |-> "create", stage |-> "schema", name |-> n, site |-> site[1],
                       hash |-> h, on_sync |-> "none",
                       src |-> IF base = Nothing THEN Nothing
                               ELSE CHOOSE b \in find_active_site(base) : TRUE])
    /\ UNCHANGED <<mode, data, synced, onSync, source, subgraph, versions, assigned, unused>>

copy_deployment(p, src, s, sync) ==
    /\ src \in data
    /\ sites[src] # Nothing
    /\ find_active_site(sites[src].hash) # {}
    /\ Use("copies")
    /\ \E site \in copy_site(src, s) :
          /\ site[1] # src
          /\ site[1] \notin assigned
          /\ sites' = site[2]
          /\ copies' = record_active_copy(src, site[1])
          /\ Begin(p, [kind |-> "copy", stage |-> "schema", site |-> site[1],
                       hash |-> sites[src].hash, on_sync |-> sync, src |-> src])
    /\ UNCHANGED <<mode, data, synced, onSync, source, subgraph, versions, assigned, unused>>

(* DeploymentStore::create_deployment.  A site that exists in the shard    *)
(* keeps its data; on_sync is set in any case.                             *)
store_create_deployment(p) ==
    LET i == op[p].site IN
    /\ op[p].kind \in {"create", "copy"} /\ op[p].stage = "schema"
    /\ data' = data \cup {i}
    /\ synced' = IF i \in data THEN synced ELSE synced \ {i}
    /\ source' = IF i \in data THEN source ELSE [source EXCEPT ![i] = op[p].src]
    /\ onSync' = [onSync EXCEPT ![i] = op[p].on_sync]
    /\ Goto(p, "assign")
    /\ UNCHANGED <<mode, sites, subgraph, versions, assigned, copies, unused, used>>

change_needed(n, h) ==
    LET cur == deployment_of(n, subgraph[n].current)
    IN  IF mode = "Synced" /\ exists_and_synced(cur)
        THEN deployment_of(n, subgraph[n].pending) # h
        ELSE cur # h

new_versions_AlwaysCurrent(n, h) == [current |-> h, pending |-> Nothing]

(* Whether the new version becomes the current or the pending one.         *)
new_versions(n, h) ==
    IF /\ mode = "Synced"
       /\ exists_and_synced(deployment_of(n, subgraph[n].current))
       /\ ~exists_and_synced(h)
    THEN [subgraph[n] EXCEPT !.pending = h]
    ELSE [current |-> h, pending |-> Nothing]

(* exists_and_synced looks the active site up and fails without one.       *)
version_fails(n, h) ==
    \E d \in {h, deployment_of(n, subgraph[n].current)} \ {Nothing} :
        find_active_site(d) = {}

create_subgraph_version(p) ==
    LET n == op[p].name
        h == op[p].hash
        exists == subgraph[n] # Nothing
        sub == [subgraph EXCEPT ![n] = IF exists THEN new_versions(n, h)
                                       ELSE [current |-> h, pending |-> Nothing]]
        vs == versions \cup {<<n, h>>}
    IN  /\ At(p, "create", "assign")
        /\ IF exists /\ (~change_needed(n, h) \/ version_fails(n, h))
           THEN UNCHANGED <<subgraph, versions, assigned, copies>>
           ELSE /\ subgraph' = sub
                /\ versions' = vs
                /\ SetAssignments(sub, vs, assigned \cup {op[p].site})
        /\ Done(p)
        /\ UNCHANGED <<mode, sites, data, synced, onSync, source, unused, used>>

assign_subgraph(p) ==
    /\ At(p, "copy", "assign")
    /\ assigned' = assigned \cup {op[p].site}
    /\ Done(p)
    /\ UNCHANGED <<mode, sites, data, synced, onSync, source, subgraph, versions,
                   copies, unused, used>>

unassign(i) == assigned' = assigned \ {i} /\ copies' = cancel_copies({i})

unassign_subgraph(i) ==
    /\ i \in assigned
    /\ Use("unassigns")
    /\ unassign(i)
    /\ UNCHANGED <<mode, sites, data, synced, onSync, source, subgraph, versions,
                   unused, op>>

remove_subgraph(n) ==
    LET sub == [subgraph EXCEPT ![n] = Nothing]
        vs == {v \in versions : v[1] # n}
    IN  /\ subgraph[n] # Nothing
        /\ Use("removals")
        /\ subgraph' = sub
        /\ versions' = vs
        /\ SetAssignments(sub, vs, assigned)
        /\ UNCHANGED <<mode, sites, data, synced, onSync, source, unused, op>>

-----------------------------------------------------------------------------
(* A deployment reaches the chain head: WritableStore::deployment_synced.  *)
(* A copy or graft does not run before its data is copied.                 *)

CopyFinished(i) ==
    /\ i \in assigned /\ i \in data
    /\ copies[i] # Nothing /\ ~copies[i].cancelled
    /\ copies[i].src \in data
    /\ copies' = [copies EXCEPT ![i] = Nothing]
    /\ UNCHANGED <<mode, sites, data, synced, onSync, source, subgraph, versions,
                   assigned, unused, op, used>>

promoted(n, h) ==
    subgraph[n] # Nothing /\ subgraph[n].pending = h /\ <<n, h>> \in versions

promote_deployment(p, i) ==
    LET h == sites[i].hash
        which == {n \in Names : promoted(n, h)}
        sub == [n \in Names |-> IF n \in which THEN [current |-> h, pending |-> Nothing]
                                ELSE subgraph[n]]
    IN  /\ i \in assigned /\ i \in data \ synced
        /\ copies[i] = Nothing
        /\ sites[i] # Nothing
        /\ subgraph' = sub
        /\ IF which = {} THEN UNCHANGED <<assigned, copies>>
           ELSE SetAssignments(sub, versions, assigned)
        /\ Begin(p, [kind |-> "synced", stage |-> "on_sync", site |-> i, hash |-> h])
        /\ UNCHANGED <<mode, sites, data, synced, onSync, source, versions, unused, used>>

(* on_sync applies to a copy, not to a graft, and only while the source    *)
(* still has a site.                                                       *)
ApplyOnSync(i) ==
    /\ source[i] # Nothing
    /\ sites[source[i]] # Nothing
    /\ sites[source[i]].hash = sites[i].hash
    /\ onSync[i] # "none"

deployment_synced(p) ==
    LET i == op[p].site IN
    /\ At(p, "synced", "on_sync")
    /\ IF sites[i] # Nothing /\ ApplyOnSync(i) THEN Goto(p, "deactivate") ELSE Goto(p, "mark")
    /\ UNCHANGED <<mode, sites, data, synced, onSync, source, subgraph, versions,
                   assigned, copies, unused, used>>

(* Connection::activate, two statements that are not in one transaction.   *)
(* The operator of graphman copy activate picks a copy that is being run.  *)
BeginActivate(p, i) ==
    /\ sites[i] # Nothing /\ ~sites[i].active /\ i \in data \cap assigned
    /\ Begin(p, [kind |-> "activate", stage |-> "deactivate", site |-> i,
                 hash |-> sites[i].hash])
    /\ UNCHANGED <<mode, sites, data, synced, onSync, source, subgraph, versions,
                   assigned, copies, unused, used>>

Deactivate(p) ==
    /\ op[p].kind \in {"activate", "synced"} /\ op[p].stage = "deactivate"
    /\ sites' = [j \in Ids |-> IF sites[j] # Nothing /\ sites[j].hash = op[p].hash
                               THEN [sites[j] EXCEPT !.active = FALSE] ELSE sites[j]]
    /\ Goto(p, "activate")
    /\ UNCHANGED <<mode, data, synced, onSync, source, subgraph, versions,
                   assigned, copies, unused, used>>

Activate(p) ==
    LET i == op[p].site IN
    /\ op[p].kind \in {"activate", "synced"} /\ op[p].stage = "activate"
    /\ sites' = IF sites[i] = Nothing THEN sites ELSE [sites EXCEPT ![i].active = TRUE]
    /\ IF op[p].kind = "activate" THEN Done(p)
       ELSE IF onSync[i] = "replace" THEN Goto(p, "replace") ELSE Goto(p, "mark")
    /\ UNCHANGED <<mode, data, synced, onSync, source, subgraph, versions,
                   assigned, copies, unused, used>>

Replace(p) ==
    /\ At(p, "synced", "replace")
    /\ unassign(source[op[p].site])
    /\ Goto(p, "mark")
    /\ UNCHANGED <<mode, sites, data, synced, onSync, source, subgraph, versions,
                   unused, used>>

set_synced(p) ==
    /\ At(p, "synced", "mark")
    /\ synced' = synced \cup ({op[p].site} \cap data)
    /\ Done(p)
    /\ UNCHANGED <<mode, sites, data, onSync, source, subgraph, versions, assigned,
                   copies, unused, used>>

-----------------------------------------------------------------------------
(* graphman unused record, graphman unused remove.                         *)

detect_unused_deployments ==
    {i \in Ids : /\ sites[i] # Nothing
                 /\ i \notin assigned
                 /\ sites[i].active => sites[i].hash \notin current_or_pending(subgraph, versions)
                 /\ \A d \in Ids : copies[d] # Nothing => copies[d].src # i}

record_unused_deployments ==
    /\ ~ detect_unused_deployments \subseteq unused
    /\ unused' = unused \cup detect_unused_deployments
    /\ UNCHANGED <<mode, sites, data, synced, onSync, source, subgraph, versions,
                   assigned, copies, op, used>>

(* The query compares subgraph_version.subgraph, the id of a subgraph,     *)
(* with subgraph.current_version, the id of a version: it never finds any. *)
subgraphs_using_deployment(i) == {}

remove_deployment_Unchecked(p, i) ==
    /\ i \in unused /\ sites[i] # Nothing
    /\ Begin(p, [kind |-> "remove", stage |-> "drop", site |-> i, hash |-> sites[i].hash])
    /\ UNCHANGED <<mode, sites, data, synced, onSync, source, subgraph, versions,
                   assigned, copies, unused, used>>

remove_deployment(p, i) ==
    /\ i \in unused /\ sites[i] # Nothing
    /\ IF i \notin assigned /\ (sites[i].active => subgraphs_using_deployment(i) = {})
       THEN /\ Begin(p, [kind |-> "remove", stage |-> "drop", site |-> i,
                         hash |-> sites[i].hash])
            /\ UNCHANGED unused
       ELSE /\ op[p] = NoOperation
            /\ unused' = unused \ {i}
            /\ UNCHANGED op
    /\ UNCHANGED <<mode, sites, data, synced, onSync, source, subgraph, versions,
                   assigned, copies, used>>

drop_deployment(p) ==
    LET i == op[p].site IN
    /\ At(p, "remove", "drop")
    /\ data' = data \ {i}
    /\ synced' = synced \ {i}
    /\ source' = [source EXCEPT ![i] = Nothing]
    /\ Goto(p, "site")
    /\ UNCHANGED <<mode, sites, onSync, subgraph, versions, assigned, copies, unused, used>>

(* active_copies.src references deployment_schemas: the delete fails while *)
(* the site is the source of a copy.                                       *)
drop_site(p) ==
    LET i == op[p].site
        h == op[p].hash
    IN  /\ At(p, "remove", "site")
        /\ IF \E d \in Ids \ {i} : copies[d] # Nothing /\ copies[d].src = i
           THEN UNCHANGED <<sites, versions, copies, unused>>
           ELSE /\ sites' = [sites EXCEPT ![i] = Nothing]
                /\ copies' = [copies EXCEPT ![i] = Nothing]
                /\ versions' = IF \E j \in Ids \ {i} : sites[j] # Nothing /\ sites[j].hash = h
                               THEN versions ELSE {v \in versions : v[2] # h}
                /\ unused' = unused \ {i}
        /\ Done(p)
        /\ UNCHANGED <<mode, data, synced, onSync, source, subgraph, assigned, used>>

(* A process dies between two transactions of an operation.                *)
DepCrash(p) ==
    /\ op[p] # NoOperation
    /\ op[p].stage # "activate"
    /\ Use("crashes")
    /\ Done(p)
    /\ UNCHANGED <<mode, sites, data, synced, onSync, source, subgraph, versions,
                   assigned, copies, unused>>

-----------------------------------------------------------------------------
DepInit ==
    /\ mode \in {"Instant", "Synced"}
    /\ sites = [i \in Ids |-> Nothing]
    /\ data = {} /\ synced = {} /\ assigned = {} /\ unused = {} /\ versions = {}
    /\ onSync = [i \in Ids |-> "none"]
    /\ source = [i \in Ids |-> Nothing]
    /\ copies = [i \in Ids |-> Nothing]
    /\ subgraph = [n \in Names |-> Nothing]
    /\ op = [p \in Procs |-> NoOperation]
    /\ used = [deploys |-> MaxDeploys, copies |-> MaxCopies, removals |-> MaxNameRemovals,
               crashes |-> MaxDepCrashes, unassigns |-> MaxUnassigns]

DepNext ==
    \/ \E n \in Names : create_subgraph(n) \/ remove_subgraph(n)
    \/ record_unused_deployments
    \/ \E i \in Ids : unassign_subgraph(i) \/ CopyFinished(i)
    \/ \E p \in Procs :
          \/ \E n \in Names, h \in Hashes, b \in Hashes \cup {Nothing} :
                create_deployment(p, n, h, b)
          \/ \E i \in Ids, s \in Shards, o \in {"none", "activate", "replace"} :
                copy_deployment(p, i, s, o)
          \/ store_create_deployment(p) \/ create_subgraph_version(p) \/ assign_subgraph(p)
          \/ \E i \in Ids : promote_deployment(p, i) \/ BeginActivate(p, i)
          \/ deployment_synced(p) \/ Deactivate(p) \/ Activate(p) \/ Replace(p) \/ set_synced(p)
          \/ \E i \in Ids : remove_deployment(p, i)
          \/ drop_deployment(p) \/ drop_site(p)
          \/ DepCrash(p)

DepSpec == DepInit /\ [][DepNext]_depVars

-----------------------------------------------------------------------------

Activating(h) ==
    \E p \in Procs : op[p] # NoOperation /\ op[p].stage = "activate" /\ op[p].hash = h

(* As long as nobody unassigns a deployment by hand, whatever version a    *)
(* name shows to queries, and whatever version waits to replace it, has an *)
(* active site that holds its data: neither the removal of unused          *)
(* deployments nor a crash in the middle of an operation takes it away.    *)
(* Only the assignment protects a named deployment, since the check for    *)
(* its users finds none.                                                   *)
NamedServed ==
    used.unassigns = MaxUnassigns =>
        \A n \in Names, h \in Hashes :
            subgraph[n] # Nothing /\ h \in {subgraph[n].current, subgraph[n].pending} =>
                Activating(h) \/ find_active_site(h) \cap data # {}

(* In the Synced mode the version a name shows is only replaced by one     *)
(* that has reached the chain head, once a synced version is shown.        *)
SyncedVersionStays ==
    [][\A n \in Names :
        /\ mode = "Synced" /\ subgraph[n] # Nothing /\ subgraph'[n] # Nothing
        /\ subgraph'[n].current # subgraph[n].current
        /\ exists_and_synced(deployment_of(n, subgraph[n].current))
        => LET h == subgraph'[n].current IN
           \/ exists_and_synced(h)
           \/ \E p \in Procs : op'[p] # NoOperation /\ op'[p].kind = "synced" /\ op'[p].hash = h
       ]_depVars

=============================================================================
