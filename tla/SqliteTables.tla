---------------------------- MODULE SqliteTables ----------------------------
(***************************************************************************)
(* The graph tables of the SQLite store, as sets of rows, and the          *)
(* statements its methods run on them.                                     *)
(*                                                                         *)
(* relations, independence_records and propositions have the primary key   *)
(* id, and context_metadata the key context_id; exclusive_groups has a row *)
(* for each member of a group.  A failed statement is rolled back by the   *)
(* method that ran it.  Listing order, created_at then id, is left out.    *)
(***************************************************************************)
EXTENDS RelationData

AsList(S) == FoldSet(LAMBDA x, s : Append(s, x), <<>>, S)

EmptyTables == [rels |-> {}, groups |-> {}, inds |-> {}, props |-> {}, meta |-> <<>>]

(***************************************************************************)
(* SELECT                                                                  *)
(***************************************************************************)
RowKey(row) == <<row.id, row.ctx, row.store>>

\* Members with one key are one group, with the scope and metadata of the
\* row read first.
ListGroups(rows) ==
    LET group(key) ==
            LET mine == {row \in rows : RowKey(row) = key}
                first == CHOOSE row \in mine : TRUE
            IN  [id |-> key[1], ctx |-> key[2], store |-> key[3], glob |-> first.glob,
                 dom |-> first.dom, members |-> {row.member : row \in mine}]
    IN  AsList({group(RowKey(row)) : row \in rows})

Listed(t) ==
    [rels |-> AsList(t.rels), groups |-> ListGroups(t.groups),
     inds |-> AsList(t.inds), props |-> AsList(t.props), meta |-> t.meta]

(***************************************************************************)
(* INSERT, DELETE and the whole-store rewrite                              *)
(***************************************************************************)
GroupRows(g) ==
    {[id |-> g.id, ctx |-> g.ctx, store |-> g.store, glob |-> g.glob, dom |-> g.dom,
      member |-> m] : m \in g.members}
AllGroupRows(groups) == UNION {GroupRows(g) : g \in ToSet(groups)}

CanInsert(rows, new) == UniqueIds(new) /\ Ids(new) \cap {row.id : row \in rows} = {}

\* assert_exclusive: delete the rows of the key, insert the new ones.
InsertGroup(rows, g) == {row \in rows : RowKey(row) # GroupKey(g)} \cup GroupRows(g)

\* _sync_single_key_table, then the upsert of every desired record.
SyncRows(rows, keys) == {row \in rows : row.id \in keys}
UpsertRows(rows, new) == {row \in rows : row.id \notin Ids(new)} \cup ToSet(new)

\* The member of a group is part of the key of its row.
MemberKey(row) == <<RowKey(row), row.member>>

\* Seeded fault: members that are no longer desired stay.
SyncGroupRowsNever(rows, desired) == rows

SyncGroupRows(rows, desired) ==
    {row \in rows : \E d \in desired : MemberKey(d) = MemberKey(row)}

\* Seeded fault: the member is not part of the key that conflicts.
UpsertGroupRowsByGroup(rows, desired) ==
    LET last(key) == CHOOSE d \in desired : RowKey(d) = key
    IN  {row \in rows : ~\E d \in desired : RowKey(d) = RowKey(row)}
        \cup {last(RowKey(d)) : d \in desired}

UpsertGroupRows(rows, desired) ==
    {row \in rows : ~\E d \in desired : MemberKey(d) = MemberKey(row)} \cup desired

Replaceable(g) == UniqueIds(g.rels) /\ UniqueIds(g.inds) /\ UniqueIds(g.props)

\* Seeded fault: propositions that are no longer desired stay.
ReplaceAllKeepingPropositions(t, g) ==
    [rels   |-> UpsertRows(SyncRows(t.rels, Ids(g.rels)), g.rels),
     groups |-> UpsertGroupRows(SyncGroupRows(t.groups, AllGroupRows(g.groups)),
                                AllGroupRows(g.groups)),
     inds   |-> UpsertRows(SyncRows(t.inds, Ids(g.inds)), g.inds),
     props  |-> UpsertRows(t.props, g.props),
     meta   |-> g.meta]

\* _replace_all_records: the tables become the graph g, whatever they held.
ReplaceAllRecords(t, g) ==
    [rels   |-> UpsertRows(SyncRows(t.rels, Ids(g.rels)), g.rels),
     groups |-> UpsertGroupRows(SyncGroupRows(t.groups, AllGroupRows(g.groups)),
                                AllGroupRows(g.groups)),
     inds   |-> UpsertRows(SyncRows(t.inds, Ids(g.inds)), g.inds),
     props  |-> UpsertRows(SyncRows(t.props, Ids(g.props)), g.props),
     meta   |-> g.meta]

\* clear_relations: delete the ids, keys and context found by the earlier read.
DeleteCleared(t, c, seen) ==
    LET gone(s, Match(_, _)) == {x.id : x \in {y \in ToSet(s) : InScope(y, c, Match)}}
        groups == {GroupKey(g) : g \in {x \in ToSet(seen.groups) :
                                            InScope(x, c, GroupMatchesFilter)}}
    IN  IF c.scope = "all"
        THEN [EmptyTables EXCEPT !.groups = IF c.groups THEN {} ELSE t.groups]
        ELSE [rels   |-> {r \in t.rels : r.id \notin gone(seen.rels, MatchesFilter)},
              groups |-> {row \in t.groups : ~(c.groups /\ RowKey(row) \in groups)},
              inds   |-> {i \in t.inds :
                            i.id \notin gone(seen.inds, IndependenceMatchesFilter)},
              props  |-> t.props,
              meta   |-> IF c.scope = "context" THEN Without(t.meta, c.ctx) ELSE t.meta]
=============================================================================
