----------------------------- MODULE GraphStore -----------------------------
(***************************************************************************)
(* The tools that change the relation graph, over the three backends.      *)
(*                                                                         *)
(* memory: one process, one copy, each call one step.                      *)
(* json:   the same copy, and a file that is rewritten whole after each    *)
(*         change; the rewrite may fail, and the process may restart.      *)
(* sqlite: several processes, each with its own connection.  A method      *)
(*         reads outside the transaction it writes in, so another          *)
(*         process's writes can fall between.                              *)
(*                                                                         *)
(* A call is a record with op, dry and                                     *)
(*   "assert":    rels, mode, reject (on_contradiction)                    *)
(*   "exclusive": group                                                    *)
(*   "clear":     what (see InScope; groups: include_exclusive_groups)     *)
(*   "load":      data, mode, store                                        *)
(***************************************************************************)
EXTENDS ReasoningTools, SqliteTables

CONSTANTS
    Procs,          \* processes that share the SQLite file
    Backends,       \* the backends to model
    Menu,           \* Menu[b]: the calls made on backend b
    MaxCalls,       \* MaxCalls[b]: a bound on the number of calls
    AllowClearAll   \* security.allow_scope_all_clear

\* A call that the tools' schemas accept.
IsCall(c) ==
    /\ c.dry \in BOOLEAN
    /\ \/ /\ c.op = "assert"
          /\ c.rels \in Seq(RelationRecord) /\ c.mode \in AssertMode /\ c.reject \in BOOLEAN
       \/ c.op = "exclusive" /\ c.group \in ExclusiveGroupRecord
       \/ c.op = "clear"
       \/ /\ c = [op |-> "load", data |-> c.data, mode |-> c.mode, store |-> c.store,
                  dry |-> c.dry]
          /\ IsGraph(c.data) /\ c.mode \in ImportMode /\ c.store \in Name

ASSUME MenuAssumption == \A b \in Backends : \A c \in Menu[b] : IsCall(c)
ASSUME MaxCallsAssumption == \A b \in Backends : MaxCalls[b] \in Nat

VARIABLES
    backend,        \* storage.backend
    mem,            \* the graph in the memory of the memory or json process
    file,           \* the graph in the JSON file
    tables,         \* the SQLite tables
    status,         \* the outcome of the last memory or json call
    task,           \* what each SQLite process is doing
    calls           \* number of calls so far

vars == <<backend, mem, file, tables, status, task, calls>>

NoCall == [op |-> "none"]
\* checked: what the handler read; seen and kept: what the store method read.
Idle == [stage |-> "idle", call |-> NoCall, seen |-> EmptyGraph, kept |-> <<>>,
         checked |-> EmptyGraph, status |-> "none"]

Init ==
    /\ backend \in Backends
    /\ mem = EmptyGraph
    /\ file = EmptyGraph
    /\ tables = EmptyTables
    /\ status = "none"
    /\ task = [p \in Procs |-> Idle]
    /\ calls = 0

(***************************************************************************)
(* What the tool handlers decide before the store is asked to write        *)
(***************************************************************************)
HardChecks == [depth |-> 8, floor |-> NoConfidence, direct |-> FALSE,
               strategy |-> "shortest", most |-> 5]

GraphContradictions(g, rels) ==
    FindContradictions(WithIdentities(rels, g.props), g.groups, g.props, NoFilter, FALSE,
                       HardChecks)

AssertedRecords(g, c) == WithIdentities(c.rels, g.props)

\* Seeded fault: only the new records are checked.
RejectedAlone(g, c) ==
    /\ c.op = "assert" /\ c.reject
    /\ GraphContradictions(g, AssertedRecords(g, c)) # {}

\* on_contradiction = reject: the graph as it would be is checked.
Rejected(g, c) ==
    /\ c.op = "assert" /\ c.reject
    /\ GraphContradictions(g, AfterAssert(g.rels, AssertedRecords(g, c), c.mode)) # {}

Refused(g, c) ==
    \/ Rejected(g, c)
    \/ c.op = "clear" /\ c.what.scope = "all" /\ ~c.dry /\ ~AllowClearAll
    \/ c.op = "load" /\ AliasConflict(MergePropositions(g.props, c.data.props))

\* load_relations normalises the relations before it imports them.
LoadedData(g, c) ==
    [c.data EXCEPT !.rels = WithIdentities(@, MergePropositions(g.props, c.data.props))]

(***************************************************************************)
(* The memory backend                                                      *)
(***************************************************************************)
MemoryAssert(g, c) == [g EXCEPT !.rels = AfterAssert(@, AssertedRecords(g, c), c.mode)]
MemoryExclusive(g, c) == AfterExclusive(g, c.group)
MemoryClear(g, c) == AfterClear(g, c.what)
MemoryImport(g, c) == AfterImport(g, LoadedData(g, c), c.mode, c.store)

Applied(g, c) ==
    CASE c.dry            -> g
      [] c.op = "assert" /\ ~c.dry    -> MemoryAssert(g, c)
      [] c.op = "exclusive" /\ ~c.dry -> MemoryExclusive(g, c)
      [] c.op = "clear" /\ ~c.dry     -> MemoryClear(g, c)
      [] c.op = "load" /\ ~c.dry      -> MemoryImport(g, c)

MemoryCall ==
    /\ backend = "memory"
    /\ calls < MaxCalls[backend]
    /\ calls' = calls + 1
    /\ \E c \in Menu[backend] :
        IF Refused(mem, c)
        THEN status' = "error" /\ UNCHANGED mem
        ELSE status' = "ok" /\ mem' = Applied(mem, c)
    /\ UNCHANGED <<backend, file, tables, task>>

(***************************************************************************)
(* The json backend.  A tool that raises is not audited; load_relations    *)
(* catches what the store raises and is.  The audit persists everything    *)
(* the process holds, whether or not the audit log is on.                  *)
(***************************************************************************)
ShouldAudit(c) == c.op = "exclusive" \/ ~c.dry

\* Seeded fault: only assertions are persisted.
PersistsAssertsOnly(c) == c.op = "assert" /\ ~c.dry

Persists(c) == c.op = "exclusive" \/ ~c.dry

JsonCall ==
    /\ backend = "json"
    /\ calls < MaxCalls[backend]
    /\ calls' = calls + 1
    /\ \E c \in Menu[backend], written \in BOOLEAN, audited \in BOOLEAN :
        LET refused == Refused(mem, c)
            failed == ~refused /\ Persists(c) /\ ~written
            audits == ShouldAudit(c) /\ audited /\ (failed => c.op = "load")
        IN  /\ mem' = IF refused THEN mem ELSE Applied(mem, c)
            /\ status' = CASE refused             -> "error"
                           [] failed              -> "failed"
                           [] ~refused /\ ~failed -> IF Persists(c) THEN "ok" ELSE "read"
            /\ file' = IF audits \/ (~refused /\ Persists(c) /\ written) THEN mem' ELSE file
    /\ UNCHANGED <<backend, tables, task>>

\* The process stops, and another loads the file.
JsonRestart ==
    /\ backend = "json"
    /\ status # "none"
    /\ mem' = file
    /\ status' = "none"
    /\ UNCHANGED <<backend, file, tables, task, calls>>

(***************************************************************************)
(* The sqlite backend                                                      *)
(***************************************************************************)
At(p, stage) == backend = "sqlite" /\ task[p].stage = stage
Finish(p, outcome) ==
    task' = [task EXCEPT ![p] = [Idle EXCEPT !.status = outcome]]

Begin(p) ==
    /\ At(p, "idle")
    /\ calls < MaxCalls[backend]
    /\ calls' = calls + 1
    /\ \E c \in Menu[backend] :
        task' = [task EXCEPT ![p] = [Idle EXCEPT !.call = c, !.stage = "check"]]
    /\ UNCHANGED <<backend, mem, file, tables, status>>

\* What the tool handler reads before it calls the store.
Check(p) ==
    /\ At(p, "check")
    /\ LET g == Listed(tables)
           c == task[p].call
       IN  IF Refused(g, c)
           THEN Finish(p, "error")
           ELSE task' = [task EXCEPT
                    ![p].call = IF c.op = "load" THEN [c EXCEPT !.data = LoadedData(g, c)] ELSE c,
                    ![p].checked = g,
                    ![p].stage = "read"]
    /\ UNCHANGED <<backend, mem, file, tables, status, calls>>

\* The store method reads table by table, the propositions first.
Read(p) ==
    /\ At(p, "read")
    /\ LET g == Listed(tables)
           c == task[p].call
       IN  IF c.op = "load" /\ AliasConflict(MergePropositions(g.props, c.data.props))
           THEN Finish(p, "error")
           ELSE task' = [task EXCEPT ![p].seen = g, ![p].stage = "relations"]
    /\ UNCHANGED <<backend, mem, file, tables, status, calls>>

ReadRelations(p) ==
    /\ At(p, "relations")
    /\ task' = [task EXCEPT ![p].seen = [@ EXCEPT !.rels = Listed(tables).rels],
                            ![p].stage = "rest"]
    /\ UNCHANGED <<backend, mem, file, tables, status, calls>>

\* The tables it reads last, and once more the propositions, for a write that
\* keeps them; an import uses those it merged.
ReadRest(p) ==
    /\ At(p, "rest")
    /\ LET g == Listed(tables)
           s == task[p].seen
       IN  IF task[p].call.dry
           THEN Finish(p, "ok")
           ELSE task' = [task EXCEPT ![p] = [task[p] EXCEPT
                    !.seen = [s EXCEPT !.groups = g.groups, !.inds = g.inds, !.meta = g.meta],
                    !.kept = g.props,
                    !.stage = "write"]]
    /\ UNCHANGED <<backend, mem, file, tables, status, calls>>

Store(p, t) == tables' = t /\ Finish(p, "ok")
Fail(p) == UNCHANGED tables /\ Finish(p, "failed")

WriteAppend(p) ==
    LET new == AssertedRecords(task[p].seen, task[p].call)
    IN  /\ task[p].call.op = "assert" /\ task[p].call.mode = "append"
        /\ IF CanInsert(tables.rels, new)
           THEN Store(p, [tables EXCEPT !.rels = @ \cup ToSet(new)])
           ELSE Fail(p)

Rewrite(p, g) == IF Replaceable(g) THEN Store(p, ReplaceAllRecords(tables, g)) ELSE Fail(p)

WriteMerged(p) ==
    /\ task[p].call.op = "assert" /\ task[p].call.mode # "append"
    /\ Rewrite(p, [MemoryAssert(task[p].seen, task[p].call) EXCEPT !.props = task[p].kept])

WriteImport(p) ==
    task[p].call.op = "load" /\ Rewrite(p, MemoryImport(task[p].seen, task[p].call))

WriteExclusive(p) ==
    /\ task[p].call.op = "exclusive"
    /\ Store(p, [tables EXCEPT !.groups = InsertGroup(@, task[p].call.group)])

WriteClear(p) ==
    /\ task[p].call.op = "clear"
    /\ Store(p, DeleteCleared(tables, task[p].call.what, task[p].seen))

Write(p) ==
    /\ At(p, "write")
    /\ \/ WriteAppend(p)
       \/ WriteMerged(p)
       \/ WriteImport(p)
       \/ WriteExclusive(p)
       \/ WriteClear(p)
    /\ UNCHANGED <<backend, mem, file, status, calls>>

Done ==
    /\ backend \in Backends /\ calls = MaxCalls[backend]
    /\ \A p \in Procs : task[p].stage = "idle"
    /\ UNCHANGED vars

Next ==
    \/ MemoryCall
    \/ JsonCall \/ JsonRestart
    \/ \E p \in Procs :
        Begin(p) \/ Check(p) \/ Read(p) \/ ReadRelations(p) \/ ReadRest(p) \/ Write(p)
    \/ Done

Spec == Init /\ [][Next]_vars

(***************************************************************************)
(* nesy.export_relations: f is the filter; groups and metadata are         *)
(* include_exclusive_groups and include_metadata.                          *)
(***************************************************************************)
\* Seeded fault: the filter is not applied to the groups.
ExportedEveryGroup(g, f, groups) == IF groups THEN g.groups ELSE <<>>

ExportedGroups(g, f, groups) ==
    IF groups THEN Among(g.groups, {x \in ToSet(g.groups) : GroupMatchesFilter(x, f)}) ELSE <<>>

Export(g, f, groups, metadata) ==
    LET plain(x) == [x EXCEPT !.dom = None]
        dump(s) == IF metadata THEN s ELSE [i \in DOMAIN s |-> plain(s[i])]
        rels == Among(g.rels, {r \in ToSet(g.rels) : MatchesFilter(r, f)})
        chosen == ExportedGroups(g, f, groups)
        inds == Among(g.inds, {i \in ToSet(g.inds) : IndependenceMatchesFilter(i, f)})
        ctxs == {x.ctx : x \in ToSet(rels) \cup ToSet(chosen) \cup ToSet(inds)}
    IN  [rels |-> dump(rels), groups |-> dump(chosen), inds |-> dump(inds), props |-> g.props,
         meta |-> IF metadata THEN [c \in ctxs \cap DOMAIN g.meta |-> g.meta[c]] ELSE <<>>]

(***************************************************************************)
(* Properties                                                              *)
(***************************************************************************)
Nothing == [src |-> None, tgt |-> None, type |-> None, ctx |-> None, store |-> None,
            dom |-> None]

\* Type invariant.
TypeOK ==
    /\ backend \in Backends
    /\ IsGraph(mem) /\ IsGraph(file) /\ IsGraph(Listed(tables))
    /\ \A p \in Procs :
        /\ task[p].stage \in {"idle", "check", "read", "relations", "rest", "write"}
        /\ task[p].stage # "idle" => IsCall(task[p].call)
        /\ task[p].stage \in {"relations", "rest", "write"} => IsGraph(task[p].seen)
    /\ calls \in 0..MaxCalls[backend]

\* Whatever imports race, no alias ever names two propositions: the rewrite of
\* a merged registry replaces the rows another process wrote meanwhile.
NoAliasConflict ==
    \A props \in {mem.props, file.props, Listed(tables).props} : ~AliasConflict(props)

Declared(b) ==
    {c.group : c \in {x \in Menu[b] : x.op = "exclusive"}} \cup
    UNION {ToSet(ForStore(c.data.groups, c.store)) : c \in {x \in Menu[b] : x.op = "load"}}

\* An exclusive group stored as a row per member is always read back as one
\* that was declared: declaring it again, a rewrite of the whole store and a
\* clear never leave some of its members.
GroupsAreWhole == ToSet(Listed(tables).groups) \subseteq Declared(backend)

\* What a call that read g means to remove from the relations.
MeansToRemove(c, g, r) ==
    \/ c.op = "clear" /\ InScope(r, c.what, MatchesFilter)
    \/ /\ c.op = "assert" /\ c.mode = "replace_same_pair"
       /\ PairKey(r) \in {PairKey(x) : x \in ToSet(AssertedRecords(g, c))}
    \/ c.op = "load" /\ c.mode = "replace_store" /\ c.store = r.store

\* A relation leaves the SQLite tables only by a call that means to remove it,
\* or because a process writes from what it read before the relation was
\* inserted or took its present form.
RemovalExplained ==
    [][\A r \in tables.rels : r.id \in {x.id : x \in tables'.rels}
        \/ \E p \in Procs :
            /\ task[p].stage = "write" /\ task'[p].stage = "idle"
            /\ \/ MeansToRemove(task[p].call, task[p].seen, r)
               \/ /\ task[p].call.op \in {"assert", "load", "clear"}
                  /\ r \notin ToSet(task[p].seen.rels)]_vars

\* With on_contradiction = reject, a write that is acknowledged leaves a graph
\* without hard contradictions; in SQLite, unless the tables read since the
\* check or written to are not those of the check, and with the relations in
\* the order of the check, which is the order of their creation.
RejectHolds ==
    [][/\ backend # "sqlite" /\ calls' # calls /\ mem' # mem =>
            \E c \in Menu[backend] :
                /\ mem' = Applied(mem, c)
                /\ c.op = "assert" /\ c.reject => GraphContradictions(mem', mem'.rels) = {}
       /\ \A p \in Procs :
            /\ task[p].stage = "write" /\ task'[p].stage = "idle" /\ task'[p].status = "ok"
            /\ task[p].call.op = "assert" /\ task[p].call.reject
            /\ task[p].checked = Listed(tables) /\ task[p].seen = task[p].checked
            /\ task[p].kept = task[p].checked.props
            => \E s \in SetToSeqs(tables'.rels) :
                    GraphContradictions(Listed(tables'), s) = {}]_vars

\* A call to the json backend that is acknowledged is in the file; one that is
\* refused changed nothing; and whatever is not in the file goes with a
\* restart only if no call acknowledged it.
JsonAcknowledgedIsDurable ==
    [][backend = "json" /\ calls' # calls =>
        /\ status' \in {"ok", "read"} => file' = mem' \/ mem' = mem
        /\ status' = "error" => mem' = mem]_vars

(***************************************************************************)
(* The answers of the reasoning tools about the graph in memory            *)
(***************************************************************************)
CONSTANT Views      \* the context filters that are asked under

ASSUME ViewsAssumption ==
    Views \subseteq [store : NameOrNone, ctx : NameOrNone, dom : NameOrNone,
                     asm : SUBSET STRING, at : Nat]

Best == [HardChecks EXCEPT !.strategy = "best_confidence"]
Names == UNION {{Source(r), Target(r)} : r \in ToSet(mem.rels)}

Visible(r, cf) ==
    /\ \A k \in {"store", "ctx", "dom"} : cf[k] # None => r[k] = cf[k]
    /\ \A a \in cf.asm : a \in r.asm
    /\ cf.at # 0 => cf.at \in r.from .. r.to
Seen(cf) == Among(mem.rels, {r \in ToSet(mem.rels) : Visible(r, cf)})

\* The tools follow a chain of implications as far as max_depth.  An answer
\* they find is right in any graph; an answer they miss is missing in a graph
\* that is no deeper than that only.
NoDeeper == Cardinality(Names) <= Best.depth + 1
Finds(answer, truth) == (answer => truth) /\ (NoDeeper /\ truth => answer)

\* Classification is entailment: the source is found to imply the target, or
\* the target the source, exactly when it does in every world the visible
\* relations allow; a proof of non-necessity is never given of a necessary
\* condition; and an explicit chain that is verified is sound.
ClassifyMeansEntailment ==
    \A cf \in Views : \A s, t \in Names :
        LET call == [s |-> s, t |-> t, cf |-> cf, q |-> Best]
            answer == Classify(mem, call)
            forward == Entails(Seen(cf), Names, s, t)
            reverse == Entails(Seen(cf), Names, t, s)
            chain(c, e, by) == VerifyChain(mem, [s |-> s, t |-> t, cf |-> cf, chain |-> c,
                                    expected |-> e, q |-> [Best EXCEPT !.strategy = by]])
        IN  /\ Finds(answer.forward, forward)
            /\ Finds(answer.reverse, reverse)
            /\ Finds(answer.necessity = "proven_necessary", reverse)
            /\ Finds(chain(<<>>, "sufficient", "all").valid, forward)
            /\ Finds(chain(<<>>, "equivalent", "shortest").valid, forward /\ reverse)
            /\ \A m \in Names :
                chain(<<s, m, t>>, "any", "shortest").reachable => forward

\* Counterfactuals are sound: what is called necessarily blocked is false in
\* every world without the assumption, under a declared causal completeness in
\* every complete one; what is possible is true in some; and what is unknown
\* is neither implied nor needed.
CounterfactualSound ==
    \A cf \in Views : \A n \in Names : \A world \in {"open", "closed"} :
        LET answer == Counterfactual(mem, [s |-> n, cf |-> cf, q |-> Best, targets |-> {},
                                           world |-> world])
            worlds == Worlds(Seen(cf), Names)
            complete == IF world = "closed" /\ CompletenessDeclared(mem, cf)
                        THEN CompleteWorlds(Seen(cf), Names) ELSE worlds
        IN  \A t \in DOMAIN answer :
                CASE answer[t] = "necessarily_blocked" ->
                        ~\E W \in complete : t \in W /\ n \notin W
                  [] answer[t] \in {"possibly_blocked", "still_possible"} ->
                        /\ NoDeeper => \E W \in worlds : t \in W /\ n \notin W
                        /\ ~\E W \in worlds : t \notin W /\ n \in W
                  [] answer[t] = "unknown" ->
                        NoDeeper =>
                            /\ \E W \in worlds : t \in W /\ n \notin W
                            /\ \E W \in worlds : t \notin W /\ n \in W

Within(store, ctx, at) ==
    Among(mem.rels, {r \in ToSet(mem.rels) : /\ r.store = store /\ ctx \in {None, r.ctx}
                                             /\ at # 0 => ValidAt(r, at)})

\* A reported hard contradiction is one: within one store and, unless the
\* group is global, one context, there is an instant at which the relations
\* then valid make the source imply all the targets.
ContradictionsReal ==
    LET found == FindContradictions(mem.rels, mem.groups, mem.props, NoFilter, TRUE, HardChecks)
        instants == ({r.from : r \in ToSet(mem.rels)} \ {Always}) \cup {1}
    IN  \A x \in found : x.severity = "hard" =>
            \E at \in instants : \A t \in x.targets :
                Entails(Within(x.store, x.ctx, at), Names, x.source, t)

\* When the relations are not limited in time, every source that implies two
\* members of a group is reported.
ContradictionsFound ==
    LET found == FindContradictions(mem.rels, mem.groups, mem.props, NoFilter, TRUE, HardChecks)
    IN  NoDeeper /\ (\A r \in ToSet(mem.rels) : r.from = Always /\ r.to = Forever) =>
            \A g \in ToSet(mem.groups) : \A s \in Names :
                LET scoped == Within(g.store, IF g.glob THEN None ELSE g.ctx, 0)
                    implied == {m \in g.members : Entails(scoped, Names \cup g.members, s, m)}
                IN  Cardinality(implied) >= 2 /\ s \in Nodes(Edges(scoped)) =>
                        \E x \in found : /\ x.severity = "hard" /\ x.source = s
                                         /\ implied \subseteq x.targets

ContradictionsExact == ContradictionsReal /\ ContradictionsFound

\* Loading an export of a store into an empty store gives the store back, but
\* for the identities that propositions registered since would give.
ExportRoundTrips ==
    \A store \in {r.store : r \in ToSet(mem.rels)} :
        LET out == Export(mem, [Nothing EXCEPT !.store = store], TRUE, TRUE)
            back == AfterImport(EmptyGraph, out, "replace_store", store)
            mine(s) == Among(s, {x \in ToSet(s) : x.store = store})
        IN  /\ back.rels = WithIdentities(mine(mem.rels), mem.props)
            /\ back.groups = mine(mem.groups)
            /\ back.inds = mine(mem.inds)
            /\ back.props = mem.props
            /\ \A c \in {r.ctx : r \in ToSet(back.rels)} :
                c \in DOMAIN mem.meta => back.meta[c] = mem.meta[c]
=============================================================================
