----------------------------- MODULE Statements -----------------------------
(***************************************************************************)
(* Statements from the text of one message to the plan that answers them:  *)
(* the lock and path the first keyword picks (galaxdb-server run_engine),  *)
(* the four dispatchers of galaxdb-embedded (exclusive, read-only, shared  *)
(* DML, in a transaction), the routing of a SELECT between the native      *)
(* plans and the analytical engine (classify.rs), AT VERSION, and the      *)
(* authorization chokepoint (executor.rs, authz.rs).                       *)
(*                                                                         *)
(* A statement is its kind and the set of its clauses; every statement is  *)
(* about BaseTable, and a join, a set operation or a subquery brings in    *)
(* OtherTable.  What a plan returns is the set of clauses it applied.      *)
(***************************************************************************)
EXTENDS Naturals, Sequences, FiniteSets, FiniteSetsExt

CONSTANTS
  BaseTable, OtherTable,
  Grantable,      \* the <<table, privilege>> pairs GRANT and REVOKE name
  MaxClauses,     \* clauses of a SELECT sent alone
  MaxBatchClauses \* clauses of a SELECT in a message of two statements

ASSUME StatementConstants ==
  /\ BaseTable # OtherTable /\ MaxClauses \in Nat /\ MaxBatchClauses \in Nat
  /\ Grantable \subseteq ({BaseTable, OtherTable} \X {"select", "insert", "update", "delete"})

VARIABLES
  tables,     \* the catalog: the tables that exist
  rights,     \* the grants of the session's role
  principal,  \* "trusted" (no session), "super" or "role"
  inBlock,    \* inside an explicit transaction
  reply       \* the last message and what came of its statements

stmtVars == <<tables, rights, principal, inBlock, reply>>

Sources == {"fromless", "join", "derived", "union"}
Folding == {"distinct", "group", "aggregate"}
Sorting == {"order", "orderExpr"}
Paging == {"limit", "limitExpr", "offset"}
SelectClauses == Sources \cup Folding \cup Sorting \cup Paging
                   \cup {"where", "subquery", "semantic", "unique", "columns", "computed",
                         "version", "fresh"}

WellFormed(c) ==
  /\ Cardinality(c \cap Sources) <= 1
  /\ ~({"limit", "limitExpr"} \subseteq c)
  /\ "fresh" \in c => "version" \in c

SelectsUpTo(n) ==
  {[kind |-> "select", clauses |-> c] :
     c \in {d \in UNION {kSubset(i, SelectClauses) : i \in 0..n} : WellFormed(d)}}

Plain(kinds) == {[kind |-> k, clauses |-> {}] : k \in kinds}
Dml == Plain({"insert", "update", "delete"})
         \cup {[kind |-> "insert", clauses |-> {"query"}]}
         \cup {[kind |-> k, clauses |-> c] : k \in {"update", "delete"},
                                             c \in {{"where"}, {"subquery"}}}
TableDdl == Plain({"create_table", "drop_table"})
\* Each of these is a message of its own: the parser takes the whole text for it.
Extensions == Plain({"alter_table_set_storage", "analyze", "create_index", "drop_index",
                     "create_semantic_cache", "create_version_tag", "backup", "create_role",
                     "bulk_insert", "semantic_match", "health", "health_all"})
                \cup {[kind |-> k, clauses |-> {}, grant |-> g] :
                        k \in {"grant", "revoke"}, g \in Grantable}

Messages ==
  {<<s>> : s \in SelectsUpTo(MaxClauses) \cup Dml \cup TableDdl \cup Extensions}
    \cup {<<s, r>> : s \in Dml \cup TableDdl \cup SelectsUpTo(0),
                     r \in Dml \cup TableDdl \cup SelectsUpTo(MaxBatchClauses)}

Idle == [message |-> <<>>, path |-> "none", acks |-> <<>>]

StmtInit ==
  /\ tables \in SUBSET {BaseTable, OtherTable}
  /\ rights = {}
  /\ principal \in {"trusted", "super", "role"}
  /\ inBlock = FALSE
  /\ reply = Idle

---------------------------------------------------------------------------
(* The shape of a query. *)
Has(q, some) == q.clauses \cap some # {}

HasOrderBy(q) == Has(q, Sorting)

BodyIsNativeSingleTable(q) == ~Has(q, Sources \cup Folding)

Analytical(q) == HasOrderBy(q) \/ Has(q, Paging) \/ ~BodyIsNativeSingleTable(q)

IsAnalyticalBeyondPagination(q) == HasOrderBy(q) \/ ~BodyIsNativeSingleTable(q)

\* A mutant: a sort by an expression counts as no sort key at all.
SimpleSortLimitLoose(q) ==
  /\ HasOrderBy(q) \/ Has(q, Paging)
  /\ BodyIsNativeSingleTable(q)
  /\ ~Has(q, {"limitExpr"})

SimpleSortLimit(q) ==
  /\ HasOrderBy(q) \/ Has(q, Paging)
  /\ BodyIsNativeSingleTable(q)
  /\ ~Has(q, {"orderExpr", "limitExpr"})

IsFromLessSelect(q) == "fromless" \in q.clauses

SemanticMatch(q) == "semantic" \in q.clauses /\ "union" \notin q.clauses

QueryHasNotDuplicate(q) == "unique" \in q.clauses /\ "union" \notin q.clauses

UnsupportedSelect(q) == Has(q, {"union", "join"} \cup Folding)

\* The relation's text: a derived table's is no table's name.
ExtractTable(q) == CASE Has(q, {"fromless", "union"}) -> "unknown"
                     [] "derived" \in q.clauses -> "subquery"
                     [] OTHER -> BaseTable

\* A mutant: only the left-most relation.
CollectFirstTable(q) == IF "fromless" \in q.clauses THEN {} ELSE {BaseTable}

\* FROM, joins, derived tables and set operations; not the WHERE clause.
CollectTableNames(q) ==
  (IF "fromless" \in q.clauses THEN {} ELSE {BaseTable})
    \cup (IF Has(q, {"join", "union"}) THEN {OtherTable} ELSE {})

---------------------------------------------------------------------------
(* Authorization and execution of one plan. *)
PlanAuthzTarget(plan, name) ==
  CASE plan \in {"full_scan", "full_scan_at_version", "semantic_search", "hybrid_search",
                 "hybrid_search_at_version", "show_embedding_health"} -> <<name, "select">>
    [] plan \in {"insert", "bulk_insert"} -> <<name, "insert">>
    [] plan \in {"update", "delete"} -> <<name, plan>>
    [] plan \in {"create_table", "drop_table", "alter_table_set_storage", "analyze",
                 "create_index", "create_semantic_cache"} -> <<name, "ddl">>
    [] plan \in {"create_version_tag", "drop_index"} -> <<"cluster", "ddl">>
    [] OTHER -> <<"cluster", "admin">>

\* The grants are looked up when the check runs.
HasGrant(target, world) == target \in world.rights

GrantCheck(target, world) ==
  \/ principal = "super"
  \/ target[2] \notin {"ddl", "admin"} /\ target[1] # "cluster" /\ HasGrant(target, world)

EnforceAuthorization(target, world) == principal = "trusted" \/ GrantCheck(target, world)

\* The audit sink hears of every denial here and of the DDL and admin actions.
AuditAuthz(target, world) ==
  principal # "trusted" /\ (~GrantCheck(target, world) \/ target[2] \in {"ddl", "admin"})

Metered(plan) ==
  CASE plan \in {"full_scan", "full_scan_at_version"} -> "read"
    [] plan \in {"semantic_search", "hybrid_search", "hybrid_search_at_version"} -> "vector"
    [] plan \in {"insert", "update", "delete", "bulk_insert"} -> "write"
    [] OTHER -> "none"

Ack(s, outcome, applied, touched, world) ==
  [stmt |-> s, outcome |-> outcome, applied |-> applied, touched |-> touched,
   audited |-> FALSE, metered |-> "none", world |-> world]

Refused(s, world) == Ack(s, "refused", {}, {}, world)

NeedsTable(plan) ==
  plan \notin {"create_table", "create_version_tag", "drop_index", "backup", "create_role",
               "grant", "revoke"}

After(s, plan, name, world) ==
  CASE plan = "create_table" -> [world EXCEPT !.tables = @ \cup {name}]
    [] plan = "drop_table" -> [world EXCEPT !.tables = @ \ {name}]
    [] plan = "grant" -> [world EXCEPT !.rights = @ \cup {s.grant}]
    [] plan = "revoke" -> [world EXCEPT !.rights = @ \ {s.grant}]
    [] OTHER -> world

ExecuteWithContext(s, plan, name, applied, world) ==
  LET target == PlanAuthzTarget(plan, name)
      result == CASE ~EnforceAuthorization(target, world) -> Ack(s, "denied", {}, {}, world)
                  [] NeedsTable(plan) /\ name \notin world.tables \cup {"cluster"} ->
                       Ack(s, "missing", {}, {}, world)
                  [] plan = "create_table" /\ name \in world.tables ->
                       Ack(s, "exists", {}, {}, world)
                  [] OTHER -> [Ack(s, "done", applied \cap s.clauses, {target},
                                   After(s, plan, name, world))
                               EXCEPT !.metered = Metered(plan)]
  IN [result EXCEPT !.audited = AuditAuthz(target, world)]

---------------------------------------------------------------------------
(* The ways a SELECT is answered. *)
\* A projection item that is no column gives the whole row.
Projected(q) == IF Has(q, {"computed", "aggregate"}) THEN {} ELSE {"columns"}

\* A form filter_from_expr does not know takes the whole filter with it.
Filtered(q) == IF "subquery" \in q.clauses THEN {} ELSE {"where", "unique"}

FullScan(q, extra, world) ==
  ExecuteWithContext(q, "full_scan", ExtractTable(q), Projected(q) \cup Filtered(q) \cup extra,
                     world)

EvalScalarSelect(q, world) ==
  IF Has(q, {"where", "subquery", "semantic", "unique", "columns", "aggregate"})
       \/ "computed" \notin q.clauses
  THEN Refused(q, world)
  ELSE Ack(q, "done", {"fromless", "computed"}, {}, world)

\* External: the analytical engine applies every clause it is given, and
\* fails on a table that is not registered and on the two SQL extensions.
RunAnalyticalSql(q, given) == given \cap {"subquery", "semantic", "unique"} = {}

\* Not through the executor: nothing is audited or metered.
AuthorizeSelect(names, world) ==
  \A t \in names : EnforceAuthorization(<<t, "select">>, world)

AnalyticalQueryAt(q, given, world) ==
  LET names == CollectTableNames(q) IN
  CASE names = {} -> Refused(q, world)
    [] ~AuthorizeSelect(names, world) -> Ack(q, "denied", {}, {}, world)
    [] ~(names \subseteq world.tables) -> Ack(q, "missing", {}, {}, world)
    [] ~RunAnalyticalSql(q, given) -> Refused(q, world)
    [] OTHER ->
         Ack(q, "done", q.clauses,
             {<<t, "select">> : t \in {BaseTable}
                                  \cup (IF Has(q, {"join", "union"}) THEN {OtherTable} ELSE {})},
             world)

\* The matched rows stand for the base table and the predicate is stripped.
AnalyticalSemanticQuery(q, world) ==
  IF /\ AuthorizeSelect(CollectTableNames(q), world)
     /\ CollectTableNames(q) # {}
     /\ ExtractTable(q) \notin world.tables
  THEN Ack(q, "missing", {}, {}, world)
  ELSE AnalyticalQueryAt(q, q.clauses \ {"semantic"}, world)

\* The nearest rows, as many as LIMIT says, in full.
ExecSemanticSearch(q, name, world) ==
  ExecuteWithContext(q, "semantic_search", name, {"semantic", "limit"}, world)

\* The search takes no notice of the filter it carries.
ExecHybridSearch(q, world) ==
  ExecuteWithContext(q, "hybrid_search", ExtractTable(q), {"semantic", "limit"}, world)

PlanSemanticSearch(q, world) ==
  IF Has(q, {"where", "unique"}) /\ Filtered(q) # {} THEN ExecHybridSearch(q, world)
  ELSE ExecSemanticSearch(q, ExtractTable(q), world)

ExecSelect(q, world) ==
  CASE IsFromLessSelect(q) -> EvalScalarSelect(q, world)
    [] SemanticMatch(q) -> IF IsAnalyticalBeyondPagination(q)
                           THEN AnalyticalSemanticQuery(q, world)
                           ELSE PlanSemanticSearch(q, world)
    [] ~QueryHasNotDuplicate(q) /\ Analytical(q) -> AnalyticalQueryAt(q, q.clauses, world)
    [] OTHER -> FullScan(q, {}, world)

\* The same routes; the scan's table is looked up before the role is.
SelectReadonly(q, world) ==
  IF /\ ~IsFromLessSelect(q) /\ ~SemanticMatch(q)
     /\ QueryHasNotDuplicate(q) \/ ~Analytical(q)
     /\ ExtractTable(q) \notin world.tables \cup {"unknown"}
  THEN Ack(q, "missing", {}, {}, world)
  ELSE ExecSelect(q, world)

\* Without a CONSISTENCY that allows the current vectors it is refused.
ExecHybridSearchAtVersion(q, world) ==
  LET found == ExecuteWithContext(q, "hybrid_search_at_version", ExtractTable(q),
                                  {"semantic", "version", "fresh"}, world) IN
  IF found.outcome = "done" /\ "fresh" \notin q.clauses
  THEN [found EXCEPT !.outcome = "refused", !.applied = {}, !.touched = {}]
  ELSE found

\* `at` is the AT VERSION cut off the end of the text s starts.
ExecSelectAtVersion(s, at, world) ==
  LET sel == [s EXCEPT !.clauses = @ \cup at] IN
  CASE s.kind # "select" -> Refused(s, world)
    [] ~SemanticMatch(sel) /\ Analytical(sel) -> AnalyticalQueryAt(sel, sel.clauses, world)
    [] UnsupportedSelect(sel) -> Refused(sel, world)
    [] SemanticMatch(sel) -> ExecHybridSearchAtVersion(sel, world)
    [] OTHER -> ExecuteWithContext(sel, "full_scan_at_version", ExtractTable(sel),
                                   Projected(sel) \cup Filtered(sel) \cup {"version", "fresh"},
                                   world)

\* The same, but the table is looked up before the role is.
SelectAtVersionReadonly(s, at, world) ==
  LET sel == [s EXCEPT !.clauses = @ \cup at] IN
  IF /\ s.kind = "select"
     /\ SemanticMatch(sel) \/ ~Analytical(sel)
     /\ ~UnsupportedSelect(sel)
     /\ ExtractTable(sel) \notin world.tables \cup {"unknown"}
  THEN Ack(sel, "missing", {}, {}, world)
  ELSE ExecSelectAtVersion(s, at, world)

---------------------------------------------------------------------------
(* The dispatchers, one statement at a time. *)
\* INSERT ... SELECT is acknowledged and stores nothing.
ExecInsert(s, world) ==
  IF "query" \in s.clauses THEN Ack(s, "done", {}, {}, world)
  ELSE ExecuteWithContext(s, "insert", BaseTable, {}, world)

ExecUpdateOrDelete(s, world) ==
  ExecuteWithContext(s, s.kind, BaseTable, Filtered(s), world)

ExecDml(s, world) ==
  IF s.kind = "insert" THEN ExecInsert(s, world) ELSE ExecUpdateOrDelete(s, world)

\* The index of the column names the table, which may be dropped by now.
ExecSemanticMatchStandalone(s, world) == ExecSemanticSearch(s, BaseTable, world)

\* One table, or the whole database.
ExecShowEmbeddingHealth(s, world) ==
  ExecuteWithContext(s, "show_embedding_health",
                     IF s.kind = "health_all" THEN "cluster" ELSE BaseTable, {}, world)

ExecStmt(s, world) ==
  CASE s.kind = "select" -> ExecSelect(s, world)
    [] s.kind = "insert" /\ BaseTable \notin world.tables -> Ack(s, "missing", {}, {}, world)
    [] s.kind \in {"insert", "update", "delete"} -> ExecDml(s, world)
    [] s.kind = "semantic_match" -> ExecSemanticMatchStandalone(s, world)
    [] s.kind \in {"health", "health_all"} -> ExecShowEmbeddingHealth(s, world)
    [] OTHER -> ExecuteWithContext(s, s.kind, BaseTable, {}, world)

DispatchReadonlyStmt(s, world) ==
  CASE s.kind = "select" -> SelectReadonly(s, world)
    [] s.kind \in {"health", "health_all"} -> ExecShowEmbeddingHealth(s, world)
    [] OTHER -> Refused(s, world)

\* execute_dml_concurrent: a SELECT after the first keyword is a plain scan.
ExecDmlConcurrent(s, world) ==
  IF s.kind = "select" THEN FullScan(s, {}, world) ELSE ExecDml(s, world)

\* Its twin for prepared statements knows only the bulk insert besides.
ExecuteBoundDmlConcurrent(s, world) ==
  CASE s.kind \in {"insert", "update", "delete"} -> ExecDml(s, world)
    [] s.kind = "bulk_insert" -> ExecuteWithContext(s, s.kind, BaseTable, {}, world)
    [] OTHER -> Refused(s, world)

ExecTxnSortedScan(q, world) == FullScan(q, {"order", "limit", "offset"}, world)

ExecStmtInTxn(s, world) ==
  CASE s.kind \in {"insert", "update", "delete"} ->
         IF "query" \in s.clauses THEN Refused(s, world) ELSE ExecDml(s, world)
    [] s.kind # "select" \/ SemanticMatch(s) -> Refused(s, world)
    [] SimpleSortLimit(s) -> ExecTxnSortedScan(s, world)
    [] Analytical(s) -> Refused(s, world)
    [] OTHER -> FullScan(s, {}, world)

\* Statement by statement; the first error ends the message.
RunEach(Exec(_, _), m, world) ==
  LET first == Exec(m[1], world) IN
  IF Len(m) = 1 \/ first.outcome # "done" THEN <<first>>
  ELSE <<first, Exec(m[2], first.world)>>

\* split_at_version cuts the whole text: what follows AT VERSION must be its
\* argument, and of what precedes it only the first statement is run.
SplitAtVersion(m) == m[Len(m)].clauses \cap {"version", "fresh"}

AtVersionIn(m) == \E i \in 1..Len(m) : "version" \in m[i].clauses

ExecuteText(m, world) ==
  CASE ~AtVersionIn(m) -> RunEach(ExecStmt, m, world)
    [] SplitAtVersion(m) = {} -> <<Refused(m[1], world)>>
    [] OTHER -> <<ExecSelectAtVersion(m[1], SplitAtVersion(m), world)>>

ExecuteReadonly(m, world) ==
  CASE ~AtVersionIn(m) -> RunEach(DispatchReadonlyStmt, m, world)
    [] SplitAtVersion(m) = {} -> <<Refused(m[1], world)>>
    [] OTHER -> <<SelectAtVersionReadonly(m[1], SplitAtVersion(m), world)>>

\* A template is a text the parser takes as it stands; its first statement
\* tells whether it reads.
RunBoundExecute(m, world) ==
  CASE AtVersionIn(m) -> <<Refused(m[1], world)>>
    [] m[1].kind = "select" -> RunEach(DispatchReadonlyStmt, m, world)
    [] OTHER -> RunEach(ExecuteBoundDmlConcurrent, m, world)

\* The first keyword decides for the whole text.
RunEngine(m) ==
  CASE m[1].kind \in {"select", "health", "health_all"} -> "readonly"
    [] m[1].kind \in {"insert", "update", "delete"} -> "concurrent"
    [] OTHER -> "exclusive"

Outcome(m, path, world) ==
  CASE path = "txn" -> IF AtVersionIn(m) THEN <<Refused(m[1], world)>>
                       ELSE RunEach(ExecStmtInTxn, m, world)
    [] path = "readonly" -> ExecuteReadonly(m, world)
    [] path = "exclusive" -> ExecuteText(m, world)
    [] path = "bound" -> RunBoundExecute(m, world)
    [] path = "concurrent" ->
         IF AtVersionIn(m) \/ \E i \in 1..Len(m) : m[i] \in TableDdl \cup Extensions
         THEN <<Refused(m[1], world)>>
         ELSE RunEach(ExecDmlConcurrent, m, world)

RunMessage(m, path) ==
  LET acks == Outcome(m, path, [tables |-> tables, rights |-> rights])
      last == acks[Len(acks)].world IN
  /\ reply' = [message |-> m, path |-> path, acks |-> acks]
  /\ tables' = last.tables
  /\ rights' = last.rights
  /\ UNCHANGED <<principal, inBlock>>

\* An embedded caller picks execute or execute_readonly; the server lets the
\* text decide, or runs a prepared statement.
Receive ==
  /\ reply = Idle
  /\ \E m \in Messages :
       \E path \in CASE inBlock -> {"txn"}
                     [] principal = "trusted" -> {"exclusive", "readonly"}
                     [] OTHER -> {RunEngine(m), "bound"} : RunMessage(m, path)

Answered == reply # Idle /\ reply' = Idle /\ UNCHANGED <<tables, rights, principal, inBlock>>

\* BEGIN, and COMMIT or ROLLBACK.
Block == reply = Idle /\ inBlock' = ~inBlock /\ UNCHANGED <<tables, rights, principal, reply>>

\* Another session: a superuser's GRANT or REVOKE, CREATE or DROP TABLE.
OtherSession ==
  /\ reply = Idle
  /\ \/ \E g \in Grantable : rights' = (rights \ {g}) \cup ({g} \ rights) /\ UNCHANGED tables
     \/ \E t \in {BaseTable, OtherTable} :
          tables' = (tables \ {t}) \cup ({t} \ tables) /\ UNCHANGED rights
  /\ UNCHANGED <<principal, inBlock, reply>>

StmtNext == Receive \/ Answered \/ Block \/ OtherSession

StmtSpec == StmtInit /\ [][StmtNext]_stmtVars

---------------------------------------------------------------------------
(* What the routes are known to leave out: a form the filter or the        *)
(* projection does not know, NOT DUPLICATE with clauses of the analytical  *)
(* engine, SEMANTIC_MATCH with more than a LIMIT, a sorted or cut SELECT   *)
(* without FROM, INSERT ... SELECT, and a SELECT in a text that starts     *)
(* with a DML statement.                                                   *)
Loose(s, path) ==
  \/ Has(s, {"subquery", "computed", "semantic", "fromless", "query"})
  \/ QueryHasNotDuplicate(s) /\ Analytical(s)
  \/ path = "concurrent" /\ Analytical(s)

(* A statement is answered with every clause it has, or not at all: on no  *)
(* path and in no position of a message is an ORDER BY, a LIMIT, a join,   *)
(* an aggregate, a set operation or an AT VERSION silently left out, save  *)
(* in the statements of Loose ("never a silent wrong result", classify.rs, *)
(* select_readonly, exec_stmt_in_txn, exec_select_at_version).             *)
AnsweredInFullUnlessLoose ==
  \A i \in DOMAIN reply.acks :
    LET a == reply.acks[i] IN
    (a.outcome = "done" /\ ~Loose(a.stmt, reply.path)) => a.stmt.clauses \subseteq a.applied

(* Whatever the path, a role's statement touches a table only with the     *)
(* privilege granted at that moment, also after a REVOKE of another        *)
(* session, on every table of a join or a set operation, and never changes *)
(* the schema or the grants (enforce_authorization, authorize_select).     *)
TouchesWhatItMay ==
  principal = "role" =>
    \A i \in DOMAIN reply.acks :
      reply.acks[i].outcome = "done" =>
        reply.acks[i].touched \subseteq reply.acks[i].world.rights
=============================================================================
