------------------------------ MODULE MCServer ------------------------------
(* The wire server for TLC: connections up to their session, one session's *)
(* query loop, the routes of its statements and their WHERE clauses, and   *)
(* the schema catalog.  They share no state: each behaviour runs the one   *)
(* that `part` names.                                                      *)
EXTENDS WireServer, WireSession, SqlFilters, Statements, SchemaCatalog, TLC

VARIABLE part

serverVars == <<part, wsVars, sessVars, where, stmtVars, schemaVars>>

NoClause == [e |-> [op |-> "semantic"], row |-> NullV, sem |-> TRUE]

SomeGrants == {<<BaseTable, "select">>, <<OtherTable, "select">>, <<BaseTable, "insert">>}

ServerInit ==
    /\ part \in {"connect", "session", "where", "statement", "schema"}
    /\ WsInit /\ SessInit /\ StmtInit /\ SchemaInit
    /\ part # "connect" => /\ tlsMode = "disable" /\ ~authEnabled
                           /\ \A c, d \in Conns : knows[c] = knows[d]
    /\ part # "statement" => tables = {} /\ principal = "trusted"
    /\ part # "schema" => record = [t \in SchemaTables |-> "none"]
    /\ IF part = "where" THEN SfInit ELSE where = NoClause

ServerNext ==
    /\ UNCHANGED <<part, where>>
    /\ \/ part = "connect" /\ WsNext /\ UNCHANGED <<sessVars, stmtVars, schemaVars>>
       \/ part = "session" /\ SessNext /\ UNCHANGED <<wsVars, stmtVars, schemaVars>>
       \/ part = "statement" /\ StmtNext /\ UNCHANGED <<wsVars, sessVars, schemaVars>>
       \/ part = "schema" /\ SchemaNext /\ UNCHANGED <<wsVars, sessVars, stmtVars>>

ServerSpec == ServerInit /\ [][ServerNext]_serverVars

ServerSymmetry == Permutations(Conns) \cup Permutations(Passwords)

=============================================================================
