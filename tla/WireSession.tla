---------------------------- MODULE WireSession ----------------------------
(***************************************************************************)
(* One connection's query loop: serve_connection's message loop with       *)
(* run_simple_query_txn, handle_txn_control, bind_portal, run_bound_execute*)
(* and run_copy of crates/galaxdb-server/src/lib.rs, over the client's     *)
(* messages in any order (a client may pipeline them).                     *)
(*                                                                         *)
(* A statement is told apart by what the loop does with it: "read", "dml", *)
(* "control" (BEGIN, COMMIT... sent through Parse) and "copy" (COPY FROM   *)
(* STDIN).  Every execution that may write has a number of its own; db is  *)
(* the set of the numbers whose rows have reached the engine.              *)
(***************************************************************************)
EXTENDS Integers, Sequences, FiniteSets

CONSTANTS
    SessionNames,   \* names of prepared statements and of portals
    MaxRuns,        \* bound: executions that may write
    MaxSaves,       \* bound: savepoints in a block
    MaxAlters       \* bound: DDL of other sessions on the table

Texts == {"read", "dml", "control", "copy"}
NoStmt == [text |-> "none", schema |-> 0]
NoPortal == [statement |-> "none"]

VARIABLES
    prepared,       \* SessionNames -> statement and the schema it was prepared on
    portals,        \* SessionNames -> portal: the statement's name
    inTxn, txnFailed,   \* current_txn.is_some(), txn_failed
    buffer, saves,  \* the transaction's write set and its savepoints
    copying,        \* run_copy waits for CopyData: run number, or 0
    db, runs,       \* numbers in the engine; numbers used
    schema,         \* version of the table's columns in the catalog
    open,           \* the connection is open
    client,         \* history: SessionNames -> text last answered ParseComplete
    bound,          \* history: SessionNames -> text bound to the portal
    replaced,       \* history: portals whose statement was parsed again or closed
    described,      \* history: SessionNames -> shape the client was told, or 0
    mine,           \* history: numbers run in the current block
    committed, discarded, copied  \* history: what the client was told of numbers

blockVars == <<inTxn, txnFailed, buffer, saves, mine, committed, discarded>>
nameVars == <<prepared, portals, client, bound, replaced, described>>
sessVars == <<blockVars, nameVars, copying, copied, db, runs, schema, open>>

SessInit ==
    /\ prepared = [s \in SessionNames |-> NoStmt]
    /\ portals = [p \in SessionNames |-> NoPortal]
    /\ inTxn = FALSE /\ txnFailed = FALSE /\ buffer = {} /\ saves = <<>>
    /\ copying = 0 /\ db = {} /\ runs = 0 /\ schema = 1 /\ open = TRUE
    /\ client = [s \in SessionNames |-> "none"] /\ bound = client
    /\ replaced = {} /\ described = [p \in SessionNames |-> 0]
    /\ mine = {} /\ committed = {} /\ discarded = {} /\ copied = {}

\* The loop reads the next message when it is not inside run_copy.
Reading == open /\ copying = 0

-----------------------------------------------------------------------------
(* handle_txn_control *)

Begin ==
    /\ Reading /\ ~inTxn
    /\ inTxn' = TRUE /\ txnFailed' = FALSE /\ buffer' = {} /\ saves' = <<>> /\ mine' = {}
    /\ UNCHANGED <<committed, discarded, db>>

EndBlock == inTxn' = FALSE /\ buffer' = {} /\ saves' = <<>> /\ mine' = {}

\* COMMIT of a failed block is a rollback; commit_transaction may also stop
\* part-way with an error, which says nothing about the block's rows.
CommitBlock ==
    /\ Reading /\ inTxn /\ EndBlock
    /\ \/ /\ txnFailed /\ txnFailed' = FALSE
          /\ discarded' = discarded \cup mine /\ UNCHANGED <<db, committed>>
       \/ /\ ~txnFailed /\ db' = db \cup buffer /\ committed' = committed \cup buffer
          /\ UNCHANGED <<txnFailed, discarded>>
       \/ /\ ~txnFailed /\ \E some \in SUBSET buffer : db' = db \cup some
          /\ UNCHANGED <<txnFailed, discarded, committed>>

RollbackBlock ==
    /\ Reading /\ inTxn /\ EndBlock /\ txnFailed' = FALSE
    /\ discarded' = discarded \cup mine /\ UNCHANGED <<db, committed>>

Savepoint ==
    /\ Reading /\ inTxn /\ Len(saves) < MaxSaves /\ saves' = Append(saves, buffer)
    /\ UNCHANGED <<inTxn, txnFailed, buffer, mine, committed, discarded, db>>

RollbackToKeepsRows ==
    /\ Reading /\ inTxn
    /\ \E i \in DOMAIN saves :
           /\ txnFailed' = FALSE
           /\ saves' = SubSeq(saves, 1, i)
           /\ discarded' = discarded \cup (mine \ saves[i])
           /\ mine' = saves[i]
    /\ UNCHANGED <<inTxn, buffer, committed, db>>

\* ROLLBACK TO the i-th savepoint; the ones after it are gone.  (An unknown
\* name is an error that changes nothing.)
RollbackTo ==
    /\ Reading /\ inTxn
    /\ \E i \in DOMAIN saves :
           /\ buffer' = saves[i] /\ saves' = SubSeq(saves, 1, i) /\ txnFailed' = FALSE
           /\ discarded' = discarded \cup (mine \ saves[i])
           /\ mine' = saves[i]
    /\ UNCHANGED <<inTxn, committed, db>>

ReleaseSavepoint ==
    /\ Reading /\ inTxn
    /\ \E i \in DOMAIN saves : saves' = SubSeq(saves, 1, i - 1)
    /\ UNCHANGED <<inTxn, txnFailed, buffer, mine, committed, discarded, db>>

Control ==
    /\ Begin \/ CommitBlock \/ RollbackBlock \/ Savepoint \/ RollbackTo \/ ReleaseSavepoint
    /\ UNCHANGED <<nameVars, copying, copied, runs, schema, open>>

-----------------------------------------------------------------------------
(* Statements *)

Number == runs < MaxRuns /\ runs' = runs + 1

\* execute_in_txn / execute_bound_in_txn: rows go to the write set; an error
\* fails the block and may leave some of the statement's rows there.
RunInTxn(text) ==
    /\ inTxn /\ ~txnFailed
    /\ \/ /\ text = "read" /\ UNCHANGED <<runs, mine, buffer>>
          /\ txnFailed' \in BOOLEAN
       \/ /\ text = "control" /\ UNCHANGED <<runs, mine, buffer>> /\ txnFailed' = TRUE
       \/ /\ text = "dml" /\ Number /\ mine' = mine \cup {runs'}
          /\ \/ txnFailed' = FALSE /\ buffer' = buffer \cup {runs'}
             \/ txnFailed' = TRUE /\ buffer' \in {buffer, buffer \cup {runs'}}
    /\ UNCHANGED <<inTxn, saves, committed, discarded, db>>

\* Autocommit: each row is written on its own, so an error may leave rows.
RunAutocommit(text) ==
    /\ ~inTxn /\ ~txnFailed
    /\ \/ text \in {"read", "control"} /\ UNCHANGED <<runs, db, committed>>
       \/ /\ text = "dml" /\ Number
          /\ \/ db' = db \cup {runs'} /\ committed' = committed \cup {runs'}
             \/ db' \in {db, db \cup {runs'}} /\ UNCHANGED committed
    /\ UNCHANGED <<inTxn, txnFailed, buffer, saves, mine, discarded>>

\* A statement of a failed block is answered 25P02 and changes nothing.
Run(text) == RunInTxn(text) \/ RunAutocommit(text)

\* Query with an ordinary statement.
SimpleQuery ==
    /\ Reading /\ \E text \in {"read", "dml"} : Run(text)
    /\ UNCHANGED <<nameVars, copying, copied, schema, open>>

\* Query with COPY FROM STDIN is refused inside a block.
CopyStart == Number /\ copying' = runs'

SimpleCopy ==
    /\ Reading /\ ~inTxn /\ CopyStart
    /\ UNCHANGED <<blockVars, nameVars, copied, db, schema, open>>

\* CopyDone: bulk_insert_with_session, whatever the block; CopyFail; any
\* message but these, CopyData, Flush and Sync ends the connection.
CopyEnd ==
    /\ open /\ copying # 0 /\ copying' = 0
    /\ \/ /\ db' = db \cup {copying} /\ copied' = copied \cup {copying}
          /\ mine' = IF inTxn THEN mine \cup {copying} ELSE mine
          /\ UNCHANGED open
       \/ open' = open /\ UNCHANGED <<db, copied, mine>>
       \/ open' = FALSE /\ UNCHANGED <<db, copied, mine>>
    /\ UNCHANGED <<inTxn, txnFailed, buffer, saves, committed, discarded, nameVars,
                   runs, schema>>

-----------------------------------------------------------------------------
(* The extended protocol *)

\* Parse: an error leaves what the name stood for.
StoreKeepsFirst(s, stmt) ==
    prepared' = IF prepared[s] = NoStmt THEN [prepared EXCEPT ![s] = stmt] ELSE prepared

Store(s, stmt) == prepared' = [prepared EXCEPT ![s] = stmt]

Parse(s) ==
    /\ Reading
    /\ \E text \in Texts :
           /\ Store(s, [text |-> text, schema |-> schema])
           /\ client' = [client EXCEPT ![s] = text]
    /\ replaced' = replaced \cup {p \in SessionNames : portals[p].statement = s}
    /\ UNCHANGED <<blockVars, portals, bound, described, copying, copied, db, runs,
                   schema, open>>

\* Bind of a statement that exists; parameters that do not decode are an
\* error that changes nothing.
Bind(p, s) ==
    /\ Reading /\ prepared[s] # NoStmt
    /\ portals' = [portals EXCEPT ![p] = [statement |-> s]]
    /\ bound' = [bound EXCEPT ![p] = client[s]]
    /\ replaced' = replaced \ {p} /\ described' = [described EXCEPT ![p] = 0]
    /\ UNCHANGED <<blockVars, prepared, client, copying, copied, db, runs, schema, open>>

\* Describe of a portal: the columns its statement was prepared with.
PortalStatement(p) == prepared[portals[p].statement]

DescribePortal(p) ==
    /\ Reading /\ portals[p] # NoPortal /\ portals[p].statement \in SessionNames
    /\ described' = [described EXCEPT ![p] =
           IF PortalStatement(p).text = "read" THEN PortalStatement(p).schema ELSE 0]
    /\ UNCHANGED <<blockVars, prepared, portals, client, bound, replaced, copying,
                   copied, db, runs, schema, open>>

\* Execute: the portal's statement as it is now.  COPY is not stopped by the
\* block it is in.
Execute(p) ==
    /\ Reading /\ portals[p] # NoPortal
    /\ LET text == prepared[portals[p].statement].text
       IN \/ Run(text) /\ UNCHANGED <<copying, copied>>
          \/ text = "copy" /\ CopyStart /\ UNCHANGED <<blockVars, copied, db>>
    /\ UNCHANGED <<nameVars, schema, open>>

CloseStatement(s) ==
    /\ Reading /\ prepared' = [prepared EXCEPT ![s] = NoStmt]
    /\ client' = [client EXCEPT ![s] = "none"]
    /\ replaced' = replaced \cup {p \in SessionNames : portals[p].statement = s}
    /\ UNCHANGED <<blockVars, portals, bound, described, copying, copied, db, runs,
                   schema, open>>

ClosePortal(p) ==
    /\ Reading /\ portals' = [portals EXCEPT ![p] = NoPortal]
    /\ bound' = [bound EXCEPT ![p] = "none"] /\ described' = [described EXCEPT ![p] = 0]
    /\ replaced' = replaced \ {p}
    /\ UNCHANGED <<blockVars, prepared, client, copying, copied, db, runs, schema, open>>

\* Terminate or EOF.
Terminate ==
    /\ Reading /\ open' = FALSE
    /\ UNCHANGED <<blockVars, nameVars, copying, copied, db, runs, schema>>

\* Another session changes the table's columns.
Alter ==
    /\ schema <= MaxAlters /\ schema' = schema + 1
    /\ UNCHANGED <<blockVars, nameVars, copying, copied, db, runs, open>>

SessNext ==
    \/ Control \/ SimpleQuery \/ SimpleCopy \/ CopyEnd \/ Terminate \/ Alter
    \/ \E p \in SessionNames :
        \/ Parse(p) \/ DescribePortal(p) \/ Execute(p) \/ CloseStatement(p) \/ ClosePortal(p)
        \/ \E s \in SessionNames : Bind(p, s)

SessSpec == SessInit /\ [][SessNext]_sessVars

-----------------------------------------------------------------------------

\* What the client was told is committed is in the engine, and nothing of a
\* statement that failed in a block, or of a block or savepoint rolled back,
\* is, unless COPY put it there through Execute.
BlockAllOrNothingUnlessCopy == committed \subseteq db /\ discarded \cap db \subseteq copied

\* Execute runs the text the client bound to the portal and returns the
\* columns Describe announced, unless the portal's statement was parsed again
\* or closed since (a portal keeps only the name) or, for the columns, the
\* table was altered since the statement was prepared.
ExecuteRunsBoundUnlessReplaced ==
    \A p \in SessionNames \ replaced :
        portals[p] # NoPortal =>
            LET s == prepared[portals[p].statement]
            IN  /\ s.text = bound[p]
                /\ described[p] # 0 /\ s.schema = schema
                      => described[p] = schema /\ bound[p] = "read"

=============================================================================
