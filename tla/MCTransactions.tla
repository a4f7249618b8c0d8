--------------------------- MODULE MCTransactions ---------------------------
(* Small instances of Transactions; transactions and savepoint names are   *)
(* interchangeable.  One mode has two rows, an engine error, a lost        *)
(* connection, and no savepoints; the other has savepoints on one row,     *)
(* nested in one of the transactions.                                      *)
EXTENDS Transactions, TLC

VARIABLE mode

modeVars == <<txVars, mode>>

NoSavepoints == \A t \in Txns : savepoints[t] = <<>>
Nested ==
    /\ errors = 0 /\ gone = {}
    /\ \E t \in Txns : Len(savepoints[t]) <= 1
    /\ \A t \in Txns, r \in Rows \ {1} : buffer[t][r] = "none"

ModeNext ==
    /\ UNCHANGED mode /\ TxNext
    /\ IF mode = "savepoints" THEN Nested' ELSE NoSavepoints'

ModeInit ==
    /\ TxInit /\ mode \in {"isolation", "savepoints"}
    /\ mode = "savepoints" => \A t \in Txns : ~serializable[t]

ModeSpec == ModeInit /\ [][ModeNext]_modeVars

TxSymmetry == Permutations(Txns) \cup Permutations(Names)

=============================================================================
