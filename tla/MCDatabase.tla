----------------------------- MODULE MCDatabase -----------------------------
(* The database layer for TLC: autocommit DML with its index, the vector   *)
(* table, the sidecar, the embedding tracker, near-duplicate grouping, and *)
(* tags with their exports.  They share no state: each behaviour runs the  *)
(* one that `part` names.                                                  *)
EXTENDS TableDml, VectorTable, Sidecar, EmbeddingTracker, Dedup, Training, TLC

VARIABLE part

databaseVars == <<part, dmlvars, vtvars, scvars, etvars, dedupVars, trainVars>>

GivenValues == {Num(1), Num(2), Text(1), Null}

\* Texts of which the first and the last are near-duplicates of the middle one
\* only, and the pairs <<a, b>> that make them so.
NearTexts == {<<>>, <<1>>, <<1, 2, 1, 1>>, <<1, 1, 2, 1, 1>>, <<1, 2, 1, 1, 1>>}
HashCoeffs ==
    <<<<30, 1>>, <<3, 18>>, <<10, 8>>, <<6, 6>>, <<9, 0>>, <<20, 9>>, <<7, 15>>, <<18, 19>>,
      <<10, 11>>, <<15, 12>>>>

\* Two words of which one has a negative coordinate, and two names with the
\* same path.
Words == {-1, 2}
Names == {<<"x", "_">>, <<"x", " ">>}

DatabaseInit ==
    /\ part \in {"dml", "vectors", "sidecar", "tracker", "dedup", "training"}
    /\ DmlInit /\ VtInit /\ ScInit /\ EtInit /\ TrainInit /\ DedupInit
    /\ part # "dml" => ~indexed
    /\ part # "dedup" => docText = [i \in Rows |-> <<>>] /\ docKey = [i \in Rows |-> i]

DatabaseNext ==
    /\ UNCHANGED part
    /\ \/ part = "dml" /\ DmlNext /\ UNCHANGED <<vtvars, scvars, etvars, dedupVars, trainVars>>
       \/ part = "vectors" /\ VtNext
          /\ UNCHANGED <<dmlvars, scvars, etvars, dedupVars, trainVars>>
       \/ part = "sidecar" /\ ScNext
          /\ UNCHANGED <<dmlvars, vtvars, etvars, dedupVars, trainVars>>
       \/ part = "tracker" /\ EtNext
          /\ UNCHANGED <<dmlvars, vtvars, scvars, dedupVars, trainVars>>
       \/ part = "dedup" /\ DedupNext
          /\ UNCHANGED <<dmlvars, vtvars, scvars, etvars, trainVars>>
       \/ part = "training" /\ TrainNext
          /\ UNCHANGED <<dmlvars, vtvars, scvars, etvars, dedupVars>>

DatabaseSpec == DatabaseInit /\ [][DatabaseNext]_databaseVars

\* The actors, the rows and the texts of every component are the same three
\* pairs of model values in the cfg.
DatabaseSymmetry ==
    Permutations(Statements) \cup Permutations(RowKeys) \cup Permutations(Phrases)

=============================================================================
