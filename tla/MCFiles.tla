------------------------------- MODULE MCFiles -------------------------------
(* Files and their formats, for TLC: encryption at rest, backups, the      *)
(* dates of signed requests, PAX blocks and the columnar SST files.  They  *)
(* share no state: each behaviour runs the one that `part` names and       *)
(* leaves the others alone.                                                *)
EXTENDS Encryption, Backup, PaxBlock, Columnar, TLC

VARIABLE part

filesVars == <<part, encVars, backupVars, today, paxVars, colVars>>

BlockLayouts == {<<>>, <<"int64">>, <<"text", "embedding", "boolean">>, <<"float64">>}

\* Rows of another table, and rows that cannot be split, go with the text
\* column and no pins.
PlainRows ==
    colType # "text" \/ pinTs # {} =>
        newest[3] = {} /\ \A k \in RowIds : \A v \in memt[k] : v.kind # "bad"

FilesInit ==
    /\ part \in {"seal", "backup", "date", "block", "columnar"}
    /\ EncInit /\ BackupInit /\ DateInit /\ PaxInit /\ ColInit
    /\ part # "backup" => target = "dir"
    /\ part # "block" => layout = <<>>
    /\ part # "columnar" => colType = "text" /\ pinTs = {}
    \* pins go with the type whose values compare as they are
    /\ colType # "text" => pinTs = {}

FilesNext ==
    /\ UNCHANGED part
    /\ \/ /\ part = "seal" /\ EncNext
          /\ UNCHANGED <<backupVars, today, paxVars, colVars>>
       \/ /\ part = "backup" /\ BackupNext
          /\ UNCHANGED <<encVars, today, paxVars, colVars>>
       \/ /\ part = "date" /\ DateNext
          /\ UNCHANGED <<encVars, backupVars, paxVars, colVars>>
       \/ /\ part = "block" /\ PaxNext
          /\ UNCHANGED <<encVars, backupVars, today, colVars>>
       \/ /\ part = "columnar" /\ ColNext /\ PlainRows'
          /\ UNCHANGED <<encVars, backupVars, today, paxVars>>

FilesSpec == FilesInit /\ [][FilesNext]_filesVars

\* The rows of both components are the same model values in the cfg.
FilesSymmetry == Permutations(BackupKeys)

==============================================================================
