--------------------------- MODULE EmbeddingTracker ---------------------------
(***************************************************************************)
(* The staleness metadata of embedded rows (galaxdb-sidecar                *)
(* EmbeddingTracker).  A version change takes the version lock and then    *)
(* the row lock, so inserts, completions and other changes run between.    *)
(***************************************************************************)
EXTENDS Naturals, FiniteSets

CONSTANTS TrackedRows, ModelVersions, Changers, NoVersion, MaxChangesTracked

ASSUME TrackerConstants == IsFiniteSet(TrackedRows) /\ NoVersion \notin ModelVersions

VARIABLES meta,           \* row -> [version, stale]; untracked rows are absent
          currentModel,   \* current_model_version
          changing,       \* the versions a change is about to retire
          changesMade,
          late            \* rows completed by a version that was not current

etvars == <<meta, currentModel, changing, changesMade, late>>

EtInit == /\ meta = [r \in {} |-> {}]
          /\ currentModel = NoVersion
          /\ changing = [c \in Changers |-> {}]
          /\ changesMade = 0 /\ late = {}

NewPending == [version |-> NoVersion, stale |-> TRUE]

Completed(v) == [version |-> v, stale |-> FALSE]

SetMeta(r, m) == [x \in DOMAIN meta \cup {r} |-> IF x = r THEN m ELSE meta[x]]

OnInsert(r) == /\ meta' = SetMeta(r, NewPending)
               /\ late' = late \ {r}
               /\ UNCHANGED <<currentModel, changing, changesMade>>

OnEmbeddingComplete(r, v) ==
  /\ meta' = SetMeta(r, Completed(v))
  /\ late' = IF v = currentModel THEN late \ {r} ELSE late \cup {r}
  /\ UNCHANGED <<currentModel, changing, changesMade>>

OnDelete(r) ==
  /\ meta' = [x \in DOMAIN meta \ {r} |-> meta[x]]
  /\ late' = late \ {r}
  /\ UNCHANGED <<currentModel, changing, changesMade>>

(* on_model_version_change under the version lock. *)
ChangeVersion(c, v) ==
  /\ changing[c] = {} /\ changesMade < MaxChangesTracked
  /\ changesMade' = changesMade + 1
  /\ currentModel' = v
  /\ changing' = [changing EXCEPT ![c] = {currentModel} \ {NoVersion, v}]
  /\ UNCHANGED <<meta, late>>

(* on_model_version_change under the row lock. *)
MarkNewStale(c) ==
  /\ changing[c] # {}
  /\ meta' = [r \in DOMAIN meta |->
                IF meta[r].version = currentModel THEN [meta[r] EXCEPT !.stale = TRUE]
                ELSE meta[r]]
  /\ changing' = [changing EXCEPT ![c] = {}]
  /\ UNCHANGED <<currentModel, changesMade, late>>

MarkStale(c) ==
  /\ changing[c] # {}
  /\ meta' = [r \in DOMAIN meta |->
                IF meta[r].version \in changing[c] THEN [meta[r] EXCEPT !.stale = TRUE]
                ELSE meta[r]]
  /\ changing' = [changing EXCEPT ![c] = {}]
  /\ UNCHANGED <<currentModel, changesMade, late>>

(* health_report. *)
HealthReport == [total |-> Cardinality(DOMAIN meta),
                 stale |-> Cardinality({r \in DOMAIN meta : meta[r].stale})]

EtNext ==
  \/ \E r \in TrackedRows : OnInsert(r) \/ OnDelete(r)
  \/ \E r \in TrackedRows, v \in ModelVersions : OnEmbeddingComplete(r, v)
  \/ \E c \in Changers, v \in ModelVersions : ChangeVersion(c, v)
  \/ \E c \in Changers : MarkStale(c)

EtSpec == EtInit /\ [][EtNext]_etvars

(* Once no change is under way, a row counted as fresh carries an embedding *)
(* of the current model, unless the old model's answer arrived after the   *)
(* change; the report counts every other row as stale                      *)
(* (on_model_version_change, on_embedding_complete, health_report).        *)
FreshIsCurrentUnlessLate ==
  (\A c \in Changers : changing[c] = {}) =>
    /\ \A r \in DOMAIN meta \ late : ~meta[r].stale => meta[r].version = currentModel
    /\ HealthReport.total - HealthReport.stale
         <= Cardinality({r \in DOMAIN meta : meta[r].version = currentModel} \cup late)
=============================================================================
