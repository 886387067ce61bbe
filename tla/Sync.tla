---- MODULE Sync ----
(***************************************************************************)
(* The stations table of D1 and the jobs that bring it in line with        *)
(* data/stations.json: .github/workflows/seed-d1.yml starts                *)
(* scripts/seed_d1.sh, which reads the table, has scripts/diff_stations.py *)
(* compute the statements, and sends them to D1.                           *)
(*                                                                         *)
(* A table is a row per id; a row is its other fields taken together.      *)
(* That a job may break off between two statements is more than D1 may     *)
(* allow, and all that the scripts rely on.                                *)
(***************************************************************************)
EXTENDS Naturals, FiniteSets

CONSTANTS
    Ids,
    Contents, \* what a row can say
    NoRow,
    Seeds, \* the jobs that may run at the same time
    BATCH  \* diff_stations.py:11

ASSUME SyncAssumption == NoRow \notin Contents /\ BATCH \in Nat \ {0}

VARIABLES
    table,   \* D1's stations
    step,    \* where each job is
    target,  \* the stations.json it has checked out
    upserts, \* the ids whose rows it still has to write
    removed, \* the ids it still has to delete
    agreed   \* history: the ids on which it and all jobs it met want the same

sync == <<table, step, target, upserts, removed, agreed>>

Tables == [Ids -> Contents \cup {NoRow}]

SyncTypeOK ==
    /\ table \in Tables
    /\ step \in [Seeds -> {"idle", "read", "write"}]
    /\ target \in [Seeds -> Tables]
    /\ upserts \in [Seeds -> SUBSET Ids]
    /\ removed \in [Seeds -> SUBSET Ids]
    /\ agreed \in [Seeds -> SUBSET Ids]

SyncInit ==
    /\ table = [i \in Ids |-> NoRow]
    /\ step = [s \in Seeds |-> "idle"]
    /\ target = [s \in Seeds |-> [i \in Ids |-> NoRow]]
    /\ upserts = [s \in Seeds |-> {}]
    /\ removed = [s \in Seeds |-> {}]
    /\ agreed = [s \in Seeds |-> {}]

\* A push to main, or somebody starts the workflow: the job checks a commit out.
Trigger(s, stations) ==
    /\ step[s] = "idle"
    /\ step' = [step EXCEPT ![s] = "read"]
    /\ target' = [target EXCEPT ![s] = stations]
    /\ UNCHANGED <<table, upserts, removed, agreed>>

\* Deviation: only ids that are new are written.
Changed_new_only(stations) == {i \in Ids : table[i] = NoRow /\ stations[i] # NoRow}

Changed(stations) == {i \in Ids : stations[i] # NoRow /\ table[i] # stations[i]}
Gone(stations)    == {i \in Ids : stations[i] = NoRow /\ table[i] # NoRow}

Writing(s)  == step[s] = "write"
Same(s, t)  == {i \in Ids : target[s][i] = target[t][i]}

\* SELECT of the whole table, and the diff against it.
ReadTable(s) ==
    /\ step[s] = "read"
    /\ step' = [step EXCEPT ![s] = "write"]
    /\ upserts' = [upserts EXCEPT ![s] = Changed(target[s])]
    /\ removed' = [removed EXCEPT ![s] = Gone(target[s])]
    /\ agreed' = [t \in Seeds |->
            IF t = s THEN {i \in Ids : \A u \in Seeds : Writing(u) => i \in Same(s, u)}
            ELSE IF Writing(t) THEN agreed[t] \cap Same(s, t) ELSE agreed[t]]
    /\ UNCHANGED <<table, target>>

\* The next BATCH of a list, in the order of the file.
Batches(ids) ==
    {b \in SUBSET ids : b # {} /\ (Cardinality(b) = BATCH \/ (b = ids /\ Cardinality(b) < BATCH))}

InsertOrReplace(s) ==
    /\ Writing(s) /\ upserts[s] # {}
    /\ \E b \in Batches(upserts[s]) :
         /\ table' = [i \in Ids |-> IF i \in b THEN target[s][i] ELSE table[i]]
         /\ upserts' = [upserts EXCEPT ![s] = @ \ b]
    /\ UNCHANGED <<step, target, removed, agreed>>

Delete(s) ==
    /\ Writing(s) /\ upserts[s] = {} /\ removed[s] # {}
    /\ \E b \in Batches(removed[s]) :
         /\ table' = [i \in Ids |-> IF i \in b THEN NoRow ELSE table[i]]
         /\ removed' = [removed EXCEPT ![s] = @ \ b]
    /\ UNCHANGED <<step, target, upserts, agreed>>

Done(s) == Writing(s) /\ upserts[s] = {} /\ removed[s] = {}

Leave(s) ==
    /\ step' = [step EXCEPT ![s] = "idle"]
    /\ target' = [target EXCEPT ![s] = [i \in Ids |-> NoRow]]
    /\ upserts' = [upserts EXCEPT ![s] = {}]
    /\ removed' = [removed EXCEPT ![s] = {}]
    /\ agreed' = [agreed EXCEPT ![s] = {}]
    /\ UNCHANGED table

\* Also the job that finds nothing to do.
Succeed(s) == Done(s) /\ Leave(s)

\* wrangler fails, or the job is killed: the rest is not sent (`set -e`).
Break(s) == step[s] # "idle" /\ ~Done(s) /\ Leave(s)

SyncNext ==
    \E s \in Seeds :
        \/ \E stations \in Tables : Trigger(s, stations)
        \/ ReadTable(s) \/ InsertOrReplace(s) \/ Delete(s)
        \/ Succeed(s) \/ Break(s)

SyncSpec == SyncInit /\ [][SyncNext]_sync
----
\* "Bring D1's stations table in line with stations.json" (diff_stations.py:1):
\* a job that is done has done it, whatever half-written table an earlier job
\* has left, and whatever other jobs wrote meanwhile - up to the ids on which a
\* job that it met wanted something else, where no job is promised anything:
\* the diff is computed from a table that the other one may since have changed.
SeededRight ==
    \A s \in Seeds : Done(s) => \A i \in agreed[s] : table[i] = target[s][i]

====
