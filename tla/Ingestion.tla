----------------------------- MODULE Ingestion -----------------------------
(***************************************************************************)
(* Fixture ingestion: the runs of gridops.ingestion.runner, the raw file   *)
(* store, the raw_snapshots table and one silver table with its two unique *)
(* constraints.  The three silver loaders (IESO demand, observations,      *)
(* forecasts) are the same code over different keys, so one table stands   *)
(* for each of them.                                                       *)
(*                                                                         *)
(* A run is one process with up to three transactions: it records itself   *)
(* as "running", then stores, parses and loads its payload, and only on an *)
(* exception records itself as "failed".  Runs share the database, under   *)
(* PostgreSQL's READ COMMITTED, and the directory of raw files.            *)
(***************************************************************************)
EXTENDS Integers, Sequences, FiniteSets

CONSTANTS
    Runs,        \* ingestion_runs identities, one process each
    NoRun,       \* the source of a revision that does not exist
    Keys,        \* natural keys of the silver table
    Values,      \* row hashes: what a source may say of one key
    Payloads,    \* payloads, identified with their content hash
    NoPayload,   \* a run that has not been invoked
    Records,     \* the records a payload parses to
    Malformed,   \* payloads the parser raises on
    MaxOpen,     \* bound: invocations in progress at one time
    MaxId,       \* bound: the identity values a silver row may get
    Faults       \* which of "crash", "disk", "lostack" may happen

(* What the source's identifiers give: a run is not the null run, a parsed *)
(* payload is a finite list of (natural key, row hash) pairs.              *)
ASSUME IngestionAssumption ==
    /\ NoRun \notin Runs
    /\ NoPayload \notin Payloads
    /\ Records \in [Payloads -> Seq(Keys \X Values)]
    /\ Malformed \subseteq Payloads
    /\ MaxOpen \in Nat
    /\ MaxId \in Nat
    /\ Faults \subseteq {"crash", "disk", "lostack"}

VARIABLES
    status,   \* committed ingestion_runs.status
    payload,  \* the payload an invocation was given
    pc,       \* where the process is
    files,    \* the raw file of a payload: absent, partly written, whole
    snaps,    \* committed raw_snapshots rows, by content hash
    newSnap,  \* runs whose open transaction inserted their raw_snapshots row
    rows,     \* committed silver rows, by natural key and row hash
    pend,     \* row versions written by the open transaction of a run
    mem,      \* identity map of a run's session: the rows it has loaded
    adds,     \* new objects of a run's session, in the order of session.add
    pos,      \* index of the record a run is loading
    current   \* what _get_current_record returned for that record

vars == <<status, payload, pc, files, snaps, newSnap, rows, pend, mem, adds,
          pos, current>>
tables == <<status, snaps, rows>>
session == <<mem, adds, pos, current>>

-----------------------------------------------------------------------------
(* Types *)

Revs == Keys \X Values

Statuses == {"absent", "running", "succeeded", "failed"}

Stages == {"idle", "started", "filing", "writing", "inserting", "parsing",
           "loading", "matching", "failing", "done", "crashed"}

(* A silver row; id 0 is no row.  superseded_at_utc is NULL exactly when   *)
(* is_current holds, and source_snapshot_id is the snapshot of run's       *)
(* payload, so neither is a field.                                         *)
Row == [id : Nat, cur : BOOLEAN, run : Runs \cup {NoRun}]
NoRow == [id |-> 0, cur |-> FALSE, run |-> NoRun]

(* A loaded object: is_current as loaded and as now assigned, and whether  *)
(* its run and snapshot references were reassigned.                        *)
Loaded == [seen : BOOLEAN, was : BOOLEAN, now : BOOLEAN, own : BOOLEAN]
NotLoaded == [seen |-> FALSE, was |-> FALSE, now |-> FALSE, own |-> FALSE]

TypeOK ==
    /\ status \in [Runs -> Statuses]
    /\ payload \in [Runs -> Payloads \cup {NoPayload}]
    /\ pc \in [Runs -> Stages]
    /\ files \in [Payloads -> {"absent", "partial", "whole"}]
    /\ snaps \in SUBSET Payloads
    /\ newSnap \in SUBSET Runs
    /\ rows \in [Revs -> Row]
    /\ pend \in [Runs -> [Revs -> Row]]
    /\ mem \in [Runs -> [Revs -> Loaded]]
    /\ adds \in [Runs -> Seq(Revs)]
    /\ pos \in [Runs -> Nat \ {0}]
    /\ current \in [Runs -> SUBSET Revs]
    /\ \A r \in Runs : pc[r] # "idle" => payload[r] \in Payloads
    /\ \A r \in Runs : pc[r] = "matching" => pos[r] <= Len(Records[payload[r]])

Init ==
    /\ status = [r \in Runs |-> "absent"]
    /\ payload = [r \in Runs |-> NoPayload]
    /\ pc = [r \in Runs |-> "idle"]
    /\ files = [p \in Payloads |-> "absent"]
    /\ snaps = {}
    /\ newSnap = {}
    /\ rows = [kv \in Revs |-> NoRow]
    /\ pend = [r \in Runs |-> [kv \in Revs |-> NoRow]]
    /\ mem = [r \in Runs |-> [kv \in Revs |-> NotLoaded]]
    /\ adds = [r \in Runs |-> <<>>]
    /\ pos = [r \in Runs |-> 1]
    /\ current = [r \in Runs |-> {}]

-----------------------------------------------------------------------------
(* PostgreSQL: row versions, row locks and unique indexes *)

Exists(row) == row.id > 0

(* r holds the row lock of every row its open transaction wrote. *)
Locked(r, kv) == \E s \in Runs \ {r} : Exists(pend[s][kv])

(* The table as r's own statements see it. *)
Seen(r, kv) == IF Exists(pend[r][kv]) THEN pend[r][kv] ELSE rows[kv]

SameKey(kv) == {other \in Revs : other[1] = kv[1] /\ other # kv}

(* Fault: the silver table lacks its partial unique index. *)
KeyClashUnindexed(r, kv) == FALSE

(* Making kv current meets another current row of its key that is certain  *)
(* (r's own, or committed and not being rewritten by somebody else) ...    *)
KeyClash(r, kv) ==
    \E other \in SameKey(kv) : Seen(r, other).cur /\ ~Locked(r, other)

(* ... or one whose fate another open transaction decides: PostgreSQL then *)
(* waits for that transaction.                                             *)
KeyBusyWith(r, kv) ==
    {s \in Runs \ {r} : \E other \in SameKey(kv) :
        Exists(pend[s][other]) /\ (pend[s][other].cur \/ rows[other].cur)}

RowBusyWith(r, kv) == {s \in Runs \ {r} : Exists(pend[s][kv])}

(* Identity values grow with every INSERT; only their order matters, so a  *)
(* new one is just above those in use.                                     *)
UsedIds == {rows[kv].id : kv \in Revs}
           \cup {pend[r][kv].id : r \in Runs, kv \in Revs}
IsNextId(n) == (\A i \in UsedIds : i < n) /\ (n = 1 \/ n - 1 \in UsedIds)

-----------------------------------------------------------------------------
(* The unit of work: what session.flush() still has to send for a run *)

(* Only rows with a net change are updated. *)
Modified(m) == m.was # m.now \/ m.own
Dirty(r) == {kv \in Revs : mem[r][kv].seen /\ Modified(mem[r][kv])}

(* UPDATEs go first, by ascending primary key. *)
NextUpdate(r, kv) ==
    kv \in Dirty(r) /\ \A other \in Dirty(r) : rows[kv].id <= rows[other].id

Flushing(r) == pc[r] = "loading" /\ pos[r] > Len(Records[payload[r]])

(* The UPDATE sets only the changed columns, on the latest row version. *)
Updated(r, kv) ==
    LET m == mem[r][kv]
    IN  [id  |-> rows[kv].id,
         cur |-> IF m.was # m.now THEN m.now ELSE rows[kv].cur,
         run |-> IF m.own THEN r ELSE rows[kv].run]

(* The object a flush leaves behind has no net change. *)
Flushed(m) == [m EXCEPT !.was = m.now, !.own = FALSE]

NeedsIndexCheck(r, kv) == Updated(r, kv).cur /\ ~rows[kv].cur

(* An INSERT of the head of adds violates one of the two unique indexes. *)
InsertClash(r, kv) == Exists(rows[kv]) \/ Exists(pend[r][kv]) \/ KeyClash(r, kv)

(* The transactions r's next statement has to wait for. *)
BlockedBy(r) ==
    IF pc[r] = "inserting"
    THEN {s \in newSnap \ {r} : payload[s] = payload[r]}
    ELSE IF ~Flushing(r) THEN {}
    ELSE IF Dirty(r) # {}
    THEN UNION {RowBusyWith(r, kv)
                \cup (IF NeedsIndexCheck(r, kv) /\ ~KeyClash(r, kv)
                      THEN KeyBusyWith(r, kv) ELSE {})
                : kv \in {kv \in Dirty(r) : NextUpdate(r, kv)}}
    ELSE IF adds[r] # <<>> /\ ~InsertClash(r, Head(adds[r]))
    THEN RowBusyWith(r, Head(adds[r])) \cup KeyBusyWith(r, Head(adds[r]))
    ELSE {}

(* r waits, directly or through others, for itself. *)
Deadlocked(r) ==
    /\ BlockedBy(r) # {}
    /\ \A S \in SUBSET Runs :
          (BlockedBy(r) \subseteq S /\ \A s \in S : BlockedBy(s) \subseteq S)
              => r \in S

(* The open transaction of r is rolled back: its locks and its uncommitted *)
(* rows are gone, and so is its session.                                   *)
Rollback(r) ==
    /\ newSnap' = newSnap \ {r}
    /\ pend' = [pend EXCEPT ![r] = [kv \in Revs |-> NoRow]]
    /\ mem' = [mem EXCEPT ![r] = [kv \in Revs |-> NotLoaded]]
    /\ adds' = [adds EXCEPT ![r] = <<>>]
    /\ pos' = [pos EXCEPT ![r] = 1]
    /\ current' = [current EXCEPT ![r] = {}]

Goto(r, stage) == pc' = [pc EXCEPT ![r] = stage]

(* Fault: the exception handler does not record the failure. *)
RaiseUnrecorded(r) == Goto(r, "done") /\ Rollback(r)

(* An exception leaves the loading transaction. *)
Raise(r) == Goto(r, "failing") /\ Rollback(r)

Open(r) == pc[r] \notin {"idle", "done", "crashed"}

-----------------------------------------------------------------------------
(* run_fixture_ingestion *)

(* The first transaction: the run is recorded as running and committed.    *)
StartIngestionRun(r, p) ==
    /\ pc[r] = "idle"
    /\ Cardinality({s \in Runs : Open(s)}) < MaxOpen
    /\ status' = [status EXCEPT ![r] = "running"]
    /\ payload' = [payload EXCEPT ![r] = p]
    /\ Goto(r, "started")
    /\ UNCHANGED <<files, snaps, newSnap, rows, pend, session>>

(* Fault: the raw file is taken for the snapshot row. *)
FindRawSnapshotByFile(r) ==
    /\ pc[r] = "started"
    /\ Goto(r, IF files[payload[r]] # "absent" THEN "parsing" ELSE "filing")
    /\ UNCHANGED <<tables, payload, files, newSnap, pend, session>>

(* persist_raw_snapshot looks for a snapshot row of the same hash: when    *)
(* there is one it is reused and no file is written.                       *)
FindRawSnapshot(r) ==
    /\ pc[r] = "started"
    /\ Goto(r, IF payload[r] \in snaps THEN "parsing" ELSE "filing")
    /\ UNCHANGED <<tables, payload, files, newSnap, pend, session>>

(* write_payload opens the file exclusively; a file that exists already is *)
(* taken as it is.                                                         *)
OpenPayloadFile(r) ==
    /\ pc[r] = "filing"
    /\ \/ /\ files[payload[r]] = "absent"
          /\ files' = [files EXCEPT ![payload[r]] = "partial"]
          /\ Goto(r, "writing")
       \/ /\ files[payload[r]] # "absent"
          /\ Goto(r, "inserting")
          /\ UNCHANGED files
    /\ UNCHANGED <<tables, payload, newSnap, pend, session>>

WritePayloadFile(r) ==
    /\ pc[r] = "writing"
    /\ files' = [files EXCEPT ![payload[r]] = "whole"]
    /\ Goto(r, "inserting")
    /\ UNCHANGED <<tables, payload, newSnap, pend, session>>

(* Fault: a failed write removes the file it was writing. *)
StorageErrorRemovesFile(r) ==
    /\ "disk" \in Faults
    /\ pc[r] \in {"started", "writing"}
    /\ files' = [files EXCEPT ![payload[r]] =
                    IF pc[r] = "writing" THEN "absent" ELSE @]
    /\ Raise(r)
    /\ UNCHANGED <<tables, payload>>

(* Reading the payload or writing its file raises OSError: the file stays  *)
(* as far as it got.                                                       *)
StorageError(r) ==
    /\ "disk" \in Faults
    /\ pc[r] \in {"started", "writing"}
    /\ Raise(r)
    /\ UNCHANGED <<tables, payload, files>>

(* The INSERT into raw_snapshots: unique per content hash. *)
InsertRawSnapshot(r) ==
    /\ pc[r] = "inserting"
    /\ \/ /\ payload[r] \in snaps
          /\ Raise(r)
       \/ /\ payload[r] \notin snaps
          /\ BlockedBy(r) = {}
          /\ newSnap' = newSnap \cup {r}
          /\ Goto(r, "parsing")
          /\ UNCHANGED <<pend, session>>
    /\ UNCHANGED <<tables, payload, files>>

ParsePayload(r) ==
    /\ pc[r] = "parsing"
    /\ \/ /\ payload[r] \in Malformed
          /\ Raise(r)
       \/ /\ payload[r] \notin Malformed
          /\ Goto(r, "loading")
          /\ UNCHANGED <<newSnap, pend, session>>
    /\ UNCHANGED <<tables, payload, files>>

(* The loader's loop over the records: two queries per record, each of its *)
(* own READ COMMITTED view, neither of them flushing.                      *)
Record(r) == Records[payload[r]][pos[r]]

Load(m, isCurrent) ==
    IF m.seen THEN m
    ELSE [seen |-> TRUE, was |-> isCurrent, now |-> isCurrent, own |-> FALSE]

(* Fault: any current row of the key passes for an unchanged record. *)
GetCurrentRecordAnyHash(r) ==
    /\ pc[r] = "loading"
    /\ pos[r] <= Len(Records[payload[r]])
    /\ LET found == {kv \in Revs : kv[1] = Record(r)[1] /\ rows[kv].cur}
       IN  IF found # {}
           THEN pos' = [pos EXCEPT ![r] = @ + 1] /\ UNCHANGED pc
           ELSE Goto(r, "matching") /\ UNCHANGED pos
    /\ UNCHANGED <<tables, payload, files, newSnap, pend, mem, adds, current>>

(* _get_current_record.  A current row with the record's hash leaves the   *)
(* record unchanged.  The session keeps only modified objects alive: an    *)
(* object the loop's variables no longer name is loaded afresh next time.  *)
GetCurrentRecord(r) ==
    /\ pc[r] = "loading"
    /\ pos[r] <= Len(Records[payload[r]])
    /\ LET found == {kv \in Revs : kv[1] = Record(r)[1] /\ rows[kv].cur}
       IN  /\ mem' = [mem EXCEPT ![r] = [kv \in Revs |->
                          IF kv \in found THEN Load(@[kv], TRUE)
                          ELSE IF Modified(@[kv]) THEN @[kv] ELSE NotLoaded]]
           /\ \/ /\ Record(r) \in found
                 /\ pos' = [pos EXCEPT ![r] = @ + 1]
                 /\ UNCHANGED <<pc, current>>
              \/ /\ Record(r) \notin found
                 /\ current' = [current EXCEPT ![r] = found]
                 /\ Goto(r, "matching")
                 /\ UNCHANGED pos
    /\ UNCHANGED <<tables, payload, files, newSnap, pend, adds>>

(* _get_existing_revision, then the rest of the loop body: the current row *)
(* is retired and either an old revision of the same hash is reactivated   *)
(* or a new row is added to the session.                                   *)
Retire(m) == [m EXCEPT !.now = FALSE]
Reuse(m) == [m EXCEPT !.now = TRUE, !.own = TRUE]

(* Fault: an older revision with the hash is found but not reactivated. *)
GetExistingRevisionUnused(r) ==
    LET new == Record(r)
    IN  /\ pc[r] = "matching"
        /\ mem' = [mem EXCEPT ![r] = [kv \in Revs |->
                      IF kv \in current[r] THEN Retire(@[kv]) ELSE @[kv]]]
        /\ adds' = IF Exists(rows[new]) THEN adds
                   ELSE [adds EXCEPT ![r] = Append(@, new)]
        /\ pos' = [pos EXCEPT ![r] = @ + 1]
        /\ current' = [current EXCEPT ![r] = {}]
        /\ Goto(r, "loading")
        /\ UNCHANGED <<tables, payload, files, newSnap, pend>>

GetExistingRevision(r) ==
    LET new == Record(r)
        retired == [kv \in Revs |->
                       IF kv \in current[r] THEN Retire(mem[r][kv]) ELSE mem[r][kv]]
    IN  /\ pc[r] = "matching"
        /\ \/ /\ Exists(rows[new])
              /\ mem' = [mem EXCEPT ![r] =
                    [retired EXCEPT ![new] = Reuse(Load(@, rows[new].cur))]]
              /\ UNCHANGED adds
           \/ /\ ~Exists(rows[new])
              /\ mem' = [mem EXCEPT ![r] = retired]
              /\ adds' = [adds EXCEPT ![r] = Append(@, new)]
        /\ pos' = [pos EXCEPT ![r] = @ + 1]
        /\ current' = [current EXCEPT ![r] = {}]
        /\ Goto(r, "loading")
        /\ UNCHANGED <<tables, payload, files, newSnap, pend>>

(* session.flush(): one UPDATE.  A row lock or an undecided current row of *)
(* the key makes it wait; a second current row of the key is an            *)
(* IntegrityError.                                                         *)
FlushUpdate(r, kv) ==
    /\ Flushing(r)
    /\ NextUpdate(r, kv)
    /\ \/ /\ NeedsIndexCheck(r, kv)
          /\ ~Locked(r, kv)
          /\ KeyClash(r, kv)
          /\ Raise(r)
       \/ /\ ~Locked(r, kv)
          /\ NeedsIndexCheck(r, kv) => ~KeyClash(r, kv) /\ KeyBusyWith(r, kv) = {}
          /\ pend' = [pend EXCEPT ![r][kv] = Updated(r, kv)]
          /\ mem' = [mem EXCEPT ![r][kv] = Flushed(@)]
          /\ UNCHANGED <<pc, newSnap, adds, pos, current>>
    /\ UNCHANGED <<tables, payload, files>>

(* session.flush(): one INSERT. *)
FlushInsert(r) ==
    /\ Flushing(r)
    /\ Dirty(r) = {}
    /\ adds[r] # <<>>
    /\ LET kv == Head(adds[r])
       IN  \/ /\ InsertClash(r, kv)
              /\ Raise(r)
           \/ /\ ~InsertClash(r, kv)
              /\ ~Locked(r, kv)
              /\ KeyBusyWith(r, kv) = {}
              /\ \E n \in 1..MaxId :
                    /\ IsNextId(n)
                    /\ pend' = [pend EXCEPT ![r][kv] =
                                   [id |-> n, cur |-> TRUE, run |-> r]]
              /\ adds' = [adds EXCEPT ![r] = Tail(@)]
              /\ UNCHANGED <<pc, newSnap, mem, pos, current>>
    /\ UNCHANGED <<tables, payload, files>>

(* PostgreSQL aborts one of the transactions that wait for each other. *)
DeadlockDetected(r) ==
    /\ Deadlocked(r)
    /\ Raise(r)
    /\ UNCHANGED <<tables, payload, files>>

(* mark_ingestion_run_succeeded and session.commit(): the snapshot, the    *)
(* silver rows and the run's status become visible together.  When the     *)
(* connection is lost before the answer, that too is an exception.         *)
CommitSucceeded(r) ==
    /\ Flushing(r)
    /\ Dirty(r) = {}
    /\ adds[r] = <<>>
    /\ rows' = [kv \in Revs |-> Seen(r, kv)]
    /\ snaps' = IF r \in newSnap THEN snaps \cup {payload[r]} ELSE snaps
    /\ status' = [status EXCEPT ![r] = "succeeded"]
    /\ \/ Goto(r, "done")
       \/ "lostack" \in Faults /\ Goto(r, "failing")
    /\ Rollback(r)
    /\ UNCHANGED <<payload, files>>

(* Fault: a status outside the run vocabulary. *)
MarkFailedAsError(r) ==
    /\ pc[r] = "failing"
    /\ status' = [status EXCEPT ![r] = "error"]
    /\ Goto(r, "done")
    /\ UNCHANGED <<payload, files, snaps, newSnap, rows, pend, session>>

(* The third transaction, after any exception. *)
MarkFailed(r) ==
    /\ pc[r] = "failing"
    /\ status' = [status EXCEPT ![r] = "failed"]
    /\ Goto(r, "done")
    /\ UNCHANGED <<payload, files, snaps, newSnap, rows, pend, session>>

(* The process dies; the server rolls its open transaction back.  Nothing  *)
(* restarts or repairs the run.                                            *)
Crash(r) ==
    /\ "crash" \in Faults
    /\ Open(r)
    /\ Goto(r, "crashed")
    /\ Rollback(r)
    /\ UNCHANGED <<tables, payload, files>>

(* What the process and the server do of themselves once a run is started. *)
Step(r) ==
    \/ FindRawSnapshot(r)
    \/ OpenPayloadFile(r)
    \/ WritePayloadFile(r)
    \/ InsertRawSnapshot(r)
    \/ ParsePayload(r)
    \/ GetCurrentRecord(r)
    \/ GetExistingRevision(r)
    \/ \E kv \in Revs : FlushUpdate(r, kv)
    \/ FlushInsert(r)
    \/ DeadlockDetected(r)
    \/ CommitSucceeded(r)
    \/ MarkFailed(r)

Next ==
    \E r \in Runs :
        \/ \E p \in Payloads : StartIngestionRun(r, p)
        \/ Step(r)
        \/ StorageError(r)
        \/ Crash(r)

Spec == Init /\ [][Next]_vars

(* A started process keeps executing unless it crashes: there is no        *)
(* sleep, queue or user between its statements, and PostgreSQL runs its    *)
(* deadlock detector.                                                      *)
Fairness == \A r \in Runs : WF_vars(Step(r))

FairSpec == Spec /\ Fairness

-----------------------------------------------------------------------------
(* Correctness *)

(* A key never has two current revisions, whatever runs race on it: the    *)
(* loaders' scalar_one_or_none and every reader of is_current rows rely on *)
(* it (models.py, uq_*_current_source_key).                                *)
OneCurrentRevision ==
    \A kv \in Revs : rows[kv].cur => \A other \in SameKey(kv) : ~rows[other].cur

(* The records a payload states. *)
Said(p) == {Records[p][i] : i \in DOMAIN Records[p]}

(* A committed row, current or superseded, names a run that succeeded,     *)
(* whose raw snapshot is committed and whose payload states that very      *)
(* record: failed, crashed and concurrent runs leave nothing and no        *)
(* reactivation or rewrite breaks the trace (SOURCE_CONTRACTS.md).  The    *)
(* answer of a commit may be lost: then alone the run that loaded the row  *)
(* is one that calls itself failed.                                        *)
RowsTraceToEvidence ==
    \A kv \in Revs : Exists(rows[kv]) =>
        LET r == rows[kv].run
        IN  /\ r \in Runs
            /\ \/ status[r] = "succeeded"
               \/ "lostack" \in Faults /\ status[r] = "failed"
            /\ payload[r] \in snaps
            /\ kv \in Said(payload[r])

(* No raw_snapshots row points to a file that was never created, although  *)
(* files are written outside the transaction and by other runs.            *)
SnapshotsHaveFiles == \A p \in snaps : files[p] # "absent"

(* The keys that a payload states twice: the parsers let that pass. *)
Repeated ==
    {k \in Keys : \E p \in Payloads : \E i, j \in DOMAIN Records[p] :
        i # j /\ Records[p][i][1] = k /\ Records[p][j][1] = k}

(* The silver table implements the revision store, under every             *)
(* interleaving of runs: what readers of is_current rows see moves from    *)
(* one whole load to the next.                                             *)
Store == INSTANCE RevisionStore WITH
    Stated <- Said,
    known <- {kv \in Revs : Exists(rows[kv])},
    published <- [k \in Keys |-> {v \in Values : rows[<<k, v>>].cur}]

ImplementsRevisionStore == Store!StoreSpec

(* With one run at a time, a run that succeeds leaves current, for every   *)
(* key of its payload, a revision the payload states, and touches no other *)
(* key.  (Between overlapping runs a record read as unchanged may be       *)
(* superseded by the other run before this one commits.)                   *)
LoadsWhatItRead ==
    [][\A r \in Runs : status[r] # "succeeded" /\ status'[r] = "succeeded" =>
          \A k \in Keys :
             LET stated == {v \in Values : <<k, v>> \in Said(payload[r])}
             IN  IF stated # {}
                 THEN \E v \in stated : rows'[<<k, v>>].cur
                 ELSE \A v \in Values : rows'[<<k, v>>] = rows[<<k, v>>]
      ]_<<status, rows>>

(* Every recorded run is eventually marked succeeded or failed, unless its *)
(* process dies: no lock wait lasts for ever.                              *)
RunsFinish ==
    \A r \in Runs : status[r] = "running" ~>
        (status[r] \in {"succeeded", "failed"} \/ pc[r] = "crashed")

-----------------------------------------------------------------------------
(* What the documents say and the code does not do *)

(* INGESTION_RUNBOOK.md, "Idempotency": for changed values on the same     *)
(* natural key the previous row is made non-current and a current row      *)
(* takes its place.  So, one run at a time and without faults, only a      *)
(* payload that does not parse fails.  A value that comes back after a     *)
(* revision does not load: the flush reactivates the older row before it   *)
(* retires the current one.                                                *)
ChangedValuesLoad ==
    \A r \in Runs : status[r] = "failed" => payload[r] \in Malformed

(* raw_store.py and INGESTION_RUNBOOK.md, "Raw Snapshots": a snapshot row  *)
(* is the evidence of exact payload bytes that are stored before it.  When *)
(* a disk error cuts a file short, the next run of the payload takes the   *)
(* file for written and records a snapshot of it.                          *)
SnapshotsHoldPayloads == \A p \in snaps : files[p] = "whole"
=============================================================================
