-------------------------- MODULE IngestionProofs ---------------------------
(***************************************************************************)
(* Theorems about Ingestion for any number of runs, keys, values and       *)
(* payloads, and any interleaving of them, with crashes, disk errors and   *)
(* lost commit answers: a key has one current revision, every snapshot row *)
(* has its raw file, and every committed silver row names a run that       *)
(* succeeded on a payload that states it.                                  *)
(*                                                                         *)
(* OneCurrentRevision is not inductive: it says nothing of what open       *)
(* transactions are about to commit.  RowLocks and PendingCurrent say it   *)
(* for uncommitted row versions, Quiet and DirtyUnwritten say when a       *)
(* transaction may have any.                                               *)
(*                                                                         *)
(* Nor is the evidence.  A commit publishes what a session collected, so   *)
(* its invariants follow the evidence from the file to the open            *)
(* transaction (FilesFirst, SnapshotFirst) and from the parsed records to  *)
(* the objects and row versions of a session (OwnWrites), and they say     *)
(* that a recorded outcome is final (Ended).                               *)
(***************************************************************************)
EXTENDS Ingestion, TLAPS

(* No row is being rewritten by two transactions. *)
RowLocks ==
    \A r, s \in Runs, kv \in Revs :
        Exists(pend[r][kv]) /\ Exists(pend[s][kv]) => r = s

(* An uncommitted current row has no rival: not in its own transaction's   *)
(* view of the table, and not among the rows other transactions hold.      *)
PendingCurrent ==
    \A r \in Runs, kv \in Revs :
        Exists(pend[r][kv]) /\ pend[r][kv].cur =>
            \A other \in SameKey(kv) :
                /\ ~Seen(r, other).cur
                /\ \A s \in Runs \ {r} : Exists(pend[s][other]) =>
                      ~pend[s][other].cur /\ ~rows[other].cur

(* Only a flushing run has uncommitted rows. *)
Quiet == \A r \in Runs : ~Flushing(r) => \A kv \in Revs : ~Exists(pend[r][kv])

(* An object that still has changes to flush has not been written. *)
DirtyUnwritten ==
    \A r \in Runs, kv \in Revs : kv \in Dirty(r) => ~Exists(pend[r][kv])

(* Current rows and loaded rows exist. *)
LoadedExist ==
    /\ \A kv \in Revs : rows[kv].cur => Exists(rows[kv])
    /\ \A r \in Runs, kv \in Revs : mem[r][kv].seen => Exists(rows[kv])

IInv ==
    /\ TypeOK
    /\ LoadedExist
    /\ OneCurrentRevision
    /\ RowLocks
    /\ PendingCurrent
    /\ Quiet
    /\ DirtyUnwritten

-----------------------------------------------------------------------------
(* Type correctness *)

LEMMA NoRowType == NoRow \in Row /\ ~Exists(NoRow)
  BY DEF NoRow, Row, Exists

LEMMA NotLoadedType == NotLoaded \in Loaded
  BY DEF NotLoaded, Loaded

LEMMA RecordType ==
  ASSUME TypeOK, NEW r \in Runs, pc[r] # "idle", pos[r] <= Len(Records[payload[r]])
  PROVE  Record(r) \in Revs
  BY IngestionAssumption DEF TypeOK, Record, Revs

LEMMA LoadedOps ==
  ASSUME NEW m \in Loaded, NEW b \in BOOLEAN
  PROVE  /\ Load(m, b) \in Loaded
         /\ Retire(m) \in Loaded
         /\ Reuse(m) \in Loaded
         /\ Flushed(m) \in Loaded
  BY DEF Load, Retire, Reuse, Flushed, Loaded

LEMMA UpdatedType ==
  ASSUME TypeOK, NEW r \in Runs, NEW kv \in Revs
  PROVE  Updated(r, kv) \in Row /\ Updated(r, kv).id = rows[kv].id
  <1>1. rows[kv] \in Row /\ mem[r][kv] \in Loaded
    BY DEF TypeOK
  <1>2. \A m \in Loaded, b \in BOOLEAN : (IF m.was # m.now THEN m.now ELSE b) \in BOOLEAN
    BY DEF Loaded
  <1> QED
    BY <1>1, <1>2 DEF Updated, Row

LEMMA RollbackType ==
  ASSUME TypeOK, NEW r \in Runs, Rollback(r)
  PROVE  /\ newSnap' \in SUBSET Runs
         /\ pend' \in [Runs -> [Revs -> Row]]
         /\ mem' \in [Runs -> [Revs -> Loaded]]
         /\ adds' \in [Runs -> Seq(Revs)]
         /\ pos' \in [Runs -> Nat \ {0}]
         /\ current' \in [Runs -> SUBSET Revs]
  BY NoRowType, NotLoadedType DEF TypeOK, Rollback

LEMMA RaiseType ==
  ASSUME TypeOK, NEW r \in Runs, Raise(r), pc[r] # "idle",
         UNCHANGED <<tables, payload, files>>
  PROVE  TypeOK'
  <1>1. pc' \in [Runs -> Stages]
    BY DEF Raise, Goto, TypeOK, Stages
  <1>2. \A s \in Runs : pc'[s] # "idle" => payload'[s] \in Payloads
    BY DEF Raise, Goto, TypeOK
  <1>3. \A s \in Runs : pc'[s] = "matching" => pos'[s] <= Len(Records[payload'[s]])
    BY DEF Raise, Goto, Rollback, TypeOK
  <1> QED
    BY <1>1, <1>2, <1>3, RollbackType DEF Raise, TypeOK, tables

LEMMA TypeInit == Init => TypeOK
  BY IngestionAssumption, NoRowType, NotLoadedType
     DEF Init, TypeOK, Statuses, Stages, Revs

LEMMA TypeStep == TypeOK /\ [Next]_vars => TypeOK'
  <1> SUFFICES ASSUME TypeOK, [Next]_vars PROVE TypeOK'
    OBVIOUS
  <1>1. ASSUME NEW r \in Runs, NEW p \in Payloads, StartIngestionRun(r, p)
        PROVE  TypeOK'
    BY <1>1 DEF StartIngestionRun, TypeOK, Goto, session, Statuses, Stages
  <1>2. ASSUME NEW r \in Runs, FindRawSnapshot(r) PROVE TypeOK'
    BY <1>2 DEF FindRawSnapshot, TypeOK, Goto, tables, session, Stages
  <1>3. ASSUME NEW r \in Runs, OpenPayloadFile(r) PROVE TypeOK'
    BY <1>3 DEF OpenPayloadFile, TypeOK, Goto, tables, session, Stages
  <1>4. ASSUME NEW r \in Runs, WritePayloadFile(r) PROVE TypeOK'
    BY <1>4 DEF WritePayloadFile, TypeOK, Goto, tables, session, Stages
  <1>5. ASSUME NEW r \in Runs, InsertRawSnapshot(r) PROVE TypeOK'
    <2>1. CASE Raise(r)
      BY <1>5, <2>1, RaiseType DEF InsertRawSnapshot
    <2>2. CASE ~Raise(r)
      BY <1>5, <2>2 DEF InsertRawSnapshot, TypeOK, Goto, tables, session, Stages
    <2> QED
      BY <2>1, <2>2
  <1>6. ASSUME NEW r \in Runs, ParsePayload(r) PROVE TypeOK'
    <2>1. CASE Raise(r)
      BY <1>6, <2>1, RaiseType DEF ParsePayload
    <2>2. CASE ~Raise(r)
      BY <1>6, <2>2 DEF ParsePayload, TypeOK, Goto, tables, session, Stages
    <2> QED
      BY <2>1, <2>2
  <1>7. ASSUME NEW r \in Runs, GetCurrentRecord(r) PROVE TypeOK'
    <2> DEFINE found == {kv \in Revs : kv[1] = Record(r)[1] /\ rows[kv].cur}
    <2>1. \A kv \in Revs : Load(mem[r][kv], TRUE) \in Loaded
      BY LoadedOps DEF TypeOK
    <2>2. mem' \in [Runs -> [Revs -> Loaded]]
      BY <1>7, <2>1, NotLoadedType DEF GetCurrentRecord, TypeOK
    <2>3. CASE Record(r) \in found
      <3>1. /\ pos' = [pos EXCEPT ![r] = @ + 1]
            /\ UNCHANGED <<pc, current>>
        BY <1>7, <2>3 DEF GetCurrentRecord
      <3>2. pos' \in [Runs -> Nat \ {0}]
        BY <3>1 DEF TypeOK
      <3> QED
        BY <1>7, <2>2, <3>1, <3>2 DEF GetCurrentRecord, TypeOK, tables
    <2>4. CASE Record(r) \notin found
      <3>1. /\ current' = [current EXCEPT ![r] = found]
            /\ pc' = [pc EXCEPT ![r] = "matching"]
            /\ UNCHANGED pos
        BY <1>7, <2>4 DEF GetCurrentRecord, Goto
      <3>2. current' \in [Runs -> SUBSET Revs]
        BY <3>1 DEF TypeOK
      <3> QED
        BY <1>7, <2>2, <3>1, <3>2 DEF GetCurrentRecord, TypeOK, tables, Stages
    <2> QED
      BY <2>3, <2>4
  <1>8. ASSUME NEW r \in Runs, GetExistingRevision(r) PROVE TypeOK'
    <2> DEFINE new == Record(r)
               retired == [kv \in Revs |-> IF kv \in current[r]
                     THEN Retire(mem[r][kv]) ELSE mem[r][kv]]
               reused == [retired EXCEPT ![new] = Reuse(Load(@, rows[new].cur))]
    <2>1. pc[r] = "matching" /\ new \in Revs
      BY <1>8, RecordType DEF GetExistingRevision, TypeOK
    <2>2. retired \in [Revs -> Loaded]
      <3>1. \A m \in Loaded : Retire(m) \in Loaded
        BY LoadedOps
      <3> QED
        BY <3>1 DEF TypeOK
    <2>3. reused \in [Revs -> Loaded]
      <3>1. rows[new].cur \in BOOLEAN
        BY <2>1 DEF TypeOK, Row
      <3> HIDE DEF retired
      <3> QED
        BY <2>1, <2>2, <3>1, LoadedOps
    <2>4. mem' = [mem EXCEPT ![r] = reused] \/ mem' = [mem EXCEPT ![r] = retired]
      BY <1>8 DEF GetExistingRevision
    <2>5. mem' \in [Runs -> [Revs -> Loaded]]
      <3> HIDE DEF retired, reused
      <3> QED BY <2>2, <2>3, <2>4 DEF TypeOK
    <2>6. adds' \in [Runs -> Seq(Revs)]
      <3>1. adds' = adds \/ adds' = [adds EXCEPT ![r] = Append(@, new)]
        BY <1>8 DEF GetExistingRevision
      <3>2. Append(adds[r], new) \in Seq(Revs)
        BY <2>1 DEF TypeOK
      <3> QED BY <3>1, <3>2 DEF TypeOK
    <2>7. /\ pos' = [pos EXCEPT ![r] = @ + 1]
          /\ current' = [current EXCEPT ![r] = {}]
          /\ pc' = [pc EXCEPT ![r] = "loading"]
          /\ UNCHANGED <<tables, payload, files, newSnap, pend>>
      BY <1>8 DEF GetExistingRevision, Goto
    <2>8. pos' \in [Runs -> Nat \ {0}] /\ current' \in [Runs -> SUBSET Revs]
      BY <2>7 DEF TypeOK
    <2>9. \A q \in Runs : pc'[q] = "matching" => q # r
      BY <2>7 DEF TypeOK
    <2> QED
      BY <2>1, <2>5, <2>6, <2>7, <2>8, <2>9 DEF TypeOK, tables, Stages
  <1>9. ASSUME NEW r \in Runs, NEW kv \in Revs, FlushUpdate(r, kv) PROVE TypeOK'
    <2>1. CASE Raise(r)
      BY <1>9, <2>1, RaiseType DEF FlushUpdate, Flushing
    <2>2. CASE ~Raise(r)
      <3>1. /\ pend' = [pend EXCEPT ![r][kv] = Updated(r, kv)]
            /\ mem' = [mem EXCEPT ![r][kv] = Flushed(@)]
            /\ UNCHANGED <<pc, newSnap, adds, pos, current>>
            /\ UNCHANGED <<tables, payload, files>>
        BY <1>9, <2>2 DEF FlushUpdate
      <3>3. pend' \in [Runs -> [Revs -> Row]]
        BY <3>1, UpdatedType DEF TypeOK
      <3>4. mem' \in [Runs -> [Revs -> Loaded]]
        BY <3>1, LoadedOps DEF TypeOK
      <3> QED
        BY <3>1, <3>3, <3>4 DEF TypeOK, tables
    <2> QED
      BY <2>1, <2>2
  <1>10. ASSUME NEW r \in Runs, FlushInsert(r) PROVE TypeOK'
    <2> DEFINE kv == Head(adds[r])
    <2>1. CASE Raise(r)
      BY <1>10, <2>1, RaiseType DEF FlushInsert, Flushing
    <2>2. CASE ~Raise(r)
      <3>1. PICK n \in 1..MaxId :
               pend' = [pend EXCEPT ![r][kv] = [id |-> n, cur |-> TRUE, run |-> r]]
        BY <1>10, <2>2 DEF FlushInsert
      <3>2. /\ adds' = [adds EXCEPT ![r] = Tail(@)]
            /\ UNCHANGED <<pc, newSnap, mem, pos, current>>
            /\ UNCHANGED <<tables, payload, files>>
            /\ adds[r] # <<>>
        BY <1>10, <2>2 DEF FlushInsert
      <3>3. [id |-> n, cur |-> TRUE, run |-> r] \in Row
        BY IngestionAssumption DEF Row
      <3>4. pend' \in [Runs -> [Revs -> Row]]
        BY <3>1, <3>3 DEF TypeOK
      <3>5. adds' \in [Runs -> Seq(Revs)]
        BY <3>2 DEF TypeOK
      <3> QED
        BY <3>2, <3>4, <3>5 DEF TypeOK, tables
    <2> QED
      BY <2>1, <2>2
  <1>11. ASSUME NEW r \in Runs, DeadlockDetected(r) PROVE TypeOK'
    <2>1. pc[r] # "idle"
      BY <1>11 DEF DeadlockDetected, Deadlocked, BlockedBy, Flushing
    <2> QED
      BY <1>11, <2>1, RaiseType DEF DeadlockDetected
  <1>12. ASSUME NEW r \in Runs, CommitSucceeded(r) PROVE TypeOK'
    <2>1. rows' \in [Revs -> Row]
      BY <1>12 DEF CommitSucceeded, Seen, TypeOK
    <2>2. snaps' \in SUBSET Payloads
      BY <1>12 DEF CommitSucceeded, Flushing, TypeOK
    <2>3. \A s \in Runs : pc'[s] = "matching" => pos'[s] <= Len(Records[payload'[s]])
      BY <1>12 DEF CommitSucceeded, Goto, Rollback, TypeOK
    <2> QED
      BY <1>12, <2>1, <2>2, <2>3, RollbackType
         DEF CommitSucceeded, TypeOK, Goto, Statuses, Stages, Flushing
  <1>13. ASSUME NEW r \in Runs, MarkFailed(r) PROVE TypeOK'
    BY <1>13 DEF MarkFailed, TypeOK, Goto, session, Statuses, Stages
  <1>14. ASSUME NEW r \in Runs, StorageError(r) PROVE TypeOK'
    BY <1>14, RaiseType DEF StorageError
  <1>15. ASSUME NEW r \in Runs, Crash(r) PROVE TypeOK'
    <2>1. \A s \in Runs : pc'[s] = "matching" => pos'[s] <= Len(Records[payload'[s]])
      BY <1>15 DEF Crash, Goto, Rollback, TypeOK
    <2> QED
      BY <1>15, <2>1, RollbackType DEF Crash, TypeOK, Goto, tables, Stages, Open
  <1>16. CASE UNCHANGED vars
    BY <1>16 DEF vars, TypeOK
  <1> QED
    BY <1>1, <1>2, <1>3, <1>4, <1>5, <1>6, <1>7, <1>8, <1>9, <1>10, <1>11,
       <1>12, <1>13, <1>14, <1>15, <1>16 DEF Next, Step

(* Every variable keeps its type, for any constants. *)
THEOREM TypeInvariant == Spec => []TypeOK
  BY TypeInit, TypeStep, PTL DEF Spec

-----------------------------------------------------------------------------
(* One current revision per key *)

Safety == OneCurrentRevision /\ RowLocks /\ PendingCurrent
Discipline == Quiet /\ DirtyUnwritten

LEMMA LoadedSeen ==
  ASSUME NEW m \in Loaded, NEW b \in BOOLEAN
  PROVE  /\ Retire(m).seen = m.seen
         /\ Flushed(m).seen = m.seen
         /\ Reuse(m).seen = m.seen
         /\ Load(m, b).seen
  BY DEF Load, Retire, Reuse, Flushed, Loaded

LEMMA KeepsSeen ==
  \A m \in Loaded : Retire(m).seen = m.seen /\ Flushed(m).seen = m.seen
  BY DEF Retire, Flushed, Loaded

LEMMA LoadedStep == IInv /\ [Next]_vars => LoadedExist'
  <1> SUFFICES ASSUME IInv, [Next]_vars PROVE LoadedExist'
    OBVIOUS
  <1>1. CASE UNCHANGED <<rows, mem>>
    BY <1>1 DEF IInv, LoadedExist, Exists
  <1>2. ASSUME NEW r \in Runs, Rollback(r), rows' = rows PROVE LoadedExist'
    <2>1. \A q \in Runs, kv \in Revs : mem'[q][kv].seen => mem[q][kv].seen
      BY <1>2 DEF Rollback, IInv, TypeOK, NotLoaded
    <2> QED
      BY <1>2, <2>1 DEF IInv, LoadedExist, Exists
  <1>3. ASSUME NEW r \in Runs, GetCurrentRecord(r) PROVE LoadedExist'
    <2>1. rows' = rows
      BY <1>3 DEF GetCurrentRecord, tables
    <2>2. \A q \in Runs, kv \in Revs : mem'[q][kv].seen => mem[q][kv].seen \/ rows[kv].cur
      BY <1>3 DEF GetCurrentRecord, IInv, TypeOK, NotLoaded
    <2> QED
      BY <2>1, <2>2 DEF IInv, LoadedExist, Exists
  <1>4. ASSUME NEW r \in Runs, GetExistingRevision(r) PROVE LoadedExist'
    <2> DEFINE new == Record(r)
               retired == [kv \in Revs |-> IF kv \in current[r]
                             THEN Retire(mem[r][kv]) ELSE mem[r][kv]]
    <2>1. rows' = rows
      BY <1>4 DEF GetExistingRevision, tables
    <2>2. \A kv \in Revs : retired[kv].seen = mem[r][kv].seen
      BY KeepsSeen DEF IInv, TypeOK
    <2>3. \/ mem' = [mem EXCEPT ![r] = retired]
          \/ /\ Exists(rows[new])
             /\ mem' = [mem EXCEPT ![r] =
                   [retired EXCEPT ![new] = Reuse(Load(@, rows[new].cur))]]
      BY <1>4 DEF GetExistingRevision
    <2>4. DOMAIN retired = Revs
      OBVIOUS
    <2> HIDE DEF new, retired
    <2>5. \A q \in Runs, kv \in Revs : mem'[q][kv].seen => mem[q][kv].seen \/ Exists(rows[kv])
      <3> SUFFICES ASSUME NEW q \in Runs, NEW kv \in Revs, mem'[q][kv].seen,
                          ~Exists(rows[kv])
                   PROVE  mem[q][kv].seen
        OBVIOUS
      <3>1. mem \in [Runs -> [Revs -> Loaded]]
        BY DEF IInv, TypeOK
      <3>2. CASE q # r
        BY <2>3, <3>1, <3>2
      <3>3. CASE q = r
        <4>1. mem'[r][kv] = retired[kv]
          BY <2>3, <2>4, <3>1
        <4> QED
          BY <2>2, <3>3, <4>1
      <3> QED
        BY <3>2, <3>3
    <2> QED
      BY <2>1, <2>5 DEF IInv, LoadedExist, Exists
  <1>5. ASSUME NEW r \in Runs, NEW kv \in Revs, FlushUpdate(r, kv), ~Raise(r)
        PROVE  LoadedExist'
    <2>1. rows' = rows /\ mem' = [mem EXCEPT ![r][kv] = Flushed(@)]
      BY <1>5 DEF FlushUpdate, tables
    <2>2. \A q \in Runs, o \in Revs : mem'[q][o].seen = mem[q][o].seen
      BY <2>1, KeepsSeen DEF IInv, TypeOK
    <2> QED
      BY <2>1, <2>2 DEF IInv, LoadedExist, Exists
  <1>6. ASSUME NEW r \in Runs, CommitSucceeded(r) PROVE LoadedExist'
    <2>1. \A q \in Runs, kv \in Revs : mem'[q][kv].seen => mem[q][kv].seen
      BY <1>6 DEF CommitSucceeded, Rollback, IInv, TypeOK, NotLoaded
    <2>2. \A kv \in Revs : rows'[kv] = Seen(r, kv)
      BY <1>6 DEF CommitSucceeded
    <2>3. \A kv \in Revs : Exists(rows[kv]) => Exists(rows'[kv])
      BY <2>2 DEF Seen
    <2>4. \A kv \in Revs : rows'[kv].cur => Exists(rows'[kv])
      BY <2>2 DEF Seen, IInv, LoadedExist
    <2> QED
      BY <2>1, <2>3, <2>4 DEF IInv, LoadedExist, Exists
  <1>7. CASE UNCHANGED vars
    BY <1>7, <1>1 DEF vars
  <1> QED
    BY <1>1, <1>2, <1>3, <1>4, <1>5, <1>6, <1>7
       DEF Next, Step, StartIngestionRun, FindRawSnapshot, OpenPayloadFile,
           WritePayloadFile, StorageError, InsertRawSnapshot, ParsePayload,
           FlushUpdate, FlushInsert, DeadlockDetected, MarkFailed, Crash,
           Raise, tables, session

(* Nothing but r's own stage, session and payload changes. *)
OthersUnchanged(r) ==
    \A q \in Runs \ {r} :
        /\ pc'[q] = pc[q]
        /\ pos'[q] = pos[q]
        /\ payload'[q] = payload[q]
        /\ mem'[q] = mem[q]

(* A step of a run that is not flushing writes no row. *)
LEMMA Preparing ==
  ASSUME IInv, NEW r \in Runs, ~Flushing(r), UNCHANGED <<rows, pend>>,
         OthersUnchanged(r)
  PROVE  Safety' /\ Discipline'
  <1>1. Safety'
    BY DEF IInv, Safety, OneCurrentRevision, RowLocks, PendingCurrent, Seen, Exists
  <1>2. \A kv \in Revs : ~Exists(pend'[r][kv])
    BY DEF IInv, Quiet
  <1>3. Quiet'
    BY <1>2 DEF IInv, Quiet, Flushing, OthersUnchanged, Exists
  <1>4. DirtyUnwritten'
    BY <1>2 DEF IInv, DirtyUnwritten, Dirty, OthersUnchanged, Exists
  <1> QED
    BY <1>1, <1>3, <1>4 DEF Discipline

LEMMA RollbackPend ==
  ASSUME TypeOK, NEW r \in Runs, Rollback(r)
  PROVE  /\ \A kv \in Revs : ~Exists(pend'[r][kv])
         /\ \A q \in Runs \ {r}, kv \in Revs : pend'[q][kv] = pend[q][kv]
         /\ \A q \in Runs \ {r} : pos'[q] = pos[q] /\ mem'[q] = mem[q]
  BY NoRowType DEF TypeOK, Rollback, Exists

(* So does dropping the uncommitted rows of a transaction. *)
LEMMA RolledBack ==
  ASSUME IInv, NEW r \in Runs, Rollback(r), rows' = rows, OthersUnchanged(r)
  PROVE  Safety' /\ Discipline'
  <1>1. /\ \A kv \in Revs : ~Exists(pend'[r][kv])
        /\ \A q \in Runs \ {r}, kv \in Revs : pend'[q][kv] = pend[q][kv]
    BY RollbackPend DEF IInv
  <1>2. OneCurrentRevision'
    BY DEF IInv, OneCurrentRevision
  <1>3. RowLocks'
    BY <1>1 DEF IInv, RowLocks, Exists
  <1>4. PendingCurrent'
    <2> SUFFICES ASSUME NEW q \in Runs \ {r}, NEW kv \in Revs,
                        Exists(pend[q][kv]), pend[q][kv].cur,
                        NEW other \in SameKey(kv)
                 PROVE  /\ ~Seen(q, other)'.cur
                        /\ \A t \in Runs \ {q} : Exists(pend'[t][other]) =>
                              ~pend'[t][other].cur /\ ~rows'[other].cur
      BY <1>1 DEF PendingCurrent, Exists
    <2>1. other \in Revs
      BY DEF SameKey
    <2> QED
      BY <1>1, <2>1 DEF IInv, PendingCurrent, Seen, Exists
  <1>5. Quiet'
    BY <1>1 DEF IInv, Quiet, Flushing, OthersUnchanged, Exists
  <1>6. DirtyUnwritten'
    BY <1>1 DEF IInv, DirtyUnwritten, Dirty, OthersUnchanged, Exists
  <1> QED
    BY <1>2, <1>3, <1>4, <1>5, <1>6 DEF Safety, Discipline

(* One UPDATE or INSERT that got past the locks and the partial index. *)
LEMMA Wrote ==
  ASSUME IInv, NEW r \in Runs, NEW kv \in Revs, NEW v \in Row, Exists(v),
         rows' = rows, pend' = [pend EXCEPT ![r][kv] = v],
         ~Locked(r, kv), ~Exists(pend[r][kv]),
         v.cur /\ ~rows[kv].cur => ~KeyClash(r, kv) /\ KeyBusyWith(r, kv) = {}
  PROVE  Safety'
  <1>1. /\ pend'[r][kv] = v
        /\ \A q \in Runs, o \in Revs : q # r \/ o # kv => pend'[q][o] = pend[q][o]
    BY DEF IInv, TypeOK
  <1>2. \A s \in Runs \ {r} : ~Exists(pend[s][kv])
    BY DEF Locked
  <1>3. OneCurrentRevision'
    BY DEF IInv, OneCurrentRevision
  <1>4. RowLocks'
    BY <1>1, <1>2 DEF IInv, RowLocks, Exists
  <1>5. \A other \in SameKey(kv) : other \in Revs /\ other # kv /\ kv \in SameKey(other)
    BY DEF SameKey
  <1>6. ASSUME v.cur, NEW other \in SameKey(kv)
        PROVE  /\ ~Seen(r, other).cur
               /\ \A s \in Runs \ {r} : Exists(pend[s][other]) =>
                     ~pend[s][other].cur /\ ~rows[other].cur
    <2>1. CASE rows[kv].cur
      <3>1. ~rows[other].cur
        BY <2>1, <1>5 DEF IInv, OneCurrentRevision
      <3>2. \A s \in Runs : Seen(s, kv) = rows[kv]
        BY <1>2 DEF Seen
      <3>3. \A s \in Runs : Exists(pend[s][other]) => ~pend[s][other].cur
        BY <2>1, <3>2, <1>5 DEF IInv, PendingCurrent
      <3> QED
        BY <3>1, <3>3 DEF Seen
    <2>2. CASE ~rows[kv].cur
      <3>1. \A s \in Runs \ {r} : Exists(pend[s][other]) =>
               ~pend[s][other].cur /\ ~rows[other].cur
        BY <1>6, <2>2 DEF KeyBusyWith
      <3>2. CASE Locked(r, other)
        BY <3>1, <3>2, <1>5 DEF Locked, Seen, IInv, RowLocks
      <3>3. CASE ~Locked(r, other)
        BY <1>6, <2>2, <3>1, <3>3 DEF KeyClash
      <3> QED
        BY <3>2, <3>3
    <2> QED
      BY <2>1, <2>2
  <1>7. PendingCurrent'
    <2> SUFFICES ASSUME NEW q \in Runs, NEW o \in Revs,
                        Exists(pend'[q][o]), pend'[q][o].cur,
                        NEW other \in SameKey(o)
                 PROVE  /\ ~Seen(q, other)'.cur
                        /\ \A t \in Runs \ {q} : Exists(pend'[t][other]) =>
                              ~pend'[t][other].cur /\ ~rows'[other].cur
      BY DEF PendingCurrent, Exists
    <2>1. CASE q = r /\ o = kv
      BY <2>1, <1>1, <1>5, <1>6 DEF Seen, Exists
    <2>2. CASE ~(q = r /\ o = kv)
      <3>1. /\ ~Seen(q, other).cur
            /\ \A t \in Runs \ {q} : Exists(pend[t][other]) =>
                  ~pend[t][other].cur /\ ~rows[other].cur
        BY <2>2, <1>1 DEF IInv, PendingCurrent, Exists
      <3>2. CASE other # kv
        BY <3>1, <3>2, <1>1 DEF Seen, Exists, SameKey
      <3>3. CASE other = kv
        <4>1. ~rows[kv].cur
          BY <3>1, <3>3, <1>2 DEF Seen
        <4>2. o \in SameKey(kv) /\ pend[q][o].cur /\ Exists(pend[q][o])
          BY <2>2, <3>3, <1>1 DEF SameKey, Exists
        <4>3. ~v.cur
          BY <4>2, <1>6 DEF Seen
        <4> QED
          BY <3>1, <3>3, <4>1, <4>3, <1>1, <1>2 DEF Seen, Exists
      <3> QED
        BY <3>2, <3>3
    <2> QED
      BY <2>1, <2>2
  <1> QED
    BY <1>3, <1>4, <1>7 DEF Safety

(* A commit replaces the table by the run's own view of it. *)
LEMMA Committed ==
  ASSUME IInv, NEW r \in Runs, Rollback(r), OthersUnchanged(r),
         rows' = [kv \in Revs |-> Seen(r, kv)]
  PROVE  Safety' /\ Discipline'
  <1>1. /\ \A kv \in Revs : ~Exists(pend'[r][kv])
        /\ \A q \in Runs \ {r}, kv \in Revs : pend'[q][kv] = pend[q][kv]
    BY RollbackPend DEF IInv
  <1>2. OneCurrentRevision'
    <2> SUFFICES ASSUME NEW kv \in Revs, Seen(r, kv).cur, NEW other \in SameKey(kv)
                 PROVE  ~Seen(r, other).cur
      BY DEF OneCurrentRevision, SameKey
    <2>1. other \in Revs /\ kv \in SameKey(other)
      BY DEF SameKey
    <2>2. CASE Exists(pend[r][kv])
      BY <2>2 DEF IInv, PendingCurrent, Seen
    <2>3. CASE Exists(pend[r][other])
      BY <2>1, <2>3 DEF IInv, PendingCurrent, Seen
    <2>4. CASE ~Exists(pend[r][kv]) /\ ~Exists(pend[r][other])
      BY <2>4 DEF IInv, OneCurrentRevision, Seen
    <2> QED
      BY <2>2, <2>3, <2>4
  <1>3. RowLocks'
    BY <1>1 DEF IInv, RowLocks, Exists
  <1>4. PendingCurrent'
    <2> SUFFICES ASSUME NEW q \in Runs \ {r}, NEW kv \in Revs,
                        Exists(pend[q][kv]), pend[q][kv].cur,
                        NEW other \in SameKey(kv)
                 PROVE  /\ ~Seen(q, other)'.cur
                        /\ \A t \in Runs \ {q} : Exists(pend'[t][other]) =>
                              ~pend'[t][other].cur /\ ~rows'[other].cur
      BY <1>1 DEF PendingCurrent, Exists
    <2>1. other \in Revs /\ rows'[other] = Seen(r, other)
      BY DEF SameKey
    <2>2. /\ ~Seen(q, other).cur
          /\ \A t \in Runs \ {q} : Exists(pend[t][other]) =>
                ~pend[t][other].cur /\ ~rows[other].cur
      BY DEF IInv, PendingCurrent
    <2>3. CASE Exists(pend[q][other])
      BY <2>1, <2>2, <2>3, <1>1 DEF IInv, RowLocks, Seen, Exists
    <2>4. CASE ~Exists(pend[q][other])
      <3>1. ~rows'[other].cur
        BY <2>1, <2>2, <2>4 DEF Seen
      <3> QED
        BY <3>1, <2>1, <2>2, <2>4, <1>1 DEF Seen, Exists
    <2> QED
      BY <2>3, <2>4
  <1>5. Quiet'
    BY <1>1 DEF IInv, Quiet, Flushing, OthersUnchanged, Exists
  <1>6. DirtyUnwritten'
    BY <1>1 DEF IInv, DirtyUnwritten, Dirty, OthersUnchanged, Exists
  <1> QED
    BY <1>2, <1>3, <1>4, <1>5, <1>6 DEF Safety, Discipline

LEMMA Raised ==
  ASSUME IInv, NEW r \in Runs, Raise(r), UNCHANGED <<tables, payload, files>>
  PROVE  Safety' /\ Discipline'
  BY RolledBack, RollbackPend DEF IInv, TypeOK, Raise, Goto, OthersUnchanged, tables

LEMMA IInvStep == IInv /\ [Next]_vars => Safety' /\ Discipline'
  <1> SUFFICES ASSUME IInv, [Next]_vars PROVE Safety' /\ Discipline'
    OBVIOUS
  <1> USE DEF OthersUnchanged, Goto, tables, session
  <1>1. ASSUME NEW r \in Runs, NEW p \in Payloads, StartIngestionRun(r, p)
        PROVE  Safety' /\ Discipline'
    BY <1>1, Preparing DEF StartIngestionRun, IInv, TypeOK, Flushing
  <1>2. ASSUME NEW r \in Runs, FindRawSnapshot(r) PROVE Safety' /\ Discipline'
    BY <1>2, Preparing DEF FindRawSnapshot, IInv, TypeOK, Flushing
  <1>3. ASSUME NEW r \in Runs, OpenPayloadFile(r) PROVE Safety' /\ Discipline'
    BY <1>3, Preparing DEF OpenPayloadFile, IInv, TypeOK, Flushing
  <1>4. ASSUME NEW r \in Runs, WritePayloadFile(r) PROVE Safety' /\ Discipline'
    BY <1>4, Preparing DEF WritePayloadFile, IInv, TypeOK, Flushing
  <1>5. ASSUME NEW r \in Runs, InsertRawSnapshot(r) PROVE Safety' /\ Discipline'
    <2>1. CASE Raise(r)
      BY <1>5, <2>1, Raised DEF InsertRawSnapshot
    <2>2. CASE ~Raise(r)
      BY <1>5, <2>2, Preparing DEF InsertRawSnapshot, IInv, TypeOK, Flushing
    <2> QED
      BY <2>1, <2>2
  <1>6. ASSUME NEW r \in Runs, ParsePayload(r) PROVE Safety' /\ Discipline'
    <2>1. CASE Raise(r)
      BY <1>6, <2>1, Raised DEF ParsePayload
    <2>2. CASE ~Raise(r)
      BY <1>6, <2>2, Preparing DEF ParsePayload, IInv, TypeOK, Flushing
    <2> QED
      BY <2>1, <2>2
  <1>7. ASSUME NEW r \in Runs, GetCurrentRecord(r) PROVE Safety' /\ Discipline'
    <2>1. ~Flushing(r)
      BY <1>7, IngestionAssumption DEF GetCurrentRecord, Flushing, IInv, TypeOK
    <2>2. OthersUnchanged(r)
      BY <1>7 DEF GetCurrentRecord, IInv, TypeOK
    <2> QED
      BY <1>7, <2>1, <2>2, Preparing DEF GetCurrentRecord
  <1>8. ASSUME NEW r \in Runs, GetExistingRevision(r) PROVE Safety' /\ Discipline'
    <2>1. ~Flushing(r)
      BY <1>8 DEF GetExistingRevision, Flushing
    <2>2. OthersUnchanged(r)
      BY <1>8 DEF GetExistingRevision, IInv, TypeOK
    <2> QED
      BY <1>8, <2>1, <2>2, Preparing DEF GetExistingRevision
  <1>9. ASSUME NEW r \in Runs, NEW kv \in Revs, FlushUpdate(r, kv)
        PROVE  Safety' /\ Discipline'
    <2>1. CASE Raise(r)
      BY <1>9, <2>1, Raised DEF FlushUpdate
    <2>2. CASE ~Raise(r)
      <3>1. /\ Flushing(r)
            /\ kv \in Dirty(r)
            /\ ~Locked(r, kv)
            /\ NeedsIndexCheck(r, kv) => ~KeyClash(r, kv) /\ KeyBusyWith(r, kv) = {}
            /\ pend' = [pend EXCEPT ![r][kv] = Updated(r, kv)]
            /\ mem' = [mem EXCEPT ![r][kv] = Flushed(@)]
            /\ UNCHANGED <<pc, newSnap, adds, pos, current>>
            /\ UNCHANGED <<tables, payload, files>>
        BY <1>9, <2>2 DEF FlushUpdate, NextUpdate
      <3>2. ~Exists(pend[r][kv])
        BY <3>1 DEF IInv, DirtyUnwritten
      <3>3. Safety'
        <4>1. Exists(Updated(r, kv)) /\ Updated(r, kv) \in Row
          BY <3>1, UpdatedType DEF IInv, LoadedExist, Dirty, Exists
        <4> HIDE DEF OthersUnchanged, Goto, session
        <4> QED
          BY <3>1, <3>2, <4>1, Wrote DEF NeedsIndexCheck
      <3>4. Quiet'
        BY <3>1 DEF IInv, TypeOK, Quiet, Flushing, Exists
      <3>5. kv \notin Dirty(r)'
        BY <3>1 DEF Dirty, Modified, Flushed, IInv, TypeOK, Loaded
      <3>6. DirtyUnwritten'
        BY <3>1, <3>5 DEF IInv, TypeOK, DirtyUnwritten, Dirty, Exists
      <3> QED
        BY <3>3, <3>4, <3>6 DEF Discipline
    <2> QED
      BY <2>1, <2>2
  <1>10. ASSUME NEW r \in Runs, FlushInsert(r) PROVE Safety' /\ Discipline'
    <2> DEFINE kv == Head(adds[r])
    <2>1. CASE Raise(r)
      BY <1>10, <2>1, Raised DEF FlushInsert
    <2>2. CASE ~Raise(r)
      <3>1. PICK n \in 1..MaxId :
               pend' = [pend EXCEPT ![r][kv] = [id |-> n, cur |-> TRUE, run |-> r]]
        BY <1>10, <2>2 DEF FlushInsert
      <3>2. /\ Flushing(r)
            /\ Dirty(r) = {}
            /\ ~InsertClash(r, kv)
            /\ ~Locked(r, kv)
            /\ KeyBusyWith(r, kv) = {}
            /\ adds[r] # <<>>
            /\ UNCHANGED <<pc, newSnap, mem, pos, current>>
            /\ UNCHANGED <<tables, payload, files>>
        BY <1>10, <2>2 DEF FlushInsert
      <3>3. kv \in Revs
        BY <3>2 DEF IInv, TypeOK
      <3>4. Safety'
        <4>1. [id |-> n, cur |-> TRUE, run |-> r] \in Row
          BY IngestionAssumption DEF Row
        <4>2. Exists([id |-> n, cur |-> TRUE, run |-> r])
          BY IngestionAssumption DEF Exists
        <4> HIDE DEF kv
        <4> QED
          BY <3>1, <3>2, <3>3, <4>1, <4>2, Wrote DEF InsertClash
      <3>5. Quiet'
        BY <3>1, <3>2, <3>3 DEF IInv, TypeOK, Quiet, Flushing, Exists
      <3>6. DirtyUnwritten'
        BY <3>1, <3>2, <3>3 DEF IInv, TypeOK, DirtyUnwritten, Dirty, Exists
      <3> QED
        BY <3>4, <3>5, <3>6 DEF Discipline
    <2> QED
      BY <2>1, <2>2
  <1>11. ASSUME NEW r \in Runs, DeadlockDetected(r) PROVE Safety' /\ Discipline'
    BY <1>11, Raised DEF DeadlockDetected
  <1>12. ASSUME NEW r \in Runs, CommitSucceeded(r) PROVE Safety' /\ Discipline'
    BY <1>12, Committed, RollbackPend DEF CommitSucceeded, IInv, TypeOK
  <1>13. ASSUME NEW r \in Runs, MarkFailed(r) PROVE Safety' /\ Discipline'
    BY <1>13, Preparing DEF MarkFailed, IInv, TypeOK, Flushing
  <1>14. ASSUME NEW r \in Runs, StorageError(r) PROVE Safety' /\ Discipline'
    BY <1>14, Raised DEF StorageError
  <1>15. ASSUME NEW r \in Runs, Crash(r) PROVE Safety' /\ Discipline'
    BY <1>15, RolledBack, RollbackPend DEF Crash, IInv, TypeOK
  <1>16. CASE UNCHANGED vars
    BY <1>16 DEF vars, IInv, Safety, Discipline, OneCurrentRevision, RowLocks,
       PendingCurrent, Quiet, DirtyUnwritten, Seen, Exists, Flushing, Dirty
  <1> QED
    BY <1>1, <1>2, <1>3, <1>4, <1>5, <1>6, <1>7, <1>8, <1>9, <1>10, <1>11,
       <1>12, <1>13, <1>14, <1>15, <1>16 DEF Next, Step

(* The silver table never holds two current revisions of a key, however    *)
(* many runs load, fail or crash concurrently.                             *)
THEOREM NoTwoCurrentRevisions == Spec => []OneCurrentRevision
  <1>1. Init => IInv
    BY TypeInit DEF Init, IInv, LoadedExist, OneCurrentRevision, RowLocks,
       PendingCurrent, Quiet, DirtyUnwritten, Dirty, Modified, Exists, NoRow,
       NotLoaded
  <1>2. IInv /\ [Next]_vars => IInv'
    BY TypeStep, LoadedStep, IInvStep DEF IInv, Safety, Discipline
  <1>3. IInv => OneCurrentRevision
    BY DEF IInv
  <1> QED
    BY <1>1, <1>2, <1>3, PTL DEF Spec

-----------------------------------------------------------------------------
(* Evidence: what the rows of the table rest on *)

(* A file exists before the snapshot row that points to it. *)
FilesFirst ==
    /\ SnapshotsHaveFiles
    /\ \A r \in Runs : pc[r] \in {"writing", "inserting"} => files[payload[r]] # "absent"
    /\ \A r \in newSnap : files[payload[r]] # "absent"

(* A run loads only with a snapshot row, committed or its own. *)
SnapshotFirst ==
    \A r \in Runs :
        /\ r \in newSnap => pc[r] \in {"parsing", "loading", "matching"}
        /\ pc[r] \in {"parsing", "loading", "matching"} =>
              payload[r] \in snaps \/ r \in newSnap

(* A run whose outcome is recorded does nothing more, except that one that *)
(* never heard of its commit may call itself failed.                       *)
Ended ==
    \A r \in Runs :
        /\ status[r] = "failed" => pc[r] = "done"
        /\ status[r] = "succeeded" =>
              \/ pc[r] \in {"done", "crashed"}
              \/ "lostack" \in Faults /\ pc[r] = "failing"

(* Objects and row versions live only while a run loads. *)
Blank ==
    \A r \in Runs : pc[r] \notin {"loading", "matching"} =>
        adds[r] = <<>> /\ \A kv \in Revs : mem[r][kv] = NotLoaded

(* What a session is about to write under its own name, its payload says;  *)
(* a row it only retires keeps its name.                                   *)
Collected(r, kv) ==
    /\ mem[r][kv].own => kv \in Said(payload[r])
    /\ (\E i \in DOMAIN adds[r] : adds[r][i] = kv) => kv \in Said(payload[r])

Writes(r, kv) ==
    Exists(pend[r][kv]) =>
        \/ Exists(rows[kv]) /\ pend[r][kv].run = rows[kv].run
        \/ pend[r][kv].run = r /\ kv \in Said(payload[r])

OwnWrites == \A r \in Runs, kv \in Revs : Collected(r, kv) /\ Writes(r, kv)

EInv ==
    /\ IInv
    /\ FilesFirst
    /\ SnapshotFirst
    /\ Ended
    /\ Blank
    /\ OwnWrites
    /\ RowsTraceToEvidence

-----------------------------------------------------------------------------
(* The actions, with what they share *)

LEMMA RaiseEffect ==
  ASSUME TypeOK, NEW r \in Runs, Raise(r), UNCHANGED <<tables, payload, files>>
  PROVE  /\ pc' = [pc EXCEPT ![r] = "failing"]
         /\ newSnap' = newSnap \ {r}
         /\ UNCHANGED <<status, snaps, rows, payload, files>>
  BY DEF Raise, Goto, Rollback, tables

LEMMA FilesStep == TypeOK /\ FilesFirst /\ SnapshotFirst /\ [Next]_vars => FilesFirst'
  <1> SUFFICES ASSUME TypeOK, FilesFirst, SnapshotFirst, [Next]_vars
               PROVE  FilesFirst'
    OBVIOUS
  <1> USE DEF Goto, tables, FilesFirst, SnapshotsHaveFiles
  <1>1. ASSUME NEW r \in Runs, NEW p \in Payloads, StartIngestionRun(r, p)
        PROVE  FilesFirst'
    BY <1>1 DEF StartIngestionRun, TypeOK, SnapshotFirst
  <1>2. ASSUME NEW r \in Runs, FindRawSnapshot(r) PROVE FilesFirst'
    BY <1>2 DEF FindRawSnapshot, TypeOK
  <1>3. ASSUME NEW r \in Runs, OpenPayloadFile(r) PROVE FilesFirst'
    <2>1. \A p \in Payloads : files[p] # "absent" => files'[p] # "absent"
      BY <1>3 DEF OpenPayloadFile, TypeOK
    <2>2. files'[payload[r]] # "absent"
      BY <1>3 DEF OpenPayloadFile, TypeOK
    <2>3. \A q \in Runs : pc'[q] = pc[q] \/ q = r
      BY <1>3 DEF OpenPayloadFile, TypeOK
    <2>4. UNCHANGED <<snaps, newSnap, payload>>
      BY <1>3 DEF OpenPayloadFile
    <2> QED
      BY <2>1, <2>2, <2>3, <2>4 DEF TypeOK, SnapshotFirst
  <1>4. ASSUME NEW r \in Runs, WritePayloadFile(r) PROVE FilesFirst'
    BY <1>4 DEF WritePayloadFile, TypeOK, SnapshotFirst
  <1>5. ASSUME NEW r \in Runs, InsertRawSnapshot(r) PROVE FilesFirst'
    <2>1. CASE Raise(r)
      BY <1>5, <2>1, RaiseEffect DEF InsertRawSnapshot, TypeOK
    <2>2. CASE ~Raise(r)
      BY <1>5, <2>2 DEF InsertRawSnapshot, TypeOK
    <2> QED
      BY <2>1, <2>2
  <1>6. ASSUME NEW r \in Runs, Raise(r), UNCHANGED <<tables, payload, files>>
        PROVE  FilesFirst'
    BY <1>6, RaiseEffect DEF TypeOK
  <1>7. ASSUME NEW r \in Runs, UNCHANGED <<snaps, payload, files, newSnap>>,
               \/ pc' = pc
               \/ \E s \in {"loading", "matching", "done"} : pc' = [pc EXCEPT ![r] = s]
        PROVE  FilesFirst'
    BY <1>7 DEF TypeOK
  <1>8. ASSUME NEW r \in Runs, CommitSucceeded(r) PROVE FilesFirst'
    BY <1>8 DEF CommitSucceeded, Rollback, TypeOK
  <1>9. ASSUME NEW r \in Runs, Crash(r) PROVE FilesFirst'
    BY <1>9 DEF Crash, Rollback, TypeOK
  <1>10. ASSUME NEW r \in Runs, ParsePayload(r) PROVE FilesFirst'
    BY <1>10, <1>6, <1>7 DEF ParsePayload
  <1>11. ASSUME NEW r \in Runs, GetCurrentRecord(r) PROVE FilesFirst'
    BY <1>11, <1>7 DEF GetCurrentRecord
  <1>12. ASSUME NEW r \in Runs, GetExistingRevision(r) PROVE FilesFirst'
    BY <1>12, <1>7 DEF GetExistingRevision
  <1>13. ASSUME NEW r \in Runs, NEW kv \in Revs, FlushUpdate(r, kv) PROVE FilesFirst'
    BY <1>13, <1>6, <1>7 DEF FlushUpdate
  <1>14. ASSUME NEW r \in Runs, FlushInsert(r) PROVE FilesFirst'
    BY <1>14, <1>6, <1>7 DEF FlushInsert
  <1>15. ASSUME NEW r \in Runs, MarkFailed(r) PROVE FilesFirst'
    BY <1>15, <1>7 DEF MarkFailed
  <1>16. CASE UNCHANGED vars
    BY <1>16 DEF vars
  <1> QED
    BY <1>1, <1>2, <1>3, <1>4, <1>5, <1>6, <1>8, <1>9, <1>10, <1>11, <1>12,
       <1>13, <1>14, <1>15, <1>16 DEF Next, Step, DeadlockDetected, StorageError

(* How each action moves the stage of its run, its snapshot and outcome. *)
LEMMA SnapshotStep == TypeOK /\ SnapshotFirst /\ [Next]_vars => SnapshotFirst'
  <1> SUFFICES ASSUME TypeOK, SnapshotFirst, [Next]_vars PROVE SnapshotFirst'
    OBVIOUS
  <1> USE DEF Goto, tables, SnapshotFirst
  <1>1. ASSUME NEW r \in Runs, NEW p \in Payloads, StartIngestionRun(r, p)
        PROVE  SnapshotFirst'
    BY <1>1 DEF StartIngestionRun, TypeOK
  <1>2. ASSUME NEW r \in Runs, FindRawSnapshot(r) PROVE SnapshotFirst'
    BY <1>2 DEF FindRawSnapshot, TypeOK
  <1>3. ASSUME NEW r \in Runs, OpenPayloadFile(r) PROVE SnapshotFirst'
    BY <1>3 DEF OpenPayloadFile, TypeOK
  <1>4. ASSUME NEW r \in Runs, WritePayloadFile(r) PROVE SnapshotFirst'
    BY <1>4 DEF WritePayloadFile, TypeOK
  <1>5. ASSUME NEW r \in Runs, Raise(r), UNCHANGED <<tables, payload, files>>
        PROVE  SnapshotFirst'
    BY <1>5, RaiseEffect DEF TypeOK
  <1>6. ASSUME NEW r \in Runs, InsertRawSnapshot(r) PROVE SnapshotFirst'
    <2>1. CASE Raise(r)
      BY <1>5, <1>6, <2>1 DEF InsertRawSnapshot
    <2>2. CASE ~Raise(r)
      <3>1. /\ newSnap' = newSnap \cup {r}
            /\ pc' = [pc EXCEPT ![r] = "parsing"]
            /\ UNCHANGED <<snaps, payload>>
        BY <1>6, <2>2 DEF InsertRawSnapshot
      <3>2. \A q \in Runs : pc'[q] = IF q = r THEN "parsing" ELSE pc[q]
        BY <3>1 DEF TypeOK
      <3> QED
        BY <3>1, <3>2
    <2> QED
      BY <2>1, <2>2
  <1>7. ASSUME NEW r \in Runs, UNCHANGED <<snaps, payload, newSnap>>,
               pc[r] \in {"parsing", "loading", "matching"},
               \/ pc' = pc
               \/ \E s \in {"loading", "matching"} : pc' = [pc EXCEPT ![r] = s]
        PROVE  SnapshotFirst'
    BY <1>7 DEF TypeOK
  <1>8. ASSUME NEW r \in Runs, CommitSucceeded(r) PROVE SnapshotFirst'
    BY <1>8 DEF CommitSucceeded, Rollback, TypeOK
  <1>9. ASSUME NEW r \in Runs, Crash(r) PROVE SnapshotFirst'
    BY <1>9 DEF Crash, Rollback, TypeOK
  <1>10. ASSUME NEW r \in Runs, ParsePayload(r) PROVE SnapshotFirst'
    BY <1>10, <1>5, <1>7 DEF ParsePayload
  <1>11. ASSUME NEW r \in Runs, GetCurrentRecord(r) PROVE SnapshotFirst'
    BY <1>11, <1>7 DEF GetCurrentRecord
  <1>12. ASSUME NEW r \in Runs, GetExistingRevision(r) PROVE SnapshotFirst'
    BY <1>12, <1>7 DEF GetExistingRevision
  <1>13. ASSUME NEW r \in Runs, NEW kv \in Revs, FlushUpdate(r, kv)
         PROVE  SnapshotFirst'
    BY <1>13, <1>5, <1>7 DEF FlushUpdate, Flushing
  <1>14. ASSUME NEW r \in Runs, FlushInsert(r) PROVE SnapshotFirst'
    BY <1>14, <1>5, <1>7 DEF FlushInsert, Flushing
  <1>15. ASSUME NEW r \in Runs, MarkFailed(r) PROVE SnapshotFirst'
    BY <1>15 DEF MarkFailed, TypeOK
  <1>16. CASE UNCHANGED vars
    BY <1>16 DEF vars
  <1> QED
    BY <1>1, <1>2, <1>3, <1>4, <1>5, <1>6, <1>8, <1>9, <1>10, <1>11, <1>12,
       <1>13, <1>14, <1>15, <1>16 DEF Next, Step, DeadlockDetected, StorageError

(* Every raw_snapshots row points to a file that was created: the theorem  *)
(* behind the sequence of persist_raw_snapshot, file first and row second. *)
THEOREM SnapshotsKeepFiles == Spec => []SnapshotsHaveFiles
  <1>1. Init => TypeOK /\ FilesFirst /\ SnapshotFirst
    BY TypeInit DEF Init, FilesFirst, SnapshotFirst, SnapshotsHaveFiles
  <1>2. TypeOK /\ FilesFirst /\ SnapshotFirst /\ [Next]_vars
           => (TypeOK /\ FilesFirst /\ SnapshotFirst)'
    BY TypeStep, FilesStep, SnapshotStep
  <1>3. FilesFirst => SnapshotsHaveFiles
    BY DEF FilesFirst
  <1> QED
    BY <1>1, <1>2, <1>3, PTL DEF Spec

-----------------------------------------------------------------------------
(* Recorded outcomes *)

LEMMA EndedStep == TypeOK /\ Ended /\ [Next]_vars => Ended'
  <1> SUFFICES ASSUME TypeOK, Ended, [Next]_vars PROVE Ended'
    OBVIOUS
  <1> USE DEF Goto, tables, Ended
  <1>1. ASSUME NEW r \in Runs, status' = status, pc[r] \notin {"done", "crashed", "failing"},
               \A q \in Runs \ {r} : pc'[q] = pc[q]
        PROVE  Ended'
    BY <1>1
  <1>2. ASSUME NEW r \in Runs, NEW p \in Payloads, StartIngestionRun(r, p)
        PROVE  Ended'
    BY <1>2 DEF StartIngestionRun, TypeOK
  <1>3. ASSUME NEW r \in Runs, CommitSucceeded(r) PROVE Ended'
    BY <1>3 DEF CommitSucceeded, TypeOK
  <1>4. ASSUME NEW r \in Runs, MarkFailed(r) PROVE Ended'
    BY <1>4 DEF MarkFailed, TypeOK
  <1>5. ASSUME NEW r \in Runs, Crash(r) PROVE Ended'
    BY <1>5 DEF Crash, TypeOK, Open
  <1>6. ASSUME NEW r \in Runs, Raise(r), UNCHANGED <<tables, payload, files>>,
               pc[r] \notin {"done", "crashed", "failing"}
        PROVE  Ended'
    BY <1>6, <1>1, RaiseEffect DEF TypeOK
  <1>7. ASSUME NEW r \in Runs,
               \/ FindRawSnapshot(r)
               \/ OpenPayloadFile(r)
               \/ WritePayloadFile(r)
        PROVE  Ended'
    BY <1>7, <1>1 DEF FindRawSnapshot, OpenPayloadFile, WritePayloadFile, TypeOK
  <1>8. ASSUME NEW r \in Runs, InsertRawSnapshot(r) PROVE Ended'
    BY <1>8, <1>1, <1>6 DEF InsertRawSnapshot, TypeOK
  <1>9. ASSUME NEW r \in Runs, ParsePayload(r) PROVE Ended'
    BY <1>9, <1>1, <1>6 DEF ParsePayload, TypeOK
  <1>10. ASSUME NEW r \in Runs, GetCurrentRecord(r) PROVE Ended'
    BY <1>10, <1>1 DEF GetCurrentRecord, TypeOK
  <1>11. ASSUME NEW r \in Runs, GetExistingRevision(r) PROVE Ended'
    BY <1>11, <1>1 DEF GetExistingRevision, TypeOK
  <1>12. ASSUME NEW r \in Runs, NEW kv \in Revs, FlushUpdate(r, kv) PROVE Ended'
    BY <1>12, <1>1, <1>6 DEF FlushUpdate, Flushing, TypeOK
  <1>13. ASSUME NEW r \in Runs, FlushInsert(r) PROVE Ended'
    BY <1>13, <1>1, <1>6 DEF FlushInsert, Flushing, TypeOK
  <1>14. ASSUME NEW r \in Runs, StorageError(r) PROVE Ended'
    BY <1>14, <1>6 DEF StorageError
  <1>15. ASSUME NEW r \in Runs, DeadlockDetected(r) PROVE Ended'
    BY <1>15, <1>6 DEF DeadlockDetected, Deadlocked, BlockedBy, Flushing
  <1>16. CASE UNCHANGED vars
    BY <1>16 DEF vars
  <1> QED
    BY <1>2, <1>3, <1>4, <1>5, <1>7, <1>8, <1>9, <1>10, <1>11, <1>12, <1>13,
       <1>14, <1>15, <1>16 DEF Next, Step

-----------------------------------------------------------------------------
(* Sessions *)

LEMMA RollbackBlank ==
  ASSUME TypeOK, NEW r \in Runs, Rollback(r)
  PROVE  /\ adds'[r] = <<>>
         /\ \A kv \in Revs : mem'[r][kv] = NotLoaded
         /\ \A q \in Runs \ {r} : adds'[q] = adds[q] /\ mem'[q] = mem[q]
  BY DEF TypeOK, Rollback

LEMMA BlankStep == TypeOK /\ Blank /\ [Next]_vars => Blank'
  <1> SUFFICES ASSUME TypeOK, Blank, [Next]_vars PROVE Blank'
    OBVIOUS
  <1> USE DEF Goto, tables, session, Blank
  <1>1. ASSUME NEW r \in Runs, UNCHANGED <<mem, adds>>,
               \A q \in Runs \ {r} : pc'[q] = pc[q],
               pc[r] \notin {"loading", "matching"} \/ pc'[r] = pc[r]
        PROVE  Blank'
    BY <1>1
  <1>2. ASSUME NEW r \in Runs, Rollback(r), \A q \in Runs \ {r} : pc'[q] = pc[q]
        PROVE  Blank'
    BY <1>2, RollbackBlank
  <1>3. ASSUME NEW r \in Runs, Raise(r) PROVE Blank'
    BY <1>3, <1>2 DEF Raise, TypeOK
  <1>4. ASSUME NEW r \in Runs, pc'[r] \in {"loading", "matching"},
               \A q \in Runs \ {r} :
                  pc'[q] = pc[q] /\ adds'[q] = adds[q] /\ mem'[q] = mem[q]
        PROVE  Blank'
    BY <1>4
  <1>5. ASSUME NEW r \in Runs, NEW p \in Payloads, StartIngestionRun(r, p)
        PROVE  Blank'
    BY <1>5, <1>1 DEF StartIngestionRun, TypeOK
  <1>6. ASSUME NEW r \in Runs,
               \/ FindRawSnapshot(r)
               \/ OpenPayloadFile(r)
               \/ WritePayloadFile(r)
               \/ MarkFailed(r)
        PROVE  Blank'
    BY <1>6, <1>1 DEF FindRawSnapshot, OpenPayloadFile, WritePayloadFile, MarkFailed, TypeOK
  <1>7. ASSUME NEW r \in Runs, InsertRawSnapshot(r) PROVE Blank'
    BY <1>7, <1>1, <1>3 DEF InsertRawSnapshot, TypeOK
  <1>8. ASSUME NEW r \in Runs, ParsePayload(r) PROVE Blank'
    BY <1>8, <1>1, <1>3 DEF ParsePayload, TypeOK
  <1>9. ASSUME NEW r \in Runs, GetCurrentRecord(r) PROVE Blank'
    BY <1>9, <1>4 DEF GetCurrentRecord, TypeOK
  <1>10. ASSUME NEW r \in Runs, GetExistingRevision(r) PROVE Blank'
    BY <1>10, <1>4 DEF GetExistingRevision, TypeOK
  <1>11. ASSUME NEW r \in Runs, NEW kv \in Revs, FlushUpdate(r, kv) PROVE Blank'
    BY <1>11, <1>3, <1>4 DEF FlushUpdate, Flushing, TypeOK
  <1>12. ASSUME NEW r \in Runs, FlushInsert(r) PROVE Blank'
    BY <1>12, <1>3, <1>4 DEF FlushInsert, Flushing, TypeOK
  <1>13. ASSUME NEW r \in Runs, CommitSucceeded(r) PROVE Blank'
    BY <1>13, <1>2 DEF CommitSucceeded, TypeOK
  <1>14. ASSUME NEW r \in Runs, Crash(r) PROVE Blank'
    BY <1>14, <1>2 DEF Crash, TypeOK
  <1>15. CASE UNCHANGED vars
    BY <1>15 DEF vars
  <1> QED
    BY <1>3, <1>5, <1>6, <1>7, <1>8, <1>9, <1>10, <1>11, <1>12, <1>13, <1>14,
       <1>15 DEF Next, Step, DeadlockDetected, StorageError

LEMMA LoadedOwn ==
  /\ \A m \in Loaded :
        /\ \A b \in BOOLEAN : Load(m, b).own => m.own
        /\ Retire(m).own = m.own
        /\ ~Flushed(m).own
  /\ ~NotLoaded.own
  BY DEF Load, Retire, Flushed, NotLoaded, Loaded

(* After a rollback only the other sessions matter. *)
LEMMA RollbackWrites ==
  ASSUME TypeOK, OwnWrites, NEW r \in Runs, Rollback(r), UNCHANGED payload,
         \A q \in Runs \ {r}, kv \in Revs :
            Exists(pend[q][kv]) => rows'[kv] = rows[kv]
  PROVE  OwnWrites'
  <1> SUFFICES ASSUME NEW q \in Runs, NEW kv \in Revs
               PROVE  (Collected(q, kv) /\ Writes(q, kv))'
    BY DEF OwnWrites
  <1>1. CASE q = r
    <2>1. adds'[r] = <<>> /\ ~mem'[r][kv].own
      BY RollbackBlank, LoadedOwn
    <2>2. ~Exists(pend'[r][kv])
      BY RollbackPend
    <2> QED
      BY <1>1, <2>1, <2>2 DEF Collected, Writes, Exists
  <1>2. CASE q # r
    <2>1. adds'[q] = adds[q] /\ mem'[q] = mem[q] /\ pend'[q][kv] = pend[q][kv]
      BY <1>2, RollbackBlank, RollbackPend
    <2> QED
      BY <1>2, <2>1 DEF OwnWrites, Collected, Writes, Exists
  <1> QED
    BY <1>1, <1>2

LEMMA RecordSaid ==
  ASSUME TypeOK, NEW r \in Runs, pc[r] # "idle", pos[r] <= Len(Records[payload[r]])
  PROVE  Record(r) \in Said(payload[r])
  <1>1. payload[r] \in Payloads /\ pos[r] \in Nat \ {0}
    BY DEF TypeOK
  <1>2. pos[r] \in DOMAIN Records[payload[r]]
    BY <1>1, IngestionAssumption
  <1> QED
    BY <1>2 DEF Record, Said

(* A row another transaction holds is not changed by a commit. *)
LEMMA HeldRowsStay ==
  ASSUME IInv, NEW r \in Runs, rows' = [kv \in Revs |-> Seen(r, kv)],
         NEW q \in Runs \ {r}, NEW kv \in Revs, Exists(pend[q][kv])
  PROVE  rows'[kv] = rows[kv]
  BY DEF IInv, RowLocks, Seen

LEMMA OwnWritesStep == IInv /\ Blank /\ OwnWrites /\ [Next]_vars => OwnWrites'
  <1> SUFFICES ASSUME IInv, Blank, OwnWrites, [Next]_vars PROVE OwnWrites'
    OBVIOUS
  <1> USE DEF Goto, tables, session
  <1>0. TypeOK
    BY DEF IInv
  <1>1. CASE UNCHANGED <<mem, adds, pend, rows, payload>>
    BY <1>1 DEF OwnWrites, Collected, Writes, Exists
  <1>2. ASSUME NEW r \in Runs, Rollback(r), UNCHANGED <<rows, payload>>
        PROVE  OwnWrites'
    BY <1>0, <1>2, RollbackWrites
  <1>3. ASSUME NEW r \in Runs, NEW p \in Payloads, StartIngestionRun(r, p)
        PROVE  OwnWrites'
    <2>1. /\ UNCHANGED <<mem, adds, pend, rows>>
          /\ \A q \in Runs \ {r} : payload'[q] = payload[q]
          /\ pc[r] = "idle"
      BY <1>0, <1>3 DEF StartIngestionRun, TypeOK
    <2>2. \A kv \in Revs : mem[r][kv] = NotLoaded /\ ~Exists(pend[r][kv])
      BY <2>1 DEF IInv, Blank, Quiet, Flushing
    <2>3. adds[r] = <<>>
      BY <2>1 DEF Blank
    <2>4. ~NotLoaded.own
      BY DEF NotLoaded
    <2> QED
      BY <2>1, <2>2, <2>3, <2>4 DEF OwnWrites, Collected, Writes, Exists
  <1>4. ASSUME NEW r \in Runs, GetCurrentRecord(r) PROVE OwnWrites'
    <2> DEFINE found == {kv \in Revs : kv[1] = Record(r)[1] /\ rows[kv].cur}
    <2>1. /\ mem' = [mem EXCEPT ![r] = [kv \in Revs |->
                        IF kv \in found THEN Load(@[kv], TRUE)
                        ELSE IF Modified(@[kv]) THEN @[kv] ELSE NotLoaded]]
          /\ UNCHANGED <<adds, pend, rows, payload>>
      BY <1>4 DEF GetCurrentRecord
    <2> HIDE DEF found
    <2>2. \A q \in Runs, kv \in Revs : mem'[q][kv].own => mem[q][kv].own
      <3> SUFFICES ASSUME NEW q \in Runs, NEW kv \in Revs, mem'[q][kv].own
                   PROVE  mem[q][kv].own
        OBVIOUS
      <3>1. \/ mem'[q][kv] = mem[q][kv]
            \/ mem'[q][kv] = Load(mem[q][kv], TRUE)
            \/ mem'[q][kv] = NotLoaded
        BY <1>0, <2>1 DEF TypeOK
      <3>2. mem[q][kv] \in Loaded
        BY <1>0 DEF TypeOK
      <3> QED
        BY <3>1, <3>2, LoadedOwn
    <2> QED
      BY <2>1, <2>2 DEF OwnWrites, Collected, Writes, Exists
  <1>5. ASSUME NEW r \in Runs, GetExistingRevision(r) PROVE OwnWrites'
    <2> DEFINE new == Record(r)
               retired == [kv \in Revs |-> IF kv \in current[r]
                             THEN Retire(mem[r][kv]) ELSE mem[r][kv]]
    <2>1. new \in Said(payload[r]) /\ new \in Revs
      BY <1>0, <1>5, RecordSaid, RecordType DEF GetExistingRevision, TypeOK
    <2>2. \A kv \in Revs : retired[kv].own = mem[r][kv].own
      BY <1>0, LoadedOwn DEF TypeOK
    <2>3. /\ \/ mem' = [mem EXCEPT ![r] = retired]
             \/ mem' = [mem EXCEPT ![r] =
                   [retired EXCEPT ![new] = Reuse(Load(@, rows[new].cur))]]
          /\ adds' = adds \/ adds' = [adds EXCEPT ![r] = Append(@, new)]
          /\ UNCHANGED <<pend, rows, payload>>
      BY <1>5 DEF GetExistingRevision
    <2>4. DOMAIN retired = Revs
      OBVIOUS
    <2> HIDE DEF new, retired
    <2>5. \A q \in Runs, kv \in Revs :
             mem'[q][kv].own => mem[q][kv].own \/ (q = r /\ kv = new)
      <3> SUFFICES ASSUME NEW q \in Runs, NEW kv \in Revs, ~(q = r /\ kv = new)
                   PROVE  mem'[q][kv].own = mem[q][kv].own
        OBVIOUS
      <3>1. mem \in [Runs -> [Revs -> Loaded]]
        BY <1>0 DEF TypeOK
      <3>2. CASE q # r
        BY <2>3, <3>1, <3>2
      <3>3. CASE q = r
        <4>1. mem'[r][kv] = retired[kv]
          BY <2>3, <2>4, <3>1, <3>3
        <4> QED
          BY <2>2, <3>3, <4>1
      <3> QED
        BY <3>2, <3>3
    <2>6. \A q \in Runs : \A i \in DOMAIN adds'[q] :
             (i \in DOMAIN adds[q] /\ adds'[q][i] = adds[q][i])
                \/ (q = r /\ adds'[q][i] = new)
      <3>1. adds[r] \in Seq(Revs)
        BY <1>0 DEF TypeOK
      <3>2. \A i \in DOMAIN Append(adds[r], new) :
               \/ i \in DOMAIN adds[r] /\ Append(adds[r], new)[i] = adds[r][i]
               \/ Append(adds[r], new)[i] = new
        BY <2>1, <3>1
      <3> QED
        BY <1>0, <2>3, <3>2 DEF TypeOK
    <2> QED
      BY <2>1, <2>3, <2>5, <2>6 DEF OwnWrites, Collected, Writes, Exists
  <1>6. ASSUME NEW r \in Runs, NEW kv \in Revs, FlushUpdate(r, kv), ~Raise(r)
        PROVE  OwnWrites'
    <2>1. /\ kv \in Dirty(r)
          /\ pend' = [pend EXCEPT ![r][kv] = Updated(r, kv)]
          /\ mem' = [mem EXCEPT ![r][kv] = Flushed(@)]
          /\ UNCHANGED <<adds, rows, payload>>
      BY <1>6 DEF FlushUpdate, NextUpdate
    <2>2. Exists(rows[kv])
      BY <2>1 DEF IInv, LoadedExist, Dirty
    <2>3. \A q \in Runs, o \in Revs : mem'[q][o].own => mem[q][o].own
      BY <1>0, <2>1, LoadedOwn DEF TypeOK
    <2>4. \A q \in Runs, o \in Revs :
             pend'[q][o] = IF q = r /\ o = kv THEN Updated(r, kv) ELSE pend[q][o]
      BY <1>0, <2>1 DEF TypeOK
    <2>5. \/ Updated(r, kv).run = rows[kv].run
          \/ Updated(r, kv).run = r /\ kv \in Said(payload[r])
      BY DEF Updated, OwnWrites, Collected
    <2> QED
      BY <2>1, <2>2, <2>3, <2>4, <2>5 DEF OwnWrites, Collected, Writes, Exists
  <1>7. ASSUME NEW r \in Runs, FlushInsert(r), ~Raise(r) PROVE OwnWrites'
    <2> DEFINE kv == Head(adds[r])
    <2>1. PICK n \in 1..MaxId :
             pend' = [pend EXCEPT ![r][kv] = [id |-> n, cur |-> TRUE, run |-> r]]
      BY <1>7 DEF FlushInsert
    <2>2. /\ adds[r] # <<>>
          /\ adds' = [adds EXCEPT ![r] = Tail(@)]
          /\ UNCHANGED <<mem, rows, payload>>
      BY <1>7 DEF FlushInsert
    <2>3. adds[r] \in Seq(Revs) /\ 1 \in DOMAIN adds[r] /\ kv = adds[r][1]
      BY <1>0, <2>2 DEF TypeOK
    <2>4. kv \in Revs /\ kv \in Said(payload[r])
      BY <2>3 DEF OwnWrites, Collected
    <2> HIDE DEF kv
    <2>5. \A q \in Runs : \A i \in DOMAIN adds'[q] :
             \E j \in DOMAIN adds[q] : adds'[q][i] = adds[q][j]
      <3>1. \A i \in DOMAIN Tail(adds[r]) :
               i + 1 \in DOMAIN adds[r] /\ Tail(adds[r])[i] = adds[r][i + 1]
        BY <2>2, <2>3
      <3> QED
        BY <1>0, <2>2, <3>1 DEF TypeOK
    <2>6. \A q \in Runs, o \in Revs :
             pend'[q][o] = IF q = r /\ o = kv
                           THEN [id |-> n, cur |-> TRUE, run |-> r] ELSE pend[q][o]
      BY <1>0, <2>1 DEF TypeOK
    <2> QED
      BY <2>2, <2>4, <2>5, <2>6 DEF OwnWrites, Collected, Writes, Exists
  <1>8. ASSUME NEW r \in Runs, CommitSucceeded(r) PROVE OwnWrites'
    <2>1. /\ Rollback(r)
          /\ rows' = [kv \in Revs |-> Seen(r, kv)]
          /\ UNCHANGED payload
      BY <1>8 DEF CommitSucceeded
    <2>2. \A q \in Runs \ {r}, kv \in Revs :
             Exists(pend[q][kv]) => rows'[kv] = rows[kv]
      BY <2>1, HeldRowsStay
    <2> QED
      BY <1>0, <2>1, <2>2, RollbackWrites
  <1>9. ASSUME NEW r \in Runs, Raise(r), UNCHANGED <<tables, payload, files>>
        PROVE  OwnWrites'
    BY <1>2, <1>9 DEF Raise
  <1> QED
    BY <1>1, <1>2, <1>3, <1>4, <1>5, <1>6, <1>7, <1>8, <1>9
       DEF Next, Step, FindRawSnapshot, OpenPayloadFile, WritePayloadFile,
           StorageError, InsertRawSnapshot, ParsePayload, FlushUpdate,
           FlushInsert, DeadlockDetected, MarkFailed, Crash, vars

-----------------------------------------------------------------------------
(* The trace of a row *)

LEMMA RowsStep ==
  EInv /\ [Next]_vars => RowsTraceToEvidence'
  <1> SUFFICES ASSUME EInv, [Next]_vars PROVE RowsTraceToEvidence'
    OBVIOUS
  <1> USE DEF Goto, tables, session
  <1>0. TypeOK /\ IInv
    BY DEF EInv, IInv
  <1>1. CASE UNCHANGED <<status, payload, snaps, rows>>
    BY <1>1 DEF EInv, RowsTraceToEvidence, Exists
  <1>2. ASSUME NEW r \in Runs, NEW p \in Payloads, StartIngestionRun(r, p)
        PROVE  RowsTraceToEvidence'
    <2>1. status[r] \notin {"succeeded", "failed"}
      BY <1>2 DEF EInv, Ended, StartIngestionRun
    <2>2. /\ UNCHANGED <<snaps, rows>>
          /\ \A q \in Runs \ {r} : status'[q] = status[q] /\ payload'[q] = payload[q]
      BY <1>0, <1>2 DEF StartIngestionRun, TypeOK
    <2> QED
      BY <2>1, <2>2 DEF EInv, RowsTraceToEvidence, Exists
  <1>3. ASSUME NEW r \in Runs, MarkFailed(r) PROVE RowsTraceToEvidence'
    <2>1. /\ UNCHANGED <<snaps, rows, payload>>
          /\ status' = [status EXCEPT ![r] = "failed"]
          /\ status[r] = "succeeded" => "lostack" \in Faults
      BY <1>3 DEF MarkFailed, EInv, Ended
    <2>2. \A q \in Runs : status'[q] = IF q = r THEN "failed" ELSE status[q]
      BY <1>0, <2>1 DEF TypeOK
    <2> QED
      BY <2>1, <2>2 DEF EInv, RowsTraceToEvidence, Exists
  <1>4. ASSUME NEW r \in Runs, CommitSucceeded(r) PROVE RowsTraceToEvidence'
    <2>1. /\ Flushing(r)
          /\ rows' = [kv \in Revs |-> Seen(r, kv)]
          /\ snaps' = IF r \in newSnap THEN snaps \cup {payload[r]} ELSE snaps
          /\ status' = [status EXCEPT ![r] = "succeeded"]
          /\ UNCHANGED payload
      BY <1>4 DEF CommitSucceeded
    <2>2. payload[r] \in snaps' /\ snaps \subseteq snaps'
      BY <2>1 DEF Flushing, EInv, SnapshotFirst
    <2>3. \A q \in Runs : status'[q] = IF q = r THEN "succeeded" ELSE status[q]
      BY <1>0, <2>1 DEF TypeOK
    <2>4. \A kv \in Revs :
             rows'[kv] = IF Exists(pend[r][kv]) THEN pend[r][kv] ELSE rows[kv]
      BY <2>1 DEF Seen
    <2>5. SUFFICES ASSUME NEW kv \in Revs, Exists(rows'[kv])
                   PROVE  /\ rows'[kv].run \in Runs
                          /\ \/ status'[rows'[kv].run] = "succeeded"
                             \/ /\ "lostack" \in Faults
                                /\ status'[rows'[kv].run] = "failed"
                          /\ payload'[rows'[kv].run] \in snaps'
                          /\ kv \in Said(payload'[rows'[kv].run])
      BY DEF RowsTraceToEvidence, Exists
    <2>6. CASE Exists(rows[kv]) /\ rows'[kv].run = rows[kv].run
      BY <2>1, <2>2, <2>3, <2>6 DEF EInv, RowsTraceToEvidence
    <2>7. CASE rows'[kv].run = r /\ kv \in Said(payload[r])
      BY <2>1, <2>2, <2>3, <2>7
    <2> QED
      BY <2>4, <2>5, <2>6, <2>7 DEF EInv, OwnWrites, Writes
  <1> QED
    BY <1>1, <1>2, <1>3, <1>4
       DEF Next, Step, FindRawSnapshot, OpenPayloadFile, WritePayloadFile,
           StorageError, InsertRawSnapshot, ParsePayload, GetCurrentRecord,
           GetExistingRevision, FlushUpdate, FlushInsert, DeadlockDetected,
           Crash, Raise, vars

LEMMA EvidenceInit == Init => EInv
  <1>1. Init => IInv
    BY TypeInit DEF Init, IInv, LoadedExist, OneCurrentRevision, RowLocks,
       PendingCurrent, Quiet, DirtyUnwritten, Dirty, Modified, Exists, NoRow,
       NotLoaded
  <1>2. Init => OwnWrites
    BY DEF Init, OwnWrites, Collected, Writes, Exists, NoRow, NotLoaded
  <1>3. Init => Blank
    BY DEF Init, Blank
  <1>4. Init => FilesFirst /\ SnapshotFirst /\ Ended /\ RowsTraceToEvidence
    BY DEF Init, FilesFirst, SnapshotsHaveFiles, SnapshotFirst, Ended,
       RowsTraceToEvidence, Exists, NoRow
  <1> QED
    BY <1>1, <1>2, <1>3, <1>4 DEF EInv

LEMMA EvidenceStep == EInv /\ [Next]_vars => EInv'
  <1>1. IInv /\ [Next]_vars => IInv'
    BY TypeStep, LoadedStep, IInvStep DEF IInv, Safety, Discipline
  <1> QED
    BY <1>1, FilesStep, SnapshotStep, EndedStep, BlankStep, OwnWritesStep, RowsStep
       DEF EInv, IInv

(* Every committed silver row names a run that succeeded (or, where the    *)
(* answer of a commit can be lost, calls itself failed), whose snapshot is *)
(* committed and whose payload states that record, whatever runs raced,    *)
(* failed or crashed on the way.                                           *)
THEOREM RowsAreTraced == Spec => []RowsTraceToEvidence
  <1>1. EInv => RowsTraceToEvidence
    BY DEF EInv
  <1> QED
    BY <1>1, EvidenceInit, EvidenceStep, PTL DEF Spec
=============================================================================
