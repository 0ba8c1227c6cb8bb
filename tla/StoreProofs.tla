----------------------------- MODULE StoreProofs -----------------------------
(***************************************************************************)
(* The silver table implements RevisionStore, for any number of runs, keys *)
(* and payloads and with every fault of the model.                         *)
(*                                                                         *)
(* Only commits move the table, so the argument is about what a            *)
(* transaction is allowed to hold when it commits.  Whatever it makes      *)
(* current its payload states (Announced), and it touches no other key     *)
(* (LoadedSoFar).  That no key is withdrawn is the harder half, and holds  *)
(* of the plain keys, those that no payload states twice: a session that   *)
(* comes by a key twice may take a stale object for the row that replaces  *)
(* the one it retires.  NewestCurrent is the heart of it: the current      *)
(* revision of a plain key is always its newest row, so an UPDATE that     *)
(* would reactivate an older one always meets the partial index.  Hence a  *)
(* transaction publishes only rows it inserted (Versions), and it retires  *)
(* a current row only when it has inserted another one or the row was      *)
(* superseded meanwhile (Replaced).                                        *)
(*                                                                         *)
(* The last section is about runs that do not overlap (SerialInv): such a  *)
(* run commits what its payload states.                                    *)
(***************************************************************************)
EXTENDS IngestionProofs, FiniteSetTheorems

(* A revision of a key that no payload states twice. *)
Plain(kv) == kv[1] \notin Repeated

(* The current revision of a plain key is the newest of its rows. *)
NewestCurrent ==
    \A kv \in Revs : Plain(kv) /\ Exists(rows[kv]) =>
        \E c \in Revs : c[1] = kv[1] /\ rows[c].cur /\ rows[kv].id <= rows[c].id

OneId ==
    \A kv \in Revs : Exists(rows[kv]) =>
        \A other \in SameKey(kv) : rows[other].id # rows[kv].id

(* The session of r has retired kv, now or in an earlier flush. *)
Retired(r, kv) == mem[r][kv].seen /\ ~mem[r][kv].now

(* An uncommitted row version: of an existing row, which it does not make  *)
(* current if the key is plain, or of a new one, which is current and      *)
(* newer than its key's.                                                   *)
Version(r, kv) ==
    IF Exists(rows[kv])
    THEN /\ pend[r][kv].id = rows[kv].id
         /\ Plain(kv) /\ pend[r][kv].cur => rows[kv].cur
         /\ rows[kv].cur /\ ~pend[r][kv].cur => Retired(r, kv)
    ELSE /\ pend[r][kv].cur
         /\ \A other \in SameKey(kv) : rows[other].id < pend[r][kv].id

Versions == \A r \in Runs, kv \in Revs : Exists(pend[r][kv]) => Version(r, kv)

(* Rows are updated by ascending identity, before anything is inserted. *)
UpdateOrder ==
    \A r \in Runs, a, b \in Revs : Exists(pend[r][a]) /\ b \in Dirty(r) =>
        Exists(rows[a]) /\ rows[a].id <= rows[b].id

(* r has yet to make kv current, or has made it so, uncommitted. *)
Coming(r, kv) ==
    \/ \E i \in DOMAIN adds[r] : adds[r][i] = kv
    \/ Exists(pend[r][kv]) /\ pend[r][kv].cur
    \/ mem[r][kv].seen /\ mem[r][kv].now /\ ~mem[r][kv].was

Replaced ==
    \A r \in Runs, kv \in Revs : Plain(kv) /\ Retired(r, kv) =>
        \E new \in SameKey(kv) : Coming(r, new) \/ rows[kv].id < rows[new].id

(* What r has made current, in its session or uncommitted, it was told to. *)
Announced ==
    \A r \in Runs, kv \in Revs :
        /\ mem[r][kv].seen /\ mem[r][kv].now /\ ~mem[r][kv].was
              => kv \in Said(payload[r])
        /\ Exists(pend[r][kv]) /\ pend[r][kv].cur /\ ~rows[kv].cur
              => kv \in Said(payload[r])

(* A session has loaded rows of the keys it came by; of the key in hand    *)
(* only the rows the last query returned, not yet changed.                 *)
Fresh(r, kv) ==
    pc[r] = "matching" /\ kv \in current[r] /\ mem[r][kv].was /\ mem[r][kv].now

LoadedSoFar ==
    \A r \in Runs, kv \in Revs : mem[r][kv].seen =>
        \E i \in DOMAIN Records[payload[r]] :
            /\ kv[1] = Records[payload[r]][i][1]
            /\ i < pos[r] \/ (i = pos[r] /\ Fresh(r, kv))

Matching ==
    \A r \in Runs : pc[r] = "matching" =>
        /\ Record(r) \notin current[r]
        /\ \A kv \in current[r] : mem[r][kv].seen /\ kv[1] = Record(r)[1]

TableInv == NewestCurrent /\ OneId
SessionInv == Versions /\ UpdateOrder /\ Replaced /\ Announced
ProgressInv == LoadedSoFar /\ Matching

SInv == EInv /\ TableInv /\ SessionInv /\ ProgressInv

-----------------------------------------------------------------------------
(* What a commit does to the table *)

LEMMA RowsTyped ==
  ASSUME TypeOK
  PROVE  /\ \A kv \in Revs : rows[kv] \in Row /\ rows[kv].id \in Nat /\ rows[kv].cur \in BOOLEAN
         /\ \A r \in Runs, kv \in Revs : /\ pend[r][kv] \in Row
                                         /\ pend[r][kv].id \in Nat
                                         /\ pend[r][kv].cur \in BOOLEAN
  BY DEF TypeOK, Row

LEMMA SameKeySymmetric ==
  \A kv \in Revs : \A other \in SameKey(kv) :
      /\ other \in Revs /\ other # kv /\ other[1] = kv[1] /\ kv \in SameKey(other)
      /\ Plain(other) <=> Plain(kv)
  BY DEF SameKey, Plain

(* r's transaction, ready to commit. *)
Ready(r) == Flushing(r) /\ Dirty(r) = {} /\ adds[r] = <<>>

(* A run that retires the current row of a plain key makes another one      *)
(* current.                                                                *)
LEMMA NothingWithdrawn ==
  ASSUME SInv, NEW r \in Runs, Ready(r), NEW kv \in Revs, Plain(kv),
         rows[kv].cur, ~Seen(r, kv).cur
  PROVE  \E new \in SameKey(kv) : Exists(pend[r][new]) /\ pend[r][new].cur
  <1>0. TypeOK /\ OneCurrentRevision /\ LoadedExist
    BY DEF SInv, EInv, IInv
  <1>1. Exists(pend[r][kv]) /\ ~pend[r][kv].cur /\ Exists(rows[kv])
    BY <1>0 DEF Seen, LoadedExist
  <1>2. Retired(r, kv)
    BY <1>1 DEF SInv, SessionInv, Versions, Version
  <1>3. PICK new \in SameKey(kv) : Coming(r, new) \/ rows[kv].id < rows[new].id
    BY <1>2 DEF SInv, SessionInv, Replaced
  <1>4. new \in Revs /\ new[1] = kv[1] /\ Plain(new)
    BY SameKeySymmetric
  <1>5. ~(rows[kv].id < rows[new].id)
    <2> SUFFICES ASSUME rows[kv].id < rows[new].id PROVE FALSE
      OBVIOUS
    <2>1. Exists(rows[new])
      BY <1>0, <1>1, <1>4, RowsTyped DEF Exists
    <2>2. PICK c \in Revs : c[1] = new[1] /\ rows[c].cur /\ rows[new].id <= rows[c].id
      BY <1>4, <2>1 DEF SInv, TableInv, NewestCurrent
    <2>3. c = kv
      BY <1>0, <1>4, <2>2 DEF OneCurrentRevision, SameKey
    <2> QED
      BY <1>0, <1>4, <2>2, <2>3, RowsTyped
  <1>6. new \notin Dirty(r) /\ DOMAIN adds[r] = {}
    BY DEF Ready
  <1> QED
    BY <1>3, <1>4, <1>5, <1>6 DEF Coming, Dirty, Modified

(* The identity of a row never changes. *)
LEMMA IdsKept ==
  ASSUME SInv, NEW r \in Runs, NEW kv \in Revs, Exists(rows[kv])
  PROVE  Seen(r, kv).id = rows[kv].id
  BY DEF Seen, SInv, SessionInv, Versions, Version

(* A transaction inserts at most one row of a key. *)
LEMMA OneInsert ==
  ASSUME SInv, NEW r \in Runs, NEW kv \in Revs, NEW other \in SameKey(kv),
         Exists(pend[r][kv]), ~Exists(rows[kv])
  PROVE  Exists(pend[r][other]) => Exists(rows[other])
  <1>1. pend[r][kv].cur /\ other \in Revs
    BY SameKeySymmetric DEF SInv, SessionInv, Versions, Version
  <1>2. ~Seen(r, other).cur
    BY <1>1 DEF SInv, EInv, IInv, PendingCurrent
  <1> QED
    BY <1>1, <1>2 DEF Seen, SInv, SessionInv, Versions, Version

LEMMA CommitTable ==
  ASSUME SInv, NEW r \in Runs, Ready(r), rows' = [kv \in Revs |-> Seen(r, kv)]
  PROVE  TableInv'
  <1>0. TypeOK /\ OneCurrentRevision
    BY DEF SInv, EInv, IInv
  <1>1. \A kv \in Revs : rows'[kv] = IF Exists(pend[r][kv]) THEN pend[r][kv] ELSE rows[kv]
    BY DEF Seen
  <1>2. \A kv \in Revs : Exists(rows[kv]) => rows'[kv].id = rows[kv].id
    BY IdsKept
  <1>3. ASSUME NEW new \in Revs, Exists(pend[r][new]), ~Exists(rows[new])
        PROVE  /\ rows'[new].cur
               /\ \A other \in SameKey(new) : rows'[other].id < rows'[new].id
    <2>1. Version(r, new)
      BY <1>3 DEF SInv, SessionInv, Versions
    <2>2. rows'[new] = pend[r][new]
      BY <1>1, <1>3
    <2>3. \A other \in SameKey(new) : rows'[other].id = rows[other].id
      BY <1>1, <1>2, <1>3, OneInsert, SameKeySymmetric
    <2> QED
      BY <1>3, <2>1, <2>2, <2>3 DEF Version
  <1>4. NewestCurrent'
    <2> SUFFICES ASSUME NEW kv \in Revs, Plain(kv), Exists(rows'[kv])
                 PROVE  \E c \in Revs : /\ c[1] = kv[1]
                                        /\ rows'[c].cur
                                        /\ rows'[kv].id <= rows'[c].id
      BY DEF NewestCurrent, Exists
    <2>0. rows'[kv].id \in Nat
      BY <1>0, <1>1, RowsTyped
    <2>1. ASSUME NEW new \in Revs, new[1] = kv[1], Exists(pend[r][new]), ~Exists(rows[new])
          PROVE  rows'[new].cur /\ rows'[kv].id <= rows'[new].id
      <3>1. rows'[new].id \in Nat
        BY <1>0, <1>1, RowsTyped
      <3> QED
        BY <1>3, <2>0, <2>1, <3>1 DEF SameKey
    <2>2. ASSUME \A new \in Revs : new[1] = kv[1] /\ Exists(pend[r][new]) => Exists(rows[new])
          PROVE  \E c \in Revs : c[1] = kv[1] /\ rows'[c].cur /\ rows'[kv].id <= rows'[c].id
      <3>1. Exists(rows[kv])
        BY <1>1, <2>2
      <3>2. PICK c \in Revs : c[1] = kv[1] /\ rows[c].cur /\ rows[kv].id <= rows[c].id
        BY <3>1 DEF SInv, TableInv, NewestCurrent
      <3>3. Exists(rows[c])
        BY <3>2 DEF SInv, EInv, IInv, LoadedExist
      <3>4. rows'[c].cur
        <4> SUFFICES ASSUME ~rows'[c].cur PROVE FALSE
          OBVIOUS
        <4>0. Plain(c)
          BY <3>2 DEF Plain
        <4>1. PICK new \in SameKey(c) : Exists(pend[r][new]) /\ pend[r][new].cur
          BY <3>2, <4>0, NothingWithdrawn
        <4>2. new \in Revs /\ new[1] = kv[1] /\ Plain(new)
          BY <3>2, <4>0, SameKeySymmetric
        <4>3. rows[new].cur
          BY <2>2, <4>1, <4>2 DEF SInv, SessionInv, Versions, Version
        <4> QED
          BY <1>0, <3>2, <4>3 DEF OneCurrentRevision
      <3> QED
        BY <1>2, <3>1, <3>2, <3>3, <3>4
    <2> QED
      BY <2>1, <2>2
  <1>5. OneId'
    <2> SUFFICES ASSUME NEW kv \in Revs, Exists(rows'[kv]), NEW other \in SameKey(kv)
                 PROVE  rows'[other].id # rows'[kv].id
      BY DEF OneId, Exists, SameKey
    <2>0. /\ other \in Revs /\ kv \in SameKey(other)
          /\ rows'[kv].id \in Nat /\ rows'[other].id \in Nat
      BY <1>0, <1>1, RowsTyped, SameKeySymmetric
    <2>1. CASE ~Exists(rows[kv])
      BY <1>1, <1>3, <2>0, <2>1
    <2>2. CASE ~Exists(rows[other]) /\ Exists(pend[r][other])
      BY <1>3, <2>0, <2>2
    <2>3. CASE Exists(rows[kv]) /\ Exists(rows[other])
      BY <1>2, <2>0, <2>3 DEF SInv, TableInv, OneId
    <2>4. CASE ~Exists(rows[other]) /\ ~Exists(pend[r][other])
      BY <1>1, <2>0, <2>4 DEF Exists
    <2> QED
      BY <2>1, <2>2, <2>3, <2>4
  <1> QED
    BY <1>4, <1>5 DEF TableInv

-----------------------------------------------------------------------------
(* Steps that roll a session back: exceptions, crashes and commits *)

(* Everything a session holds stays as it is. *)
SessionUnchanged(q) ==
    /\ payload'[q] = payload[q]
    /\ pos'[q] = pos[q]
    /\ current'[q] = current[q]
    /\ mem'[q] = mem[q]
    /\ adds'[q] = adds[q]
    /\ pend'[q] = pend[q]
    /\ pc'[q] = pc[q]

LEMMA RollbackOthers ==
  ASSUME TypeOK, NEW r \in Runs, NEW stage, Rollback(r), UNCHANGED payload,
         pc' = [pc EXCEPT ![r] = stage]
  PROVE  /\ \A q \in Runs \ {r} : SessionUnchanged(q)
         /\ pc'[r] = stage
         /\ \A kv \in Revs : ~mem'[r][kv].seen /\ ~Exists(pend'[r][kv])
  <1>1. /\ \A kv \in Revs : mem'[r][kv] = NotLoaded /\ ~Exists(pend'[r][kv])
        /\ pc'[r] = stage
    BY RollbackBlank, RollbackPend DEF TypeOK
  <1>2. \A q \in Runs \ {r} : SessionUnchanged(q)
    BY DEF TypeOK, Rollback, SessionUnchanged
  <1> QED
    BY <1>1, <1>2 DEF NotLoaded

(* Progress looks only at one's own session. *)
LEMMA ProgressElsewhere ==
  ASSUME SInv, NEW r \in Runs, pc'[r] # "matching",
         \A kv \in Revs : ~mem'[r][kv].seen,
         \A q \in Runs \ {r} : SessionUnchanged(q)
  PROVE  ProgressInv'
  <1>1. LoadedSoFar'
    <2> SUFFICES ASSUME NEW q \in Runs \ {r}, NEW kv \in Revs, mem'[q][kv].seen
                 PROVE  \E i \in DOMAIN Records[payload'[q]] :
                           /\ kv[1] = Records[payload'[q]][i][1]
                           /\ i < pos'[q] \/ (i = pos'[q] /\ Fresh(q, kv)')
      BY DEF LoadedSoFar
    <2> QED
      BY DEF SInv, ProgressInv, LoadedSoFar, SessionUnchanged, Fresh
  <1>2. Matching'
    BY DEF SInv, ProgressInv, Matching, SessionUnchanged, Record
  <1> QED
    BY <1>1, <1>2 DEF ProgressInv

LEMMA RollbackSessions ==
  ASSUME SInv, NEW r \in Runs, rows' = rows,
         \A kv \in Revs : ~mem'[r][kv].seen /\ ~Exists(pend'[r][kv]),
         \A q \in Runs \ {r} : SessionUnchanged(q)
  PROVE  SessionInv'
  <1>1. Versions'
    <2> SUFFICES ASSUME NEW q \in Runs \ {r}, NEW kv \in Revs, Exists(pend[q][kv])
                 PROVE  Version(q, kv)'
      BY DEF Versions, SessionUnchanged, Exists
    <2>1. Version(q, kv)
      BY DEF SInv, SessionInv, Versions
    <2> QED
      BY <2>1 DEF Version, Retired, SessionUnchanged, Exists
  <1>2. UpdateOrder'
    <2> SUFFICES ASSUME NEW q \in Runs \ {r}, NEW a \in Revs, NEW b \in Revs,
                        Exists(pend[q][a]), b \in Dirty(q)'
                 PROVE  Exists(rows[a]) /\ rows[a].id <= rows[b].id
      BY DEF UpdateOrder, SessionUnchanged, Exists
    <2>1. b \in Dirty(q)
      BY DEF Dirty, SessionUnchanged
    <2> QED
      BY <2>1 DEF SInv, SessionInv, UpdateOrder
  <1>3. Replaced'
    <2> SUFFICES ASSUME NEW q \in Runs \ {r}, NEW kv \in Revs, Plain(kv), Retired(q, kv)'
                 PROVE  \E new \in SameKey(kv) :
                           Coming(q, new)' \/ rows[kv].id < rows[new].id
      BY DEF Replaced, Retired, SameKey
    <2>1. PICK new \in SameKey(kv) : Coming(q, new) \/ rows[kv].id < rows[new].id
      BY DEF SInv, SessionInv, Replaced, Retired, SessionUnchanged
    <2>2. Coming(q, new)' = Coming(q, new)
      BY DEF Coming, SessionUnchanged, Exists
    <2> QED
      BY <2>1, <2>2
  <1>4. Announced'
    BY DEF SInv, SessionInv, Announced, SessionUnchanged, Exists
  <1> QED
    BY <1>1, <1>2, <1>3, <1>4 DEF SessionInv

LEMMA CommitSessions ==
  ASSUME SInv, NEW r \in Runs, rows' = [kv \in Revs |-> Seen(r, kv)],
         \A kv \in Revs : ~mem'[r][kv].seen /\ ~Exists(pend'[r][kv]),
         \A q \in Runs \ {r} : SessionUnchanged(q)
  PROVE  SessionInv'
  <1>0. TypeOK /\ LoadedExist /\ PendingCurrent /\ IInv
    BY DEF SInv, EInv, IInv
  <1>1. \A q \in Runs \ {r}, kv \in Revs : Exists(pend[q][kv]) => rows'[kv] = rows[kv]
    BY <1>0, HeldRowsStay
  <1>2. \A kv \in Revs : Exists(rows[kv]) => rows'[kv].id = rows[kv].id
    BY IdsKept
  <1>3. Versions'
    <2> SUFFICES ASSUME NEW q \in Runs \ {r}, NEW kv \in Revs, Exists(pend[q][kv])
                 PROVE  Version(q, kv)'
      BY DEF Versions, SessionUnchanged, Exists
    <2>1. Version(q, kv) /\ rows'[kv] = rows[kv]
      BY <1>1 DEF SInv, SessionInv, Versions
    <2>2. CASE Exists(rows[kv])
      BY <2>1, <2>2 DEF Version, Retired, SessionUnchanged, Exists
    <2>3. CASE ~Exists(rows[kv])
      <3>1. ASSUME NEW other \in SameKey(kv)
            PROVE  rows'[other].id = rows[other].id
        <4>1. other \in Revs /\ kv \in SameKey(other)
          BY SameKeySymmetric
        <4>2. ~(Exists(pend[r][other]) /\ ~Exists(rows[other]))
          <5> SUFFICES ASSUME Exists(pend[r][other]), ~Exists(rows[other]) PROVE FALSE
            OBVIOUS
          <5>1. pend[r][other].cur
            BY <4>1 DEF SInv, SessionInv, Versions, Version
          <5> QED
            BY <1>0, <2>1, <2>3, <4>1, <5>1 DEF PendingCurrent, Version
        <4> QED
          BY <1>2, <4>1, <4>2 DEF Seen
      <3> QED
        BY <2>1, <2>3, <3>1 DEF Version, SessionUnchanged, Exists, SameKey
    <2> QED
      BY <2>2, <2>3
  <1>4. UpdateOrder'
    <2> SUFFICES ASSUME NEW q \in Runs \ {r}, NEW a \in Revs, NEW b \in Revs,
                        Exists(pend[q][a]), b \in Dirty(q)'
                 PROVE  Exists(rows'[a]) /\ rows'[a].id <= rows'[b].id
      BY DEF UpdateOrder, SessionUnchanged, Exists
    <2>1. b \in Dirty(q)
      BY DEF Dirty, SessionUnchanged
    <2>2. Exists(rows[a]) /\ rows[a].id <= rows[b].id /\ rows'[a] = rows[a]
      BY <1>1, <2>1 DEF SInv, SessionInv, UpdateOrder
    <2>3. rows'[b].id = rows[b].id
      BY <1>0, <1>2, <2>1 DEF LoadedExist, Dirty
    <2> QED
      BY <2>2, <2>3
  <1>5. Replaced'
    <2> SUFFICES ASSUME NEW q \in Runs \ {r}, NEW kv \in Revs, Plain(kv), Retired(q, kv)'
                 PROVE  \E new \in SameKey(kv) :
                           Coming(q, new)' \/ rows'[kv].id < rows'[new].id
      BY DEF Replaced, Retired, SameKey
    <2>0. Retired(q, kv)
      BY DEF Retired, SessionUnchanged
    <2>1. PICK new \in SameKey(kv) : Coming(q, new) \/ rows[kv].id < rows[new].id
      BY <2>0 DEF SInv, SessionInv, Replaced
    <2>2. Coming(q, new)' = Coming(q, new)
      BY DEF Coming, SessionUnchanged, Exists
    <2>3. rows'[kv].id = rows[kv].id /\ Exists(rows[kv])
      BY <1>0, <1>2, <2>0 DEF LoadedExist, Retired
    <2>4. ASSUME rows[kv].id < rows[new].id PROVE rows'[new].id = rows[new].id
      <3>1. new \in Revs
        BY SameKeySymmetric
      <3>2. Exists(rows[new])
        BY <1>0, <2>3, <2>4, <3>1, RowsTyped DEF Exists
      <3> QED
        BY <1>2, <3>1, <3>2
    <2> QED
      BY <2>1, <2>2, <2>3, <2>4
  <1>6. Announced'
    BY <1>1 DEF SInv, SessionInv, Announced, SessionUnchanged, Exists
  <1> QED
    BY <1>3, <1>4, <1>5, <1>6 DEF SessionInv

-----------------------------------------------------------------------------
(* Steps of the loader *)

(* A step that leaves the table and every session alone, or starts one. *)
LEMMA Elsewhere ==
  ASSUME SInv, UNCHANGED <<rows, pend, mem, adds>>,
         \A q \in Runs :
            \/ /\ payload'[q] = payload[q]
               /\ pos'[q] = pos[q]
               /\ current'[q] = current[q]
               /\ pc'[q] = "matching" <=> pc[q] = "matching"
            \/ /\ pc[q] \notin {"loading", "matching"}
               /\ pc'[q] # "matching"
  PROVE  TableInv' /\ SessionInv' /\ ProgressInv'
  <1>1. TableInv'
    BY DEF SInv, TableInv, NewestCurrent, OneId, Exists
  <1>2. \A q \in Runs : pc[q] \notin {"loading", "matching"} =>
           \A kv \in Revs : ~mem[q][kv].seen /\ ~Exists(pend[q][kv])
    BY DEF SInv, EInv, IInv, Blank, NotLoaded, Quiet, Flushing
  <1>3. SessionInv'
    <2>1. Versions' /\ UpdateOrder' /\ Replaced'
      BY DEF SInv, SessionInv, Versions, Version, Retired, UpdateOrder, Dirty,
         Replaced, Coming, Exists
    <2>2. Announced'
      BY <1>2 DEF SInv, SessionInv, Announced, Exists
    <2> QED
      BY <2>1, <2>2 DEF SessionInv
  <1>4. LoadedSoFar'
    <2> SUFFICES ASSUME NEW q \in Runs, NEW kv \in Revs, mem[q][kv].seen
                 PROVE  \E i \in DOMAIN Records[payload'[q]] :
                           /\ kv[1] = Records[payload'[q]][i][1]
                           /\ i < pos'[q] \/ (i = pos'[q] /\ Fresh(q, kv)')
      BY DEF LoadedSoFar
    <2> QED
      BY <1>2 DEF SInv, ProgressInv, LoadedSoFar, Fresh
  <1>5. Matching'
    BY DEF SInv, ProgressInv, Matching, Record
  <1> QED
    BY <1>1, <1>3, <1>4, <1>5 DEF ProgressInv

(* The other sessions, in a step of r that writes no row. *)
LEMMA OthersLoad ==
  ASSUME SInv, NEW r \in Runs, rows' = rows, ~Flushing(r), pend' = pend,
         \A q \in Runs \ {r} : SessionUnchanged(q)
  PROVE  /\ TableInv'
         /\ Versions'
         /\ UpdateOrder'
         /\ \A q \in Runs \ {r}, kv \in Revs : Plain(kv) /\ Retired(q, kv)' =>
               \E new \in SameKey(kv) : Coming(q, new)' \/ rows[kv].id < rows[new].id
         /\ (\A kv \in Revs : mem'[r][kv].seen /\ mem'[r][kv].now /\ ~mem'[r][kv].was
                  => kv \in Said(payload'[r])) => Announced'
         /\ \A q \in Runs \ {r}, kv \in Revs : mem'[q][kv].seen =>
               \E i \in DOMAIN Records[payload'[q]] :
                  /\ kv[1] = Records[payload'[q]][i][1]
                  /\ i < pos'[q] \/ (i = pos'[q] /\ Fresh(q, kv)')
  <1>0. \A kv \in Revs : ~Exists(pend[r][kv])
    BY DEF SInv, EInv, IInv, Quiet
  <1>1. TableInv'
    BY DEF SInv, TableInv, NewestCurrent, OneId, Exists
  <1>2. Versions'
    <2> SUFFICES ASSUME NEW q \in Runs \ {r}, NEW kv \in Revs, Exists(pend[q][kv])
                 PROVE  Version(q, kv)'
      BY <1>0 DEF Versions, Exists
    <2>1. Version(q, kv)
      BY DEF SInv, SessionInv, Versions
    <2> QED
      BY <2>1 DEF Version, Retired, SessionUnchanged, Exists
  <1>3. UpdateOrder'
    <2> SUFFICES ASSUME NEW q \in Runs \ {r}, NEW a \in Revs, NEW b \in Revs,
                        Exists(pend[q][a]), b \in Dirty(q)'
                 PROVE  Exists(rows[a]) /\ rows[a].id <= rows[b].id
      BY <1>0 DEF UpdateOrder, Exists
    <2>1. b \in Dirty(q)
      BY DEF Dirty, SessionUnchanged
    <2> QED
      BY <2>1 DEF SInv, SessionInv, UpdateOrder
  <1>4. ASSUME NEW q \in Runs \ {r}, NEW kv \in Revs, Plain(kv), Retired(q, kv)'
        PROVE  \E new \in SameKey(kv) : Coming(q, new)' \/ rows[kv].id < rows[new].id
    <2>1. PICK new \in SameKey(kv) : Coming(q, new) \/ rows[kv].id < rows[new].id
      BY <1>4 DEF SInv, SessionInv, Replaced, Retired, SessionUnchanged
    <2>2. Coming(q, new)' = Coming(q, new)
      BY DEF Coming, SessionUnchanged, Exists
    <2> QED
      BY <2>1, <2>2
  <1>5. ASSUME NEW q \in Runs \ {r}, NEW kv \in Revs, mem'[q][kv].seen
        PROVE  \E i \in DOMAIN Records[payload'[q]] :
                  /\ kv[1] = Records[payload'[q]][i][1]
                  /\ i < pos'[q] \/ (i = pos'[q] /\ Fresh(q, kv)')
    BY <1>5 DEF SInv, ProgressInv, LoadedSoFar, SessionUnchanged, Fresh
  <1>6. ASSUME \A kv \in Revs : mem'[r][kv].seen /\ mem'[r][kv].now /\ ~mem'[r][kv].was
                  => kv \in Said(payload'[r])
        PROVE  Announced'
    BY <1>0, <1>6 DEF SInv, SessionInv, Announced, SessionUnchanged, Exists
  <1> QED
    BY <1>1, <1>2, <1>3, <1>4, <1>5, <1>6

(* The record in hand is the one record of its key, if that is plain. *)
LEMMA RecordInHand ==
  ASSUME SInv, NEW r \in Runs, pc[r] # "idle",
         pos[r] <= Len(Records[payload[r]])
  PROVE  /\ pos[r] \in DOMAIN Records[payload[r]]
         /\ Record(r) = Records[payload[r]][pos[r]]
         /\ Record(r) \in Revs
         /\ Plain(Record(r)) => \A kv \in Revs :
               mem[r][kv].seen /\ kv[1] = Record(r)[1] => Fresh(r, kv)
  <1>0. TypeOK
    BY DEF SInv, EInv, IInv
  <1>1. payload[r] \in Payloads /\ pos[r] \in Nat \ {0}
    BY <1>0 DEF TypeOK
  <1>2. pos[r] \in DOMAIN Records[payload[r]]
    BY <1>1, IngestionAssumption
  <1>3. Record(r) = Records[payload[r]][pos[r]] /\ Record(r) \in Revs
    BY <1>0, RecordType DEF Record
  <1>4. Plain(Record(r)) => \A i \in DOMAIN Records[payload[r]] :
           Records[payload[r]][i][1] = Record(r)[1] => i = pos[r]
    BY <1>1, <1>2, <1>3 DEF Plain, Repeated, Revs
  <1>5. ASSUME Plain(Record(r)), NEW kv \in Revs, mem[r][kv].seen, kv[1] = Record(r)[1]
        PROVE  Fresh(r, kv)
    <2>1. PICK i \in DOMAIN Records[payload[r]] :
             /\ kv[1] = Records[payload[r]][i][1]
             /\ i < pos[r] \/ (i = pos[r] /\ Fresh(r, kv))
      BY <1>5 DEF SInv, ProgressInv, LoadedSoFar
    <2>2. i = pos[r]
      BY <1>4, <1>5, <2>1
    <2> QED
      BY <1>1, <2>1, <2>2
  <1> QED
    BY <1>2, <1>3, <1>5

LEMMA LoadCell ==
  /\ \A m \in Loaded :
        /\ m.seen => Load(m, TRUE) = m
        /\ ~m.seen => /\ Load(m, TRUE).seen
                      /\ Load(m, TRUE).was
                      /\ Load(m, TRUE).now
  /\ ~NotLoaded.seen
  BY DEF Load, NotLoaded, Loaded

LEMMA CurrentStep ==
  ASSUME SInv, NEW r \in Runs, GetCurrentRecord(r)
  PROVE  TableInv' /\ SessionInv' /\ ProgressInv'
  <1> DEFINE found == {kv \in Revs : kv[1] = Record(r)[1] /\ rows[kv].cur}
  <1>0. TypeOK
    BY DEF SInv, EInv, IInv
  <1>1. /\ pc[r] = "loading" /\ pos[r] <= Len(Records[payload[r]])
        /\ mem' = [mem EXCEPT ![r] = [kv \in Revs |->
                      IF kv \in found THEN Load(@[kv], TRUE)
                      ELSE IF Modified(@[kv]) THEN @[kv] ELSE NotLoaded]]
        /\ UNCHANGED <<rows, payload, pend, adds>>
        /\ \/ /\ Record(r) \in found
              /\ pos' = [pos EXCEPT ![r] = @ + 1]
              /\ UNCHANGED <<pc, current>>
           \/ /\ Record(r) \notin found
              /\ current' = [current EXCEPT ![r] = found]
              /\ pc' = [pc EXCEPT ![r] = "matching"]
              /\ UNCHANGED pos
    BY DEF GetCurrentRecord, tables, Goto
  <1>2. /\ pos[r] \in DOMAIN Records[payload[r]]
        /\ Record(r) = Records[payload[r]][pos[r]]
        /\ pos[r] \in Nat
    BY <1>0, <1>1, RecordInHand DEF TypeOK
  <1>3. \A kv \in found : kv \in Revs /\ kv[1] = Record(r)[1]
    OBVIOUS
  <1> HIDE DEF found
  <1>4. ~Flushing(r)
    BY <1>1, <1>2, IngestionAssumption, <1>0 DEF Flushing, TypeOK
  <1>5. \A q \in Runs \ {r} : SessionUnchanged(q)
    BY <1>0, <1>1 DEF TypeOK, SessionUnchanged
  <1>6. \A kv \in Revs :
           mem'[r][kv] = IF kv \in found THEN Load(mem[r][kv], TRUE)
                         ELSE IF Modified(mem[r][kv]) THEN mem[r][kv] ELSE NotLoaded
    BY <1>0, <1>1 DEF TypeOK
  <1>7. \A kv \in Revs : mem[r][kv] \in Loaded
    BY <1>0 DEF TypeOK
  <1>8. \A kv \in Revs : mem[r][kv].seen /\ Modified(mem[r][kv]) => mem'[r][kv] = mem[r][kv]
    BY <1>6, <1>7, LoadCell
  <1>9. \A kv \in Revs : Retired(r, kv)' => mem'[r][kv] = mem[r][kv]
    <2> SUFFICES ASSUME NEW kv \in Revs, mem'[r][kv].seen, ~mem'[r][kv].now
                 PROVE  mem'[r][kv] = mem[r][kv]
      BY DEF Retired
    <2>1. \/ mem'[r][kv] = Load(mem[r][kv], TRUE)
          \/ mem'[r][kv] = mem[r][kv]
          \/ mem'[r][kv] = NotLoaded
      BY <1>6
    <2>2. mem[r][kv] \in Loaded
      BY <1>7
    <2>3. CASE mem'[r][kv] = Load(mem[r][kv], TRUE)
      <3>1. CASE mem[r][kv].seen
        BY <2>2, <2>3, <3>1, LoadCell
      <3>2. CASE ~mem[r][kv].seen
        <4>1. Load(mem[r][kv], TRUE).now
          BY <2>2, <3>2, LoadCell
        <4> QED
          BY <2>3, <4>1
      <3> QED
        BY <3>1, <3>2
    <2>4. CASE mem'[r][kv] = NotLoaded
      BY <2>4, LoadCell
    <2> QED
      BY <2>1, <2>3, <2>4
  <1>10. TableInv' /\ Versions' /\ UpdateOrder'
    BY <1>1, <1>4, <1>5, OthersLoad
  <1>11. Replaced'
    <2>1. ASSUME NEW kv \in Revs, Plain(kv), Retired(r, kv)'
          PROVE  \E new \in SameKey(kv) : Coming(r, new)' \/ rows[kv].id < rows[new].id
      <3>1. PICK new \in SameKey(kv) : Coming(r, new) \/ rows[kv].id < rows[new].id
        BY <1>9, <2>1 DEF SInv, SessionInv, Replaced, Retired
      <3>2. Coming(r, new) => Coming(r, new)'
        <4>1. new \in Revs
          BY SameKeySymmetric
        <4>2. mem[r][new].seen /\ mem[r][new].now /\ ~mem[r][new].was
                 => mem'[r][new] = mem[r][new]
          BY <1>8, <4>1 DEF Modified
        <4> QED
          BY <1>1, <4>2 DEF Coming, Exists
      <3> QED
        BY <3>1, <3>2
    <2>2. \A q \in Runs \ {r}, kv \in Revs : Plain(kv) /\ Retired(q, kv)' =>
             \E new \in SameKey(kv) : Coming(q, new)' \/ rows[kv].id < rows[new].id
      BY <1>1, <1>4, <1>5, OthersLoad
    <2> SUFFICES ASSUME NEW q \in Runs, NEW kv \in Revs, Plain(kv), Retired(q, kv)'
                 PROVE  \E new \in SameKey(kv) :
                           Coming(q, new)' \/ rows[kv].id < rows[new].id
      BY <1>1 DEF Replaced, Retired, SameKey
    <2> QED
      BY <2>1, <2>2
  <1>12. LoadedSoFar'
    <2>1. ASSUME NEW kv \in Revs, mem'[r][kv].seen
          PROVE  \E i \in DOMAIN Records[payload'[r]] :
                    /\ kv[1] = Records[payload'[r]][i][1]
                    /\ i < pos'[r] \/ (i = pos'[r] /\ Fresh(r, kv)')
      <3>1. CASE kv \notin found
        <4>1. mem[r][kv].seen
          BY <1>6, <2>1, <3>1, LoadCell
        <4>2. PICK i \in DOMAIN Records[payload[r]] :
                 kv[1] = Records[payload[r]][i][1] /\ i < pos[r]
          BY <1>1, <4>1 DEF SInv, ProgressInv, LoadedSoFar, Fresh
        <4>3. i \in Nat /\ (pos'[r] = pos[r] \/ pos'[r] = pos[r] + 1)
          BY <1>0, <1>1, <4>2, IngestionAssumption DEF TypeOK
        <4> QED
          BY <1>1, <1>2, <4>2, <4>3
      <3>2. CASE kv \in found
        <4>1. kv[1] = Records[payload[r]][pos[r]][1]
          BY <1>2, <1>3, <3>2
        <4>2. CASE Record(r) \in found
          <5>1. pos'[r] = pos[r] + 1 /\ payload' = payload
            BY <1>0, <1>1, <4>2 DEF TypeOK
          <5>2. pos[r] < pos'[r]
            BY <1>2, <5>1
          <5> QED
            BY <1>2, <4>1, <5>1, <5>2
        <4>3. CASE mem[r][kv].seen
          <5>1. PICK i \in DOMAIN Records[payload[r]] :
                   kv[1] = Records[payload[r]][i][1] /\ i < pos[r]
            BY <1>1, <1>3, <3>2, <4>3 DEF SInv, ProgressInv, LoadedSoFar, Fresh
          <5>2. i \in Nat /\ (pos'[r] = pos[r] \/ pos'[r] = pos[r] + 1)
            BY <1>0, <1>1, <5>1, IngestionAssumption DEF TypeOK
          <5> QED
            BY <1>1, <1>2, <5>1, <5>2
        <4>4. CASE Record(r) \notin found /\ ~mem[r][kv].seen
          <5>1. mem'[r][kv].was /\ mem'[r][kv].now
            <6>1. mem'[r][kv] = Load(mem[r][kv], TRUE)
              BY <1>3, <1>6, <3>2
            <6>2. Load(mem[r][kv], TRUE).was /\ Load(mem[r][kv], TRUE).now
              BY <1>3, <1>7, <3>2, <4>4, LoadCell
            <6> QED
              BY <6>1, <6>2
          <5>2. Fresh(r, kv)' /\ pos'[r] = pos[r]
            BY <1>0, <1>1, <3>2, <4>4, <5>1 DEF Fresh, TypeOK
          <5> QED
            BY <1>1, <1>2, <4>1, <5>2
        <4> QED
          BY <4>2, <4>3, <4>4
      <3> QED
        BY <3>1, <3>2
    <2>2. \A q \in Runs \ {r}, kv \in Revs : mem'[q][kv].seen =>
             \E i \in DOMAIN Records[payload'[q]] :
                /\ kv[1] = Records[payload'[q]][i][1]
                /\ i < pos'[q] \/ (i = pos'[q] /\ Fresh(q, kv)')
      BY <1>1, <1>4, <1>5, OthersLoad
    <2> SUFFICES ASSUME NEW q \in Runs, NEW kv \in Revs, mem'[q][kv].seen
                 PROVE  \E i \in DOMAIN Records[payload'[q]] :
                           /\ kv[1] = Records[payload'[q]][i][1]
                           /\ i < pos'[q] \/ (i = pos'[q] /\ Fresh(q, kv)')
      BY DEF LoadedSoFar
    <2> QED
      BY <2>1, <2>2
  <1>13. Matching'
    <2> SUFFICES ASSUME NEW q \in Runs, pc'[q] = "matching"
                 PROVE  /\ Record(q)' \notin current'[q]
                        /\ \A kv \in current'[q] :
                              mem'[q][kv].seen /\ kv[1] = Record(q)'[1]
      BY DEF Matching
    <2>1. CASE q # r
      BY <1>5, <2>1 DEF SInv, ProgressInv, Matching, SessionUnchanged, Record
    <2>2. CASE q = r
      <3>1. /\ Record(r) \notin found
            /\ current'[r] = found
            /\ Record(r)' = Record(r)
        BY <1>0, <1>1, <2>2 DEF TypeOK, Record
      <3>2. \A kv \in found : mem'[r][kv].seen
        BY <1>3, <1>6, <1>7, LoadedSeen
      <3> QED
        BY <1>3, <2>2, <3>1, <3>2
    <2> QED
      BY <2>1, <2>2
  <1>14. Announced'
    <2> SUFFICES ASSUME NEW kv \in Revs,
                        mem'[r][kv].seen, mem'[r][kv].now, ~mem'[r][kv].was
                 PROVE  kv \in Said(payload'[r])
      BY <1>1, <1>4, <1>5, OthersLoad
    <2>1. \/ mem'[r][kv] = Load(mem[r][kv], TRUE)
          \/ mem'[r][kv] = mem[r][kv]
          \/ mem'[r][kv] = NotLoaded
      BY <1>6
    <2>2. mem[r][kv] \in Loaded
      BY <1>7
    <2>3. mem'[r][kv] # NotLoaded
      BY LoadCell
    <2>4. ASSUME mem'[r][kv] = Load(mem[r][kv], TRUE) PROVE mem'[r][kv] = mem[r][kv]
      <3>1. ~mem[r][kv].seen => Load(mem[r][kv], TRUE).was
        BY <2>2, LoadCell
      <3>2. mem[r][kv].seen
        BY <2>4, <3>1
      <3> QED
        BY <2>2, <2>4, <3>2, LoadCell
    <2>5. mem'[r][kv] = mem[r][kv]
      BY <2>1, <2>3, <2>4
    <2> QED
      BY <1>1, <2>5 DEF SInv, SessionInv, Announced
  <1> QED
    BY <1>10, <1>11, <1>12, <1>13, <1>14 DEF SessionInv, ProgressInv

LEMMA ReviseStep ==
  ASSUME SInv, NEW r \in Runs, GetExistingRevision(r)
  PROVE  TableInv' /\ SessionInv' /\ ProgressInv'
  <1> DEFINE new == Record(r)
             retired == [kv \in Revs |-> IF kv \in current[r]
                           THEN Retire(mem[r][kv]) ELSE mem[r][kv]]
             reused == [retired EXCEPT ![new] = Reuse(Load(@, rows[new].cur))]
  <1>0. TypeOK
    BY DEF SInv, EInv, IInv
  <1>1. /\ pc[r] = "matching" /\ pos[r] <= Len(Records[payload[r]])
        /\ \/ /\ Exists(rows[new])
              /\ mem' = [mem EXCEPT ![r] = reused]
              /\ adds' = adds
           \/ /\ ~Exists(rows[new])
              /\ mem' = [mem EXCEPT ![r] = retired]
              /\ adds' = [adds EXCEPT ![r] = Append(@, new)]
        /\ pos' = [pos EXCEPT ![r] = @ + 1]
        /\ current' = [current EXCEPT ![r] = {}]
        /\ pc' = [pc EXCEPT ![r] = "loading"]
        /\ UNCHANGED <<rows, payload, pend>>
    BY <1>0 DEF GetExistingRevision, tables, Goto, TypeOK
  <1>2. /\ pos[r] \in DOMAIN Records[payload[r]]
        /\ new = Records[payload[r]][pos[r]]
        /\ new \in Revs
        /\ pos[r] \in Nat
        /\ new \in Said(payload[r])
        /\ Plain(new) => \A kv \in Revs :
              mem[r][kv].seen /\ kv[1] = new[1] => Fresh(r, kv)
    BY <1>0, <1>1, RecordInHand, RecordSaid DEF TypeOK
  <1>3. /\ new \notin current[r]
        /\ \A kv \in current[r] : kv \in Revs /\ mem[r][kv].seen /\ kv[1] = new[1]
    BY <1>0, <1>1 DEF SInv, ProgressInv, Matching, TypeOK
  <1>4. Plain(new) => ~mem[r][new].seen
    BY <1>2, <1>3 DEF Fresh
  <1>5. \A kv \in Revs : mem[r][kv] \in Loaded
    BY <1>0 DEF TypeOK
  <1>6. \A kv \in Revs :
           retired[kv] = IF kv \in current[r] THEN Retire(mem[r][kv]) ELSE mem[r][kv]
    OBVIOUS
  <1>7. DOMAIN retired = Revs /\ retired[new] = mem[r][new]
    BY <1>2, <1>3
  <1> HIDE DEF new, retired
  <1>8. \A kv \in Revs \ {new} : mem'[r][kv] = retired[kv]
    BY <1>0, <1>1, <1>7 DEF TypeOK
  <1>9. /\ Exists(rows[new]) => mem'[r][new] = Reuse(Load(mem[r][new], rows[new].cur))
        /\ ~Exists(rows[new]) => mem'[r][new] = mem[r][new]
    BY <1>0, <1>1, <1>2, <1>7 DEF TypeOK
  <1>10. Plain(new) /\ Exists(rows[new]) => /\ mem'[r][new].seen
                                            /\ mem'[r][new].now
                                            /\ mem'[r][new].was = rows[new].cur
    BY <1>4, <1>9 DEF Reuse, Load
  <1>11. Plain(new) => \A kv \in current[r] : mem[r][kv].was
    BY <1>2, <1>3 DEF Fresh
  <1>12. ~Flushing(r)
    BY <1>1 DEF Flushing
  <1>13. \A q \in Runs \ {r} : SessionUnchanged(q)
    BY <1>0, <1>1 DEF TypeOK, SessionUnchanged
  <1>14. TableInv' /\ Versions' /\ UpdateOrder'
    BY <1>1, <1>12, <1>13, OthersLoad
  <1>15. /\ \A i \in DOMAIN adds[r] : i \in DOMAIN adds'[r] /\ adds'[r][i] = adds[r][i]
         /\ ~Exists(rows[new]) => \E i \in DOMAIN adds'[r] : adds'[r][i] = new
    <2>1. adds[r] \in Seq(Revs)
      BY <1>0 DEF TypeOK
    <2>2. /\ \A i \in DOMAIN adds[r] :
               i \in DOMAIN Append(adds[r], new) /\ Append(adds[r], new)[i] = adds[r][i]
          /\ Len(adds[r]) + 1 \in DOMAIN Append(adds[r], new)
          /\ Append(adds[r], new)[Len(adds[r]) + 1] = new
      BY <1>2, <2>1
    <2>3. adds'[r] = adds[r] \/ adds'[r] = Append(adds[r], new)
      BY <1>0, <1>1 DEF TypeOK
    <2>4. ~Exists(rows[new]) => adds'[r] = Append(adds[r], new)
      BY <1>0, <1>1 DEF TypeOK
    <2> QED
      BY <2>2, <2>3, <2>4
  <1>16. Replaced'
    <2>1. ASSUME NEW kv \in Revs, Plain(kv), Retired(r, kv)'
          PROVE  \E other \in SameKey(kv) :
                    Coming(r, other)' \/ rows[kv].id < rows[other].id
      <3>1. CASE kv = new
        <4>1. Plain(new) /\ mem'[r][new] # mem[r][new]
          BY <1>4, <2>1, <3>1 DEF Retired
        <4> QED
          BY <1>9, <1>10, <2>1, <3>1, <4>1 DEF Retired
      <3>2. CASE kv \in current[r]
        <4>1. new \in SameKey(kv) /\ kv \in SameKey(new) /\ Plain(new)
          BY <1>2, <1>3, <2>1, <3>2 DEF SameKey, Plain
        <4>2. CASE ~Exists(rows[new])
          BY <1>15, <4>1, <4>2 DEF Coming
        <4>3. CASE Exists(rows[new]) /\ ~rows[new].cur
          <5>1. mem'[r][new].seen /\ mem'[r][new].now /\ ~mem'[r][new].was
            BY <1>10, <4>1, <4>3
          <5> QED
            BY <4>1, <5>1 DEF Coming
        <4>4. CASE Exists(rows[new]) /\ rows[new].cur
          <5>1. Exists(rows[kv])
            BY <1>3, <3>2 DEF SInv, EInv, IInv, LoadedExist
          <5>2. PICK c \in Revs : c[1] = kv[1] /\ rows[c].cur /\ rows[kv].id <= rows[c].id
            BY <2>1, <5>1 DEF SInv, TableInv, NewestCurrent
          <5>3. c = new
            BY <1>2, <1>3, <3>2, <4>4, <5>2
               DEF SInv, EInv, IInv, OneCurrentRevision, SameKey
          <5>4. rows[new].id # rows[kv].id
            BY <4>1, <5>1 DEF SInv, TableInv, OneId
          <5>5. rows[new].id \in Nat /\ rows[kv].id \in Nat
            BY <1>0, <1>2, RowsTyped
          <5> QED
            BY <4>1, <5>2, <5>3, <5>4, <5>5
        <4> QED
          BY <4>2, <4>3, <4>4
      <3>3. CASE kv # new /\ kv \notin current[r]
        <4>1. Retired(r, kv)
          BY <1>6, <1>8, <2>1, <3>3 DEF Retired
        <4>2. PICK other \in SameKey(kv) :
                 Coming(r, other) \/ rows[kv].id < rows[other].id
          BY <2>1, <4>1 DEF SInv, SessionInv, Replaced
        <4>3. other \in Revs /\ Plain(other)
          BY <2>1, SameKeySymmetric
        <4>4. Coming(r, other) => Coming(r, other)'
          <5>1. mem[r][other].seen /\ mem[r][other].now /\ ~mem[r][other].was
                   => mem'[r][other] = mem[r][other]
            <6>1. other = new \/ other \in current[r] => Plain(new)
              BY <1>3, <4>3 DEF Plain
            <6> QED
              BY <1>4, <1>6, <1>8, <1>11, <4>3, <6>1
          <5> QED
            BY <1>1, <1>15, <5>1 DEF Coming, Exists
        <4> QED
          BY <4>2, <4>4
      <3> QED
        BY <3>1, <3>2, <3>3
    <2>2. \A q \in Runs \ {r}, kv \in Revs : Plain(kv) /\ Retired(q, kv)' =>
             \E other \in SameKey(kv) : Coming(q, other)' \/ rows[kv].id < rows[other].id
      BY <1>1, <1>12, <1>13, OthersLoad
    <2> SUFFICES ASSUME NEW q \in Runs, NEW kv \in Revs, Plain(kv), Retired(q, kv)'
                 PROVE  \E other \in SameKey(kv) :
                           Coming(q, other)' \/ rows[kv].id < rows[other].id
      BY <1>1 DEF Replaced, Retired, SameKey
    <2> QED
      BY <2>1, <2>2
  <1>17. LoadedSoFar'
    <2>0. /\ pos'[r] = pos[r] + 1
          /\ payload' = payload
          /\ Records[payload[r]] \in Seq(Revs)
      BY <1>0, <1>1, IngestionAssumption DEF TypeOK, Revs
    <2>1. ASSUME NEW kv \in Revs, mem'[r][kv].seen
          PROVE  \E i \in DOMAIN Records[payload'[r]] :
                    /\ kv[1] = Records[payload'[r]][i][1]
                    /\ i < pos'[r] \/ (i = pos'[r] /\ Fresh(r, kv)')
      <3>1. CASE kv = new
        <4>1. pos[r] < pos'[r]
          BY <1>2, <2>0
        <4> QED
          BY <1>2, <2>0, <3>1, <4>1
      <3>2. CASE kv # new
        <4>1. mem[r][kv].seen
          BY <1>3, <1>6, <1>8, <2>1, <3>2
        <4>2. PICK i \in DOMAIN Records[payload[r]] :
                 kv[1] = Records[payload[r]][i][1] /\ (i < pos[r] \/ i = pos[r])
          BY <4>1 DEF SInv, ProgressInv, LoadedSoFar
        <4>3. i < pos'[r]
          BY <1>2, <2>0, <4>2
        <4> QED
          BY <2>0, <4>2, <4>3
      <3> QED
        BY <3>1, <3>2
    <2>2. \A q \in Runs \ {r}, kv \in Revs : mem'[q][kv].seen =>
             \E i \in DOMAIN Records[payload'[q]] :
                /\ kv[1] = Records[payload'[q]][i][1]
                /\ i < pos'[q] \/ (i = pos'[q] /\ Fresh(q, kv)')
      BY <1>1, <1>12, <1>13, OthersLoad
    <2> SUFFICES ASSUME NEW q \in Runs, NEW kv \in Revs, mem'[q][kv].seen
                 PROVE  \E i \in DOMAIN Records[payload'[q]] :
                           /\ kv[1] = Records[payload'[q]][i][1]
                           /\ i < pos'[q] \/ (i = pos'[q] /\ Fresh(q, kv)')
      BY DEF LoadedSoFar
    <2> QED
      BY <2>1, <2>2
  <1>18. Matching'
    <2>1. pc'[r] # "matching"
      BY <1>0, <1>1 DEF TypeOK
    <2> QED
      BY <1>13, <2>1 DEF SInv, ProgressInv, Matching, SessionUnchanged, Record
  <1>19. Announced'
    <2> SUFFICES ASSUME NEW kv \in Revs \ {new},
                        mem'[r][kv].seen, mem'[r][kv].now, ~mem'[r][kv].was
                 PROVE  kv \in Said(payload'[r])
      BY <1>1, <1>2, <1>12, <1>13, OthersLoad
    <2>1. ~Retire(mem[r][kv]).now
      BY <1>5 DEF Retire, Loaded
    <2>2. mem'[r][kv] = mem[r][kv]
      BY <1>6, <1>8, <2>1
    <2> QED
      BY <1>1, <2>2 DEF SInv, SessionInv, Announced
  <1> QED
    BY <1>14, <1>16, <1>17, <1>18, <1>19 DEF SessionInv, ProgressInv

-----------------------------------------------------------------------------
(* The flush *)

(* An older row of a plain key never becomes current again: its UPDATE      *)
(* meets the newer current row in the partial index.                       *)
LEMMA NoReturn ==
  ASSUME SInv, NEW r \in Runs, NEW kv \in Revs, Plain(kv), NextUpdate(r, kv),
         NeedsIndexCheck(r, kv) => ~KeyClash(r, kv) /\ KeyBusyWith(r, kv) = {}
  PROVE  Updated(r, kv).cur => rows[kv].cur
  <1> SUFFICES ASSUME Updated(r, kv).cur, ~rows[kv].cur PROVE FALSE
    OBVIOUS
  <1>0. TypeOK /\ kv \in Dirty(r)
    BY DEF SInv, EInv, IInv, NextUpdate
  <1>1. ~KeyClash(r, kv) /\ KeyBusyWith(r, kv) = {}
    BY DEF NeedsIndexCheck
  <1>2. Exists(rows[kv])
    BY <1>0 DEF SInv, EInv, IInv, LoadedExist, Dirty
  <1>3. PICK c \in Revs : c[1] = kv[1] /\ rows[c].cur /\ rows[kv].id <= rows[c].id
    BY <1>2 DEF SInv, TableInv, NewestCurrent
  <1>4. c \in SameKey(kv)
    BY <1>3 DEF SameKey
  <1>5. \A s \in Runs \ {r} : ~Exists(pend[s][c])
    BY <1>1, <1>3, <1>4 DEF KeyBusyWith
  <1>6. ~Seen(r, c).cur
    BY <1>1, <1>4, <1>5 DEF KeyClash, Locked
  <1>7. Exists(pend[r][c])
    BY <1>3, <1>6 DEF Seen
  <1>8. rows[c].id <= rows[kv].id
    BY <1>0, <1>3, <1>7 DEF SInv, SessionInv, UpdateOrder
  <1>9. rows[c].id # rows[kv].id
    BY <1>2, <1>4 DEF SInv, TableInv, OneId
  <1> QED
    BY <1>0, <1>3, <1>8, <1>9, RowsTyped

LEMMA UpdateStep ==
  ASSUME SInv, NEW r \in Runs, NEW kv \in Revs, FlushUpdate(r, kv), ~Raise(r)
  PROVE  TableInv' /\ SessionInv' /\ ProgressInv'
  <1>0. TypeOK
    BY DEF SInv, EInv, IInv
  <1>1. /\ Flushing(r)
        /\ NextUpdate(r, kv)
        /\ kv \in Dirty(r)
        /\ NeedsIndexCheck(r, kv) => ~KeyClash(r, kv) /\ KeyBusyWith(r, kv) = {}
        /\ pend' = [pend EXCEPT ![r][kv] = Updated(r, kv)]
        /\ mem' = [mem EXCEPT ![r][kv] = Flushed(@)]
        /\ UNCHANGED <<pc, adds, pos, current, rows, payload>>
    BY DEF FlushUpdate, NextUpdate, tables
  <1>2. Exists(rows[kv]) /\ ~Exists(pend[r][kv])
    BY <1>1 DEF SInv, EInv, IInv, LoadedExist, DirtyUnwritten, Dirty
  <1>3. /\ pend'[r][kv] = Updated(r, kv)
        /\ \A q \in Runs, o \in Revs : q # r \/ o # kv => pend'[q][o] = pend[q][o]
        /\ mem'[r][kv] = Flushed(mem[r][kv])
        /\ \A q \in Runs, o \in Revs : q # r \/ o # kv => mem'[q][o] = mem[q][o]
    BY <1>0, <1>1 DEF TypeOK
  <1>4. mem[r][kv] \in Loaded
    BY <1>0 DEF TypeOK
  <1>5. /\ mem'[r][kv].seen = mem[r][kv].seen
        /\ mem'[r][kv].now = mem[r][kv].now
        /\ ~Modified(mem'[r][kv])
    BY <1>3, <1>4 DEF Flushed, Modified, Loaded
  <1>6. \A q \in Runs, o \in Revs : Retired(q, o)' = Retired(q, o)
    BY <1>3, <1>5 DEF Retired
  <1>7. \A q \in Runs, o \in Revs : mem'[q][o].seen = mem[q][o].seen
    BY <1>3, <1>5
  <1>8. TableInv'
    BY <1>1 DEF SInv, TableInv, NewestCurrent, OneId, Exists
  <1>9. Versions'
    <2> SUFFICES ASSUME NEW q \in Runs, NEW o \in Revs, Exists(pend'[q][o])
                 PROVE  Version(q, o)'
      BY DEF Versions, Exists
    <2>1. CASE q = r /\ o = kv
      <3>1. Updated(r, kv).id = rows[kv].id
        BY <1>0, UpdatedType
      <3>2. Plain(kv) /\ Updated(r, kv).cur => rows[kv].cur
        BY <1>1, NoReturn
      <3>3. rows[kv].cur /\ ~Updated(r, kv).cur => Retired(r, kv)
        BY <1>1, <1>4 DEF Updated, Retired, Dirty, Loaded
      <3> QED
        BY <1>1, <1>2, <1>3, <1>6, <2>1, <3>1, <3>2, <3>3 DEF Version, Exists
    <2>2. CASE ~(q = r /\ o = kv)
      <3>1. Version(q, o)
        BY <1>3, <2>2 DEF SInv, SessionInv, Versions, Exists
      <3>2. pend'[q][o] = pend[q][o]
        BY <1>3, <2>2
      <3> QED
        BY <1>1, <1>6, <3>1, <3>2 DEF Version, Exists
    <2> QED
      BY <2>1, <2>2
  <1>10. UpdateOrder'
    <2> SUFFICES ASSUME NEW q \in Runs, NEW a \in Revs, NEW b \in Revs,
                        Exists(pend'[q][a]), b \in Dirty(q)'
                 PROVE  Exists(rows[a]) /\ rows[a].id <= rows[b].id
      BY <1>1 DEF UpdateOrder, Exists
    <2>1. b \in Dirty(q)
      BY <1>3, <1>5 DEF Dirty
    <2>2. CASE q = r /\ a = kv
      BY <1>1, <1>2, <2>1, <2>2 DEF NextUpdate
    <2>3. CASE ~(q = r /\ a = kv)
      BY <1>3, <2>1, <2>3 DEF SInv, SessionInv, UpdateOrder, Exists
    <2> QED
      BY <2>2, <2>3
  <1>11. Replaced'
    <2> SUFFICES ASSUME NEW q \in Runs, NEW o \in Revs, Plain(o), Retired(q, o)'
                 PROVE  \E new \in SameKey(o) :
                           Coming(q, new)' \/ rows[o].id < rows[new].id
      BY <1>1 DEF Replaced, Retired, SameKey
    <2>1. PICK new \in SameKey(o) : Coming(q, new) \/ rows[o].id < rows[new].id
      BY <1>6 DEF SInv, SessionInv, Replaced
    <2>2. new \in Revs
      BY SameKeySymmetric
    <2>3. Coming(q, new) => Coming(q, new)'
      <3>1. CASE ~(q = r /\ new = kv)
        <4>1. pend'[q][new] = pend[q][new] /\ mem'[q][new] = mem[q][new]
          BY <1>3, <2>2, <3>1
        <4> QED
          BY <1>1, <4>1 DEF Coming, Exists
      <3>2. CASE q = r /\ new = kv
        <4>1. Exists(Updated(r, kv))
          BY <1>0, <1>2, UpdatedType DEF Exists
        <4>2. mem[r][kv].now /\ ~mem[r][kv].was => Updated(r, kv).cur
          BY <1>4 DEF Updated, Loaded
        <4>3. (\E i \in DOMAIN adds[r] : adds[r][i] = kv) => Coming(r, kv)'
          BY <1>1 DEF Coming
        <4>4. mem[r][kv].seen /\ mem[r][kv].now /\ ~mem[r][kv].was => Coming(r, kv)'
          BY <1>3, <4>1, <4>2 DEF Coming, Exists
        <4> QED
          BY <1>2, <3>2, <4>3, <4>4 DEF Coming
      <3> QED
        BY <3>1, <3>2
    <2> QED
      BY <2>1, <2>3
  <1>12. LoadedSoFar'
    <2> SUFFICES ASSUME NEW q \in Runs, NEW o \in Revs, mem[q][o].seen
                 PROVE  \E i \in DOMAIN Records[payload[q]] :
                           /\ o[1] = Records[payload[q]][i][1]
                           /\ i < pos[q] \/ (i = pos[q] /\ Fresh(q, o)')
      BY <1>1, <1>7 DEF LoadedSoFar
    <2>1. Fresh(q, o) => Fresh(q, o)'
      BY <1>1, <1>3 DEF Fresh, Flushing
    <2> QED
      BY <2>1 DEF SInv, ProgressInv, LoadedSoFar
  <1>13. Matching'
    <2>1. \A q \in Runs : current[q] \subseteq Revs
      BY <1>0 DEF TypeOK
    <2> QED
      BY <1>1, <1>7, <2>1 DEF SInv, ProgressInv, Matching, Record
  <1>14. Announced'
    <2> SUFFICES ASSUME NEW q \in Runs, NEW o \in Revs
                 PROVE  /\ mem'[q][o].seen /\ mem'[q][o].now /\ ~mem'[q][o].was
                              => o \in Said(payload[q])
                        /\ Exists(pend'[q][o]) /\ pend'[q][o].cur /\ ~rows[o].cur
                              => o \in Said(payload[q])
      BY <1>1 DEF Announced, Exists
    <2>1. CASE q = r /\ o = kv
      <3>1. Updated(r, kv).cur /\ ~rows[kv].cur
               => mem[r][kv].seen /\ mem[r][kv].now /\ ~mem[r][kv].was
        BY <1>1, <1>4 DEF Updated, Dirty, Loaded
      <3>2. ~(mem'[r][kv].now /\ ~mem'[r][kv].was)
        BY <1>4, <1>5 DEF Modified, Loaded
      <3> QED
        BY <1>3, <2>1, <3>1, <3>2 DEF SInv, SessionInv, Announced
    <2>2. CASE ~(q = r /\ o = kv)
      <3>1. pend'[q][o] = pend[q][o] /\ mem'[q][o] = mem[q][o]
        BY <1>3, <2>2
      <3> QED
        BY <3>1 DEF SInv, SessionInv, Announced, Exists
    <2> QED
      BY <2>1, <2>2
  <1> QED
    BY <1>8, <1>9, <1>10, <1>11, <1>12, <1>13, <1>14 DEF SessionInv, ProgressInv

LEMMA InsertStep ==
  ASSUME SInv, NEW r \in Runs, FlushInsert(r), ~Raise(r)
  PROVE  TableInv' /\ SessionInv' /\ ProgressInv'
  <1> DEFINE kv == Head(adds[r])
  <1>0. TypeOK
    BY DEF SInv, EInv, IInv
  <1>1. PICK n \in 1..MaxId :
           /\ IsNextId(n)
           /\ pend' = [pend EXCEPT ![r][kv] = [id |-> n, cur |-> TRUE, run |-> r]]
    BY DEF FlushInsert
  <1>2. /\ Dirty(r) = {}
        /\ adds[r] # <<>>
        /\ ~Exists(rows[kv])
        /\ ~Exists(pend[r][kv])
        /\ adds' = [adds EXCEPT ![r] = Tail(@)]
        /\ UNCHANGED <<pc, mem, pos, current, rows, payload>>
    BY DEF FlushInsert, InsertClash, tables
  <1>3. adds[r] \in Seq(Revs) /\ kv \in Revs /\ n \in Nat /\ n > 0
    BY <1>0, <1>2, IngestionAssumption DEF TypeOK
  <1>4. \A i \in DOMAIN adds[r] :
           adds[r][i] = kv \/ \E j \in DOMAIN Tail(adds[r]) : Tail(adds[r])[j] = adds[r][i]
    <2> TAKE i \in DOMAIN adds[r]
    <2>1. CASE i = 1
      BY <1>2, <1>3, <2>1
    <2>2. CASE i # 1
      <3>1. i - 1 \in DOMAIN Tail(adds[r]) /\ Tail(adds[r])[i - 1] = adds[r][i]
        BY <1>2, <1>3, <2>2
      <3> QED
        BY <3>1
    <2> QED
      BY <2>1, <2>2
  <1> HIDE DEF kv
  <1>5. /\ pend'[r][kv] = [id |-> n, cur |-> TRUE, run |-> r]
        /\ \A q \in Runs, o \in Revs : q # r \/ o # kv => pend'[q][o] = pend[q][o]
    BY <1>0, <1>1, <1>3 DEF TypeOK
  <1>6. \A o \in Revs : rows[o].id < n
    BY <1>1 DEF IsNextId, UsedIds
  <1>7. TableInv'
    BY <1>2 DEF SInv, TableInv, NewestCurrent, OneId, Exists
  <1>8. Versions'
    <2> SUFFICES ASSUME NEW q \in Runs, NEW o \in Revs, Exists(pend'[q][o])
                 PROVE  Version(q, o)'
      BY DEF Versions, Exists
    <2>1. CASE q = r /\ o = kv
      BY <1>2, <1>5, <1>6, <2>1 DEF Version, Exists, SameKey
    <2>2. CASE ~(q = r /\ o = kv)
      <3>1. pend'[q][o] = pend[q][o]
        BY <1>5, <2>2
      <3>2. Version(q, o)
        BY <3>1 DEF SInv, SessionInv, Versions, Exists
      <3> QED
        BY <1>2, <3>1, <3>2 DEF Version, Retired, Exists
    <2> QED
      BY <2>1, <2>2
  <1>9. UpdateOrder'
    <2> SUFFICES ASSUME NEW q \in Runs, NEW a \in Revs, NEW b \in Revs,
                        Exists(pend'[q][a]), b \in Dirty(q)
                 PROVE  Exists(rows[a]) /\ rows[a].id <= rows[b].id
      BY <1>2 DEF UpdateOrder, Exists, Dirty
    <2>1. pend'[q][a] = pend[q][a]
      BY <1>2, <1>5
    <2> QED
      BY <2>1 DEF SInv, SessionInv, UpdateOrder, Exists
  <1>10. Replaced'
    <2> SUFFICES ASSUME NEW q \in Runs, NEW o \in Revs, Plain(o), Retired(q, o)
                 PROVE  \E new \in SameKey(o) :
                           Coming(q, new)' \/ rows[o].id < rows[new].id
      BY <1>2 DEF Replaced, Retired, SameKey
    <2>1. PICK new \in SameKey(o) : Coming(q, new) \/ rows[o].id < rows[new].id
      BY DEF SInv, SessionInv, Replaced
    <2>2. new \in Revs
      BY SameKeySymmetric
    <2>3. Coming(q, new) => Coming(q, new)'
      <3>1. CASE q = r /\ new = kv
        BY <1>3, <1>5, <3>1 DEF Coming, Exists
      <3>2. CASE ~(q = r /\ new = kv)
        <4>1. pend'[q][new] = pend[q][new]
          BY <1>5, <2>2, <3>2
        <4>2. (\E i \in DOMAIN adds[q] : adds[q][i] = new)
                 => \E i \in DOMAIN adds'[q] : adds'[q][i] = new
          BY <1>0, <1>2, <1>4, <3>2 DEF TypeOK
        <4> QED
          BY <1>2, <4>1, <4>2 DEF Coming, Exists
      <3> QED
        BY <3>1, <3>2
    <2> QED
      BY <2>1, <2>3
  <1>11. ProgressInv'
    BY <1>2 DEF SInv, ProgressInv, LoadedSoFar, Matching, Fresh, Record
  <1>12. Announced'
    <2>1. kv \in Said(payload[r])
      <3>1. 1 \in DOMAIN adds[r] /\ adds[r][1] = kv
        BY <1>2, <1>3 DEF kv
      <3> QED
        BY <1>3, <3>1 DEF SInv, EInv, OwnWrites, Collected
    <2> SUFFICES ASSUME NEW q \in Runs, NEW o \in Revs,
                        Exists(pend'[q][o]), pend'[q][o].cur, ~rows[o].cur
                 PROVE  o \in Said(payload[q])
      BY <1>2 DEF SInv, SessionInv, Announced, Exists
    <2>2. CASE q = r /\ o = kv
      BY <2>1, <2>2
    <2>3. CASE ~(q = r /\ o = kv)
      BY <1>5, <2>3 DEF SInv, SessionInv, Announced, Exists
    <2> QED
      BY <2>2, <2>3
  <1> QED
    BY <1>7, <1>8, <1>9, <1>10, <1>11, <1>12 DEF SessionInv

-----------------------------------------------------------------------------
(* The invariant *)

LEMMA RolledBackStep ==
  ASSUME SInv, NEW r \in Runs, NEW stage, stage # "matching",
         Rollback(r), UNCHANGED <<rows, payload>>, pc' = [pc EXCEPT ![r] = stage]
  PROVE  TableInv' /\ SessionInv' /\ ProgressInv'
  <1>0. TypeOK
    BY DEF SInv, EInv, IInv
  <1>1. TableInv'
    BY DEF SInv, TableInv, NewestCurrent, OneId, Exists
  <1>2. /\ \A q \in Runs \ {r} : SessionUnchanged(q)
        /\ pc'[r] = stage
        /\ \A kv \in Revs : ~mem'[r][kv].seen /\ ~Exists(pend'[r][kv])
    BY <1>0, RollbackOthers
  <1>3. SessionInv'
    BY <1>2, RollbackSessions
  <1>4. ProgressInv'
    BY <1>2, ProgressElsewhere
  <1> QED
    BY <1>1, <1>3, <1>4

LEMMA RaisedStep ==
  ASSUME SInv, NEW r \in Runs, Raise(r), UNCHANGED <<tables, payload, files>>
  PROVE  TableInv' /\ SessionInv' /\ ProgressInv'
  BY RolledBackStep DEF Raise, Goto, tables

LEMMA CommitStep ==
  ASSUME SInv, NEW r \in Runs, CommitSucceeded(r)
  PROVE  TableInv' /\ SessionInv' /\ ProgressInv'
  <1>0. TypeOK
    BY DEF SInv, EInv, IInv
  <1>1. PICK stage \in {"done", "failing"} : pc' = [pc EXCEPT ![r] = stage]
    BY DEF CommitSucceeded, Goto
  <1>2. /\ Ready(r)
        /\ rows' = [kv \in Revs |-> Seen(r, kv)]
        /\ Rollback(r)
        /\ UNCHANGED payload
    BY DEF CommitSucceeded, Ready
  <1>3. /\ \A q \in Runs \ {r} : SessionUnchanged(q)
        /\ pc'[r] = stage
        /\ \A kv \in Revs : ~mem'[r][kv].seen /\ ~Exists(pend'[r][kv])
    BY <1>0, <1>1, <1>2, RollbackOthers
  <1> QED
    BY <1>1, <1>2, <1>3, CommitTable, CommitSessions, ProgressElsewhere

LEMMA StoreInvStep == SInv /\ [Next]_vars => SInv'
  <1> SUFFICES ASSUME SInv, [Next]_vars
               PROVE  TableInv' /\ SessionInv' /\ ProgressInv'
    BY EvidenceStep DEF SInv
  <1> DEFINE G == TableInv' /\ SessionInv' /\ ProgressInv'
  <1> USE DEF Goto, tables, session
  <1>0. TypeOK
    BY DEF SInv, EInv, IInv
  <1>1. ASSUME NEW r \in Runs, NEW p \in Payloads, StartIngestionRun(r, p) PROVE G
    BY <1>0, <1>1, Elsewhere DEF StartIngestionRun, TypeOK
  <1>2. ASSUME NEW r \in Runs, FindRawSnapshot(r) PROVE G
    BY <1>0, <1>2, Elsewhere DEF FindRawSnapshot, TypeOK
  <1>3. ASSUME NEW r \in Runs, OpenPayloadFile(r) PROVE G
    BY <1>0, <1>3, Elsewhere DEF OpenPayloadFile, TypeOK
  <1>4. ASSUME NEW r \in Runs, WritePayloadFile(r) PROVE G
    BY <1>0, <1>4, Elsewhere DEF WritePayloadFile, TypeOK
  <1>5. ASSUME NEW r \in Runs, InsertRawSnapshot(r) PROVE G
    BY <1>0, <1>5, Elsewhere, RaisedStep DEF InsertRawSnapshot, TypeOK
  <1>6. ASSUME NEW r \in Runs, ParsePayload(r) PROVE G
    BY <1>0, <1>6, Elsewhere, RaisedStep DEF ParsePayload, TypeOK
  <1>7. ASSUME NEW r \in Runs, GetCurrentRecord(r) PROVE G
    BY <1>7, CurrentStep
  <1>8. ASSUME NEW r \in Runs, GetExistingRevision(r) PROVE G
    BY <1>8, ReviseStep
  <1>9. ASSUME NEW r \in Runs, NEW kv \in Revs, FlushUpdate(r, kv) PROVE G
    BY <1>9, UpdateStep, RaisedStep DEF FlushUpdate
  <1>10. ASSUME NEW r \in Runs, FlushInsert(r) PROVE G
    BY <1>10, InsertStep, RaisedStep DEF FlushInsert
  <1>11. ASSUME NEW r \in Runs, DeadlockDetected(r) PROVE G
    BY <1>11, RaisedStep DEF DeadlockDetected
  <1>12. ASSUME NEW r \in Runs, CommitSucceeded(r) PROVE G
    BY <1>12, CommitStep
  <1>13. ASSUME NEW r \in Runs, MarkFailed(r) PROVE G
    BY <1>0, <1>13, Elsewhere DEF MarkFailed, TypeOK
  <1>14. ASSUME NEW r \in Runs, StorageError(r) PROVE G
    BY <1>14, RaisedStep DEF StorageError
  <1>15. ASSUME NEW r \in Runs, Crash(r) PROVE G
    BY <1>15, RolledBackStep DEF Crash
  <1>16. CASE UNCHANGED vars
    BY <1>16, Elsewhere DEF vars
  <1> QED
    BY <1>1, <1>2, <1>3, <1>4, <1>5, <1>6, <1>7, <1>8, <1>9, <1>10, <1>11,
       <1>12, <1>13, <1>14, <1>15, <1>16 DEF Next, Step

LEMMA StoreInvInit == Init => SInv
  <1> SUFFICES ASSUME Init PROVE SInv
    OBVIOUS
  <1>1. /\ \A kv \in Revs : ~Exists(rows[kv])
        /\ \A r \in Runs, kv \in Revs : ~Exists(pend[r][kv]) /\ ~mem[r][kv].seen
        /\ \A r \in Runs : pc[r] = "idle"
    BY DEF Init, Exists, NoRow, NotLoaded
  <1>2. TableInv
    BY <1>1 DEF TableInv, NewestCurrent, OneId
  <1>3. SessionInv
    BY <1>1 DEF SessionInv, Versions, UpdateOrder, Replaced, Announced, Retired
  <1>4. ProgressInv
    BY <1>1 DEF ProgressInv, LoadedSoFar, Matching
  <1> QED
    BY <1>2, <1>3, <1>4, EvidenceInit DEF SInv

-----------------------------------------------------------------------------
(* The refinement *)

(* A commit publishes the rows that it makes current, at most one of a key *)
(* (New); a key of which it only retires the current row is one that some  *)
(* payload states twice (lost).                                            *)
LEMMA CommitPublishes ==
  ASSUME SInv, SInv', NEW r \in Runs, CommitSucceeded(r),
         NEW p \in Payloads, p = payload[r]
  PROVE  Store!Publish(p)
  <1> DEFINE New == {kv \in Revs : rows'[kv].cur /\ ~rows[kv].cur}
             K == {kv[1] : kv \in New}
             value == [k \in K |-> CHOOSE v \in Values : <<k, v>> \in New]
             gone == {kv \in Revs : rows[kv].cur /\ ~rows'[kv].cur /\ kv[1] \notin K}
             lost == {kv[1] : kv \in gone}
             stated == {kv[1] : kv \in Said(payload[r])}
             known == {kv \in Revs : Exists(rows[kv])}
             published == [k \in Keys |-> {v \in Values : rows[<<k, v>>].cur}]
  <1>0. /\ TypeOK /\ OneCurrentRevision /\ LoadedExist
        /\ OneCurrentRevision' /\ LoadedExist'
    BY DEF SInv, EInv, IInv
  <1>1. /\ Ready(r)
        /\ \A kv \in Revs : rows'[kv] = Seen(r, kv)
    BY DEF CommitSucceeded, Ready
  <1>2. \A kv \in Revs : \E k \in Keys, v \in Values : kv = <<k, v>>
    BY DEF Revs
  <1>3. \A k \in Keys, v \in Values : <<k, v>> \in Revs
    BY DEF Revs
  <1>4. \A kv \in New : kv \in Said(payload[r])
    BY <1>1 DEF Seen, SInv, SessionInv, Announced
  <1>5. ASSUME NEW k \in K
        PROVE  k \in Keys /\ value[k] \in Values /\ <<k, value[k]>> \in New
    <2>1. PICK kv \in New : kv[1] = k
      OBVIOUS
    <2>2. PICK v \in Values : kv = <<k, v>> /\ k \in Keys
      BY <1>2, <2>1
    <2>3. value[k] = CHOOSE w \in Values : <<k, w>> \in New
      OBVIOUS
    <2> HIDE DEF New, value
    <2>4. <<k, v>> \in New
      BY <2>1, <2>2
    <2> QED
      BY <2>2, <2>3, <2>4
  <1>6. \A kv \in New : kv[1] \in K
    OBVIOUS
  <1>7. \A kv \in Revs : Exists(rows'[kv]) <=> Exists(rows[kv]) \/ kv \in New
    <2> SUFFICES ASSUME NEW kv \in Revs
                 PROVE  Exists(rows'[kv]) <=> Exists(rows[kv]) \/ kv \in New
      OBVIOUS
    <2>1. kv \in New => Exists(rows'[kv])
      BY <1>0 DEF LoadedExist, Exists
    <2>2. Exists(rows[kv]) => Exists(rows'[kv])
      BY <1>1 DEF Seen
    <2>3. Exists(rows'[kv]) /\ ~Exists(rows[kv]) => rows'[kv].cur /\ ~rows[kv].cur
      BY <1>0, <1>1 DEF Seen, SInv, SessionInv, Versions, Version, LoadedExist
    <2> QED
      BY <2>1, <2>2, <2>3
  <1>8. \A kv \in gone : kv[1] \in Repeated
    <2> SUFFICES ASSUME NEW kv \in gone, Plain(kv) PROVE FALSE
      BY DEF Plain
    <2>1. PICK other \in SameKey(kv) : Exists(pend[r][other]) /\ pend[r][other].cur
      BY <1>1, NothingWithdrawn
    <2>2. other \in Revs /\ other[1] = kv[1]
      BY SameKeySymmetric
    <2>3. rows'[other].cur /\ ~rows[other].cur
      BY <1>0, <1>1, <2>1, <2>2 DEF Seen, OneCurrentRevision
    <2> QED
      BY <2>2, <2>3
  <1>9. \A kv \in gone : kv[1] \in stated
    <2> SUFFICES ASSUME NEW kv \in gone PROVE kv[1] \in stated
      OBVIOUS
    <2>1. mem[r][kv].seen
      BY <1>0, <1>1 DEF Seen, LoadedExist, SInv, SessionInv, Versions, Version, Retired
    <2>2. PICK i \in DOMAIN Records[payload[r]] : kv[1] = Records[payload[r]][i][1]
      BY <2>1 DEF SInv, ProgressInv, LoadedSoFar
    <2> QED
      BY <2>2 DEF Said
  <1> HIDE DEF New, K, value
  <1>10. New \subseteq Revs /\ \A kv \in New : rows'[kv].cur
    BY DEF New
  <1>11. /\ K \in SUBSET stated
         /\ lost \in SUBSET (stated \cap Repeated)
    BY <1>4, <1>8, <1>9 DEF K
  <1>12. value \in [K -> Values]
    BY <1>5 DEF value
  <1>13. \A k \in K : <<k, value[k]>> \in Said(payload[r])
    BY <1>4, <1>5
  <1>14. \A kv \in New : kv = <<kv[1], value[kv[1]]>>
    <2> SUFFICES ASSUME NEW kv \in New PROVE kv = <<kv[1], value[kv[1]]>>
      OBVIOUS
    <2> DEFINE other == <<kv[1], value[kv[1]]>>
    <2>1. other \in New /\ other[1] = kv[1] /\ other \in Revs /\ kv \in Revs
      BY <1>5, <1>6, <1>10
    <2>2. rows'[other].cur /\ rows'[kv].cur
      BY <1>10, <2>1
    <2> HIDE DEF other
    <2>3. other \in SameKey(kv) \/ other = kv
      BY <2>1 DEF SameKey
    <2>4. other = kv
      BY <1>0, <2>1, <2>2, <2>3 DEF OneCurrentRevision, SameKey
    <2> QED
      BY <2>4 DEF other
  <1>15. known' = known \cup {<<k, value[k]>> : k \in K}
    <2>1. \A kv \in Revs : kv \in New <=> kv \in {<<k, value[k]>> : k \in K}
      BY <1>5, <1>6, <1>14
    <2>2. {<<k, value[k]>> : k \in K} \subseteq Revs
      BY <1>5, <1>10
    <2> QED
      BY <1>7, <2>1, <2>2 DEF Exists
  <1>16. published' = [k \in Keys |-> IF k \in K THEN {value[k]}
                                      ELSE IF k \in lost THEN {} ELSE published[k]]
    <2> SUFFICES ASSUME NEW k \in Keys
                 PROVE  {v \in Values : rows'[<<k, v>>].cur} =
                           IF k \in K THEN {value[k]}
                           ELSE IF k \in lost THEN {}
                           ELSE {v \in Values : rows[<<k, v>>].cur}
      OBVIOUS
    <2>1. CASE k \in K
      <3>1. <<k, value[k]>> \in Revs /\ value[k] \in Values /\ rows'[<<k, value[k]>>].cur
        BY <1>5, <1>10, <2>1
      <3>2. ASSUME NEW v \in Values, rows'[<<k, v>>].cur PROVE v = value[k]
        <4>1. <<k, v>> \in Revs
          BY <1>3
        <4>2. <<k, v>> \notin SameKey(<<k, value[k]>>)
          BY <1>0, <3>1, <3>2 DEF OneCurrentRevision
        <4> QED
          BY <4>1, <4>2 DEF SameKey
      <3> QED
        BY <2>1, <3>1, <3>2
    <2>2. ASSUME k \notin K, NEW v \in Values, rows'[<<k, v>>].cur PROVE rows[<<k, v>>].cur
      <3>1. <<k, v>> \in Revs /\ <<k, v>> \notin New
        BY <1>3, <1>6, <2>2
      <3> QED
        BY <2>2, <3>1 DEF New
    <2>3. CASE k \notin K /\ k \in lost
      <3>1. PICK kv \in gone : kv[1] = k
        BY <2>3
      <3>2. ASSUME NEW v \in Values, rows'[<<k, v>>].cur PROVE FALSE
        <4>1. rows[<<k, v>>].cur /\ <<k, v>> \in Revs
          BY <1>3, <2>2, <2>3, <3>2
        <4>2. <<k, v>> \in SameKey(kv)
          BY <3>1, <3>2, <4>1 DEF SameKey
        <4> QED
          BY <1>0, <3>1, <4>1, <4>2 DEF OneCurrentRevision
      <3> QED
        BY <2>3, <3>2
    <2>4. CASE k \notin K /\ k \notin lost
      <3>1. \A v \in Values : rows[<<k, v>>].cur => rows'[<<k, v>>].cur
        <4> SUFFICES ASSUME NEW v \in Values, rows[<<k, v>>].cur, ~rows'[<<k, v>>].cur
                     PROVE  FALSE
          OBVIOUS
        <4>1. <<k, v>> \in gone
          BY <1>3, <2>4
        <4> QED
          BY <2>4, <4>1
      <3>2. \A v \in Values : rows'[<<k, v>>].cur <=> rows[<<k, v>>].cur
        BY <2>2, <2>4, <3>1
      <3> QED
        BY <2>4, <3>2
    <2> QED
      BY <2>1, <2>3, <2>4
  <1>17. stated = Store!StatedKeys(p) /\ \A k \in K : <<k, value[k]>> \in Said(p)
    BY <1>13 DEF Store!StatedKeys
  <1> HIDE DEF lost, gone, stated
  <1> SUFFICES \E K_ \in SUBSET stated, lost_ \in SUBSET (stated \cap Repeated) :
                  \E value_ \in [K_ -> Values] :
                     /\ \A k \in K_ : <<k, value_[k]>> \in Said(p)
                     /\ known' = known \cup {<<k, value_[k]>> : k \in K_}
                     /\ published' = [k \in Keys |->
                           IF k \in K_ THEN {value_[k]}
                           ELSE IF k \in lost_ THEN {} ELSE published[k]]
    BY <1>17 DEF Store!Publish
  <1> HIDE DEF known, published
  <1> USE <1>11, <1>12
  <1> WITNESS K \in SUBSET stated, lost \in SUBSET (stated \cap Repeated)
  <1> WITNESS value \in [K -> Values]
  <1> QED
    BY <1>15, <1>16, <1>17

LEMMA StoreStep ==
  SInv /\ SInv' /\ [Next]_vars => [Store!StoreNext]_(Store!storeVars)
  <1> SUFFICES ASSUME SInv, SInv', [Next]_vars
               PROVE  Store!StoreNext \/ UNCHANGED Store!storeVars
    OBVIOUS
  <1>1. CASE rows' = rows
    BY <1>1 DEF Store!storeVars, Exists
  <1>2. ASSUME NEW r \in Runs, CommitSucceeded(r) PROVE Store!StoreNext
    <2>1. PICK p \in Payloads : p = payload[r]
      BY <1>2 DEF SInv, EInv, IInv, TypeOK, CommitSucceeded, Flushing
    <2>2. Store!Publish(p)
      BY <1>2, <2>1, CommitPublishes
    <2> QED
      BY <2>2 DEF Store!StoreNext
  <1> QED
    BY <1>1, <1>2
       DEF Next, Step, StartIngestionRun, FindRawSnapshot, OpenPayloadFile,
           WritePayloadFile, StorageError, InsertRawSnapshot, ParsePayload,
           GetCurrentRecord, GetExistingRevision, FlushUpdate, FlushInsert,
           DeadlockDetected, MarkFailed, Crash, tables, vars

(* However many runs load, fail, crash, wait or lose an answer, the silver *)
(* table is a revision store: each load takes effect whole, on keys its    *)
(* payload states, and the keys that no payload states twice are never     *)
(* withdrawn.                                                              *)
THEOREM TableImplementsStore == Spec => ImplementsRevisionStore
  <1>1. Init => Store!StoreInit
    BY DEF Init, Store!StoreInit, Exists, NoRow, Revs
  <1>2. Spec => []SInv
    <2>1. SInv /\ [Next]_vars => SInv'
      BY StoreInvStep
    <2> QED
      BY <2>1, StoreInvInit, PTL DEF Spec
  <1> QED
    BY <1>1, <1>2, StoreStep, PTL DEF Spec, ImplementsRevisionStore, Store!StoreSpec

-----------------------------------------------------------------------------
(* One run at a time                                                       *)
(*                                                                         *)
(* Between overlapping runs a record read as unchanged may be superseded   *)
(* before its reader commits.  A run that is alone commits what it read:   *)
(* what its session has loaded is what its transaction sees (ReadTrue),    *)
(* and every record it is through with has left the key a revision that    *)
(* will be current (Accounted).  A payload may state a key twice.          *)

(* One run is in progress at most. *)
Alone == \A r, s \in Runs : Open(r) /\ Open(s) => r = s

(* Finitely many are, of however many there are. *)
FewOpen == IsFiniteSet({r \in Runs : Open(r)})

(* One of the first n - 1 records of r's payload is of key k. *)
Through(r, k, n) ==
    \E i \in DOMAIN Records[payload[r]] : i < n /\ Records[payload[r]][i][1] = k

(* What r's commit would make of kv. *)
WillBeCurrent(r, kv) ==
    \/ \E i \in DOMAIN adds[r] : adds[r][i] = kv
    \/ IF mem[r][kv].seen THEN mem[r][kv].now ELSE Seen(r, kv).cur

(* What r has loaded is still so, and of the records it is through with. *)
ReadTrue(r) ==
    \A kv \in Revs : mem[r][kv].seen =>
        /\ mem[r][kv].was = Seen(r, kv).cur
        /\ Through(r, kv[1], pos[r] + 1)
        /\ mem[r][kv].was # mem[r][kv].now => Through(r, kv[1], pos[r])

(* What r is going to write is of keys of records it is through with. *)
WritesOwnKeys(r) ==
    /\ \A kv \in Revs : Exists(pend[r][kv]) => Through(r, kv[1], pos[r])
    /\ \A i \in DOMAIN adds[r] : Through(r, adds[r][i][1], pos[r])

(* Each of those will have a current revision that the payload states. *)
Accounted(r) ==
    \A i \in DOMAIN Records[payload[r]] : i < pos[r] =>
        \E kv \in Said(payload[r]) :
            kv[1] = Records[payload[r]][i][1] /\ WillBeCurrent(r, kv)

(* What the last query returned is of the key of the record in hand. *)
InHand(r) == pc[r] = "matching" => \A kv \in current[r] : kv[1] = Record(r)[1]

(* All of it, of a run that loads; any other has its loop before it. *)
Faithful(r) == ReadTrue(r) /\ WritesOwnKeys(r) /\ Accounted(r) /\ InHand(r)

LoadInv ==
    \A r \in Runs : IF pc[r] \in {"loading", "matching"} THEN Faithful(r) ELSE pos[r] = 1

SerialInv == EInv /\ FewOpen /\ Alone /\ LoadInv

(* To be through with more records is to be through with these.            *)
LEMMA ThroughMore ==
  ASSUME NEW r \in Runs, NEW k, NEW n \in Int, NEW m \in Int, Through(r, k, n), n =< m,
         payload[r] \in Payloads
  PROVE  Through(r, k, m)
  <1>1. DOMAIN Records[payload[r]] \subseteq Int
    BY IngestionAssumption
  <1> QED
    BY <1>1 DEF Through

(* The record in hand is one of the payload's. *)
LEMMA HandIs ==
  ASSUME TypeOK, NEW r \in Runs, pc[r] # "idle", pos[r] <= Len(Records[payload[r]])
  PROVE  /\ pos[r] \in DOMAIN Records[payload[r]]
         /\ Record(r) = Records[payload[r]][pos[r]]
         /\ Record(r) \in Revs /\ Record(r) \in Said(payload[r])
         /\ Through(r, Record(r)[1], pos[r] + 1)
         /\ ~Flushing(r)
  <1>1. payload[r] \in Payloads /\ pos[r] \in Nat \ {0}
    BY DEF TypeOK
  <1>2. pos[r] \in DOMAIN Records[payload[r]] /\ pos[r] < pos[r] + 1
    BY <1>1, IngestionAssumption
  <1>3. Record(r) = Records[payload[r]][pos[r]] /\ Record(r) \in Revs
    BY RecordType DEF Record
  <1>4. Len(Records[payload[r]]) \in Nat
    BY <1>1, IngestionAssumption
  <1>5. ~Flushing(r)
    BY <1>1, <1>4 DEF Flushing
  <1> QED
    BY <1>2, <1>3, <1>5, RecordSaid DEF Through

(* _get_current_record keeps the session faithful: a row that it finds     *)
(* current is, or an earlier record of its key has retired it.             *)
LEMMA CurrentFaithful ==
  ASSUME EInv, NEW r \in Runs, Faithful(r), GetCurrentRecord(r)
  PROVE  Faithful(r)'
  <1> DEFINE found == {kv \in Revs : kv[1] = Record(r)[1] /\ rows[kv].cur}
             new == Record(r)
  <1>0. TypeOK
    BY DEF EInv, IInv
  <1>1. /\ pc[r] = "loading" /\ pos[r] <= Len(Records[payload[r]])
        /\ mem' = [mem EXCEPT ![r] = [kv \in Revs |->
                      IF kv \in found THEN Load(@[kv], TRUE)
                      ELSE IF Modified(@[kv]) THEN @[kv] ELSE NotLoaded]]
        /\ UNCHANGED <<rows, payload, pend, adds>>
        /\ \/ /\ new \in found
              /\ pos' = [pos EXCEPT ![r] = @ + 1]
              /\ UNCHANGED <<pc, current>>
           \/ /\ new \notin found
              /\ current' = [current EXCEPT ![r] = found]
              /\ pc' = [pc EXCEPT ![r] = "matching"]
              /\ UNCHANGED pos
    BY DEF GetCurrentRecord, tables, Goto
  <1>2. /\ pos[r] \in DOMAIN Records[payload[r]]
        /\ new = Records[payload[r]][pos[r]]
        /\ new \in Revs /\ new \in Said(payload[r])
        /\ Through(r, new[1], pos[r] + 1)
        /\ ~Flushing(r)
        /\ pos[r] \in Nat
        /\ payload[r] \in Payloads
    BY <1>0, <1>1, HandIs DEF TypeOK
  <1>3. \A kv \in found : kv \in Revs /\ kv[1] = new[1] /\ rows[kv].cur
    OBVIOUS
  <1>4. \A kv \in Revs : ~Exists(pend[r][kv]) /\ Seen(r, kv) = rows[kv]
    BY <1>2 DEF EInv, IInv, Quiet, Seen
  <1>5. \/ pos'[r] = pos[r] /\ new \notin found
        \/ pos'[r] = pos[r] + 1 /\ new \in found /\ pc'[r] = "loading"
    BY <1>0, <1>1 DEF TypeOK
  <1>6. \A kv \in Revs :
           mem'[r][kv] = IF kv \in found THEN Load(mem[r][kv], TRUE)
                         ELSE IF Modified(mem[r][kv]) THEN mem[r][kv] ELSE NotLoaded
    BY <1>0, <1>1 DEF TypeOK
  <1>7. \A kv \in Revs : mem[r][kv] \in Loaded /\ rows[kv].cur \in BOOLEAN
    BY <1>0, RowsTyped DEF TypeOK
  <1>8. current'[r] = found \/ pc'[r] = "loading"
    BY <1>0, <1>1 DEF TypeOK
  <1>9. Record(r)' = new \/ pc'[r] = "loading"
    BY <1>0, <1>1 DEF TypeOK, Record
  <1> HIDE DEF found, new
  <1>10. \A kv \in Revs : Seen(r, kv)' = rows[kv]
    BY <1>1, <1>4 DEF Seen, Exists
  <1>11. \A k, n : Through(r, k, n) => Through(r, k, n)'
    BY <1>1 DEF Through
  <1>12. \A k : /\ Through(r, k, pos[r]) => Through(r, k, pos'[r])
                /\ Through(r, k, pos[r] + 1) => Through(r, k, pos'[r] + 1)
    BY <1>2, <1>5, ThroughMore
  <1>13. \A kv \in Revs :
            \/ mem[r][kv].seen /\ mem'[r][kv] = mem[r][kv]
            \/ mem[r][kv].seen /\ mem[r][kv].now = mem[r][kv].was /\ ~mem'[r][kv].seen
               /\ kv \notin found
            \/ ~mem[r][kv].seen /\ ~mem'[r][kv].seen /\ kv \notin found
            \/ /\ ~mem[r][kv].seen /\ kv \in found
               /\ mem'[r][kv].seen /\ mem'[r][kv].was /\ mem'[r][kv].now
    <2> TAKE kv \in Revs
    <2>1. CASE kv \in found
      <3>1. mem'[r][kv] = Load(mem[r][kv], TRUE)
        BY <1>6, <2>1
      <3>2. CASE mem[r][kv].seen
        BY <1>7, <3>1, <3>2, LoadCell
      <3>3. CASE ~mem[r][kv].seen
        <4>1. PICK m \in Loaded : m = mem[r][kv]
          BY <1>7
        <4>2. Load(m, TRUE).seen /\ Load(m, TRUE).was /\ Load(m, TRUE).now
          BY <3>3, <4>1, LoadCell
        <4> QED
          BY <2>1, <3>1, <3>3, <4>1, <4>2
      <3> QED
        BY <3>2, <3>3
    <2>2. CASE kv \notin found /\ Modified(mem[r][kv])
      BY <1>6, <2>2
    <2>3. CASE kv \notin found /\ ~Modified(mem[r][kv])
      BY <1>6, <2>3, LoadCell DEF Modified
    <2> QED
      BY <2>1, <2>2, <2>3
  <1>14. ReadTrue(r)'
    <2> SUFFICES ASSUME NEW kv \in Revs, mem'[r][kv].seen
                 PROVE  /\ mem'[r][kv].was = rows[kv].cur
                        /\ Through(r, kv[1], pos'[r] + 1)
                        /\ mem'[r][kv].was # mem'[r][kv].now => Through(r, kv[1], pos'[r])
      BY <1>10, <1>1 DEF ReadTrue, Through
    <2>1. CASE mem[r][kv].seen /\ mem'[r][kv] = mem[r][kv]
      BY <1>4, <1>12, <2>1 DEF Faithful, ReadTrue
    <2>2. CASE kv \in found /\ mem'[r][kv].was /\ mem'[r][kv].now
      <3>1. rows[kv].cur = TRUE /\ mem'[r][kv].was = TRUE /\ mem'[r][kv].now = TRUE
        <4>1. mem'[r][kv] \in Loaded
          BY <1>6, <1>7, <2>2, LoadedOps
        <4> QED
          BY <1>3, <1>7, <2>2, <4>1 DEF Loaded
      <3> QED
        BY <1>2, <1>3, <1>12, <2>2, <3>1
    <2> QED
      BY <1>13, <2>1, <2>2
  <1>15. WritesOwnKeys(r)'
    <2>1. \A kv \in Revs : ~Exists(pend[r][kv])'
      BY <1>1, <1>4 DEF Exists
    <2>2. \A i \in DOMAIN adds[r] : Through(r, adds[r][i][1], pos'[r])
      BY <1>12 DEF Faithful, WritesOwnKeys
    <2> QED
      BY <1>1, <2>1, <2>2 DEF WritesOwnKeys, Through
  <1>16. \A kv \in Revs : WillBeCurrent(r, kv) => WillBeCurrent(r, kv)'
    <2> SUFFICES ASSUME NEW kv \in Revs, WillBeCurrent(r, kv) PROVE WillBeCurrent(r, kv)'
      OBVIOUS
    <2>1. CASE \E i \in DOMAIN adds[r] : adds[r][i] = kv
      BY <1>1, <2>1 DEF WillBeCurrent
    <2>2. CASE IF mem[r][kv].seen THEN mem[r][kv].now ELSE Seen(r, kv).cur
      <3>1. mem[r][kv].seen => mem[r][kv].was = rows[kv].cur
        BY <1>4 DEF Faithful, ReadTrue
      <3> QED
        BY <1>4, <1>10, <1>13, <2>2, <3>1 DEF WillBeCurrent
    <2> QED
      BY <2>1, <2>2 DEF WillBeCurrent
  <1>17. Accounted(r)'
    <2> SUFFICES ASSUME NEW i \in DOMAIN Records[payload[r]], i < pos'[r]
                 PROVE  \E kv \in Said(payload[r]) :
                           kv[1] = Records[payload[r]][i][1] /\ WillBeCurrent(r, kv)'
      BY <1>1 DEF Accounted
    <2>0. \A kv \in Said(payload[r]) : kv \in Revs
      BY <1>2, IngestionAssumption DEF Said, Revs
    <2>1. ASSUME NEW j \in DOMAIN Records[payload[r]], j < pos[r]
          PROVE  \E kv \in Said(payload[r]) :
                    kv[1] = Records[payload[r]][j][1] /\ WillBeCurrent(r, kv)'
      BY <1>16, <2>0, <2>1 DEF Faithful, Accounted
    <2>2. CASE i = pos[r] /\ new \in found
      <3>1. CASE mem'[r][new].seen /\ mem'[r][new].now
        BY <1>2, <2>2, <3>1 DEF WillBeCurrent
      <3>2. CASE mem[r][new].seen /\ mem'[r][new] = mem[r][new] /\ ~mem[r][new].now
        <4>1. mem[r][new].was = rows[new].cur /\ rows[new].cur
          BY <1>2, <1>3, <1>4, <2>2, <3>2 DEF Faithful, ReadTrue
        <4>2. Through(r, new[1], pos[r])
          BY <1>2, <3>2, <4>1 DEF Faithful, ReadTrue
        <4>3. PICK j \in DOMAIN Records[payload[r]] : j < pos[r] /\ Records[payload[r]][j][1] = new[1]
          BY <4>2 DEF Through
        <4> QED
          BY <1>2, <2>1, <2>2, <4>3
      <3> QED
        BY <1>2, <1>13, <2>2, <3>1, <3>2
    <2>3. i < pos[r] \/ (i = pos[r] /\ new \in found)
      <3>1. i \in Int
        BY <1>2, IngestionAssumption
      <3> QED
        BY <1>2, <1>5, <3>1
    <2> QED
      BY <2>1, <2>2, <2>3
  <1>18. InHand(r)'
    BY <1>3, <1>8, <1>9 DEF InHand
  <1> QED
    BY <1>14, <1>15, <1>17, <1>18 DEF Faithful

(* So do _get_existing_revision and the rest of the loop body: what they   *)
(* retire is of the key of the record that they make current.              *)
LEMMA ReviseFaithful ==
  ASSUME EInv, NEW r \in Runs, Faithful(r), GetExistingRevision(r)
  PROVE  Faithful(r)'
  <1> DEFINE new == Record(r)
             retired == [kv \in Revs |-> IF kv \in current[r]
                           THEN Retire(mem[r][kv]) ELSE mem[r][kv]]
             reused == [retired EXCEPT ![new] = Reuse(Load(@, rows[new].cur))]
  <1>0. TypeOK
    BY DEF EInv, IInv
  <1>1. /\ pc[r] = "matching" /\ pos[r] <= Len(Records[payload[r]])
        /\ \/ /\ Exists(rows[new])
              /\ mem' = [mem EXCEPT ![r] = reused]
              /\ adds' = adds
           \/ /\ ~Exists(rows[new])
              /\ mem' = [mem EXCEPT ![r] = retired]
              /\ adds' = [adds EXCEPT ![r] = Append(@, new)]
        /\ pos' = [pos EXCEPT ![r] = @ + 1]
        /\ pc' = [pc EXCEPT ![r] = "loading"]
        /\ UNCHANGED <<rows, payload, pend>>
    BY <1>0 DEF GetExistingRevision, tables, Goto, TypeOK
  <1>2. /\ pos[r] \in DOMAIN Records[payload[r]]
        /\ new = Records[payload[r]][pos[r]]
        /\ new \in Revs /\ new \in Said(payload[r])
        /\ Through(r, new[1], pos[r] + 1)
        /\ ~Flushing(r)
        /\ pos[r] \in Nat
        /\ payload[r] \in Payloads
    BY <1>0, <1>1, HandIs DEF TypeOK
  <1>3. \A kv \in current[r] : kv[1] = new[1]
    BY <1>1 DEF Faithful, InHand
  <1>4. \A kv \in Revs : ~Exists(pend[r][kv]) /\ Seen(r, kv) = rows[kv]
    BY <1>2 DEF EInv, IInv, Quiet, Seen
  <1>5. pos'[r] = pos[r] + 1 /\ pc'[r] = "loading"
    BY <1>0, <1>1 DEF TypeOK
  <1>6. \A kv \in Revs :
           retired[kv] = IF kv \in current[r] THEN Retire(mem[r][kv]) ELSE mem[r][kv]
    OBVIOUS
  <1>7. DOMAIN retired = Revs
    OBVIOUS
  <1>8. \A kv \in Revs : mem[r][kv] \in Loaded /\ rows[kv].cur \in BOOLEAN
    BY <1>0, RowsTyped DEF TypeOK
  <1> HIDE DEF new, retired
  <1>9. \A kv \in Revs \ {new} : mem'[r][kv] = retired[kv]
    BY <1>0, <1>1, <1>7 DEF TypeOK
  <1>10. /\ Exists(rows[new]) => mem'[r][new] = Reuse(Load(retired[new], rows[new].cur))
         /\ ~Exists(rows[new]) => mem'[r][new] = retired[new]
    BY <1>0, <1>1, <1>2, <1>7 DEF TypeOK
  <1>11. \A kv \in Revs : /\ retired[kv].seen = mem[r][kv].seen
                          /\ retired[kv].was = mem[r][kv].was
                          /\ kv \notin current[r] => retired[kv].now = mem[r][kv].now
                          /\ retired[kv] \in Loaded
    <2>1. \A m \in Loaded : /\ Retire(m).seen = m.seen /\ Retire(m).was = m.was
                            /\ Retire(m) \in Loaded
      BY DEF Retire, Loaded
    <2> QED
      BY <1>6, <1>8, <2>1
  <1>12. Exists(rows[new]) =>
           /\ mem'[r][new].seen /\ mem'[r][new].now
           /\ mem'[r][new].was = IF mem[r][new].seen THEN mem[r][new].was ELSE rows[new].cur
    BY <1>2, <1>10, <1>11 DEF Reuse, Load, Loaded
  <1>13. /\ \A i \in DOMAIN adds[r] : i \in DOMAIN adds'[r] /\ adds'[r][i] = adds[r][i]
         /\ ~Exists(rows[new]) => \E i \in DOMAIN adds'[r] : adds'[r][i] = new
         /\ \A i \in DOMAIN adds'[r] :
               adds'[r][i] = new \/ (i \in DOMAIN adds[r] /\ adds'[r][i] = adds[r][i])
    <2>1. adds[r] \in Seq(Revs)
      BY <1>0 DEF TypeOK
    <2>2. /\ \A i \in DOMAIN adds[r] :
               i \in DOMAIN Append(adds[r], new) /\ Append(adds[r], new)[i] = adds[r][i]
          /\ Len(adds[r]) + 1 \in DOMAIN Append(adds[r], new)
          /\ Append(adds[r], new)[Len(adds[r]) + 1] = new
          /\ \A i \in DOMAIN Append(adds[r], new) :
                i = Len(adds[r]) + 1 \/ i \in DOMAIN adds[r]
      BY <1>2, <2>1
    <2>3. adds'[r] = adds[r] \/ adds'[r] = Append(adds[r], new)
      BY <1>0, <1>1 DEF TypeOK
    <2>4. ~Exists(rows[new]) => adds'[r] = Append(adds[r], new)
      BY <1>0, <1>1 DEF TypeOK
    <2> QED
      BY <2>2, <2>3, <2>4
  <1>14. \A kv \in Revs : Seen(r, kv)' = rows[kv]
    BY <1>1, <1>4 DEF Seen, Exists
  <1>15. \A k : /\ Through(r, k, pos[r]) => Through(r, k, pos[r] + 1)
                /\ Through(r, k, pos[r] + 1) => Through(r, k, (pos[r] + 1) + 1)
    <2>1. pos[r] + 1 \in Int /\ (pos[r] + 1) + 1 \in Int /\ pos[r] =< pos[r] + 1
          /\ pos[r] + 1 =< (pos[r] + 1) + 1 /\ pos[r] \in Int
      BY <1>2
    <2> QED
      BY <1>2, <2>1, ThroughMore
  <1>16. ReadTrue(r)'
    <2>0. \A k, n : Through(r, k, n) => Through(r, k, n)'
      BY <1>1 DEF Through
    <2> SUFFICES ASSUME NEW kv \in Revs, mem'[r][kv].seen
                 PROVE  /\ mem'[r][kv].was = rows[kv].cur
                        /\ Through(r, kv[1], pos[r] + 1)
      BY <1>5, <1>14, <1>15, <2>0 DEF ReadTrue
    <2>1. CASE kv = new /\ Exists(rows[new])
      BY <1>2, <1>4, <1>12, <2>1 DEF Faithful, ReadTrue
    <2>2. CASE kv # new \/ ~Exists(rows[new])
      <3>1. mem'[r][kv] = retired[kv]
        BY <1>9, <1>10, <2>2
      <3> QED
        BY <1>4, <1>11, <3>1 DEF Faithful, ReadTrue
    <2> QED
      BY <2>1, <2>2
  <1>17. WritesOwnKeys(r)'
    <2>1. \A kv \in Revs : ~Exists(pend[r][kv])'
      BY <1>1, <1>4 DEF Exists
    <2>2. \A i \in DOMAIN adds'[r] : Through(r, adds'[r][i][1], pos[r] + 1)
      BY <1>2, <1>13, <1>15 DEF Faithful, WritesOwnKeys
    <2> QED
      BY <1>1, <1>5, <2>1, <2>2 DEF WritesOwnKeys, Through
  <1>18. \A kv \in Revs : kv = new => WillBeCurrent(r, kv)'
    <2> SUFFICES ASSUME NEW kv \in Revs, kv = new PROVE WillBeCurrent(r, kv)'
      OBVIOUS
    <2>1. CASE Exists(rows[new])
      BY <1>12, <2>1 DEF WillBeCurrent
    <2>2. CASE ~Exists(rows[new])
      BY <1>13, <2>2 DEF WillBeCurrent
    <2> QED
      BY <2>1, <2>2
  <1>19. \A kv \in Revs : kv[1] # new[1] /\ WillBeCurrent(r, kv) => WillBeCurrent(r, kv)'
    <2> SUFFICES ASSUME NEW kv \in Revs, kv[1] # new[1], WillBeCurrent(r, kv)
                 PROVE  WillBeCurrent(r, kv)'
      OBVIOUS
    <2>1. mem'[r][kv] = mem[r][kv]
      BY <1>3, <1>6, <1>9
    <2>2. Seen(r, kv)' = Seen(r, kv)
      BY <1>4, <1>14
    <2> QED
      BY <1>13, <2>1, <2>2 DEF WillBeCurrent
  <1>20. Accounted(r)'
    <2> SUFFICES ASSUME NEW i \in DOMAIN Records[payload[r]], i < pos[r] + 1
                 PROVE  \E kv \in Said(payload[r]) :
                           kv[1] = Records[payload[r]][i][1] /\ WillBeCurrent(r, kv)'
      BY <1>1, <1>5 DEF Accounted
    <2>0. \A kv \in Said(payload[r]) : kv \in Revs
      BY <1>2, IngestionAssumption DEF Said, Revs
    <2>1. CASE Records[payload[r]][i][1] = new[1]
      BY <1>2, <1>18, <2>1
    <2>2. CASE Records[payload[r]][i][1] # new[1]
      <3>1. i < pos[r]
        <4>1. i \in Int /\ i # pos[r]
          BY <1>2, <2>2, IngestionAssumption
        <4> QED
          BY <1>2, <4>1
      <3> QED
        BY <1>19, <2>0, <2>2, <3>1 DEF Faithful, Accounted
    <2> QED
      BY <2>1, <2>2
  <1>21. InHand(r)'
    BY <1>5 DEF InHand
  <1> QED
    BY <1>16, <1>17, <1>20, <1>21 DEF Faithful

(* One UPDATE of session.flush() writes what the session holds.            *)
LEMMA UpdateFaithful ==
  ASSUME EInv, NEW r \in Runs, Faithful(r), NEW kv \in Revs, FlushUpdate(r, kv), ~Raise(r)
  PROVE  Faithful(r)'
  <1>0. TypeOK
    BY DEF EInv, IInv
  <1>1. /\ Flushing(r) /\ kv \in Dirty(r)
        /\ pend' = [pend EXCEPT ![r][kv] = Updated(r, kv)]
        /\ mem' = [mem EXCEPT ![r][kv] = Flushed(@)]
        /\ UNCHANGED <<rows, payload, pc, adds, pos>>
    BY DEF FlushUpdate, NextUpdate, tables
  <1>2. /\ pend'[r][kv] = Updated(r, kv)
        /\ mem'[r][kv] = Flushed(mem[r][kv])
        /\ \A x \in Revs \ {kv} : pend'[r][x] = pend[r][x] /\ mem'[r][x] = mem[r][x]
        /\ mem[r][kv] \in Loaded /\ rows[kv].cur \in BOOLEAN
    BY <1>0, <1>1, RowsTyped DEF TypeOK
  <1>3. ~Exists(pend[r][kv]) /\ mem[r][kv].seen /\ Exists(rows[kv])
    BY <1>1 DEF EInv, IInv, DirtyUnwritten, LoadedExist, Dirty
  <1>4. mem[r][kv].was = rows[kv].cur
    BY <1>3 DEF Faithful, ReadTrue, Seen
  <1>5. Updated(r, kv).cur = mem[r][kv].now /\ Exists(Updated(r, kv))
    BY <1>0, <1>2, <1>3, <1>4, UpdatedType DEF Updated, Loaded, Exists
  <1>6. /\ mem'[r][kv].seen /\ mem'[r][kv].was = mem[r][kv].now /\ mem'[r][kv].now = mem[r][kv].now
    BY <1>2, <1>3 DEF Flushed, Loaded
  <1>7. Seen(r, kv)'.cur = mem[r][kv].now /\ \A x \in Revs \ {kv} : Seen(r, x)' = Seen(r, x)
    BY <1>1, <1>2, <1>5 DEF Seen, Exists
  <1>8. \A k, n : Through(r, k, n)' <=> Through(r, k, n)
    BY <1>1 DEF Through
  <1>9. Through(r, kv[1], pos[r] + 1) /\ Through(r, kv[1], pos[r])
    <2>1. Through(r, kv[1], pos[r] + 1)
      BY <1>3 DEF Faithful, ReadTrue
    <2>2. \A i \in DOMAIN Records[payload[r]] : i < pos[r]
      BY <1>0, <1>1, IngestionAssumption DEF Flushing, TypeOK
    <2> QED
      BY <2>1, <2>2 DEF Through
  <1>10. ReadTrue(r)'
    <2> SUFFICES ASSUME NEW x \in Revs, mem'[r][x].seen
                 PROVE  /\ mem'[r][x].was = Seen(r, x)'.cur
                        /\ Through(r, x[1], pos[r] + 1)
                        /\ mem'[r][x].was # mem'[r][x].now => Through(r, x[1], pos[r])
      BY <1>1, <1>8 DEF ReadTrue
    <2>1. CASE x = kv
      BY <1>6, <1>7, <1>9, <2>1
    <2>2. CASE x # kv
      BY <1>2, <1>7, <2>2 DEF Faithful, ReadTrue
    <2> QED
      BY <2>1, <2>2
  <1>11. WritesOwnKeys(r)'
    <2>1. \A x \in Revs : Exists(pend[r][x])' => Through(r, x[1], pos[r])
      BY <1>2, <1>9 DEF Faithful, WritesOwnKeys, Exists
    <2> QED
      BY <1>1, <1>8, <2>1 DEF Faithful, WritesOwnKeys
  <1>12. \A x \in Revs : WillBeCurrent(r, x) => WillBeCurrent(r, x)'
    <2> SUFFICES ASSUME NEW x \in Revs, WillBeCurrent(r, x) PROVE WillBeCurrent(r, x)'
      OBVIOUS
    <2>1. CASE x = kv
      BY <1>1, <1>3, <1>6, <2>1 DEF WillBeCurrent
    <2>2. CASE x # kv
      BY <1>1, <1>2, <1>7, <2>2 DEF WillBeCurrent
    <2> QED
      BY <2>1, <2>2
  <1>13. \A x \in Said(payload[r]) : x \in Revs
    BY <1>0, <1>1, IngestionAssumption DEF Said, Revs, TypeOK, Flushing
  <1>14. Accounted(r)'
    BY <1>1, <1>12, <1>13 DEF Faithful, Accounted
  <1>15. InHand(r)'
    BY <1>1 DEF InHand, Flushing
  <1> QED
    BY <1>10, <1>11, <1>14, <1>15 DEF Faithful

(* One INSERT of session.flush() makes its row current.                    *)
LEMMA InsertFaithful ==
  ASSUME EInv, NEW r \in Runs, Faithful(r), FlushInsert(r), ~Raise(r)
  PROVE  Faithful(r)'
  <1>0. TypeOK
    BY DEF EInv, IInv
  <1>a. adds[r] \in Seq(Revs) /\ adds[r] # <<>>
    BY <1>0 DEF FlushInsert, TypeOK
  <1>b. PICK kv \in Revs : kv = Head(adds[r])
    BY <1>a
  <1>1. PICK n \in 1..MaxId :
           /\ Flushing(r) /\ adds[r] # <<>> /\ ~InsertClash(r, kv)
           /\ pend' = [pend EXCEPT ![r][kv] = [id |-> n, cur |-> TRUE, run |-> r]]
           /\ adds' = [adds EXCEPT ![r] = Tail(@)]
           /\ UNCHANGED <<rows, payload, pc, mem, pos>>
    BY <1>b DEF FlushInsert, tables
  <1>2. /\ kv \in Revs /\ 1 \in DOMAIN adds[r] /\ kv = adds[r][1]
        /\ adds'[r] = Tail(adds[r])
        /\ \A i \in DOMAIN Tail(adds[r]) : i + 1 \in DOMAIN adds[r] /\ Tail(adds[r])[i] = adds[r][i + 1]
        /\ \A i \in DOMAIN adds[r] :
              i = 1 \/ (i - 1 \in DOMAIN Tail(adds[r]) /\ Tail(adds[r])[i - 1] = adds[r][i])
    <2>1. adds'[r] = Tail(adds[r])
      BY <1>0, <1>1 DEF TypeOK
    <2>2. Len(adds[r]) \in Nat /\ Len(adds[r]) >= 1
      BY <1>a
    <2> QED
      BY <1>a, <1>b, <2>1, <2>2
  <1>3. ~mem[r][kv].seen
    BY <1>1, <1>2 DEF InsertClash, EInv, IInv, LoadedExist
  <1>4. /\ Exists(pend'[r][kv]) /\ pend'[r][kv].cur
        /\ \A x \in Revs \ {kv} : pend'[r][x] = pend[r][x]
    BY <1>0, <1>1, <1>2 DEF TypeOK, Exists
  <1>5. Seen(r, kv)'.cur /\ \A x \in Revs \ {kv} : Seen(r, x)' = Seen(r, x)
    <2>1. \A x \in Revs : Seen(r, x)' = IF Exists(pend'[r][x]) THEN pend'[r][x] ELSE rows[x]
      BY <1>1 DEF Seen, Exists
    <2>2. Seen(r, kv)'.cur
      BY <1>1, <1>2, <1>4 DEF Seen, Exists
    <2> QED
      BY <1>4, <2>1, <2>2 DEF Seen
  <1>6. \A k, m : Through(r, k, m)' <=> Through(r, k, m)
    BY <1>1 DEF Through
  <1>7. ReadTrue(r)'
    <2> SUFFICES ASSUME NEW x \in Revs, mem[r][x].seen
                 PROVE  /\ mem[r][x].was = Seen(r, x)'.cur
                        /\ Through(r, x[1], pos[r] + 1)
                        /\ mem[r][x].was # mem[r][x].now => Through(r, x[1], pos[r])
      BY <1>1, <1>6 DEF ReadTrue
    <2>1. x # kv
      BY <1>3
    <2> QED
      BY <1>5, <2>1 DEF Faithful, ReadTrue
  <1>8. WritesOwnKeys(r)'
    <2>1. \A x \in Revs : Exists(pend[r][x])' => Through(r, x[1], pos[r])
      BY <1>2, <1>4 DEF Faithful, WritesOwnKeys, Exists
    <2>2. \A i \in DOMAIN adds'[r] : Through(r, adds'[r][i][1], pos[r])
      BY <1>2 DEF Faithful, WritesOwnKeys
    <2> QED
      BY <1>1, <1>6, <2>1, <2>2 DEF WritesOwnKeys
  <1>9. \A x \in Revs : WillBeCurrent(r, x) => WillBeCurrent(r, x)'
    <2> SUFFICES ASSUME NEW x \in Revs, WillBeCurrent(r, x) PROVE WillBeCurrent(r, x)'
      OBVIOUS
    <2>1. CASE x = kv
      <3>1. Seen(r, x)'.cur
        BY <1>5, <2>1
      <3>2. ~mem'[r][x].seen
        BY <1>1, <1>3, <2>1
      <3> QED
        BY <3>1, <3>2 DEF WillBeCurrent
    <2>2. CASE x # kv /\ \E i \in DOMAIN adds[r] : adds[r][i] = x
      <3>1. \E i \in DOMAIN adds'[r] : adds'[r][i] = x
        BY <1>2, <2>2
      <3> QED
        BY <3>1 DEF WillBeCurrent
    <2>3. CASE x # kv /\ ~\E i \in DOMAIN adds[r] : adds[r][i] = x
      BY <1>1, <1>5, <2>3 DEF WillBeCurrent
    <2> QED
      BY <2>1, <2>2, <2>3
  <1>10. \A x \in Said(payload[r]) : x \in Revs
    BY <1>0, <1>1, IngestionAssumption DEF Said, Revs, TypeOK, Flushing
  <1>11. Accounted(r)'
    BY <1>1, <1>9, <1>10 DEF Faithful, Accounted
  <1>12. InHand(r)'
    BY <1>1 DEF InHand, Flushing
  <1> QED
    BY <1>7, <1>8, <1>11, <1>12 DEF Faithful

(* A run that starts to load has read and written nothing. *)
LEMMA FirstFaithful ==
  ASSUME EInv, NEW r \in Runs, pc[r] = "parsing", pos[r] = 1, pc'[r] = "loading",
         UNCHANGED <<payload, rows, pend, mem, adds, pos>>
  PROVE  Faithful(r)'
  <1>0. TypeOK
    BY DEF EInv, IInv
  <1>1. /\ \A kv \in Revs : ~mem[r][kv].seen
        /\ adds[r] = <<>>
    BY DEF EInv, Blank, NotLoaded
  <1>2. \A kv \in Revs : ~Exists(pend[r][kv])
    BY DEF EInv, IInv, Quiet, Flushing
  <1>3. payload[r] \in Payloads
    BY <1>0 DEF TypeOK
  <1>4. \A i \in DOMAIN Records[payload[r]] : ~(i < 1)
    BY <1>3, IngestionAssumption
  <1>5. ReadTrue(r)' /\ WritesOwnKeys(r)'
    BY <1>1, <1>2 DEF ReadTrue, WritesOwnKeys, Exists
  <1>6. Accounted(r)' /\ InHand(r)'
    BY <1>4 DEF Accounted, InHand
  <1> QED
    BY <1>5, <1>6 DEF Faithful

(* A step of r. *)
Started(r) == \E p \in Payloads : StartIngestionRun(r, p)

Moves(r) == Started(r) \/ Step(r) \/ StorageError(r) \/ Crash(r)

(* A run that takes a step is the one in progress. *)
LEMMA Solo ==
  ASSUME MaxOpen = 1, FewOpen, Alone, TypeOK, NEW r \in Runs, Moves(r)
  PROVE  \A q \in Runs \ {r} : ~Open(q)
  <1>1. CASE Started(r)
    <2> DEFINE Opened == {q \in Runs : Open(q)}
    <2>1. Cardinality(Opened) < 1 /\ IsFiniteSet(Opened)
      BY <1>1 DEF Started, StartIngestionRun, FewOpen
    <2> HIDE DEF Opened
    <2>2. Cardinality(Opened) = 0
      BY <2>1, FS_CardinalityType
    <2>3. Opened = {}
      BY <2>1, <2>2, FS_EmptySet
    <2> QED
      BY <2>3 DEF Opened
  <1>2. CASE Open(r)
    BY <1>2 DEF Alone
  <1>3. Started(r) \/ Open(r)
    <2>1. BlockedBy(r) # {} => Open(r)
      BY DEF BlockedBy, Flushing, Open
    <2> QED
      BY <2>1 DEF Moves, Step, FindRawSnapshot, OpenPayloadFile, WritePayloadFile,
         InsertRawSnapshot, ParsePayload, GetCurrentRecord, GetExistingRevision,
         FlushUpdate, FlushInsert, Flushing, DeadlockDetected, Deadlocked,
         CommitSucceeded, MarkFailed, StorageError, Crash, Open
  <1> QED
    BY <1>1, <1>2, <1>3

(* A step moves one run. *)
LEMMA OthersStand ==
  ASSUME TypeOK, NEW r \in Runs, Moves(r)
  PROVE  \A q \in Runs \ {r} : pc'[q] = pc[q] /\ pos'[q] = pos[q]
  BY DEF Moves, Started, StartIngestionRun, Step, FindRawSnapshot, OpenPayloadFile,
     WritePayloadFile, InsertRawSnapshot, ParsePayload, GetCurrentRecord,
     GetExistingRevision, FlushUpdate, FlushInsert, DeadlockDetected,
     CommitSucceeded, MarkFailed, StorageError, Crash, Raise, Rollback, Goto,
     session, TypeOK

(* What a step of the one run in progress keeps. *)
LEMMA LoadStep ==
  ASSUME EInv, LoadInv, NEW r \in Runs, Moves(r)
  PROVE  IF pc'[r] \in {"loading", "matching"} THEN Faithful(r)' ELSE pos'[r] = 1
  <1> DEFINE G == IF pc'[r] \in {"loading", "matching"} THEN Faithful(r)' ELSE pos'[r] = 1
  <1> USE DEF Goto, tables, session
  <1>0. TypeOK
    BY DEF EInv, IInv
  <1>1. ASSUME Rollback(r), pc'[r] \notin {"loading", "matching"} PROVE G
    BY <1>0, <1>1 DEF Rollback, TypeOK
  <1>2. ASSUME Raise(r) PROVE G
    BY <1>0, <1>1, <1>2 DEF Raise, TypeOK
  <1>3. ASSUME pc[r] \notin {"loading", "matching"}, pc'[r] \notin {"loading", "matching"},
               pos' = pos
        PROVE  G
    BY <1>3 DEF LoadInv
  <1>4. CASE Started(r)
    BY <1>0, <1>3, <1>4 DEF Started, StartIngestionRun, TypeOK
  <1>5. CASE \/ FindRawSnapshot(r)
             \/ OpenPayloadFile(r)
             \/ WritePayloadFile(r)
             \/ MarkFailed(r)
    BY <1>0, <1>3, <1>5 DEF FindRawSnapshot, OpenPayloadFile, WritePayloadFile, MarkFailed, TypeOK
  <1>6. CASE InsertRawSnapshot(r)
    BY <1>0, <1>2, <1>3, <1>6 DEF InsertRawSnapshot, TypeOK
  <1>7. CASE ParsePayload(r)
    <2>1. CASE payload[r] \in Malformed
      BY <1>2, <1>7, <2>1 DEF ParsePayload
    <2>2. CASE payload[r] \notin Malformed
      BY <1>0, <1>7, <2>2, FirstFaithful DEF ParsePayload, LoadInv, TypeOK
    <2> QED
      BY <2>1, <2>2
  <1>8. CASE GetCurrentRecord(r)
    <2>1. Faithful(r) /\ pc'[r] \in {"loading", "matching"}
      BY <1>0, <1>8 DEF GetCurrentRecord, LoadInv, TypeOK
    <2> QED
      BY <1>8, <2>1, CurrentFaithful
  <1>9. CASE GetExistingRevision(r)
    <2>1. Faithful(r) /\ pc'[r] \in {"loading", "matching"}
      BY <1>0, <1>9 DEF GetExistingRevision, LoadInv, TypeOK
    <2> QED
      BY <1>9, <2>1, ReviseFaithful
  <1>10. ASSUME NEW kv \in Revs, FlushUpdate(r, kv) PROVE G
    <2>1. CASE ~Raise(r)
      <3>1. Faithful(r) /\ pc'[r] \in {"loading", "matching"}
        BY <1>10, <2>1 DEF FlushUpdate, Flushing, LoadInv
      <3> QED
        BY <1>10, <2>1, <3>1, UpdateFaithful
    <2> QED
      BY <1>2, <2>1
  <1>11. CASE FlushInsert(r)
    <2>1. CASE ~Raise(r)
      <3>1. Faithful(r) /\ pc'[r] \in {"loading", "matching"}
        BY <1>11, <2>1 DEF FlushInsert, Flushing, LoadInv
      <3> QED
        BY <1>11, <2>1, <3>1, InsertFaithful
    <2> QED
      BY <1>2, <2>1
  <1>12. CASE CommitSucceeded(r)
    BY <1>0, <1>1, <1>12 DEF CommitSucceeded, TypeOK
  <1>13. CASE Crash(r)
    BY <1>0, <1>1, <1>13 DEF Crash, TypeOK
  <1> QED
    BY <1>2, <1>4, <1>5, <1>6, <1>7, <1>8, <1>9, <1>10, <1>11, <1>12, <1>13
       DEF Moves, Step, DeadlockDetected, StorageError

(* SerialInv is inductive when runs come one at a time.                    *)
LEMMA SerialStep == MaxOpen = 1 /\ SerialInv /\ [Next]_vars => SerialInv'
  <1> SUFFICES ASSUME MaxOpen = 1, SerialInv, [Next]_vars
               PROVE  FewOpen' /\ Alone' /\ LoadInv'
    BY EvidenceStep DEF SerialInv
  <1>0. TypeOK /\ EInv
    BY DEF SerialInv, EInv, IInv
  <1>1. ASSUME NEW r \in Runs, Moves(r) PROVE FewOpen' /\ Alone' /\ LoadInv'
    <2>1. \A q \in Runs \ {r} : ~Open(q) /\ pc'[q] = pc[q] /\ pos'[q] = pos[q]
      BY <1>0, <1>1, Solo, OthersStand DEF SerialInv
    <2>2. \A q \in Runs \ {r} : ~Open(q)'
      BY <2>1 DEF Open
    <2>3. Alone'
      BY <2>2 DEF Alone
    <2>4. FewOpen'
      <3> DEFINE Opened == {q \in Runs : Open(q)'}
      <3>1. Opened \in SUBSET {r}
        BY <2>2
      <3>2. IsFiniteSet({r})
        BY FS_Singleton
      <3> HIDE DEF Opened
      <3>3. IsFiniteSet(Opened)
        BY <3>1, <3>2, FS_Subset
      <3> QED
        BY <3>3 DEF FewOpen, Opened
    <2>5. ASSUME NEW q \in Runs \ {r}
          PROVE  IF pc'[q] \in {"loading", "matching"} THEN Faithful(q)' ELSE pos'[q] = 1
      BY <2>1, <2>5 DEF Open, SerialInv, LoadInv
    <2>6. IF pc'[r] \in {"loading", "matching"} THEN Faithful(r)' ELSE pos'[r] = 1
      BY <1>0, <1>1, LoadStep DEF SerialInv
    <2>7. LoadInv'
      BY <2>5, <2>6 DEF LoadInv
    <2> QED
      BY <2>3, <2>4, <2>7
  <1>2. CASE UNCHANGED vars
    BY <1>2 DEF vars, SerialInv, FewOpen, Alone, Open, LoadInv, Faithful, ReadTrue, Seen,
       Through, WritesOwnKeys, Accounted, WillBeCurrent, InHand, Record, Exists
  <1> QED
    BY <1>1, <1>2 DEF Next, Moves, Started

(* What a load commits, of a key its payload states and of any other. *)
LEMMA CommitLoads ==
  ASSUME SerialInv, NEW r \in Runs, CommitSucceeded(r), NEW k \in Keys
  PROVE  LET stated == {v \in Values : <<k, v>> \in Said(payload[r])}
         IN  IF stated # {}
             THEN \E v \in stated : rows'[<<k, v>>].cur
             ELSE \A v \in Values : rows'[<<k, v>>] = rows[<<k, v>>]
  <1>0. TypeOK
    BY DEF SerialInv, EInv, IInv
  <1>1. /\ Flushing(r) /\ Dirty(r) = {} /\ adds[r] = <<>>
        /\ \A kv \in Revs : rows'[kv] = Seen(r, kv)
    BY DEF CommitSucceeded
  <1>2. Faithful(r)
    BY <1>1 DEF SerialInv, LoadInv, Flushing
  <1>3. /\ payload[r] \in Payloads
        /\ \A i \in DOMAIN Records[payload[r]] : i < pos[r]
        /\ \A kv \in Said(payload[r]) : kv \in Revs
    <2>1. payload[r] \in Payloads
      BY <1>0, <1>1 DEF TypeOK, Flushing
    <2> QED
      BY <1>0, <1>1, <2>1, IngestionAssumption DEF Flushing, TypeOK, Said, Revs
  <1>4. \A v \in Values : <<k, v>> \in Revs
    BY DEF Revs
  <1>5. ASSUME NEW v \in Values, <<k, v>> \in Said(payload[r])
        PROVE  \E w \in Values : <<k, w>> \in Said(payload[r]) /\ rows'[<<k, w>>].cur
    <2>1. PICK i \in DOMAIN Records[payload[r]] : Records[payload[r]][i] = <<k, v>>
      BY <1>5 DEF Said
    <2>2. PICK kv \in Said(payload[r]) : kv[1] = k /\ WillBeCurrent(r, kv)
      BY <1>2, <1>3, <2>1 DEF Faithful, Accounted
    <2>3. kv \in Revs /\ kv \notin Dirty(r)
      BY <1>1, <1>3
    <2>4. Seen(r, kv).cur
      BY <1>1, <1>2, <2>2, <2>3 DEF WillBeCurrent, Faithful, ReadTrue, Dirty, Modified
    <2>5. PICK w \in Values : kv = <<k, w>>
      BY <2>2, <2>3 DEF Revs
    <2> QED
      BY <1>1, <2>2, <2>3, <2>4, <2>5
  <1>6. ASSUME NEW v \in Values, rows'[<<k, v>>] # rows[<<k, v>>]
        PROVE  \E w \in Values : <<k, w>> \in Said(payload[r])
    <2>1. Exists(pend[r][<<k, v>>])
      BY <1>1, <1>4, <1>6 DEF Seen
    <2>2. PICK i \in DOMAIN Records[payload[r]] : Records[payload[r]][i][1] = k
      BY <1>2, <1>4, <2>1 DEF Faithful, WritesOwnKeys, Through
    <2>3. Records[payload[r]][i] \in Revs /\ Records[payload[r]][i] \in Said(payload[r])
      BY <1>3 DEF Said
    <2> QED
      BY <2>2, <2>3 DEF Revs
  <1> QED
    BY <1>5, <1>6

(* Only its commit makes a run succeed. *)
LEMMA CommitIs ==
  ASSUME TypeOK, [Next]_vars, NEW r \in Runs,
         status[r] # "succeeded", status'[r] = "succeeded"
  PROVE  CommitSucceeded(r)
  <1>1. ASSUME NEW q \in Runs, Moves(q) PROVE CommitSucceeded(r)
    <2>1. CASE CommitSucceeded(q)
      BY <2>1 DEF CommitSucceeded, TypeOK
    <2>2. CASE Started(q) \/ MarkFailed(q)
      BY <2>2 DEF Started, StartIngestionRun, MarkFailed, TypeOK
    <2>3. CASE \/ FindRawSnapshot(q) \/ OpenPayloadFile(q) \/ WritePayloadFile(q)
               \/ StorageError(q) \/ InsertRawSnapshot(q) \/ ParsePayload(q)
      BY <2>3 DEF FindRawSnapshot, OpenPayloadFile, WritePayloadFile, StorageError,
         InsertRawSnapshot, ParsePayload, tables
    <2>4. CASE \/ GetCurrentRecord(q) \/ GetExistingRevision(q) \/ FlushInsert(q)
               \/ (\E kv \in Revs : FlushUpdate(q, kv))
               \/ DeadlockDetected(q) \/ Crash(q)
      BY <2>4 DEF GetCurrentRecord, GetExistingRevision, FlushUpdate, FlushInsert,
         DeadlockDetected, Crash, tables
    <2> QED
      BY <1>1, <2>1, <2>2, <2>3, <2>4 DEF Moves, Step
  <1> QED
    BY <1>1 DEF Next, Moves, Started, vars

(* LoadsWhatItRead, for any payloads, keys and values and with every fault *)
(* of the model: a run that succeeds, with no other in progress, leaves a  *)
(* current revision of each key it states and touches no other key.        *)
THEOREM LoadsAreComplete ==
  ASSUME MaxOpen = 1
  PROVE  Spec => LoadsWhatItRead
  <1>1. Init => SerialInv
    <2> SUFFICES ASSUME Init PROVE SerialInv
      OBVIOUS
    <2>1. \A r \in Runs : ~Open(r)
      BY DEF Init, Open
    <2>2. {r \in Runs : Open(r)} = {}
      BY <2>1
    <2>3. FewOpen /\ Alone
      BY <2>1, <2>2, FS_EmptySet DEF FewOpen, Alone
    <2>4. LoadInv
      BY DEF Init, LoadInv
    <2> QED
      BY <2>3, <2>4, EvidenceInit DEF SerialInv
  <1>2. SerialInv /\ [Next]_vars => SerialInv'
    BY SerialStep
  <1>3. SerialInv /\ [Next]_vars =>
           [\A r \in Runs : status[r] # "succeeded" /\ status'[r] = "succeeded" =>
               \A k \in Keys :
                  LET stated == {v \in Values : <<k, v>> \in Said(payload[r])}
                  IN  IF stated # {}
                      THEN \E v \in stated : rows'[<<k, v>>].cur
                      ELSE \A v \in Values : rows'[<<k, v>>] = rows[<<k, v>>]
           ]_<<status, rows>>
    <2> SUFFICES ASSUME SerialInv, [Next]_vars, NEW r \in Runs,
                        status[r] # "succeeded", status'[r] = "succeeded", NEW k \in Keys
                 PROVE  LET stated == {v \in Values : <<k, v>> \in Said(payload[r])}
                        IN  IF stated # {}
                            THEN \E v \in stated : rows'[<<k, v>>].cur
                            ELSE \A v \in Values : rows'[<<k, v>>] = rows[<<k, v>>]
      OBVIOUS
    <2>1. CommitSucceeded(r)
      BY CommitIs DEF SerialInv, EInv, IInv
    <2> QED
      BY <2>1, CommitLoads
  <1> QED
    BY <1>1, <1>2, <1>3, PTL DEF Spec, LoadsWhatItRead
=============================================================================
