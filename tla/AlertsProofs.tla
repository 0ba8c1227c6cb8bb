---------------------------- MODULE AlertsProofs ----------------------------
(***************************************************************************)
(* Theorems about Alerts, for any number of calls, alerts, fingerprints    *)
(* and candidate lists.                                                    *)
(*                                                                         *)
(* OneActiveAlert speaks of committed rows; Rivals extends it to the rows  *)
(* open transactions are about to commit, RowLocks says that no row has    *)
(* two of those, FixedFingerprint that none changes its fingerprint, and   *)
(* Quiet and Replying which transactions may have any.                     *)
(*                                                                         *)
(* WorkInv follows what a transaction has done towards its commit: the     *)
(* evidence of the candidates it has been through, and the lifecycle       *)
(* events of the alerts it has written, which it publishes together.       *)
(*                                                                         *)
(* That no calls wait in a circle rests on the order in which evaluations  *)
(* list what they find (CandidateOrder): a call waits for a fingerprint    *)
(* that comes after every one whose row it holds, so of the calls that     *)
(* wait the one that waits for the last fingerprint waits for none of the  *)
(* others.                                                                 *)
(*                                                                         *)
(* SerialInv is for one call at a time: what a call has read of an alert   *)
(* is still so, hence it moves an alert from the state it checked.         *)
(***************************************************************************)
EXTENDS Alerts, FiniteInduction, TLAPS

(* No alert is being rewritten by two transactions. *)
RowLocks ==
    \A c, d \in Calls, a \in Alerts :
        Exists(pend[c][a]) /\ Exists(pend[d][a]) => c = d

(* An update keeps the fingerprint of the row. *)
FixedFingerprint ==
    \A c \in Calls, a \in Alerts :
        Exists(pend[c][a]) /\ Exists(alerts[a]) => pend[c][a].fp = alerts[a].fp

(* An uncommitted active alert has no active twin: not in its own          *)
(* transaction's view, and not among the rows other transactions hold.     *)
Rivals ==
    \A c \in Calls, a \in Alerts : Exists(pend[c][a]) /\ IsActive(pend[c][a]) =>
        \A b \in Alerts \ {a} :
            /\ IsActive(Seen(c, b)) => Seen(c, b).fp # pend[c][a].fp
            /\ \A d \in Calls \ {c} : Exists(pend[d][b]) =>
                  /\ IsActive(pend[d][b]) => pend[d][b].fp # pend[c][a].fp
                  /\ IsActive(alerts[b]) => alerts[b].fp # pend[c][a].fp

(* Only these stages have uncommitted alerts. *)
Writing == {"persisting", "creating", "refreshing", "raising", "replying"}

Quiet ==
    \A c \in Calls : pc[c] \notin Writing => \A a \in Alerts : ~Exists(pend[c][a])

(* A PATCH that is about to commit wrote its alert and no other. *)
Replying ==
    \A c \in Calls : pc[c] = "replying" =>
        \A a \in Alerts : Exists(pend[c][a]) <=> a = alert[c]

IInv ==
    /\ TypeOK
    /\ OneActiveAlert
    /\ RowLocks
    /\ FixedFingerprint
    /\ Rivals
    /\ Quiet
    /\ Replying

Safety == OneActiveAlert /\ RowLocks /\ FixedFingerprint /\ Rivals
Discipline == Quiet /\ Replying

-----------------------------------------------------------------------------
(* Type correctness *)

LEMMA NoRowType == NoRow \in Row /\ ~Exists(NoRow)
  BY DEF NoRow, Row, Exists

LEMMA RollbackType ==
  ASSUME TypeOK, NEW c \in Calls, Rollback(c)
  PROVE  /\ pend' \in [Calls -> [Alerts -> Row]]
         /\ linked' \in [Calls -> SUBSET Alerts]
         /\ run' \in [Calls -> RunStatuses]
  BY NoRowType DEF TypeOK, Rollback, RunStatuses

LEMMA AbortType ==
  ASSUME TypeOK, NEW c \in Calls, NEW answer \in {"rejected", "unavailable", "crashed"},
         Abort(c, answer)
  PROVE  TypeOK'
  BY RollbackType DEF Abort, Goto, TypeOK, Stages, tables, request

LEMMA TypeInit == Init => TypeOK
  BY NoRowType DEF Init, TypeOK, RunStatuses, Stages

LEMMA TypeStep == TypeOK /\ [Next]_vars => TypeOK'
  <1> SUFFICES ASSUME TypeOK, [Next]_vars PROVE TypeOK'
    OBVIOUS
  <1> USE DEF Goto, tables, request, Stages, RunStatuses
  <1>1. ASSUME NEW c \in Calls, EvaluateAlerts(c) PROVE TypeOK'
    <2>1. pc' \in [Calls -> Stages] /\ run' \in [Calls -> RunStatuses]
      BY <1>1 DEF EvaluateAlerts, TypeOK
    <2>2. \A d \in Calls : pc'[d] \notin {"evaluating", "unavailable"} => pc'[d] = pc[d]
      BY <1>1 DEF EvaluateAlerts, TypeOK
    <2> QED
      BY <1>1, <2>1, <2>2 DEF EvaluateAlerts, TypeOK
  <1>2. ASSUME NEW c \in Calls, EvaluateAlertCandidates(c) PROVE TypeOK'
    <2>1. list' \in [Calls -> Seq(Fingerprints)]
      <3>1. CASE UNCHANGED list
        BY <3>1 DEF TypeOK
      <3>2. CASE ~UNCHANGED list
        <4>1. PICK found \in CandidateLists : list' = [list EXCEPT ![c] = found]
          BY <1>2, <3>2 DEF EvaluateAlertCandidates
        <4>2. found \in Seq(Fingerprints)
          BY AlertsAssumption
        <4> QED
          BY <4>1, <4>2 DEF TypeOK
      <3> QED
        BY <3>1, <3>2
    <2>2. pc' \in [Calls -> Stages] /\ run' \in [Calls -> RunStatuses]
      BY <1>2 DEF EvaluateAlertCandidates, RaiseError, TypeOK
    <2>3. \A d \in Calls : d # c => list'[d] = list[d] /\ pc'[d] = pc[d]
      BY <1>2 DEF EvaluateAlertCandidates, RaiseError, TypeOK
    <2>4. pc'[c] \in {"persisting", "raising"}
      BY <1>2 DEF EvaluateAlertCandidates, RaiseError, TypeOK
    <2>5. UNCHANGED <<tables, next, alert, from, goal, pend, linked>>
      BY <1>2 DEF EvaluateAlertCandidates
    <2> QED
      BY <2>1, <2>2, <2>3, <2>4, <2>5 DEF TypeOK
  <1>3. ASSUME NEW c \in Calls, FindActiveAlert(c) PROVE TypeOK'
    <2>1. /\ pc' \in [Calls -> Stages]
          /\ alert' \in [Calls -> Alerts \cup {NoAlert}]
      <3>1. CASE UNCHANGED alert
        BY <1>3, <3>1 DEF FindActiveAlert, TypeOK
      <3>2. CASE ~UNCHANGED alert
        <4>1. /\ pc' = [pc EXCEPT ![c] = "refreshing"]
              /\ \E a \in Alerts : alert' = [alert EXCEPT ![c] = a]
          BY <1>3, <3>2 DEF FindActiveAlert
        <4> QED
          BY <4>1 DEF TypeOK
      <3> QED
        BY <3>1, <3>2
    <2>2. \A d \in Calls : d # c => alert'[d] = alert[d] /\ pc'[d] = pc[d]
      BY <1>3 DEF FindActiveAlert, TypeOK
    <2>3. /\ pc'[c] = "creating" \/ (pc'[c] = "refreshing" /\ alert'[c] \in Alerts)
          /\ next[c] <= Len(list[c])
      BY <1>3 DEF FindActiveAlert, TypeOK
    <2>4. UNCHANGED <<tables, list, next, from, goal, pend, linked, run>>
      BY <1>3 DEF FindActiveAlert
    <2> QED
      BY <2>1, <2>2, <2>3, <2>4 DEF TypeOK
  <1>4. ASSUME NEW c \in Calls, CreateAlert(c) PROVE TypeOK'
    <2>1. [fp |-> list[c][next[c]], state |-> "open", closed |-> FALSE] \in Row
      BY <1>4 DEF CreateAlert, TypeOK, Row, States, Active
    <2>2. CASE RaiseError(c) /\ UNCHANGED <<pend, linked, next>>
      <3>1. /\ pc' = [pc EXCEPT ![c] = "raising"]
            /\ run' = [run EXCEPT ![c] = "failed"]
            /\ UNCHANGED <<pend, linked, next>>
            /\ UNCHANGED <<tables, list, alert, from, goal>>
        BY <1>4, <2>2 DEF CreateAlert, RaiseError
      <3> QED
        BY <3>1 DEF TypeOK
    <2>3. CASE ~(RaiseError(c) /\ UNCHANGED <<pend, linked, next>>)
      <3>1. PICK a \in Alerts :
              /\ pend' = [pend EXCEPT ![c][a] =
                    [fp |-> list[c][next[c]], state |-> "open", closed |-> FALSE]]
              /\ linked' = [linked EXCEPT ![c] = @ \cup {a}]
        BY <1>4, <2>3 DEF CreateAlert
      <3>2. /\ next' = [next EXCEPT ![c] = @ + 1]
            /\ pc' = [pc EXCEPT ![c] = "persisting"]
            /\ UNCHANGED <<tables, list, alert, from, goal, run>>
        BY <1>4, <2>3 DEF CreateAlert
      <3>3. pend' \in [Calls -> [Alerts -> Row]]
        BY <3>1, <2>1 DEF TypeOK
      <3>4. linked' \in [Calls -> SUBSET Alerts]
        BY <3>1 DEF TypeOK
      <3>5. /\ next' \in [Calls -> Nat \ {0}]
            /\ pc' \in [Calls -> Stages]
            /\ \A d \in Calls : d # c => pc'[d] = pc[d] /\ next'[d] = next[d]
            /\ pc'[c] = "persisting"
        BY <3>2 DEF TypeOK
      <3> QED
        BY <3>2, <3>3, <3>4, <3>5 DEF TypeOK
    <2> QED
      BY <2>2, <2>3
  <1>5. ASSUME NEW c \in Calls, RefreshExistingAlert(c) PROVE TypeOK'
    <2>1. Seen(c, alert[c]) \in Row
      BY <1>5 DEF RefreshExistingAlert, Seen, TypeOK
    <2>2. pend' \in [Calls -> [Alerts -> Row]]
      <3>1. PICK a \in Alerts, v \in Row :
               pend' = pend \/ pend' = [pend EXCEPT ![c][a] = v]
        BY <1>5, <2>1 DEF RefreshExistingAlert, TypeOK
      <3>2. CASE pend' = pend
        BY <3>2 DEF TypeOK
      <3>3. CASE pend' = [pend EXCEPT ![c][a] = v]
        BY <3>3 DEF TypeOK
      <3> QED
        BY <3>1, <3>2, <3>3
    <2>3. linked' \in [Calls -> SUBSET Alerts]
      BY <1>5 DEF RefreshExistingAlert, TypeOK
    <2>4. /\ next' = [next EXCEPT ![c] = @ + 1]
          /\ pc' = [pc EXCEPT ![c] = "persisting"]
          /\ UNCHANGED <<tables, list, alert, from, goal, run>>
      BY <1>5 DEF RefreshExistingAlert
    <2> QED
      BY <2>2, <2>3, <2>4 DEF TypeOK
  <1>6. ASSUME NEW c \in Calls, EvaluationFailed(c) PROVE TypeOK'
    BY <1>6, AbortType DEF EvaluationFailed
  <1>7. ASSUME NEW c \in Calls, CommitEvaluation(c) PROVE TypeOK'
    <2>1. alerts' \in [Alerts -> Row]
      BY <1>7 DEF CommitEvaluation, Seen, TypeOK
    <2>2. [from |-> "none", to |-> "open"] \in Entry
      BY DEF Entry, States, Active
    <2>3. history' \in [Alerts -> Seq(Entry)]
      BY <1>7, <2>2 DEF CommitEvaluation, TypeOK
    <2>4. evidence' \in SUBSET (Alerts \X Calls)
      BY <1>7 DEF CommitEvaluation, TypeOK
    <2> QED
      BY <1>7, <2>1, <2>3, <2>4, RollbackType DEF CommitEvaluation, TypeOK
  <1>8. ASSUME NEW c \in Calls, NEW a \in Alerts, NEW state \in States,
               UpdateAlertState(c, a, state)
        PROVE  TypeOK'
    <2>1. CASE Goto(c, "rejected") /\ UNCHANGED <<alert, from, goal>>
      BY <1>8, <2>1 DEF UpdateAlertState, TypeOK
    <2>2. CASE ~(Goto(c, "rejected") /\ UNCHANGED <<alert, from, goal>>)
      <3>1. /\ alert' = [alert EXCEPT ![c] = a]
            /\ from' = [from EXCEPT ![c] = alerts[a].state]
            /\ goal' = [goal EXCEPT ![c] = state]
            /\ pc' = [pc EXCEPT ![c] = "updating"]
            /\ UNCHANGED <<tables, list, next, pend, linked, run>>
        BY <1>8, <2>2 DEF UpdateAlertState
      <3>2. alerts[a].state \in States \cup {"none"}
        BY DEF TypeOK, Row
      <3> QED
        BY <3>1, <3>2 DEF TypeOK
    <2> QED
      BY <2>1, <2>2
  <1>9. ASSUME NEW c \in Calls, TransitionAlertState(c) PROVE TypeOK'
    <2> DEFINE row == [alerts[alert[c]] EXCEPT !.state = goal[c],
                                               !.closed = @ \/ goal[c] \in Terminal]
    <2>1. row \in Row
      <3>1. alerts[alert[c]] \in Row /\ goal[c] \in States
        BY <1>9 DEF TransitionAlertState, TypeOK
      <3>2. (alerts[alert[c]].closed \/ goal[c] \in Terminal) \in BOOLEAN
        OBVIOUS
      <3> QED
        BY <3>1, <3>2 DEF Row
    <2>2. CASE Abort(c, "unavailable")
      BY <2>2, AbortType
    <2>3. CASE ~Abort(c, "unavailable")
      <3>1. /\ pend' = [pend EXCEPT ![c][alert[c]] = row]
            /\ pc' = [pc EXCEPT ![c] = "replying"]
            /\ pc[c] = "updating"
            /\ UNCHANGED <<tables, request, linked, run>>
        BY <1>9, <2>3 DEF TransitionAlertState
      <3> HIDE DEF row
      <3> QED
        BY <2>1, <3>1 DEF TypeOK
    <2> QED
      BY <2>2, <2>3
  <1>10. ASSUME NEW c \in Calls, CommitTransition(c) PROVE TypeOK'
    <2>1. [from |-> from[c], to |-> goal[c]] \in Entry
      BY <1>10 DEF CommitTransition, TypeOK, Entry
    <2>2. history' \in [Alerts -> Seq(Entry)]
      BY <1>10, <2>1 DEF CommitTransition, TypeOK
    <2>3. alerts' \in [Alerts -> Row]
      BY <1>10 DEF CommitTransition, TypeOK
    <2> QED
      BY <1>10, <2>2, <2>3, RollbackType DEF CommitTransition, TypeOK
  <1>11. ASSUME NEW c \in Calls, Crash(c) PROVE TypeOK'
    BY <1>11, AbortType DEF Crash
  <1>12. CASE UNCHANGED vars
    BY <1>12 DEF vars, TypeOK
  <1> QED
    BY <1>1, <1>2, <1>3, <1>4, <1>5, <1>6, <1>7, <1>8, <1>9, <1>10, <1>11,
       <1>12 DEF Next, Step

(* Every variable of the alert engine keeps its type, for any constants. *)
THEOREM TypeInvariant == Spec => []TypeOK
  BY TypeInit, TypeStep, PTL DEF Spec

-----------------------------------------------------------------------------
(* One active alert per condition *)

(* What the other calls have written, and their stages, do not change. *)
OthersUnchanged(c) ==
    \A d \in Calls \ {c} :
        pc'[d] = pc[d] /\ alert'[d] = alert[d] /\ pend'[d] = pend[d]

LEMMA TwinsHold ==
  ASSUME TypeOK, NEW a \in Alerts, NEW b \in Alerts \ {a}, NEW c \in Calls
  PROVE  b \in Twins(a, alerts[b].fp) /\ b \in Twins(a, pend[c][b].fp)
  BY DEF Twins

(* A step that writes no alert keeps everything said of rows.              *)
LEMMA NothingWritten ==
  ASSUME IInv, NEW c \in Calls, UNCHANGED <<alerts, pend>>, OthersUnchanged(c),
         pc'[c] \notin Writing => pc[c] \notin Writing,
         pc'[c] # "replying"
  PROVE  Safety' /\ Discipline'
  <1>1. Safety'
    BY DEF IInv, Safety, OneActiveAlert, RowLocks, FixedFingerprint, Rivals, Seen,
       Exists, IsActive
  <1>2. Quiet' /\ Replying'
    BY DEF IInv, Quiet, Replying, OthersUnchanged, Exists
  <1> QED
    BY <1>1, <1>2 DEF Discipline

LEMMA RollbackPend ==
  ASSUME TypeOK, NEW c \in Calls, Rollback(c)
  PROVE  /\ \A a \in Alerts : ~Exists(pend'[c][a])
         /\ \A d \in Calls \ {c} : pend'[d] = pend[d]
  BY NoRowType DEF TypeOK, Rollback

(* Dropping a transaction's rows leaves the rows of the others their       *)
(* rivals' absence.                                                        *)
LEMMA RolledBack ==
  ASSUME IInv, NEW c \in Calls, Rollback(c), alerts' = alerts, OthersUnchanged(c),
         pc'[c] # "replying"
  PROVE  Safety' /\ Discipline'
  <1>1. /\ \A a \in Alerts : ~Exists(pend'[c][a])
        /\ \A d \in Calls \ {c} : pend'[d] = pend[d]
    BY RollbackPend DEF IInv
  <1>2. OneActiveAlert'
    BY DEF IInv, OneActiveAlert, IsActive
  <1>3. RowLocks' /\ FixedFingerprint'
    BY <1>1 DEF IInv, RowLocks, FixedFingerprint, Exists
  <1>4. Rivals'
    BY <1>1 DEF IInv, Rivals, Seen, Exists, IsActive
  <1>5. Quiet' /\ Replying'
    BY <1>1 DEF IInv, Quiet, Replying, OthersUnchanged, Exists
  <1> QED
    BY <1>2, <1>3, <1>4, <1>5 DEF Safety, Discipline

(* One INSERT or UPDATE that got past the locks and the partial index: v   *)
(* is a new row, a row refreshed as it was seen, or a row whose active     *)
(* state passed the index check.                                           *)
LEMMA Wrote ==
  ASSUME IInv, NEW c \in Calls, NEW a \in Alerts, NEW v \in Row, Exists(v),
         alerts' = alerts, pend' = [pend EXCEPT ![c][a] = v],
         ~Locked(c, a),
         Exists(Seen(c, a)) => v.fp = Seen(c, a).fp,
         \/ ~IsActive(v)
         \/ v = Seen(c, a)
         \/ ~IndexClash(c, a, v.fp) /\ ~IndexBusy(c, a, v.fp)
  PROVE  Safety'
  <1>1. /\ pend'[c][a] = v
        /\ \A d \in Calls, b \in Alerts : d # c \/ b # a => pend'[d][b] = pend[d][b]
    BY DEF IInv, TypeOK
  <1>2. \A d \in Calls \ {c} : ~Exists(pend[d][a])
    BY DEF Locked
  <1>3. OneActiveAlert'
    BY DEF IInv, OneActiveAlert, IsActive
  <1>4. RowLocks'
    BY <1>1, <1>2 DEF IInv, RowLocks, Exists
  <1>5. FixedFingerprint'
    <2>1. Exists(alerts[a]) => v.fp = alerts[a].fp
      BY DEF IInv, FixedFingerprint, Seen
    <2> QED
      BY <1>1, <2>1 DEF IInv, FixedFingerprint, Exists
  <1>6. ASSUME IsActive(v), NEW b \in Alerts \ {a}
        PROVE  /\ IsActive(Seen(c, b)) => Seen(c, b).fp # v.fp
               /\ \A d \in Calls \ {c} : Exists(pend[d][b]) =>
                     /\ IsActive(pend[d][b]) => pend[d][b].fp # v.fp
                     /\ IsActive(alerts[b]) => alerts[b].fp # v.fp
    <2>1. CASE v = Seen(c, a) /\ Exists(pend[c][a])
      <3>1. v = pend[c][a]
        BY <2>1 DEF Seen
      <3>2. Exists(pend[c][a]) /\ IsActive(pend[c][a])
        BY <1>6, <2>1, <3>1
      <3>3. Rivals /\ c \in Calls /\ a \in Alerts /\ b \in Alerts \ {a}
        BY DEF IInv
      <3>4. /\ IsActive(Seen(c, b)) => Seen(c, b).fp # pend[c][a].fp
            /\ \A d \in Calls \ {c} : Exists(pend[d][b]) =>
                  /\ IsActive(pend[d][b]) => pend[d][b].fp # pend[c][a].fp
                  /\ IsActive(alerts[b]) => alerts[b].fp # pend[c][a].fp
        BY <3>2, <3>3 DEF Rivals
      <3>5. v.fp = pend[c][a].fp
        BY <3>1
      <3> QED
        BY <3>4, <3>5
    <2>2. CASE v = Seen(c, a) /\ ~Exists(pend[c][a])
      <3>1. v = alerts[a] /\ \A d \in Calls : Seen(d, a) = alerts[a]
        BY <2>2, <1>2 DEF Seen
      <3>2. IsActive(alerts[b]) => alerts[b].fp # v.fp
        BY <1>6, <3>1 DEF IInv, OneActiveAlert
      <3>3. \A d \in Calls : Exists(pend[d][b]) /\ IsActive(pend[d][b]) =>
               pend[d][b].fp # v.fp
        BY <1>6, <3>1 DEF IInv, Rivals
      <3> QED
        BY <3>2, <3>3 DEF Seen
    <2>3. CASE ~IndexClash(c, a, v.fp) /\ ~IndexBusy(c, a, v.fp)
      <3>1. \A d \in Calls \ {c} : Exists(pend[d][b]) =>
               /\ IsActive(pend[d][b]) => pend[d][b].fp # v.fp
               /\ IsActive(alerts[b]) => alerts[b].fp # v.fp
        <4> SUFFICES ASSUME NEW d \in Calls \ {c}, Exists(pend[d][b])
                     PROVE  /\ IsActive(pend[d][b]) => pend[d][b].fp # v.fp
                            /\ IsActive(alerts[b]) => alerts[b].fp # v.fp
          OBVIOUS
        <4>1. b \in Twins(a, alerts[b].fp) /\ b \in Twins(a, pend[d][b].fp)
          BY TwinsHold DEF IInv
        <4> QED
          BY <2>3, <4>1 DEF IndexBusy, IndexBusyWith
      <3>2. b \in Twins(a, Seen(c, b).fp)
        BY TwinsHold DEF IInv, Seen
      <3>3. CASE Locked(c, b)
        BY <3>1, <3>3 DEF Locked, Seen, IInv, RowLocks
      <3>4. CASE ~Locked(c, b)
        BY <2>3, <3>1, <3>2, <3>4 DEF IndexClash
      <3> QED
        BY <3>1, <3>3, <3>4
    <2> QED
      BY <1>6, <2>1, <2>2, <2>3
  <1>7. Rivals'
    <2> SUFFICES ASSUME NEW d \in Calls, NEW b \in Alerts,
                        Exists(pend'[d][b]), IsActive(pend'[d][b]),
                        NEW o \in Alerts \ {b}
                 PROVE  /\ IsActive(Seen(d, o)') => Seen(d, o)'.fp # pend'[d][b].fp
                        /\ \A e \in Calls \ {d} : Exists(pend'[e][o]) =>
                              /\ IsActive(pend'[e][o]) => pend'[e][o].fp # pend'[d][b].fp
                              /\ IsActive(alerts[o]) => alerts[o].fp # pend'[d][b].fp
      BY DEF Rivals, Exists, IsActive
    <2>1. CASE d = c /\ b = a
      BY <2>1, <1>1, <1>6 DEF Seen, Exists, IsActive
    <2>2. CASE ~(d = c /\ b = a)
      <3>1. /\ IsActive(Seen(d, o)) => Seen(d, o).fp # pend[d][b].fp
            /\ \A e \in Calls \ {d} : Exists(pend[e][o]) =>
                  /\ IsActive(pend[e][o]) => pend[e][o].fp # pend[d][b].fp
                  /\ IsActive(alerts[o]) => alerts[o].fp # pend[d][b].fp
        BY <2>2, <1>1 DEF IInv, Rivals, Exists, IsActive
      <3>2. pend'[d][b] = pend[d][b]
        BY <2>2, <1>1
      <3>3. CASE o # a
        BY <3>1, <3>2, <3>3, <1>1 DEF Seen, Exists, IsActive
      <3>4. CASE o = a
        <4>1. IsActive(v) => v.fp # pend[d][b].fp
          BY <2>2, <3>2, <3>4, <1>6 DEF Seen, Exists, IsActive
        <4>2. d # c => ~Exists(pend[d][a]) /\ Seen(d, a) = alerts[a]
          BY <1>2 DEF Seen
        <4>3. IsActive(alerts[a]) /\ d # c => alerts[a].fp # pend[d][b].fp
          BY <3>1, <3>4, <4>2
        <4> QED
          BY <3>2, <3>4, <4>1, <4>2, <4>3, <1>1, <1>2 DEF Seen, Exists, IsActive
      <3> QED
        BY <3>3, <3>4
    <2> QED
      BY <2>1, <2>2
  <1> QED
    BY <1>3, <1>4, <1>5, <1>7 DEF Safety

(* A commit replaces the table by the call's own view of it. *)
LEMMA Committed ==
  ASSUME IInv, NEW c \in Calls, Rollback(c), OthersUnchanged(c),
         alerts' = [a \in Alerts |-> Seen(c, a)], pc'[c] # "replying"
  PROVE  Safety' /\ Discipline'
  <1>1. /\ \A a \in Alerts : ~Exists(pend'[c][a])
        /\ \A d \in Calls \ {c} : pend'[d] = pend[d]
    BY RollbackPend DEF IInv
  <1>2. OneActiveAlert'
    <2> SUFFICES ASSUME NEW a \in Alerts, NEW b \in Alerts \ {a},
                        IsActive(Seen(c, a)), IsActive(Seen(c, b))
                 PROVE  Seen(c, a).fp # Seen(c, b).fp
      BY DEF OneActiveAlert, IsActive
    <2>1. CASE Exists(pend[c][a])
      BY <2>1 DEF IInv, Rivals, Seen
    <2>2. CASE Exists(pend[c][b])
      BY <2>2 DEF IInv, Rivals, Seen
    <2>3. CASE ~Exists(pend[c][a]) /\ ~Exists(pend[c][b])
      BY <2>3 DEF IInv, OneActiveAlert, Seen
    <2> QED
      BY <2>1, <2>2, <2>3
  <1>3. RowLocks'
    BY <1>1 DEF IInv, RowLocks, Exists
  <1>4. \A d \in Calls \ {c}, a \in Alerts :
           Exists(pend[d][a]) => alerts'[a] = alerts[a]
    BY DEF IInv, RowLocks, Seen
  <1>5. FixedFingerprint'
    BY <1>1, <1>4 DEF IInv, FixedFingerprint, Exists
  <1>6. Rivals'
    <2> SUFFICES ASSUME NEW d \in Calls \ {c}, NEW a \in Alerts,
                        Exists(pend[d][a]), IsActive(pend[d][a]),
                        NEW b \in Alerts \ {a}
                 PROVE  /\ IsActive(Seen(d, b)') => Seen(d, b)'.fp # pend[d][a].fp
                        /\ \A e \in Calls \ {d} : Exists(pend'[e][b]) =>
                              /\ IsActive(pend'[e][b]) => pend'[e][b].fp # pend[d][a].fp
                              /\ IsActive(alerts'[b]) => alerts'[b].fp # pend[d][a].fp
      BY <1>1 DEF Rivals, Exists, IsActive
    <2>1. /\ IsActive(Seen(d, b)) => Seen(d, b).fp # pend[d][a].fp
          /\ \A e \in Calls \ {d} : Exists(pend[e][b]) =>
                /\ IsActive(pend[e][b]) => pend[e][b].fp # pend[d][a].fp
                /\ IsActive(alerts[b]) => alerts[b].fp # pend[d][a].fp
      BY DEF IInv, Rivals
    <2>2. CASE Exists(pend[d][b])
      BY <2>1, <2>2, <1>1, <1>3, <1>4 DEF Seen, Exists, IsActive, RowLocks
    <2>3. CASE ~Exists(pend[d][b])
      <3>1. IsActive(alerts'[b]) => alerts'[b].fp # pend[d][a].fp
        BY <2>1, <2>3 DEF Seen
      <3> QED
        BY <2>1, <2>3, <3>1, <1>1 DEF Seen, Exists, IsActive
    <2> QED
      BY <2>2, <2>3
  <1>7. Quiet' /\ Replying'
    BY <1>1 DEF IInv, Quiet, Replying, OthersUnchanged, Exists
  <1> QED
    BY <1>2, <1>3, <1>5, <1>6, <1>7 DEF Safety, Discipline

LEMMA Aborted ==
  ASSUME IInv, NEW c \in Calls, NEW answer \in {"rejected", "unavailable", "crashed"},
         Abort(c, answer)
  PROVE  Safety' /\ Discipline'
  BY RolledBack, RollbackPend DEF IInv, TypeOK, Abort, Goto, OthersUnchanged, tables,
     request

LEMMA IInvStep == IInv /\ [Next]_vars => Safety' /\ Discipline'
  <1> SUFFICES ASSUME IInv, [Next]_vars PROVE Safety' /\ Discipline'
    OBVIOUS
  <1> USE DEF OthersUnchanged, Goto, tables, request
  <1>1. ASSUME NEW c \in Calls, EvaluateAlerts(c) PROVE Safety' /\ Discipline'
    BY <1>1, NothingWritten DEF EvaluateAlerts, IInv, TypeOK, Writing
  <1>2. ASSUME NEW c \in Calls, EvaluateAlertCandidates(c) PROVE Safety' /\ Discipline'
    BY <1>2, NothingWritten DEF EvaluateAlertCandidates, RaiseError, IInv, TypeOK, Writing
  <1>3. ASSUME NEW c \in Calls, FindActiveAlert(c) PROVE Safety' /\ Discipline'
    <2>1. OthersUnchanged(c) /\ pc'[c] \in {"creating", "refreshing"}
      BY <1>3 DEF FindActiveAlert, IInv, TypeOK
    <2> QED
      BY <1>3, <2>1, NothingWritten DEF FindActiveAlert, Writing
  <1>4. ASSUME NEW c \in Calls, CreateAlert(c) PROVE Safety' /\ Discipline'
    <2>1. CASE RaiseError(c) /\ UNCHANGED <<pend, linked, next>>
      BY <1>4, <2>1, NothingWritten DEF CreateAlert, RaiseError, IInv, TypeOK, Writing
    <2>2. CASE ~(RaiseError(c) /\ UNCHANGED <<pend, linked, next>>)
      <3> DEFINE v == [fp |-> list[c][next[c]], state |-> "open", closed |-> FALSE]
      <3>1. PICK a \in Alerts : /\ Unused(a)
                                /\ ~IndexClash(c, a, v.fp)
                                /\ ~IndexBusy(c, a, v.fp)
                                /\ pend' = [pend EXCEPT ![c][a] = v]
        BY <1>4, <2>2 DEF CreateAlert
      <3>2. /\ pc[c] = "creating"
            /\ pc' = [pc EXCEPT ![c] = "persisting"]
            /\ UNCHANGED <<tables, list, alert, from, goal, run>>
        BY <1>4, <2>2 DEF CreateAlert
      <3>3. v \in Row /\ Exists(v)
        BY <3>2 DEF IInv, TypeOK, Row, States, Active, Exists
      <3>4. ~Locked(c, a) /\ ~Exists(Seen(c, a))
        BY <3>1 DEF Unused, Locked, Seen
      <3> HIDE DEF v
      <3>5. Safety'
        BY <3>1, <3>2, <3>3, <3>4, Wrote
      <3>6. Quiet' /\ Replying'
        BY <3>1, <3>2 DEF IInv, TypeOK, Quiet, Replying, Writing
      <3> QED
        BY <3>5, <3>6 DEF Discipline
    <2> QED
      BY <2>1, <2>2
  <1>5. ASSUME NEW c \in Calls, RefreshExistingAlert(c) PROVE Safety' /\ Discipline'
    <2>1. /\ pc[c] = "refreshing"
          /\ alert[c] \in Alerts
          /\ pc' = [pc EXCEPT ![c] = "persisting"]
          /\ UNCHANGED <<tables, list, alert, from, goal, run>>
      BY <1>5 DEF RefreshExistingAlert, IInv, TypeOK
    <2>2. CASE UNCHANGED pend
      BY <2>1, <2>2, NothingWritten DEF IInv, TypeOK, Writing
    <2>3. CASE ~UNCHANGED pend
      <3> DEFINE v == Seen(c, alert[c])
      <3>1. ~Locked(c, alert[c]) /\ pend' = [pend EXCEPT ![c][alert[c]] = v]
        BY <1>5, <2>3 DEF RefreshExistingAlert
      <3>2. v \in Row
        BY <2>1 DEF IInv, TypeOK, Seen
      <3>3. Safety'
        <4>1. CASE Exists(v)
          BY <2>1, <3>1, <3>2, <4>1, Wrote
        <4>2. CASE ~Exists(v)
          <5>1. v = alerts[alert[c]] /\ ~Exists(pend[c][alert[c]])
            BY <4>2 DEF Seen
          <5>2. \A d \in Calls, a \in Alerts :
                   /\ Exists(pend'[d][a]) <=> Exists(pend[d][a])
                   /\ Exists(pend[d][a]) => pend'[d][a] = pend[d][a]
            <6> HIDE DEF v
            <6> QED BY <2>1, <3>1, <4>2, <5>1 DEF IInv, TypeOK
          <5>3. \A d \in Calls, a \in Alerts : Seen(d, a)' = Seen(d, a)
            BY <2>1, <5>2 DEF Seen, Exists
          <5> QED
            BY <2>1, <5>2, <5>3 DEF IInv, Safety, OneActiveAlert, RowLocks,
               FixedFingerprint, Rivals, Exists, IsActive
        <4> QED
          BY <4>1, <4>2
      <3> HIDE DEF v
      <3>4. Quiet' /\ Replying'
        BY <2>1, <3>1 DEF IInv, TypeOK, Quiet, Replying, Writing
      <3> QED
        BY <3>3, <3>4 DEF Discipline
    <2> QED
      BY <2>2, <2>3
  <1>6. ASSUME NEW c \in Calls, EvaluationFailed(c) PROVE Safety' /\ Discipline'
    BY <1>6, Aborted DEF EvaluationFailed
  <1>7. ASSUME NEW c \in Calls, CommitEvaluation(c) PROVE Safety' /\ Discipline'
    BY <1>7, Committed, RollbackPend DEF CommitEvaluation, IInv, TypeOK
  <1>8. ASSUME NEW c \in Calls, NEW a \in Alerts, NEW state \in States,
               UpdateAlertState(c, a, state)
        PROVE  Safety' /\ Discipline'
    BY <1>8, NothingWritten DEF UpdateAlertState, IInv, TypeOK, Writing
  <1>9. ASSUME NEW c \in Calls, TransitionAlertState(c) PROVE Safety' /\ Discipline'
    <2>1. CASE Abort(c, "unavailable")
      BY <2>1, Aborted
    <2>2. CASE ~Abort(c, "unavailable")
      <3> DEFINE a == alert[c]
                 row == [alerts[a] EXCEPT !.state = goal[c],
                                          !.closed = @ \/ goal[c] \in Terminal]
      <3>1. /\ pc[c] = "updating"
            /\ ~Locked(c, a)
            /\ IsActive(row) => ~IndexClash(c, a, row.fp) /\ ~IndexBusy(c, a, row.fp)
            /\ pend' = [pend EXCEPT ![c][a] = row]
            /\ pc' = [pc EXCEPT ![c] = "replying"]
            /\ UNCHANGED <<tables, request, linked, run>>
        BY <1>9, <2>2 DEF TransitionAlertState
      <3>2. a \in Alerts /\ alerts[a] \in Row /\ goal[c] \in States
        BY <3>1 DEF IInv, TypeOK
      <3>3. row \in Row
        <4>1. (alerts[a].closed \/ goal[c] \in Terminal) \in BOOLEAN
          OBVIOUS
        <4> QED
          BY <3>2, <4>1 DEF Row
      <3>4. row.state = goal[c] /\ row.fp = alerts[a].fp
        BY <3>2 DEF Row
      <3>5. Exists(row)
        BY <3>2, <3>4 DEF Exists, States, Active, Terminal
      <3>6. \A b \in Alerts : ~Exists(pend[c][b])
        BY <3>1 DEF IInv, Quiet, Writing
      <3>7. Seen(c, a) = alerts[a]
        BY <3>2, <3>6 DEF Seen
      <3> HIDE DEF row
      <3>8. Safety'
        BY <3>1, <3>2, <3>3, <3>4, <3>5, <3>7, Wrote
      <3>9. Quiet' /\ Replying'
        BY <3>1, <3>2, <3>5, <3>6 DEF IInv, TypeOK, Quiet, Replying, Writing
      <3> QED
        BY <3>8, <3>9 DEF Discipline
    <2> QED
      BY <2>1, <2>2
  <1>10. ASSUME NEW c \in Calls, CommitTransition(c) PROVE Safety' /\ Discipline'
    <2>1. alerts' = [a \in Alerts |-> Seen(c, a)]
      BY <1>10 DEF CommitTransition, IInv, TypeOK, Replying, Seen
    <2> QED
      BY <1>10, <2>1, Committed, RollbackPend DEF CommitTransition, IInv, TypeOK
  <1>11. ASSUME NEW c \in Calls, Crash(c) PROVE Safety' /\ Discipline'
    BY <1>11, Aborted DEF Crash
  <1>12. CASE UNCHANGED vars
    BY <1>12 DEF vars, IInv, Safety, Discipline, OneActiveAlert, RowLocks,
       FixedFingerprint, Rivals, Quiet, Replying, Seen, Exists, IsActive
  <1> QED
    BY <1>1, <1>2, <1>3, <1>4, <1>5, <1>6, <1>7, <1>8, <1>9, <1>10, <1>11,
       <1>12 DEF Next, Step

(* No condition ever has two active alerts, however many evaluations,      *)
(* state changes and crashes interleave.                                   *)
THEOREM NoDuplicateActiveAlerts == Spec => []OneActiveAlert
  <1>1. Init => IInv
    BY TypeInit DEF Init, IInv, OneActiveAlert, RowLocks, FixedFingerprint, Rivals,
       Quiet, Replying, Exists, IsActive, Active, NoRow
  <1>2. IInv /\ [Next]_vars => IInv'
    BY TypeStep, IInvStep DEF IInv, Safety, Discipline
  <1>3. IInv => OneActiveAlert
    BY DEF IInv
  <1> QED
    BY <1>1, <1>2, <1>3, PTL DEF Spec

-----------------------------------------------------------------------------
(* What a transaction is about to commit                                   *)
(*                                                                         *)
(* The other invariants rest on what an open call knows of the rows it     *)
(* holds, of the alert it has chosen and of the candidates it has dealt    *)
(* with.  Each is said of one call; a step of another call can disturb it  *)
(* only by a commit, which Elsewhere shows harmless.                       *)

(* Exactly the rows that exist have the fingerprint of a condition. *)
Rowed(row) == Exists(row) <=> row.fp \in Fingerprints

WellFormed ==
    /\ \A a \in Alerts : Rowed(alerts[a])
    /\ \A c \in Calls, a \in Alerts : Rowed(pend[c][a])

(* An evaluation rewrites no state: its rows are new and open, or have the *)
(* committed state.                                                        *)
Untouched(c) ==
    pc[c] # "replying" => \A a \in Alerts : Exists(pend[c][a]) =>
        IF Exists(alerts[a]) THEN pend[c][a] = alerts[a]
        ELSE pend[c][a].state = "open" /\ ~pend[c][a].closed

(* A PATCH works on an alert that exists and writes the state it asked for. *)
Patched(c) ==
    /\ pc[c] \in {"updating", "replying"} => Exists(alerts[alert[c]])
    /\ pc[c] = "replying" => pend[c][alert[c]].state = goal[c]

Listed(c) == list[c] = <<>> \/ list[c] \in CandidateLists

Unstarted(c) == pc[c] \in {"idle", "evaluating"} => next[c] = 1 /\ linked[c] = {}

(* The candidates the call has dealt with. *)
Done(c) == {i \in DOMAIN list[c] : i < next[c]}

(* They and the alerts the call has evidence for correspond one to one,    *)
(* and it has written no other alert.                                      *)
Covered(c) ==
    /\ \A a \in Alerts : Exists(pend[c][a]) => a \in linked[c]
    /\ \A a \in linked[c] : /\ Exists(Seen(c, a))
                            /\ \E i \in Done(c) : Seen(c, a).fp = list[c][i]
    /\ \A i \in Done(c) : \E a \in linked[c] : Seen(c, a).fp = list[c][i]
    /\ \A a, b \in linked[c] : Seen(c, a).fp = Seen(c, b).fp => a = b

Linked(c) == pc[c] \in {"persisting", "creating", "refreshing"} => Covered(c)

(* The alert about to be refreshed is one of the candidate's condition. *)
Chosen(c) ==
    pc[c] = "refreshing" =>
        Exists(Seen(c, alert[c])) /\ Seen(c, alert[c]).fp = list[c][next[c]]

Working(c) ==
    Untouched(c) /\ Patched(c) /\ Listed(c) /\ Unstarted(c) /\ Linked(c) /\ Chosen(c)

(* The evidence of a call is that of its committed evaluation: one row for *)
(* each candidate.                                                         *)
Evident(c) ==
    /\ \A a \in Alerts : <<a, c>> \in evidence => Exists(alerts[a]) /\ runs[c] = "succeeded"
    /\ runs[c] = "succeeded" =>
          /\ pc[c] = "ok"
          /\ \A i \in DOMAIN list[c] : \E a \in Alerts : \A b \in Alerts :
                (<<b, c>> \in evidence /\ alerts[b].fp = list[c][i]) <=> b = a

WorkInv ==
    /\ IInv
    /\ WellFormed
    /\ \A c \in Calls : Working(c)
    /\ HistoryEndsInState
    /\ \A c \in Calls : Evident(c)

(* A step of call c. *)
Action(c) ==
    \/ EvaluateAlerts(c)
    \/ \E a \in Alerts, state \in States : UpdateAlertState(c, a, state)
    \/ Step(c)
    \/ Crash(c)

(* It changes nothing another call holds ... *)
Apart(c) ==
    \A d \in Calls \ {c} :
        /\ pc'[d] = pc[d] /\ list'[d] = list[d] /\ next'[d] = next[d]
        /\ alert'[d] = alert[d] /\ from'[d] = from[d] /\ goal'[d] = goal[d]
        /\ pend'[d] = pend[d] /\ linked'[d] = linked[d]

(* ... and no alert but those it wrote before. *)
Publishes(c) == \A a \in Alerts : alerts'[a] = Seen(c, a)

LEMMA Isolation ==
  ASSUME TypeOK, Replying, NEW c \in Calls, Action(c)
  PROVE  Apart(c) /\ (UNCHANGED alerts \/ Publishes(c))
  <1> USE DEF Apart, Goto, tables, request
  <1>1. CASE EvaluateAlerts(c)
    BY <1>1 DEF EvaluateAlerts, TypeOK
  <1>2. ASSUME NEW a \in Alerts, NEW state \in States, UpdateAlertState(c, a, state)
        PROVE  Apart(c) /\ UNCHANGED alerts
    BY <1>2 DEF UpdateAlertState, TypeOK
  <1>3. CASE EvaluateAlertCandidates(c)
    BY <1>3 DEF EvaluateAlertCandidates, RaiseError, TypeOK
  <1>4. CASE FindActiveAlert(c)
    <2>1. \A d \in Calls \ {c} : alert'[d] = alert[d] /\ pc'[d] = pc[d]
      BY <1>4 DEF FindActiveAlert, TypeOK
    <2> QED
      BY <1>4, <2>1 DEF FindActiveAlert
  <1>5. CASE CreateAlert(c)
    <2>1. /\ \A d \in Calls \ {c} : pc'[d] = pc[d] /\ next'[d] = next[d]
          /\ \A d \in Calls \ {c} : pend'[d] = pend[d] /\ linked'[d] = linked[d]
      BY <1>5 DEF CreateAlert, RaiseError, TypeOK
    <2> QED
      BY <1>5, <2>1 DEF CreateAlert
  <1>6. CASE RefreshExistingAlert(c)
    <2>1. \A d \in Calls \ {c} : pend'[d] = pend[d]
      BY <1>6 DEF RefreshExistingAlert, TypeOK
    <2>2. \A d \in Calls \ {c} : /\ pc'[d] = pc[d] /\ next'[d] = next[d]
                                 /\ linked'[d] = linked[d]
      BY <1>6 DEF RefreshExistingAlert, TypeOK
    <2> QED
      BY <1>6, <2>1, <2>2 DEF RefreshExistingAlert
  <1>7. CASE EvaluationFailed(c)
    BY <1>7 DEF EvaluationFailed, Abort, Rollback, TypeOK
  <1>8. CASE CommitEvaluation(c)
    BY <1>8 DEF CommitEvaluation, Rollback, Publishes, TypeOK
  <1>9. CASE TransitionAlertState(c)
    <2>1. CASE Abort(c, "unavailable")
      BY <2>1 DEF Abort, Rollback, TypeOK
    <2>2. CASE ~Abort(c, "unavailable")
      <3>1. /\ UNCHANGED <<tables, request, linked, run>>
            /\ pc' = [pc EXCEPT ![c] = "replying"]
        BY <1>9, <2>2 DEF TransitionAlertState
      <3>2. \A d \in Calls \ {c} : pend'[d] = pend[d]
        BY <1>9, <2>2 DEF TransitionAlertState, TypeOK
      <3> QED
        BY <3>1, <3>2 DEF TypeOK
    <2> QED
      BY <2>1, <2>2
  <1>10. CASE CommitTransition(c)
    <2>1. Apart(c)
      BY <1>10 DEF CommitTransition, Rollback, TypeOK
    <2>2. Publishes(c)
      BY <1>10 DEF CommitTransition, Publishes, Replying, Seen, TypeOK
    <2> QED
      BY <2>1, <2>2
  <1>11. CASE Crash(c)
    BY <1>11 DEF Crash, Abort, Rollback, TypeOK
  <1> QED
    BY <1>1, <1>2, <1>3, <1>4, <1>5, <1>6, <1>7, <1>8, <1>9, <1>10, <1>11
       DEF Action, Step

(* Rows are never deleted and keep their fingerprint, in the table and in  *)
(* every view of it.                                                       *)
LEMMA RowsStay ==
  ASSUME IInv, NEW c \in Calls, Apart(c), UNCHANGED alerts \/ Publishes(c)
  PROVE  /\ \A a \in Alerts : Exists(alerts[a]) =>
               Exists(alerts'[a]) /\ alerts'[a].fp = alerts[a].fp
         /\ \A d \in Calls \ {c}, a \in Alerts :
               /\ Exists(pend[d][a]) => alerts'[a] = alerts[a]
               /\ Exists(Seen(d, a)) => Exists(Seen(d, a)') /\ Seen(d, a)'.fp = Seen(d, a).fp
  <1>1. \A a \in Alerts : Exists(alerts[a]) =>
           Exists(alerts'[a]) /\ alerts'[a].fp = alerts[a].fp
    BY DEF Publishes, Seen, IInv, FixedFingerprint
  <1>2. \A d \in Calls \ {c}, a \in Alerts : Exists(pend[d][a]) => alerts'[a] = alerts[a]
    BY DEF Publishes, Seen, IInv, RowLocks
  <1>3. ASSUME NEW d \in Calls \ {c}, NEW a \in Alerts, Exists(Seen(d, a))
        PROVE  Exists(Seen(d, a)') /\ Seen(d, a)'.fp = Seen(d, a).fp
    <2>1. pend'[d] = pend[d]
      BY DEF Apart
    <2> QED
      BY <1>1, <1>3, <2>1 DEF Seen, Exists
  <1> QED
    BY <1>1, <1>2, <1>3

(* Nothing a call knows is changed by a step of another. *)
LEMMA Elsewhere ==
  ASSUME WorkInv, NEW c \in Calls, Apart(c), UNCHANGED alerts \/ Publishes(c)
  PROVE  \A d \in Calls \ {c} : Working(d)'
  <1> SUFFICES ASSUME NEW d \in Calls \ {c} PROVE Working(d)'
    OBVIOUS
  <1>1. IInv /\ Working(d)
    BY DEF WorkInv
  <1>2. /\ pc'[d] = pc[d] /\ list'[d] = list[d] /\ next'[d] = next[d]
        /\ alert'[d] = alert[d] /\ goal'[d] = goal[d]
        /\ pend'[d] = pend[d] /\ linked'[d] = linked[d]
    BY DEF Apart
  <1>3. /\ \A a \in Alerts : Exists(alerts[a]) => Exists(alerts'[a])
        /\ \A a \in Alerts :
              /\ Exists(pend[d][a]) => alerts'[a] = alerts[a]
              /\ Exists(Seen(d, a)) =>
                    Exists(Seen(d, a)') /\ Seen(d, a)'.fp = Seen(d, a).fp
    BY <1>1, RowsStay
  <1>4. Untouched(d)'
    BY <1>1, <1>2, <1>3 DEF Working, Untouched, Exists
  <1>5. Patched(d)'
    <2>1. pc[d] \in {"updating", "replying"} => alert[d] \in Alerts
      BY <1>1 DEF IInv, TypeOK
    <2> QED
      BY <1>1, <1>2, <1>3, <2>1 DEF Working, Patched
  <1>6. Listed(d)' /\ Unstarted(d)'
    BY <1>1, <1>2 DEF Working, Listed, Unstarted
  <1>7. Linked(d)'
    <2>1. Covered(d) => Covered(d)'
      <3>1. linked[d] \subseteq Alerts
        BY <1>1 DEF IInv, TypeOK
      <3>2. Done(d)' = Done(d)
        BY <1>2 DEF Done
      <3> QED
        BY <1>2, <1>3, <3>1, <3>2 DEF Covered, Exists
    <2> QED
      BY <1>1, <1>2, <2>1 DEF Working, Linked
  <1>8. Chosen(d)'
    <2>1. pc[d] = "refreshing" => alert[d] \in Alerts
      BY <1>1 DEF IInv, TypeOK
    <2>2. pc[d] = "refreshing" => /\ Exists(Seen(d, alert[d])')
                                  /\ Seen(d, alert[d])'.fp = list[d][next[d]]
      BY <1>1, <1>2, <1>3, <2>1 DEF Working, Chosen, Seen
    <2> QED
      BY <1>2, <2>2 DEF Chosen
  <1> QED
    BY <1>4, <1>5, <1>6, <1>7, <1>8 DEF Working

(* Only a commit changes the tables. *)
LEMMA TablesKept ==
  ASSUME WorkInv, NEW c \in Calls, Apart(c), UNCHANGED tables, pc[c] # "ok"
  PROVE  HistoryEndsInState' /\ \A d \in Calls : Evident(d)'
  <1>1. HistoryEndsInState'
    BY DEF WorkInv, HistoryEndsInState, tables, Exists
  <1>2. ASSUME NEW d \in Calls PROVE Evident(d)'
    <2>1. Evident(d)
      BY DEF WorkInv
    <2>2. runs[d] = "succeeded" => pc'[d] = "ok" /\ list'[d] = list[d]
      BY <2>1 DEF Evident, Apart
    <2> QED
      BY <2>1, <2>2 DEF Evident, tables, Exists
  <1> QED
    BY <1>1, <1>2

(* A call that has ended knows nothing any more. *)
LEMMA Ended ==
  ASSUME WorkInv, NEW c \in Calls, Rollback(c), UNCHANGED request,
         pc'[c] \in {"ok", "rejected", "unavailable", "crashed"}
  PROVE  Working(c)'
  <1>1. \A a \in Alerts : ~Exists(pend'[c][a])
    BY RollbackPend DEF WorkInv, IInv
  <1>2. Listed(c)'
    BY DEF WorkInv, Working, Listed, request
  <1> QED
    BY <1>1, <1>2 DEF Working, Untouched, Patched, Unstarted, Linked, Chosen, Exists

LEMMA RollbackRows ==
  ASSUME TypeOK, WellFormed, NEW c \in Calls, Rollback(c)
  PROVE  \A d \in Calls, a \in Alerts : Rowed(pend'[d][a])
  <1>1. Rowed(NoRow)
    BY AlertsAssumption DEF Rowed, NoRow, Exists
  <1>2. \A d \in Calls, a \in Alerts : pend'[d][a] = pend[d][a] \/ pend'[d][a] = NoRow
    BY DEF Rollback, TypeOK
  <1> QED
    BY <1>1, <1>2 DEF WellFormed

LEMMA RolledBackKept ==
  ASSUME WorkInv, NEW c \in Calls, NEW answer \in {"rejected", "unavailable", "crashed"},
         Abort(c, answer), Apart(c), pc[c] # "ok"
  PROVE  WellFormed' /\ Working(c)' /\ HistoryEndsInState' /\ \A d \in Calls : Evident(d)'
  <1>1. pc'[c] = answer /\ Rollback(c) /\ UNCHANGED <<tables, request>>
    BY DEF Abort, Goto, WorkInv, IInv, TypeOK
  <1>2. WellFormed'
    BY <1>1, RollbackRows DEF WorkInv, IInv, WellFormed, tables
  <1> QED
    BY <1>1, <1>2, Ended, TablesKept

(* What a commit owes the history of an alert. *)
Told(a) ==
    IF Exists(alerts[a])
    THEN /\ history[a] # <<>>
         /\ history[a][1] = [from |-> "none", to |-> "open"]
         /\ history[a][Len(history[a])].to = alerts[a].state
    ELSE history[a] = <<>>

LEMMA HistoryGrows ==
  ASSUME TypeOK, HistoryEndsInState, NEW a \in Alerts, NEW entry \in Entry,
         history'[a] = Append(history[a], entry),
         Exists(alerts'[a]), entry.to = alerts'[a].state,
         ~Exists(alerts[a]) => entry = [from |-> "none", to |-> "open"]
  PROVE  Told(a)'
  <1>1. history[a] \in Seq(Entry)
    BY DEF TypeOK
  <1>2. /\ history'[a] # <<>>
        /\ Len(history'[a]) = Len(history[a]) + 1
        /\ history'[a][Len(history[a]) + 1] = entry
        /\ history[a] # <<>> => history'[a][1] = history[a][1]
        /\ history[a] = <<>> => history'[a][1] = entry
    BY <1>1
  <1> QED
    BY <1>2 DEF HistoryEndsInState, Told, Exists

LEMMA HistoryStays ==
  ASSUME HistoryEndsInState, NEW a \in Alerts, history'[a] = history[a],
         alerts'[a].state = alerts[a].state
  PROVE  Told(a)'
  BY DEF HistoryEndsInState, Told, Exists

-----------------------------------------------------------------------------
(* The steps that write no row *)

LEMMA JustBookkeeping ==
  ASSUME WorkInv, NEW c \in Calls, Apart(c), UNCHANGED <<tables, pend, linked>>,
         pc[c] # "ok", Working(c)'
  PROVE  WellFormed' /\ Working(c)' /\ HistoryEndsInState' /\ \A d \in Calls : Evident(d)'
  BY TablesKept DEF WorkInv, WellFormed, tables

LEMMA EvaluateAlertsKeeps ==
  ASSUME WorkInv, NEW c \in Calls, EvaluateAlerts(c), Apart(c)
  PROVE  WellFormed' /\ Working(c)' /\ HistoryEndsInState' /\ \A d \in Calls : Evident(d)'
  <1>1. /\ pc[c] = "idle" /\ pc'[c] \in {"evaluating", "unavailable"}
        /\ UNCHANGED <<tables, request, pend, linked>>
    BY DEF EvaluateAlerts, Goto, WorkInv, IInv, TypeOK
  <1>2. Working(c)'
    BY <1>1 DEF WorkInv, Working, Untouched, Patched, Listed, Unstarted, Linked, Chosen,
       request, tables
  <1> QED
    BY <1>1, <1>2, JustBookkeeping

LEMMA EvaluateAlertCandidatesKeeps ==
  ASSUME WorkInv, NEW c \in Calls, EvaluateAlertCandidates(c), Apart(c)
  PROVE  WellFormed' /\ Working(c)' /\ HistoryEndsInState' /\ \A d \in Calls : Evident(d)'
  <1>1. /\ pc[c] = "evaluating" /\ pc'[c] \in {"persisting", "raising"}
        /\ UNCHANGED <<tables, next, alert, from, goal, pend, linked>>
        /\ list'[c] = list[c] \/ list'[c] \in CandidateLists
    BY DEF EvaluateAlertCandidates, RaiseError, Goto, WorkInv, IInv, TypeOK
  <1>2. /\ \A a \in Alerts : ~Exists(pend[c][a])
        /\ next[c] = 1 /\ linked[c] = {} /\ Listed(c)
    BY <1>1 DEF WorkInv, IInv, Quiet, Writing, Working, Unstarted
  <1>3. Covered(c)'
    <2>1. list'[c] \in Seq(Fingerprints)
      BY <1>1, AlertsAssumption DEF WorkInv, IInv, TypeOK
    <2>2. Done(c)' = {}
      BY <1>1, <1>2, <2>1 DEF Done
    <2> QED
      BY <1>1, <1>2, <2>2 DEF Covered, Exists
  <1>4. Working(c)'
    BY <1>1, <1>2, <1>3 DEF Working, Untouched, Patched, Listed, Unstarted, Linked, Chosen,
       Exists
  <1> QED
    BY <1>1, <1>4, JustBookkeeping

LEMMA FindActiveAlertKeeps ==
  ASSUME WorkInv, NEW c \in Calls, FindActiveAlert(c), Apart(c)
  PROVE  WellFormed' /\ Working(c)' /\ HistoryEndsInState' /\ \A d \in Calls : Evident(d)'
  <1>1. /\ pc[c] = "persisting" /\ next[c] <= Len(list[c])
        /\ UNCHANGED <<tables, list, next, from, goal, pend, linked>>
        /\ \/ pc'[c] = "creating"
           \/ /\ pc'[c] = "refreshing"
              /\ \E a \in Alerts : /\ alert'[c] = a
                                   /\ IsActive(Seen(c, a))
                                   /\ Seen(c, a).fp = list[c][next[c]]
    BY DEF FindActiveAlert, Goto, WorkInv, IInv, TypeOK
  <1>2. \A a \in Alerts : IsActive(Seen(c, a)) => Exists(Seen(c, a))
    BY DEF IsActive, Active, Exists
  <1>3. \A a \in Alerts : Seen(c, a)' = Seen(c, a)
    BY <1>1 DEF Seen, Exists, tables
  <1>4. Covered(c)'
    <2>1. Covered(c) /\ linked[c] \subseteq Alerts
      BY <1>1 DEF WorkInv, IInv, TypeOK, Working, Linked
    <2> QED
      BY <1>1, <1>3, <2>1 DEF Covered, Done, Exists
  <1>5. Chosen(c)'
    BY <1>1, <1>2, <1>3 DEF Chosen, Exists
  <1>6. Working(c)'
    BY <1>1, <1>4, <1>5 DEF WorkInv, Working, Untouched, Patched, Listed, Unstarted, Linked,
       Exists, tables
  <1> QED
    BY <1>1, <1>6, JustBookkeeping

LEMMA UpdateAlertStateKeeps ==
  ASSUME WorkInv, NEW c \in Calls, NEW a \in Alerts, NEW state \in States,
         UpdateAlertState(c, a, state), Apart(c)
  PROVE  WellFormed' /\ Working(c)' /\ HistoryEndsInState' /\ \A d \in Calls : Evident(d)'
  <1>1. /\ pc[c] = "idle"
        /\ \/ pc'[c] = "updating" /\ alert'[c] = a /\ state \in ValidTransitions(alerts[a].state)
           \/ pc'[c] = "rejected"
        /\ UNCHANGED <<tables, list, next, pend, linked>>
    BY DEF UpdateAlertState, Goto, WorkInv, IInv, TypeOK
  <1>2. state \in ValidTransitions(alerts[a].state) => Exists(alerts[a])
    BY DEF ValidTransitions, Exists
  <1>3. Working(c)'
    BY <1>1, <1>2 DEF WorkInv, Working, Untouched, Patched, Listed, Unstarted, Linked, Chosen,
       Exists, tables
  <1> QED
    BY <1>1, <1>3, JustBookkeeping

-----------------------------------------------------------------------------
(* The steps that write a row, and the commits *)

(* Dealing with one more candidate by one more alert. *)
LEMMA CoveredGrows ==
  ASSUME WorkInv, NEW c \in Calls, Linked(c), Listed(c),
         pc[c] \in {"creating", "refreshing"}, NEW a \in Alerts,
         list'[c] = list[c], next'[c] = next[c] + 1, linked'[c] = linked[c] \cup {a},
         \A b \in Alerts \ {a} :
            Seen(c, b)' = Seen(c, b) /\ (Exists(pend'[c][b]) => Exists(pend[c][b])),
         Exists(Seen(c, a)'), Seen(c, a)'.fp = list[c][next[c]],
         Exists(Seen(c, a)) => Seen(c, a).fp = list[c][next[c]]
  PROVE  Covered(c)'
  <1>1. /\ list[c] \in Seq(Fingerprints) /\ next[c] \in Nat \ {0} /\ next[c] <= Len(list[c])
        /\ linked[c] \subseteq Alerts
    BY DEF WorkInv, IInv, TypeOK
  <1>2. Covered(c)
    BY DEF Linked
  <1>3. \A i \in Done(c) : list[c][i] # list[c][next[c]]
    <2>1. list[c] \in CandidateLists
      BY <1>1 DEF Listed
    <2> QED
      BY <1>1, <2>1, AlertsAssumption DEF Done
  <1>4. a \notin linked[c]
    BY <1>2, <1>3 DEF Covered
  <1>5. Done(c)' = Done(c) \cup {next[c]}
    BY <1>1 DEF Done
  <1>6. \A b \in linked[c] : Seen(c, b)' = Seen(c, b)
    BY <1>1, <1>4
  <1>7. \A b \in Alerts : Exists(pend[c][b])' => b \in linked'[c]
    BY <1>2 DEF Covered, Exists
  <1>8. \A b \in linked'[c] : /\ Exists(Seen(c, b)')
                              /\ \E i \in Done(c)' : Seen(c, b)'.fp = list[c][i]
    <2>1. \A b \in linked[c] : /\ Exists(Seen(c, b)')
                               /\ \E i \in Done(c) : Seen(c, b)'.fp = list[c][i]
      BY <1>2, <1>6 DEF Covered
    <2> QED
      BY <1>5, <2>1
  <1>9. \A i \in Done(c)' : \E b \in linked'[c] : Seen(c, b)'.fp = list[c][i]
    <2>1. \A i \in Done(c) : \E b \in linked[c] : Seen(c, b)'.fp = list[c][i]
      BY <1>2, <1>6 DEF Covered
    <2> QED
      BY <1>5, <2>1
  <1>10. \A b, o \in linked'[c] : Seen(c, b)'.fp = Seen(c, o)'.fp => b = o
    <2>1. \A b, o \in linked[c] : Seen(c, b)'.fp = Seen(c, o)'.fp => b = o
      BY <1>2, <1>6 DEF Covered
    <2>2. \A b \in linked[c] : Seen(c, b)'.fp # Seen(c, a)'.fp
      BY <1>2, <1>3, <1>6 DEF Covered
    <2> QED
      BY <2>1, <2>2
  <1> QED
    BY <1>7, <1>8, <1>9, <1>10 DEF Covered, Exists

LEMMA CreateAlertKeeps ==
  ASSUME WorkInv, NEW c \in Calls, CreateAlert(c), Apart(c)
  PROVE  WellFormed' /\ Working(c)' /\ HistoryEndsInState' /\ \A d \in Calls : Evident(d)'
  <1>1. CASE RaiseError(c) /\ UNCHANGED <<pend, linked, next>>
    <2>1. /\ pc[c] = "creating" /\ pc'[c] = "raising"
          /\ UNCHANGED <<tables, list, pend, linked>>
      BY <1>1 DEF CreateAlert, RaiseError, Goto, WorkInv, IInv, TypeOK
    <2>2. Working(c)'
      BY <2>1 DEF WorkInv, Working, Untouched, Patched, Listed, Unstarted, Linked, Chosen,
         Exists, tables
    <2> QED
      BY <2>1, <2>2, JustBookkeeping
  <1>2. CASE ~(RaiseError(c) /\ UNCHANGED <<pend, linked, next>>)
    <2> DEFINE v == [fp |-> list[c][next[c]], state |-> "open", closed |-> FALSE]
    <2>1. PICK a \in Alerts : /\ Unused(a)
                              /\ pend' = [pend EXCEPT ![c][a] = v]
                              /\ linked' = [linked EXCEPT ![c] = @ \cup {a}]
      BY <1>2 DEF CreateAlert
    <2>2. /\ pc[c] = "creating" /\ pc'[c] = "persisting"
          /\ next'[c] = next[c] + 1
          /\ UNCHANGED <<tables, list, alert, from, goal, run>>
      BY <1>2 DEF CreateAlert, Goto, WorkInv, IInv, TypeOK
    <2>3. list[c][next[c]] \in Fingerprints
      BY <2>2 DEF WorkInv, IInv, TypeOK
    <2>4. v.fp = list[c][next[c]] /\ v.state = "open" /\ ~v.closed /\ Exists(v) /\ Rowed(v)
      BY <2>3 DEF Rowed, Exists
    <2> HIDE DEF v
    <2>5. /\ pend'[c][a] = v
          /\ \A d \in Calls, b \in Alerts : d # c \/ b # a => pend'[d][b] = pend[d][b]
          /\ linked'[c] = linked[c] \cup {a}
      BY <2>1 DEF WorkInv, IInv, TypeOK
    <2>6. ~Exists(alerts[a]) /\ ~Exists(Seen(c, a))
      BY <2>1 DEF Unused, Seen
    <2>7. /\ Seen(c, a)' = v
          /\ \A b \in Alerts \ {a} : Seen(c, b)' = Seen(c, b)
      BY <2>2, <2>4, <2>5 DEF Seen, tables, Exists
    <2>8. WellFormed'
      BY <2>2, <2>4, <2>5 DEF WorkInv, WellFormed, tables, Rowed, Exists
    <2>9. Covered(c)'
      <3>1. Exists(Seen(c, a)') /\ Seen(c, a)'.fp = list[c][next[c]]
        BY <2>4, <2>7
      <3>2. \A b \in Alerts \ {a} : Exists(pend'[c][b]) => Exists(pend[c][b])
        BY <2>5
      <3> QED
        BY <2>2, <2>5, <2>6, <2>7, <3>1, <3>2, CoveredGrows DEF WorkInv, Working
    <2>10. Untouched(c)'
      BY <2>2, <2>4, <2>5, <2>6 DEF WorkInv, Working, Untouched, tables, Exists
    <2>11. Working(c)'
      BY <2>2, <2>9, <2>10 DEF WorkInv, Working, Patched, Listed, Unstarted, Linked, Chosen
    <2> QED
      BY <2>2, <2>8, <2>11, TablesKept
  <1> QED
    BY <1>1, <1>2

LEMMA RefreshExistingAlertKeeps ==
  ASSUME WorkInv, NEW c \in Calls, RefreshExistingAlert(c), Apart(c)
  PROVE  WellFormed' /\ Working(c)' /\ HistoryEndsInState' /\ \A d \in Calls : Evident(d)'
  <1>0. PICK a \in Alerts : a = alert[c]
    BY DEF RefreshExistingAlert, WorkInv, IInv, TypeOK
  <1> DEFINE v == Seen(c, a)
  <1>1. /\ pc[c] = "refreshing" /\ pc'[c] = "persisting"
        /\ next'[c] = next[c] + 1 /\ linked'[c] = linked[c] \cup {a}
        /\ UNCHANGED <<tables, list, alert, from, goal, run>>
    BY <1>0 DEF RefreshExistingAlert, Goto, WorkInv, IInv, TypeOK
  <1>2. Exists(v) /\ v.fp = list[c][next[c]]
    BY <1>0, <1>1 DEF WorkInv, Working, Chosen
  <1>3. /\ \A d \in Calls, b \in Alerts : d # c \/ b # a => pend'[d][b] = pend[d][b]
        /\ pend'[c][a] = pend[c][a] \/ pend'[c][a] = v
    BY <1>0, <1>1 DEF RefreshExistingAlert, WorkInv, IInv, TypeOK
  <1>4. \A b \in Alerts : Seen(c, b)' = Seen(c, b)
    <2>1. \A b \in Alerts \ {a} : Seen(c, b)' = Seen(c, b)
      BY <1>1, <1>3 DEF Seen, tables, Exists
    <2>2. Seen(c, a)' = Seen(c, a)
      <3>1. Seen(c, a)' = IF Exists(pend'[c][a]) THEN pend'[c][a] ELSE alerts[a]
        BY <1>1 DEF Seen, tables, Exists
      <3> QED
        BY <1>2, <1>3, <3>1 DEF Seen, Exists
    <2> QED
      BY <2>1, <2>2
  <1>5. Rowed(v)
    BY <1>1 DEF WorkInv, WellFormed, Seen
  <1>6. WellFormed'
    BY <1>1, <1>3, <1>5 DEF WorkInv, WellFormed, tables, Rowed, Exists
  <1>7. Covered(c)'
    BY <1>1, <1>2, <1>3, <1>4, CoveredGrows DEF WorkInv, Working
  <1>8. Untouched(c)'
    <2>1. Untouched(c)
      BY DEF WorkInv, Working
    <2>2. ~Exists(pend[c][a]) => Exists(alerts[a]) /\ v = alerts[a]
      BY <1>2 DEF Seen
    <2>3. Exists(pend[c][a]) => v = pend[c][a]
      BY DEF Seen
    <2> HIDE DEF v
    <2> QED
      BY <1>1, <1>3, <2>1, <2>2, <2>3 DEF Untouched, tables, Exists
  <1>9. Working(c)'
    BY <1>1, <1>7, <1>8 DEF WorkInv, Working, Patched, Listed, Unstarted, Linked, Chosen
  <1> QED
    BY <1>1, <1>6, <1>9, TablesKept

LEMMA TransitionAlertStateKeeps ==
  ASSUME WorkInv, NEW c \in Calls, TransitionAlertState(c), Apart(c)
  PROVE  WellFormed' /\ Working(c)' /\ HistoryEndsInState' /\ \A d \in Calls : Evident(d)'
  <1>1. CASE Abort(c, "unavailable")
    <2>1. pc[c] # "ok"
      BY DEF TransitionAlertState
    <2> QED
      BY <1>1, <2>1, RolledBackKept
  <1>2. CASE ~Abort(c, "unavailable")
    <2> DEFINE a == alert[c]
               row == [alerts[a] EXCEPT !.state = goal[c],
                                        !.closed = @ \/ goal[c] \in Terminal]
    <2>1. /\ pc[c] = "updating" /\ pc'[c] = "replying"
          /\ pend' = [pend EXCEPT ![c][a] = row]
          /\ UNCHANGED <<tables, request, linked, run>>
      BY <1>2 DEF TransitionAlertState, Goto, WorkInv, IInv, TypeOK
    <2>2. a \in Alerts /\ alerts[a] \in Row /\ goal[c] \in States /\ Exists(alerts[a])
      BY <2>1 DEF WorkInv, IInv, TypeOK, Working, Patched
    <2>3. row.state = goal[c] /\ row.fp = alerts[a].fp
      BY <2>2 DEF Row
    <2>4. Exists(row)
      BY <2>2, <2>3 DEF Exists, States, Active, Terminal
    <2>5. Rowed(row)
      BY <2>2, <2>3, <2>4 DEF WorkInv, WellFormed, Rowed
    <2> HIDE DEF row
    <2>6. /\ pend'[c][a] = row
          /\ \A d \in Calls, b \in Alerts : d # c \/ b # a => pend'[d][b] = pend[d][b]
      BY <2>1, <2>2 DEF WorkInv, IInv, TypeOK
    <2>7. WellFormed'
      BY <2>1, <2>5, <2>6 DEF WorkInv, WellFormed, tables, Rowed, Exists
    <2>8. Working(c)'
      BY <2>1, <2>2, <2>3, <2>6 DEF WorkInv, Working, Untouched, Patched, Listed, Unstarted,
         Linked, Chosen, tables, request, Exists
    <2> QED
      BY <2>1, <2>7, <2>8, TablesKept
  <1> QED
    BY <1>1, <1>2

(* A commit leaves the evidence of every other call as it is. *)
LEMMA OthersEvidence ==
  ASSUME WorkInv, NEW c \in Calls, Apart(c), Publishes(c), NEW d \in Calls \ {c},
         runs'[d] = runs[d],
         \A a \in Alerts : <<a, d>> \in evidence' <=> <<a, d>> \in evidence
  PROVE  Evident(d)'
  <1>1. Evident(d) /\ IInv
    BY DEF WorkInv
  <1>2. \A a \in Alerts : Exists(alerts[a]) =>
           Exists(alerts'[a]) /\ alerts'[a].fp = alerts[a].fp
    BY <1>1, RowsStay
  <1>3. \A a \in Alerts : <<a, d>> \in evidence' => Exists(alerts'[a]) /\ runs'[d] = "succeeded"
    BY <1>1, <1>2 DEF Evident
  <1>4. ASSUME runs'[d] = "succeeded"
        PROVE  /\ pc'[d] = "ok"
               /\ \A i \in DOMAIN list'[d] : \E a \in Alerts : \A b \in Alerts :
                     (<<b, d>> \in evidence' /\ alerts'[b].fp = list'[d][i]) <=> b = a
    <2>1. pc'[d] = "ok" /\ list'[d] = list[d]
      BY <1>1, <1>4 DEF Evident, Apart
    <2>2. ASSUME NEW i \in DOMAIN list[d]
          PROVE  \E a \in Alerts : \A b \in Alerts :
                    (<<b, d>> \in evidence' /\ alerts'[b].fp = list[d][i]) <=> b = a
      <3>1. PICK a \in Alerts : \A b \in Alerts :
               (<<b, d>> \in evidence /\ alerts[b].fp = list[d][i]) <=> b = a
        BY <1>1, <1>4 DEF Evident
      <3>2. \A b \in Alerts : <<b, d>> \in evidence => alerts'[b].fp = alerts[b].fp
        BY <1>1, <1>2 DEF Evident
      <3> QED
        BY <3>1, <3>2
    <2> QED
      BY <2>1, <2>2
  <1> QED
    BY <1>3, <1>4 DEF Evident, Exists

LEMMA CommittedRows ==
  ASSUME WorkInv, NEW c \in Calls, Publishes(c), Rollback(c)
  PROVE  WellFormed'
  <1>1. \A a \in Alerts : Rowed(alerts'[a])
    BY DEF WorkInv, WellFormed, Publishes, Seen
  <1> QED
    BY <1>1, RollbackRows DEF WorkInv, IInv, WellFormed, Rowed, Exists

LEMMA CommitEvaluationKeeps ==
  ASSUME WorkInv, NEW c \in Calls, CommitEvaluation(c), Apart(c)
  PROVE  WellFormed' /\ Working(c)' /\ HistoryEndsInState' /\ \A d \in Calls : Evident(d)'
  <1> DEFINE created == {a \in Alerts : Exists(pend[c][a]) /\ ~Exists(alerts[a])}
             opening == [from |-> "none", to |-> "open"]
  <1>1. /\ pc[c] = "persisting" /\ pc'[c] = "ok" /\ next[c] > Len(list[c])
        /\ Publishes(c) /\ Rollback(c)
        /\ history' = [a \in Alerts |-> IF a \in created THEN Append(history[a], opening)
                                                        ELSE history[a]]
        /\ evidence' = evidence \cup (linked[c] \X {c})
        /\ runs'[c] = "succeeded" /\ \A d \in Calls \ {c} : runs'[d] = runs[d]
        /\ UNCHANGED request
    BY DEF CommitEvaluation, Publishes, Goto, WorkInv, IInv, TypeOK
  <1>2. WellFormed' /\ Working(c)'
    BY <1>1, CommittedRows, Ended
  <1>3. Untouched(c) /\ Covered(c)
    BY <1>1 DEF WorkInv, Working, Linked
  <1>4. ASSUME NEW a \in Alerts PROVE Told(a)'
    <2>1. CASE a \in created
      <3>1. alerts'[a] = pend[c][a] /\ Exists(alerts'[a]) /\ alerts'[a].state = "open"
        BY <1>1, <1>3, <2>1 DEF Untouched, Publishes, Seen
      <3>2. history'[a] = Append(history[a], opening) /\ opening \in Entry
        BY <1>1, <2>1 DEF Entry, States, Active
      <3> QED
        BY <3>1, <3>2, HistoryGrows DEF WorkInv, IInv
    <2>2. CASE a \notin created
      <3>1. alerts'[a].state = alerts[a].state
        BY <1>1, <1>3, <2>2 DEF Untouched, Publishes, Seen
      <3> QED
        BY <1>1, <2>2, <3>1, HistoryStays DEF WorkInv
    <2> QED
      BY <2>1, <2>2
  <1>5. ASSUME NEW d \in Calls \ {c} PROVE Evident(d)'
    <2>1. \A a \in Alerts : <<a, d>> \in evidence' <=> <<a, d>> \in evidence
      BY <1>1
    <2> QED
      BY <1>1, <2>1, OthersEvidence
  <1>6. Evident(c)'
    <2>1. /\ list[c] \in Seq(Fingerprints) /\ next[c] \in Nat /\ linked[c] \subseteq Alerts
          /\ list'[c] = list[c]
      BY <1>1 DEF WorkInv, IInv, TypeOK, request
    <2>2. Done(c) = DOMAIN list[c]
      BY <1>1, <2>1 DEF Done
    <2>3. \A a \in Alerts : <<a, c>> \notin evidence
      BY <1>1 DEF WorkInv, Evident
    <2>4. \A a \in Alerts : <<a, c>> \in evidence' <=> a \in linked[c]
      BY <1>1, <2>3
    <2>5. \A a \in Alerts : alerts'[a] = Seen(c, a)
      BY <1>1 DEF Publishes
    <2>6. ASSUME NEW i \in DOMAIN list[c]
          PROVE  \E a \in Alerts : \A b \in Alerts :
                    (<<b, c>> \in evidence' /\ alerts'[b].fp = list[c][i]) <=> b = a
      <3>1. PICK a \in linked[c] : Seen(c, a).fp = list[c][i]
        BY <1>3, <2>2 DEF Covered
      <3>2. \A b \in linked[c] : Seen(c, b).fp = list[c][i] => b = a
        BY <1>3, <3>1 DEF Covered
      <3> QED
        BY <2>1, <2>4, <2>5, <3>1, <3>2
    <2>7. \A a \in linked[c] : Exists(alerts'[a])
      BY <1>3, <2>1, <2>5 DEF Covered
    <2> QED
      BY <1>1, <2>1, <2>4, <2>6, <2>7 DEF Evident, Exists
  <1>7. HistoryEndsInState'
    BY <1>4 DEF HistoryEndsInState, Told, Exists
  <1> QED
    BY <1>2, <1>5, <1>6, <1>7

LEMMA CommitTransitionKeeps ==
  ASSUME WorkInv, NEW c \in Calls, CommitTransition(c), Apart(c), Publishes(c)
  PROVE  WellFormed' /\ Working(c)' /\ HistoryEndsInState' /\ \A d \in Calls : Evident(d)'
  <1>1. /\ pc[c] = "replying" /\ pc'[c] = "ok" /\ Rollback(c)
        /\ alert[c] \in Alerts /\ goal[c] \in States
        /\ UNCHANGED <<evidence, runs, request>>
    BY DEF CommitTransition, Goto, WorkInv, IInv, TypeOK
  <1>2. WellFormed' /\ Working(c)'
    BY <1>1, CommittedRows, Ended
  <1>3. /\ Exists(alerts[alert[c]]) /\ pend[c][alert[c]].state = goal[c]
        /\ \A a \in Alerts : Exists(pend[c][a]) <=> a = alert[c]
    BY <1>1 DEF WorkInv, IInv, Replying, Working, Patched
  <1>4. ASSUME NEW a \in Alerts PROVE Told(a)'
    <2> DEFINE step == [from |-> from[c], to |-> goal[c]]
    <2>1. CASE a = alert[c]
      <3>1. Exists(alerts'[a]) /\ alerts'[a].state = goal[c]
        BY <1>3, <2>1 DEF Publishes, Seen
      <3>2. history'[a] = Append(history[a], step)
        BY <2>1 DEF CommitTransition, WorkInv, IInv, TypeOK
      <3>3. step \in Entry
        BY <1>1 DEF Entry, WorkInv, IInv, TypeOK
      <3> QED
        BY <1>3, <2>1, <3>1, <3>2, <3>3, HistoryGrows DEF WorkInv, IInv
    <2>2. CASE a # alert[c]
      <3>1. alerts'[a].state = alerts[a].state
        BY <1>3, <2>2 DEF Publishes, Seen
      <3>2. history'[a] = history[a]
        BY <2>2 DEF CommitTransition, WorkInv, IInv, TypeOK
      <3> QED
        BY <3>1, <3>2, HistoryStays DEF WorkInv
    <2> QED
      BY <2>1, <2>2
  <1>5. ASSUME NEW d \in Calls PROVE Evident(d)'
    <2>1. CASE d # c
      BY <1>1, <2>1, OthersEvidence
    <2>2. CASE d = c
      BY <1>1, <2>2 DEF WorkInv, Evident
    <2> QED
      BY <2>1, <2>2
  <1>6. HistoryEndsInState'
    BY <1>4 DEF HistoryEndsInState, Told, Exists
  <1> QED
    BY <1>2, <1>5, <1>6

-----------------------------------------------------------------------------
(* The lifecycle history and the evidence *)

LEMMA ActionKeeps ==
  ASSUME WorkInv, NEW c \in Calls, Action(c)
  PROVE  WellFormed' /\ (\A d \in Calls : Working(d)') /\ HistoryEndsInState'
         /\ \A d \in Calls : Evident(d)'
  <1>1. Apart(c) /\ (UNCHANGED alerts \/ Publishes(c))
    BY Isolation DEF WorkInv, IInv
  <1>2. \A d \in Calls \ {c} : Working(d)'
    BY <1>1, Elsewhere
  <1>3. WellFormed' /\ Working(c)' /\ HistoryEndsInState' /\ \A d \in Calls : Evident(d)'
    <2>1. CASE EvaluateAlerts(c)
      BY <1>1, <2>1, EvaluateAlertsKeeps
    <2>2. CASE \E a \in Alerts, state \in States : UpdateAlertState(c, a, state)
      BY <1>1, <2>2, UpdateAlertStateKeeps
    <2>3. CASE EvaluateAlertCandidates(c)
      BY <1>1, <2>3, EvaluateAlertCandidatesKeeps
    <2>4. CASE FindActiveAlert(c)
      BY <1>1, <2>4, FindActiveAlertKeeps
    <2>5. CASE CreateAlert(c)
      BY <1>1, <2>5, CreateAlertKeeps
    <2>6. CASE RefreshExistingAlert(c)
      BY <1>1, <2>6, RefreshExistingAlertKeeps
    <2>7. CASE EvaluationFailed(c)
      BY <1>1, <2>7, RolledBackKept DEF EvaluationFailed
    <2>8. CASE CommitEvaluation(c)
      BY <1>1, <2>8, CommitEvaluationKeeps
    <2>9. CASE TransitionAlertState(c)
      BY <1>1, <2>9, TransitionAlertStateKeeps
    <2>10. CASE CommitTransition(c)
      <3>1. Publishes(c)
        BY <2>10 DEF CommitTransition, Publishes, Seen, WorkInv, IInv, Replying, TypeOK
      <3> QED
        BY <1>1, <2>10, <3>1, CommitTransitionKeeps
    <2>11. CASE Crash(c)
      <3>1. pc[c] # "ok"
        BY <2>11 DEF Crash, Open
      <3> QED
        BY <1>1, <2>11, <3>1, RolledBackKept DEF Crash
    <2> QED
      BY <2>1, <2>2, <2>3, <2>4, <2>5, <2>6, <2>7, <2>8, <2>9, <2>10, <2>11
         DEF Action, Step
  <1> QED
    BY <1>2, <1>3

LEMMA WorkInvInit == Init => WorkInv
  <1> SUFFICES ASSUME Init PROVE WorkInv
    OBVIOUS
  <1>1. IInv
    BY TypeInit DEF Init, IInv, OneActiveAlert, RowLocks, FixedFingerprint, Rivals,
       Quiet, Replying, Exists, IsActive, Active, NoRow
  <1>2. WellFormed
    BY AlertsAssumption DEF Init, WellFormed, Rowed, Exists, NoRow
  <1>3. \A c \in Calls : Working(c)
    BY DEF Init, Working, Untouched, Patched, Listed, Unstarted, Linked, Chosen, Exists,
       NoRow
  <1>4. HistoryEndsInState
    BY DEF Init, HistoryEndsInState, Exists, NoRow
  <1>5. \A c \in Calls : Evident(c)
    BY DEF Init, Evident
  <1> QED
    BY <1>1, <1>2, <1>3, <1>4, <1>5 DEF WorkInv

LEMMA WorkInvStep == WorkInv /\ [Next]_vars => WorkInv'
  <1> SUFFICES ASSUME WorkInv, [Next]_vars PROVE WorkInv'
    OBVIOUS
  <1>1. IInv'
    BY TypeStep, IInvStep DEF WorkInv, IInv, Safety, Discipline
  <1>2. CASE Next
    <2>1. PICK c \in Calls : Action(c)
      BY <1>2 DEF Next, Action
    <2> QED
      BY <1>1, <2>1, ActionKeeps DEF WorkInv
  <1>3. CASE UNCHANGED vars
    <2>1. WellFormed' /\ HistoryEndsInState'
      BY <1>3 DEF vars, WorkInv, WellFormed, Rowed, HistoryEndsInState, Exists
    <2>2. ASSUME NEW c \in Calls PROVE Working(c)' /\ Evident(c)'
      <3>1. \A a \in Alerts : Seen(c, a)' = Seen(c, a)
        BY <1>3 DEF vars, Seen, Exists
      <3>2. linked[c] \subseteq Alerts /\ (pc[c] = "refreshing" => alert[c] \in Alerts)
        BY DEF WorkInv, IInv, TypeOK
      <3>3. Linked(c)'
        BY <1>3, <3>1, <3>2 DEF vars, WorkInv, Working, Linked, Covered, Done, Exists
      <3>4. Chosen(c)'
        BY <1>3, <3>1, <3>2 DEF vars, WorkInv, Working, Chosen, Exists, Seen
      <3> QED
        BY <1>3, <3>3, <3>4 DEF vars, WorkInv, Working, Untouched, Patched, Listed, Unstarted,
           Evident, Exists
    <2> QED
      BY <1>1, <2>1, <2>2 DEF WorkInv
  <1> QED
    BY <1>2, <1>3

LEMMA WorkInvariance == Spec => []WorkInv
  BY WorkInvInit, WorkInvStep, PTL DEF Spec

(* The lifecycle history of an alert begins with its creation and ends in  *)
(* the state the alert has, whatever evaluations and state changes of      *)
(* however many calls are committed, rolled back or lost in between.       *)
THEOREM HistoryIsComplete == Spec => []HistoryEndsInState
  BY WorkInvariance, PTL DEF WorkInv

(* A succeeded evaluation has left exactly one evidence row per candidate, *)
(* on an alert of the candidate's fingerprint, in every later state too:   *)
(* whatever other calls do to that alert, it keeps its fingerprint.        *)
THEOREM EvidenceIsComplete == Spec => []EvidenceForEveryCandidate
  <1>1. WorkInv => EvidenceForEveryCandidate
    <2> SUFFICES ASSUME WorkInv, NEW c \in Calls, runs[c] = "succeeded",
                        NEW i \in DOMAIN list[c]
                 PROVE  Cardinality({a \in Alerts : /\ <<a, c>> \in evidence
                                                    /\ alerts[a].fp = list[c][i]}) = 1
      BY DEF EvidenceForEveryCandidate
    <2>1. PICK a \in Alerts : \A b \in Alerts :
             (<<b, c>> \in evidence /\ alerts[b].fp = list[c][i]) <=> b = a
      BY DEF WorkInv, Evident
    <2>2. {b \in Alerts : <<b, c>> \in evidence /\ alerts[b].fp = list[c][i]} = {a}
      BY <2>1
    <2> QED
      BY <2>2, FS_Singleton
  <1> QED
    BY <1>1, WorkInvariance, PTL

-----------------------------------------------------------------------------
(* No deadlock                                                             *)
(*                                                                         *)
(* A call that is waited for holds rows, so it is no PATCH that is waiting *)
(* itself, and one that waits for an evaluation wants the fingerprint of a *)
(* candidate the evaluation has dealt with.  Since all list their          *)
(* candidates in one order, the evaluation whose current candidate comes   *)
(* last waits for no other.                                                *)

FewOpen == IsFiniteSet({c \in Calls : Open(c)})

Current(c) == list[c][next[c]]

LEMMA HolderIsWriting ==
  ASSUME WorkInv, NEW c \in Calls, NEW d \in WaitsFor(c)
  PROVE  d \in Calls \ {c} /\ pc[d] \in Writing
  <1>1. d \in Calls \ {c} /\ \E a \in Alerts : Exists(pend[d][a])
    <2>1. \A fp : \A a \in Alerts : d \in IndexBusyWith(c, a, fp) =>
             d \in Calls \ {c} /\ \E b \in Alerts : Exists(pend[d][b])
      BY DEF IndexBusyWith, Twins
    <2>2. pc[c] \in {"refreshing", "updating"} => alert[c] \in Alerts
      BY DEF WorkInv, IInv, TypeOK
    <2>3. CASE pc[c] = "creating"
      <3>1. PICK a \in Alerts : d \in IndexBusyWith(c, a, list[c][next[c]])
        BY <2>3 DEF WaitsFor
      <3> QED
        BY <2>1, <3>1
    <2>4. CASE pc[c] \in {"refreshing", "updating"}
      <3>1. \/ d \in Calls \ {c} /\ Exists(pend[d][alert[c]])
            \/ d \in IndexBusyWith(c, alert[c], alerts[alert[c]].fp)
        BY <2>4 DEF WaitsFor
      <3> QED
        BY <2>1, <2>2, <2>4, <3>1
    <2>5. pc[c] \in {"creating", "refreshing", "updating"}
      BY DEF WaitsFor
    <2> QED
      BY <2>3, <2>4, <2>5
  <1> QED
    BY <1>1 DEF WorkInv, IInv, Quiet

LEMMA WaitsForDone ==
  ASSUME WorkInv, NEW c \in Calls, pc[c] \in {"creating", "refreshing"},
         NEW d \in WaitsFor(c), pc[d] \in {"creating", "refreshing"}
  PROVE  \E i \in Done(d) : list[d][i] = Current(c)
  <1>1. d \in Calls \ {c}
    BY HolderIsWriting
  <1>2. Current(c) \in Fingerprints
    BY DEF WorkInv, IInv, TypeOK, Current
  <1>3. \E a \in Alerts : Exists(pend[d][a]) /\ pend[d][a].fp = Current(c)
    <2>1. CASE pc[c] = "creating"
      <3>1. PICK a \in Alerts : d \in IndexBusyWith(c, a, Current(c))
        BY <2>1 DEF WaitsFor, Current
      <3>2. PICK b \in Twins(a, Current(c)) : Exists(pend[d][b])
        BY <3>1 DEF IndexBusyWith
      <3>3. b \in Alerts /\ Current(c) \in {alerts[b].fp} \cup {pend[e][b].fp : e \in Calls}
        BY DEF Twins
      <3>4. CASE Current(c) = alerts[b].fp
        <4>1. Exists(alerts[b])
          BY <1>2, <3>3, <3>4 DEF WorkInv, WellFormed, Rowed
        <4> QED
          BY <1>1, <3>2, <3>3, <3>4, <4>1 DEF WorkInv, IInv, FixedFingerprint
      <3>5. ASSUME NEW e \in Calls, Current(c) = pend[e][b].fp
            PROVE  pend[d][b].fp = Current(c)
        <4>1. Exists(pend[e][b])
          BY <1>2, <3>3, <3>5 DEF WorkInv, WellFormed, Rowed
        <4> QED
          BY <1>1, <3>2, <3>3, <3>5, <4>1 DEF WorkInv, IInv, RowLocks
      <3> QED
        BY <3>2, <3>3, <3>4, <3>5
    <2>2. CASE pc[c] = "refreshing"
      <3>1. alert[c] \in Alerts /\ Exists(pend[d][alert[c]])
        BY <2>2 DEF WaitsFor, WorkInv, IInv, TypeOK
      <3>2. ~Exists(pend[c][alert[c]])
        BY <1>1, <3>1 DEF WorkInv, IInv, RowLocks
      <3>3. Exists(alerts[alert[c]]) /\ alerts[alert[c]].fp = Current(c)
        BY <2>2, <3>2 DEF WorkInv, Working, Chosen, Seen, Current
      <3> QED
        BY <1>1, <3>1, <3>3 DEF WorkInv, IInv, FixedFingerprint
    <2> QED
      BY <2>1, <2>2
  <1>4. Covered(d)
    BY <1>1 DEF WorkInv, Working, Linked
  <1> QED
    BY <1>3, <1>4 DEF Covered, Seen

LEMMA NoCircle == WorkInv /\ FewOpen => NoCircularWait
  <1> SUFFICES ASSUME WorkInv, FewOpen, NEW S \in (SUBSET Calls) \ {{}},
                      \A c \in S : WaitsFor(c) \cap S # {}
               PROVE  FALSE
    BY DEF NoCircularWait
  <1> DEFINE T == {c \in S : pc[c] \in {"creating", "refreshing"}}
  <1>1. ASSUME NEW c \in S PROVE \E d \in T : d \in WaitsFor(c)
    <2>1. PICK d \in S : d \in WaitsFor(c)
      BY <1>1
    <2>2. pc[d] \in Writing
      BY <1>1, <2>1, HolderIsWriting
    <2>3. pc[d] \in {"creating", "refreshing", "updating"}
      <3>1. PICK e \in S : e \in WaitsFor(d)
        BY <2>1
      <3> QED
        BY <3>1 DEF WaitsFor
    <2> QED
      BY <2>1, <2>2, <2>3 DEF Writing
  <1>2. T # {} /\ T \subseteq Calls
    BY <1>1
  <1>3. IsFiniteSet(T)
    <2>1. T \subseteq {c \in Calls : Open(c)}
      BY DEF Open
    <2> HIDE DEF T
    <2> QED
      BY <2>1, FS_Subset DEF FewOpen
  <1>4. PICK before \in SUBSET (Fingerprints \X Fingerprints) :
           /\ \A f \in Fingerprints : <<f, f>> \notin before
           /\ \A f, g, h \in Fingerprints :
                 <<f, g>> \in before /\ <<g, h>> \in before => <<f, h>> \in before
           /\ \A l \in CandidateLists : \A i, j \in DOMAIN l :
                 i < j => <<l[i], l[j]>> \in before
    BY CandidateOrder
  <1>5. \A c \in T : /\ Current(c) \in Fingerprints
                     /\ next[c] \in DOMAIN list[c] /\ list[c] \in CandidateLists
    <2> SUFFICES ASSUME NEW c \in T
                 PROVE  /\ Current(c) \in Fingerprints
                        /\ next[c] \in DOMAIN list[c] /\ list[c] \in CandidateLists
      OBVIOUS
    <2>1. /\ list[c] \in Seq(Fingerprints) /\ next[c] \in Nat \ {0}
          /\ next[c] <= Len(list[c])
      BY DEF WorkInv, IInv, TypeOK
    <2>2. Listed(c)
      BY DEF WorkInv, Working
    <2> QED
      BY <2>1, <2>2 DEF Current, Listed
  <1> DEFINE Before == {p \in T \X T : <<Current(p[1]), Current(p[2])>> \in before}
  <1>6. PICK c \in T : \A d \in T : <<c, d>> \notin Before
    <2>1. \A x \in T : <<x, x>> \notin Before
      BY <1>4, <1>5
    <2>2. \A x, y, z \in T : <<x, y>> \in Before /\ <<y, z>> \in Before => <<x, z>> \in Before
      BY <1>4, <1>5
    <2> HIDE DEF T, Before
    <2> QED
      BY <1>2, <1>3, <2>1, <2>2, FiniteHasLast
  <1>7. PICK d \in T : d \in WaitsFor(c)
    BY <1>1
  <1>8. PICK i \in Done(d) : list[d][i] = Current(c)
    BY <1>7, WaitsForDone
  <1>9. <<Current(c), Current(d)>> \in before
    BY <1>4, <1>5, <1>8 DEF Done, Current
  <1> QED
    BY <1>6, <1>9

LEMMA FewOpenStep == WorkInv /\ FewOpen /\ [Next]_vars => FewOpen'
  <1> SUFFICES ASSUME WorkInv, FewOpen, [Next]_vars PROVE FewOpen'
    OBVIOUS
  <1> DEFINE Opened == {c \in Calls : Open(c)}
  <1>1. CASE Next
    <2>1. PICK c \in Calls : Action(c)
      BY <1>1 DEF Next, Action
    <2>2. Apart(c)
      BY <2>1, Isolation DEF WorkInv, IInv
    <2>3. Opened' \subseteq Opened \cup {c}
      BY <2>2 DEF Apart, Open
    <2>4. IsFiniteSet(Opened \cup {c})
      BY FS_AddElement DEF FewOpen
    <2> HIDE DEF Opened
    <2>5. IsFiniteSet(Opened')
      BY <2>3, <2>4, FS_Subset
    <2> QED
      BY <2>5 DEF FewOpen, Opened
  <1>2. CASE UNCHANGED vars
    BY <1>2 DEF vars, FewOpen, Open
  <1> QED
    BY <1>1, <1>2

(* No calls ever wait for each other in a circle, however many there are   *)
(* and whatever conditions and state changes they have in hand.            *)
THEOREM NoDeadlock == Spec => []NoCircularWait
  <1>1. Init => FewOpen
    <2> SUFFICES ASSUME Init PROVE FewOpen
      OBVIOUS
    <2>1. {c \in Calls : Open(c)} = {}
      BY DEF Init, Open
    <2> QED
      BY <2>1, FS_EmptySet DEF FewOpen
  <1>2. Init => WorkInv
    BY WorkInvInit
  <1>3. WorkInv /\ FewOpen /\ [Next]_vars => (WorkInv /\ FewOpen)'
    BY WorkInvStep, FewOpenStep
  <1>4. WorkInv /\ FewOpen => NoCircularWait
    BY NoCircle
  <1> QED
    BY <1>1, <1>2, <1>3, <1>4, PTL DEF Spec

-----------------------------------------------------------------------------
(* One call at a time                                                      *)
(*                                                                         *)
(* The moves the documents list, and an active alert for every condition,  *)
(* are promises for calls that do not overlap; the run that refutes        *)
(* TerminalStatesStay shows what overlapping ones do.  What a call has     *)
(* read is then still so when it commits.                                  *)

Alone == \A c, d \in Calls : Open(c) /\ Open(d) => c = d

ClosedWhenOver(row) == row.closed = (row.state \in Terminal)

UpToDate(c) ==
    /\ pc[c] \in {"updating", "replying"} =>
          from[c] = alerts[alert[c]].state /\ goal[c] \in ValidTransitions(from[c])
    /\ pc[c] = "replying" => ClosedWhenOver(pend[c][alert[c]])
    /\ pc[c] \in {"persisting", "creating", "refreshing"} =>
          \A a \in linked[c] : IsActive(Seen(c, a))
    /\ pc[c] = "refreshing" => IsActive(Seen(c, alert[c]))

SerialInv ==
    /\ WorkInv
    /\ FewOpen
    /\ Alone
    /\ \A a \in Alerts : ClosedWhenOver(alerts[a])
    /\ \A c \in Calls : UpToDate(c)

(* A call that takes a step is the one in progress. *)
LEMMA Solo ==
  ASSUME MaxOpen = 1, FewOpen, Alone, TypeOK, NEW c \in Calls, Action(c)
  PROVE  \A d \in Calls \ {c} : ~Open(d)
  <1>1. CASE MayStart
    <2> DEFINE Opened == {d \in Calls : Open(d)}
    <2>1. Cardinality(Opened) < 1 /\ IsFiniteSet(Opened)
      BY <1>1 DEF MayStart, FewOpen
    <2> HIDE DEF Opened
    <2>2. Cardinality(Opened) = 0
      BY <2>1, FS_CardinalityType
    <2>3. Opened = {}
      BY <2>1, <2>2, FS_EmptySet
    <2> QED
      BY <2>3 DEF Opened
  <1>2. CASE Open(c)
    BY <1>2 DEF Alone
  <1>3. MayStart \/ Open(c)
    BY DEF Action, Step, EvaluateAlerts, UpdateAlertState, EvaluateAlertCandidates,
       FindActiveAlert, CreateAlert, RefreshExistingAlert, EvaluationFailed,
       CommitEvaluation, TransitionAlertState, CommitTransition, Crash, Open
  <1> QED
    BY <1>1, <1>2, <1>3

(* The rows an evaluation commits: it changes those it created only. *)
LEMMA CommitsCreated ==
  ASSUME WorkInv, NEW c \in Calls, CommitEvaluation(c), NEW a \in Alerts
  PROVE  \/ alerts'[a] = alerts[a]
         \/ /\ ~Exists(alerts[a]) /\ alerts'[a].state = "open" /\ ~alerts'[a].closed
            /\ history'[a] = Append(history[a], [from |-> "none", to |-> "open"])
  <1>1. Untouched(c) /\ pc[c] # "replying" /\ alerts'[a] = Seen(c, a)
    BY DEF WorkInv, Working, CommitEvaluation
  <1>2. CASE Exists(pend[c][a]) /\ ~Exists(alerts[a])
    <2>1. history'[a] = Append(history[a], [from |-> "none", to |-> "open"])
      BY <1>2 DEF CommitEvaluation
    <2> QED
      BY <1>1, <1>2, <2>1 DEF Untouched, Seen
  <1>3. CASE ~(Exists(pend[c][a]) /\ ~Exists(alerts[a]))
    BY <1>1, <1>3 DEF Untouched, Seen
  <1> QED
    BY <1>2, <1>3

LEMMA CommitsPatched ==
  ASSUME WorkInv, NEW c \in Calls, CommitTransition(c), NEW a \in Alerts
  PROVE  \/ a # alert[c] /\ alerts'[a] = alerts[a]
         \/ /\ a = alert[c] /\ alerts'[a] = pend[c][a] /\ alerts'[a].state = goal[c]
            /\ history'[a] = Append(history[a], [from |-> from[c], to |-> goal[c]])
  <1>1. pc[c] = "replying" /\ pend[c][alert[c]].state = goal[c]
    BY DEF WorkInv, Working, Patched, CommitTransition
  <1> QED
    BY <1>1 DEF CommitTransition, WorkInv, IInv, TypeOK

LEMMA NotBusy ==
  ASSUME NEW c \in Calls, ~Open(c) PROVE UpToDate(c)
  BY DEF Open, UpToDate

LEMMA SerialInvStep ==
  ASSUME MaxOpen = 1, SerialInv, [Next]_vars
  PROVE  SerialInv'
  <1>1. WorkInv' /\ FewOpen'
    BY WorkInvStep, FewOpenStep DEF SerialInv
  <1>2. ASSUME NEW c \in Calls, Action(c)
        PROVE  /\ Alone'
               /\ \A a \in Alerts : ClosedWhenOver(alerts'[a])
               /\ \A d \in Calls : UpToDate(d)'
    <2>1. WorkInv /\ IInv /\ TypeOK /\ UpToDate(c) /\ Working(c)
      BY DEF SerialInv, WorkInv, IInv
    <2>2. Apart(c) /\ (UNCHANGED alerts \/ Publishes(c))
      BY <1>2, <2>1, Isolation DEF IInv
    <2>3. \A d \in Calls \ {c} : ~Open(d) /\ ~Open(d)'
      BY <1>2, <2>1, <2>2, Solo DEF SerialInv, Apart, Open
    <2>4. Alone'
      BY <2>3 DEF Alone
    <2>5. \A d \in Calls \ {c} : UpToDate(d)'
      BY <2>3 DEF Open, UpToDate
    <2>6. (\A a \in Alerts : ClosedWhenOver(alerts'[a])) /\ UpToDate(c)'
      <3>1. \A a \in Alerts : ClosedWhenOver(alerts[a])
        BY DEF SerialInv
      <3>2. CASE ~Open(c)' /\ UNCHANGED alerts
        BY <3>1, <3>2 DEF Open, UpToDate, ClosedWhenOver
      <3>3. CASE EvaluateAlerts(c)
        BY <2>1, <3>1, <3>3 DEF EvaluateAlerts, Goto, tables, TypeOK, UpToDate, ClosedWhenOver
      <3>4. ASSUME NEW a \in Alerts, NEW state \in States, UpdateAlertState(c, a, state)
            PROVE  (\A b \in Alerts : ClosedWhenOver(alerts'[b])) /\ UpToDate(c)'
        <4>1. /\ UNCHANGED alerts
              /\ \/ /\ pc'[c] = "updating" /\ alert'[c] = a
                    /\ from'[c] = alerts[a].state /\ goal'[c] = state
                    /\ state \in ValidTransitions(alerts[a].state)
                 \/ pc'[c] = "rejected"
          BY <2>1, <3>4 DEF UpdateAlertState, Goto, tables, TypeOK
        <4> QED
          BY <3>1, <4>1 DEF UpToDate, ClosedWhenOver, ValidTransitions
      <3>5. CASE EvaluateAlertCandidates(c)
        <4>1. /\ pc[c] = "evaluating" /\ pc'[c] \in {"persisting", "raising"}
              /\ UNCHANGED <<tables, linked>>
          BY <2>1, <3>5 DEF EvaluateAlertCandidates, RaiseError, Goto, TypeOK
        <4>2. linked[c] = {}
          BY <2>1, <4>1 DEF Working, Unstarted
        <4> QED
          BY <3>1, <4>1, <4>2 DEF UpToDate, ClosedWhenOver, tables
      <3>6. CASE FindActiveAlert(c)
        <4>1. /\ pc[c] = "persisting"
              /\ UNCHANGED <<tables, pend, linked>>
              /\ \/ pc'[c] = "creating"
                 \/ /\ pc'[c] = "refreshing"
                    /\ \E a \in Alerts : alert'[c] = a /\ IsActive(Seen(c, a))
          BY <2>1, <3>6 DEF FindActiveAlert, Goto, TypeOK
        <4>2. \A a \in Alerts : Seen(c, a)' = Seen(c, a)
          BY <4>1 DEF Seen, Exists, tables
        <4>3. linked[c] \subseteq Alerts
          BY <2>1 DEF TypeOK
        <4> QED
          BY <2>1, <3>1, <4>1, <4>2, <4>3 DEF UpToDate, ClosedWhenOver, tables, IsActive
      <3>7. CASE CreateAlert(c)
        <4>1. CASE RaiseError(c) /\ UNCHANGED <<pend, linked, next>>
          <5>1. pc'[c] = "raising" /\ UNCHANGED tables
            BY <2>1, <3>7, <4>1 DEF CreateAlert, RaiseError, Goto, TypeOK
          <5> QED
            BY <3>1, <5>1 DEF UpToDate, ClosedWhenOver, tables
        <4>2. CASE ~(RaiseError(c) /\ UNCHANGED <<pend, linked, next>>)
          <5> DEFINE v == [fp |-> list[c][next[c]], state |-> "open", closed |-> FALSE]
          <5>1. PICK a \in Alerts : /\ Unused(a)
                                    /\ pend' = [pend EXCEPT ![c][a] = v]
                                    /\ linked' = [linked EXCEPT ![c] = @ \cup {a}]
            BY <3>7, <4>2 DEF CreateAlert
          <5>2. pc[c] = "creating" /\ pc'[c] = "persisting" /\ UNCHANGED tables
            BY <2>1, <3>7, <4>2 DEF CreateAlert, Goto, TypeOK
          <5>3. Exists(v) /\ IsActive(v)
            BY DEF Exists, IsActive, Active
          <5> HIDE DEF v
          <5>4. /\ pend'[c][a] = v
                /\ \A b \in Alerts \ {a} : pend'[c][b] = pend[c][b]
                /\ linked'[c] = linked[c] \cup {a} /\ linked[c] \subseteq Alerts
            BY <2>1, <5>1 DEF TypeOK
          <5>5. Seen(c, a)' = v /\ \A b \in Alerts \ {a} : Seen(c, b)' = Seen(c, b)
            BY <5>2, <5>3, <5>4 DEF Seen, tables, Exists
          <5> QED
            BY <2>1, <3>1, <5>2, <5>3, <5>4, <5>5 DEF UpToDate, ClosedWhenOver, tables,
               IsActive
        <4> QED
          BY <4>1, <4>2
      <3>8. CASE RefreshExistingAlert(c)
        <4>1. PICK a \in Alerts : a = alert[c]
          BY <2>1, <3>8 DEF RefreshExistingAlert, TypeOK
        <4>2. /\ pc[c] = "refreshing" /\ pc'[c] = "persisting" /\ UNCHANGED tables
              /\ linked'[c] = linked[c] \cup {a} /\ linked[c] \subseteq Alerts
              /\ \A b \in Alerts \ {a} : pend'[c][b] = pend[c][b]
              /\ pend'[c][a] = pend[c][a] \/ pend'[c][a] = Seen(c, a)
          BY <2>1, <3>8, <4>1 DEF RefreshExistingAlert, Goto, TypeOK
        <4>3. \A b \in Alerts \ {a} : Seen(c, b)' = Seen(c, b)
          BY <4>2 DEF Seen, tables, Exists
        <4>4. IsActive(Seen(c, a))
          BY <2>1, <4>1, <4>2 DEF UpToDate
        <4>5. Seen(c, a)' = Seen(c, a)
          <5>1. Seen(c, a)' = IF Exists(pend'[c][a]) THEN pend'[c][a] ELSE alerts[a]
            BY <4>2 DEF Seen, tables, Exists
          <5> QED
            BY <4>2, <4>4, <5>1 DEF Seen, Exists, IsActive, Active
        <4> QED
          BY <2>1, <3>1, <4>2, <4>3, <4>4, <4>5 DEF UpToDate, ClosedWhenOver, tables, IsActive
      <3>9. CASE CommitEvaluation(c)
        <4>1. pc'[c] = "ok"
          BY <2>1, <3>9 DEF CommitEvaluation, Goto, TypeOK
        <4>2. ASSUME NEW a \in Alerts PROVE ClosedWhenOver(alerts'[a])
          <5>1. alerts'[a] \in Row
            BY <2>1, <3>9 DEF CommitEvaluation, Seen, TypeOK
          <5>2. CASE alerts'[a] = alerts[a]
            BY <3>1, <5>2
          <5>3. CASE alerts'[a].state = "open" /\ ~alerts'[a].closed
            <6>1. alerts'[a].closed = FALSE
              BY <5>1, <5>3 DEF Row
            <6>2. (alerts'[a].state \in Terminal) = FALSE
              BY <5>3 DEF Terminal
            <6> QED
              BY <6>1, <6>2 DEF ClosedWhenOver
          <5> QED
            BY <2>1, <3>9, <5>2, <5>3, CommitsCreated
        <4> QED
          BY <4>1, <4>2 DEF UpToDate
      <3>10. CASE TransitionAlertState(c) /\ ~Abort(c, "unavailable")
        <4> DEFINE row == [alerts[alert[c]] EXCEPT !.state = goal[c],
                                                   !.closed = @ \/ goal[c] \in Terminal]
        <4>1. /\ pc[c] = "updating" /\ pc'[c] = "replying"
              /\ pend' = [pend EXCEPT ![c][alert[c]] = row]
              /\ UNCHANGED <<tables, request, linked, run>>
          BY <2>1, <3>10 DEF TransitionAlertState, Goto, TypeOK
        <4>2. alert[c] \in Alerts /\ alerts[alert[c]] \in Row
          BY <2>1, <4>1 DEF TypeOK
        <4>3. /\ from[c] = alerts[alert[c]].state
              /\ goal[c] \in ValidTransitions(from[c])
          BY <2>1, <4>1 DEF UpToDate
        <4>4. alerts[alert[c]].state \in Active /\ ~alerts[alert[c]].closed
          BY <3>1, <4>2, <4>3 DEF ValidTransitions, Active, ClosedWhenOver, Terminal
        <4>5. ClosedWhenOver(row)
          BY <4>2, <4>4 DEF ClosedWhenOver, Row
        <4> HIDE DEF row
        <4>6. pend'[c][alert[c]] = row
          BY <2>1, <4>1, <4>2 DEF TypeOK
        <4> QED
          BY <3>1, <4>1, <4>3, <4>5, <4>6 DEF UpToDate, ClosedWhenOver, tables, request
      <3>11. CASE CommitTransition(c)
        <4>1. pc'[c] = "ok" /\ ClosedWhenOver(pend[c][alert[c]])
          BY <2>1, <3>11 DEF CommitTransition, Goto, TypeOK, UpToDate
        <4>2. \A a \in Alerts : ClosedWhenOver(alerts'[a])
          <5> SUFFICES ASSUME NEW a \in Alerts PROVE ClosedWhenOver(alerts'[a])
            OBVIOUS
          <5>1. alerts'[a] = alerts[a] \/ (a = alert[c] /\ alerts'[a] = pend[c][a])
            BY <2>1, <3>11, CommitsPatched
          <5> QED
            BY <3>1, <4>1, <5>1
        <4> QED
          BY <4>1, <4>2 DEF UpToDate
      <3>12. ASSUME NEW answer \in {"rejected", "unavailable", "crashed"}, Abort(c, answer)
             PROVE  ~Open(c)' /\ UNCHANGED alerts
        BY <2>1, <3>12 DEF Abort, Goto, tables, Open, TypeOK
      <3> QED
        BY <1>2, <3>2, <3>3, <3>4, <3>5, <3>6, <3>7, <3>8, <3>9, <3>10, <3>11, <3>12
           DEF Action, Step, EvaluationFailed, Crash
    <2> QED
      BY <2>4, <2>5, <2>6
  <1>3. CASE UNCHANGED vars
    <2>1. \A c \in Calls, a \in Alerts : Seen(c, a)' = Seen(c, a)
      BY <1>3 DEF vars, Seen, Exists
    <2>2. \A c \in Calls : /\ linked[c] \subseteq Alerts
                           /\ pc[c] = "refreshing" => alert[c] \in Alerts
      BY DEF SerialInv, WorkInv, IInv, TypeOK
    <2>3. ASSUME NEW c \in Calls PROVE UpToDate(c)'
      <3>1. UpToDate(c)
        BY DEF SerialInv
      <3>2. pc[c] = "refreshing" => Seen(c, alert[c])' = Seen(c, alert[c])
        BY <1>3, <2>1, <2>2 DEF vars, Seen
      <3> QED
        BY <1>3, <2>1, <2>2, <3>1, <3>2 DEF vars, UpToDate, ClosedWhenOver, IsActive
    <2> QED
      BY <1>1, <1>3, <2>3 DEF vars, SerialInv, Alone, Open, ClosedWhenOver
  <1>4. CASE Next
    <2>1. PICK c \in Calls : Action(c)
      BY <1>4 DEF Next, Action
    <2> QED
      BY <1>1, <1>2, <2>1 DEF SerialInv, ClosedWhenOver
  <1> QED
    BY <1>3, <1>4

LEMMA SerialInvInit == Init => SerialInv
  <1> SUFFICES ASSUME Init PROVE SerialInv
    OBVIOUS
  <1>1. {c \in Calls : Open(c)} = {}
    BY DEF Init, Open
  <1>2. FewOpen
    BY <1>1, FS_EmptySet DEF FewOpen
  <1>3. Alone
    BY <1>1 DEF Alone
  <1>4. \A a \in Alerts : ClosedWhenOver(alerts[a])
    <2>1. NoRow.closed = FALSE /\ NoRow.state \notin Terminal
      BY DEF NoRow, Terminal
    <2>2. (NoRow.state \in Terminal) = FALSE
      BY <2>1
    <2>3. ClosedWhenOver(NoRow)
      BY <2>1, <2>2 DEF ClosedWhenOver
    <2> QED
      BY <2>3 DEF Init
  <1>5. \A c \in Calls : UpToDate(c)
    BY DEF Init, UpToDate
  <1> QED
    BY <1>2, <1>3, <1>4, <1>5, WorkInvInit DEF SerialInv

(* With one call at a time an alert only makes the documented moves, each  *)
(* recorded with the state it started from, and resolved_at is set exactly *)
(* on alerts that are over.                                                *)
THEOREM LifecycleHolds == ASSUME MaxOpen = 1 PROVE Spec => LifecycleObeyed
  <1> DEFINE Move(a) ==
        alerts'[a] # alerts[a] =>
          LET old == alerts[a].state
              new == alerts'[a].state
          IN  /\ <<old, new>> \in DocumentedMoves
              /\ history'[a] = Append(history[a], [from |-> old, to |-> new])
              /\ alerts'[a].closed = (new \in Terminal)
  <1>1. SerialInv /\ [Next]_vars => [\A a \in Alerts : Move(a)]_alerts
    <2> SUFFICES ASSUME SerialInv, [Next]_vars, ~UNCHANGED alerts, NEW a \in Alerts,
                        alerts'[a] # alerts[a]
                 PROVE  Move(a)
      OBVIOUS
    <2>1. PICK c \in Calls : Action(c)
      BY DEF Next, Action, vars
    <2>2. WorkInv /\ TypeOK /\ SerialInv'
      BY SerialInvStep DEF SerialInv, WorkInv, IInv
    <2>3. alerts'[a].closed = (alerts'[a].state \in Terminal)
      BY <2>2 DEF SerialInv, ClosedWhenOver
    <2>4. CommitEvaluation(c) \/ CommitTransition(c)
      BY <2>1 DEF Action, Step, EvaluateAlerts, UpdateAlertState, EvaluateAlertCandidates,
         FindActiveAlert, CreateAlert, RefreshExistingAlert, EvaluationFailed, Crash,
         TransitionAlertState, Abort, tables
    <2>5. CASE CommitEvaluation(c)
      <3>1. /\ alerts[a].state = "none" /\ alerts'[a].state = "open"
            /\ history'[a] = Append(history[a], [from |-> "none", to |-> "open"])
        BY <2>2, <2>5, CommitsCreated DEF Exists
      <3> QED
        BY <2>3, <3>1 DEF DocumentedMoves
    <2>6. CASE CommitTransition(c)
      <3>1. /\ a = alert[c] /\ alerts'[a].state = goal[c]
            /\ history'[a] = Append(history[a], [from |-> from[c], to |-> goal[c]])
        BY <2>2, <2>6, CommitsPatched
      <3>2. from[c] = alerts[a].state /\ goal[c] \in ValidTransitions(from[c])
        BY <2>6, <3>1 DEF CommitTransition, SerialInv, UpToDate
      <3>3. <<from[c], goal[c]>> \in DocumentedMoves
        BY <3>2 DEF DocumentedMoves, ValidTransitions, States, Active, Terminal
      <3> QED
        BY <2>3, <3>1, <3>2, <3>3
    <2> QED
      BY <2>4, <2>5, <2>6
  <1>2. SerialInv /\ [Next]_vars => SerialInv'
    BY SerialInvStep
  <1> QED
    BY <1>1, <1>2, SerialInvInit, PTL DEF Spec, LifecycleObeyed

(* With one call at a time every candidate of an evaluation has an active  *)
(* alert when the evaluation commits.                                      *)
THEOREM ConditionsHaveAlerts == ASSUME MaxOpen = 1 PROVE Spec => EvaluatedConditionsActive
  <1> DEFINE Raised(c) ==
        runs[c] # "succeeded" /\ runs'[c] = "succeeded" =>
          \A i \in DOMAIN list[c] :
              \E a \in Alerts : IsActive(alerts'[a]) /\ alerts'[a].fp = list[c][i]
  <1>1. SerialInv /\ [Next]_vars => [\A c \in Calls : Raised(c)]_<<alerts, runs>>
    <2> SUFFICES ASSUME SerialInv, [Next]_vars, NEW c \in Calls,
                        runs[c] # "succeeded", runs'[c] = "succeeded",
                        NEW i \in DOMAIN list[c]
                 PROVE  \E a \in Alerts : IsActive(alerts'[a]) /\ alerts'[a].fp = list[c][i]
      OBVIOUS
    <2>1. PICK d \in Calls : Action(d)
      BY DEF Next, Action, vars
    <2>2. WorkInv /\ TypeOK
      BY DEF SerialInv, WorkInv, IInv
    <2>3. CommitEvaluation(d)
      BY <2>1 DEF Action, Step, EvaluateAlerts, UpdateAlertState, EvaluateAlertCandidates,
         FindActiveAlert, CreateAlert, RefreshExistingAlert, EvaluationFailed, Crash,
         TransitionAlertState, CommitTransition, Abort, tables
    <2>4. c = d
      BY <2>2, <2>3 DEF CommitEvaluation, TypeOK
    <2>5. Covered(c) /\ (\A a \in linked[c] : IsActive(Seen(c, a))) /\ linked[c] \subseteq Alerts
      BY <2>2, <2>3, <2>4 DEF CommitEvaluation, WorkInv, Working, Linked, SerialInv, UpToDate, TypeOK
    <2>6. i \in Done(c)
      BY <2>2, <2>3, <2>4 DEF CommitEvaluation, Done, TypeOK
    <2>7. \A a \in Alerts : alerts'[a] = Seen(c, a)
      BY <2>3, <2>4 DEF CommitEvaluation
    <2> QED
      BY <2>5, <2>6, <2>7 DEF Covered
  <1>2. SerialInv /\ [Next]_vars => SerialInv'
    BY SerialInvStep
  <1> QED
    BY <1>1, <1>2, SerialInvInit, PTL DEF Spec, EvaluatedConditionsActive
=============================================================================
