------------------------------- MODULE Alerts -------------------------------
(***************************************************************************)
(* Alerts: the evaluation engine (gridops.decision.alert_engine), the      *)
(* lifecycle (gridops.decision.alert_lifecycle) and the API handlers and   *)
(* command that call them, over the tables alerts, alert_evidence,         *)
(* alert_lifecycle_history and alert_evaluation_runs.                      *)
(*                                                                         *)
(* A call is one POST /alerts/evaluate (or evaluate-alerts command) or one *)
(* PATCH /alerts/{id}/state.  Each is one transaction of session_scope;    *)
(* calls run concurrently under PostgreSQL's READ COMMITTED.  There is no  *)
(* version column and no SELECT ... FOR UPDATE.                            *)
(***************************************************************************)
EXTENDS Integers, Sequences, FiniteSets

CONSTANTS
    Calls,           \* API requests and command invocations
    Alerts,          \* identities of alert rows
    Fingerprints,    \* fingerprints of alert conditions
    NoFingerprint,   \* the fingerprint of a row that does not exist
    NoAlert,         \* no alert found
    CandidateLists,  \* what the rules may find, in the order they list it
    MaxOpen,         \* bound: calls in progress at one time
    Faults           \* which of "crash" the environment may inject

(* The rules list no fingerprint twice in one evaluation. *)
ASSUME AlertsAssumption ==
    /\ NoFingerprint \notin Fingerprints
    /\ NoAlert \notin Alerts
    /\ CandidateLists \in SUBSET Seq(Fingerprints)
    /\ \A list \in CandidateLists : \A i, j \in DOMAIN list :
          list[i] = list[j] => i = j
    /\ MaxOpen \in Nat
    /\ Faults \subseteq {"crash"}

(* They list what they find in one order, whatever they find: rule by      *)
(* rule, the hours of a rule in their order, the datasets in theirs.       *)
ASSUME CandidateOrder ==
    \E before \in SUBSET (Fingerprints \X Fingerprints) :
        /\ \A f \in Fingerprints : <<f, f>> \notin before
        /\ \A f, g, h \in Fingerprints :
              <<f, g>> \in before /\ <<g, h>> \in before => <<f, h>> \in before
        /\ \A list \in CandidateLists : \A i, j \in DOMAIN list :
              i < j => <<list[i], list[j]>> \in before

VARIABLES
    alerts,    \* committed alerts rows
    history,   \* committed alert_lifecycle_history of an alert, by id
    evidence,  \* committed alert_evidence: <<alert, evaluating call>>
    runs,      \* committed alert_evaluation_runs.status of a call
    pc,        \* where a call is
    list,      \* the candidates of an evaluation
    next,      \* index of the candidate an evaluation is at
    alert,     \* the alert object a call has loaded
    from,      \* the state that object was loaded with
    goal,      \* the state a PATCH asks for
    pend,      \* alerts rows written by a call's open transaction
    linked,    \* alerts the call's open transaction inserted evidence for
    run        \* the status of the call's evaluation run in its session

vars == <<alerts, history, evidence, runs, pc, list, next, alert, from, goal,
          pend, linked, run>>
tables == <<alerts, history, evidence, runs>>
request == <<list, next, alert, from, goal>>

-----------------------------------------------------------------------------
(* Types *)

Active == {"open", "acknowledged"}
Terminal == {"resolved", "suppressed", "expired"}
States == Active \cup Terminal

(* VALID_TRANSITIONS *)
ValidTransitions(state) ==
    CASE state = "open" -> States \ {"open"}
      [] state = "acknowledged" -> Terminal
      [] OTHER -> {}

(* closed: resolved_at_utc is set.  Severity, texts and evidence follow    *)
(* from the fingerprint and the evaluation.                                *)
Row == [fp : Fingerprints \cup {NoFingerprint},
        state : States \cup {"none"},
        closed : BOOLEAN]
NoRow == [fp |-> NoFingerprint, state |-> "none", closed |-> FALSE]

RunStatuses == {"absent", "running", "succeeded", "failed"}

Stages == {"idle", "evaluating", "persisting", "creating", "refreshing",
           "raising", "updating", "replying",
           "ok", "rejected", "unavailable", "crashed"}

Entry == [from : States \cup {"none"}, to : States]

TypeOK ==
    /\ alerts \in [Alerts -> Row]
    /\ history \in [Alerts -> Seq(Entry)]
    /\ evidence \in SUBSET (Alerts \X Calls)
    /\ runs \in [Calls -> RunStatuses]
    /\ pc \in [Calls -> Stages]
    /\ list \in [Calls -> Seq(Fingerprints)]
    /\ next \in [Calls -> Nat \ {0}]
    /\ alert \in [Calls -> Alerts \cup {NoAlert}]
    /\ from \in [Calls -> States \cup {"none"}]
    /\ goal \in [Calls -> States \cup {"none"}]
    /\ pend \in [Calls -> [Alerts -> Row]]
    /\ linked \in [Calls -> SUBSET Alerts]
    /\ run \in [Calls -> RunStatuses]
    /\ \A c \in Calls : pc[c] \in {"creating", "refreshing"} => next[c] <= Len(list[c])
    /\ \A c \in Calls :
          pc[c] \in {"refreshing", "updating", "replying"} => alert[c] \in Alerts
    /\ \A c \in Calls : pc[c] \in {"updating", "replying"} => goal[c] \in States

Init ==
    /\ alerts = [a \in Alerts |-> NoRow]
    /\ history = [a \in Alerts |-> <<>>]
    /\ evidence = {}
    /\ runs = [c \in Calls |-> "absent"]
    /\ pc = [c \in Calls |-> "idle"]
    /\ list = [c \in Calls |-> <<>>]
    /\ next = [c \in Calls |-> 1]
    /\ alert = [c \in Calls |-> NoAlert]
    /\ from = [c \in Calls |-> "none"]
    /\ goal = [c \in Calls |-> "none"]
    /\ pend = [c \in Calls |-> [a \in Alerts |-> NoRow]]
    /\ linked = [c \in Calls |-> {}]
    /\ run = [c \in Calls |-> "absent"]

-----------------------------------------------------------------------------
(* PostgreSQL: row locks and the partial unique index on fingerprint *)

Exists(row) == row.state # "none"
IsActive(row) == row.state \in Active

Locked(c, a) == \E d \in Calls \ {c} : Exists(pend[d][a])

(* The table as c's statements see it. *)
Seen(c, a) == IF Exists(pend[c][a]) THEN pend[c][a] ELSE alerts[a]

Twins(a, fp) == {b \in Alerts \ {a} : fp \in {alerts[b].fp} \cup {pend[d][b].fp : d \in Calls}}

(* Fault: there is no partial unique index. *)
IndexClashUnindexed(c, a, fp) == FALSE

(* Row a, active with fingerprint fp, meets another active row ...         *)
IndexClash(c, a, fp) ==
    \E b \in Twins(a, fp) : IsActive(Seen(c, b)) /\ ~Locked(c, b)

(* ... or one another open transaction makes active, or no longer active.  *)
IndexBusyWith(c, a, fp) ==
    {d \in Calls \ {c} : \E b \in Twins(a, fp) :
        Exists(pend[d][b]) /\ (IsActive(pend[d][b]) \/ IsActive(alerts[b]))}

IndexBusy(c, a, fp) == IndexBusyWith(c, a, fp) # {}

Unused(a) == ~Exists(alerts[a]) /\ \A c \in Calls : ~Exists(pend[c][a])

-----------------------------------------------------------------------------
(* session_scope *)

Goto(c, stage) == pc' = [pc EXCEPT ![c] = stage]

Rollback(c) ==
    /\ pend' = [pend EXCEPT ![c] = [a \in Alerts |-> NoRow]]
    /\ linked' = [linked EXCEPT ![c] = {}]
    /\ run' = [run EXCEPT ![c] = "absent"]

(* Rollback and re-raise; the handler answers 400 or 503. *)
Abort(c, answer) ==
    /\ Goto(c, answer)
    /\ Rollback(c)
    /\ UNCHANGED <<tables, request>>

Open(c) == pc[c] \notin {"idle", "ok", "rejected", "unavailable", "crashed"}

MayStart == Cardinality({c \in Calls : Open(c)}) < MaxOpen

-----------------------------------------------------------------------------
(* evaluate_and_persist_alerts *)

(* The evaluation run is inserted as running, unless its forecast run does *)
(* not exist: the foreign key fails, outside the try block.                *)
EvaluateAlerts(c) ==
    /\ pc[c] = "idle"
    /\ MayStart
    /\ \/ /\ run' = [run EXCEPT ![c] = "running"]
          /\ Goto(c, "evaluating")
       \/ /\ Goto(c, "unavailable")
          /\ UNCHANGED run
    /\ UNCHANGED <<tables, request, pend, linked>>

(* Fault: a status the table's check constraint does not list. *)
RaiseErrorUnlisted(c) == Goto(c, "raising") /\ run' = [run EXCEPT ![c] = "error"]

(* The except branch marks the run failed in the session. *)
RaiseError(c) == Goto(c, "raising") /\ run' = [run EXCEPT ![c] = "failed"]

(* Fault: the candidates come in no fixed order. *)
EvaluateAlertCandidatesInAnyOrder(c) ==
    /\ pc[c] = "evaluating"
    /\ \E found \in CandidateLists :
          LET reversed == [i \in DOMAIN found |-> found[Len(found) + 1 - i]]
          IN  \E order \in {found, reversed} : list' = [list EXCEPT ![c] = order]
    /\ Goto(c, "persisting")
    /\ UNCHANGED <<tables, next, alert, from, goal, pend, linked, run>>

(* evaluate_alert_candidates: the predictions of a forecast run never      *)
(* change, the source health behind some candidates does.  A forecast run  *)
(* that did not succeed is a ValueError.                                   *)
EvaluateAlertCandidates(c) ==
    /\ pc[c] = "evaluating"
    /\ \/ /\ \E found \in CandidateLists : list' = [list EXCEPT ![c] = found]
          /\ Goto(c, "persisting")
          /\ UNCHANGED run
       \/ /\ RaiseError(c)
          /\ UNCHANGED list
    /\ UNCHANGED <<tables, next, alert, from, goal, pend, linked>>

(* Fault: a condition that has an active alert already is skipped. *)
FindActiveAlertOrSkip(c) ==
    /\ pc[c] = "persisting"
    /\ next[c] <= Len(list[c])
    /\ IF \E a \in Alerts : IsActive(Seen(c, a)) /\ Seen(c, a).fp = list[c][next[c]]
       THEN next' = [next EXCEPT ![c] = @ + 1] /\ UNCHANGED pc
       ELSE Goto(c, "creating") /\ UNCHANGED next
    /\ UNCHANGED <<tables, list, alert, from, goal, pend, linked, run>>

(* _active_alert_by_fingerprint *)
FindActiveAlert(c) ==
    /\ pc[c] = "persisting"
    /\ next[c] <= Len(list[c])
    /\ LET found == {a \in Alerts : /\ IsActive(Seen(c, a))
                                    /\ Seen(c, a).fp = list[c][next[c]]}
       IN  \/ /\ found = {}
              /\ Goto(c, "creating")
              /\ UNCHANGED alert
           \/ /\ \E a \in found : alert' = [alert EXCEPT ![c] = a]
              /\ Goto(c, "refreshing")
    /\ UNCHANGED <<tables, list, next, from, goal, pend, linked, run>>

(* _create_alert, record_initial_state and _persist_evidence: the INSERT   *)
(* of the alert may wait or fail, the rows that reference it cannot.       *)
CreateAlert(c) ==
    LET fp == list[c][next[c]]
    IN  /\ pc[c] = "creating"
        /\ \E a \in Alerts :
              /\ Unused(a)
              /\ \/ /\ IndexClash(c, a, fp)
                    /\ RaiseError(c)
                    /\ UNCHANGED <<pend, linked, next>>
                 \/ /\ ~IndexClash(c, a, fp)
                    /\ ~IndexBusy(c, a, fp)
                    /\ pend' = [pend EXCEPT ![c][a] =
                          [fp |-> fp, state |-> "open", closed |-> FALSE]]
                    /\ linked' = [linked EXCEPT ![c] = @ \cup {a}]
                    /\ next' = [next EXCEPT ![c] = @ + 1]
                    /\ Goto(c, "persisting")
                    /\ UNCHANGED run
        /\ UNCHANGED <<tables, list, alert, from, goal>>

(* Fault: the refresh writes back every column, the state it read included. *)
RefreshExistingAlertWhole(c) ==
    LET a == alert[c]
    IN  /\ pc[c] = "refreshing"
        /\ ~Locked(c, a)
        /\ pend' = [pend EXCEPT ![c][a] = [Seen(c, a) EXCEPT !.state = "open"]]
        /\ linked' = [linked EXCEPT ![c] = @ \cup {a}]
        /\ next' = [next EXCEPT ![c] = @ + 1]
        /\ Goto(c, "persisting")
        /\ UNCHANGED <<tables, list, alert, from, goal, run>>

(* _refresh_existing_alert and _persist_evidence: the UPDATE waits for the *)
(* row lock, then writes the latest version of the row, whose state is not *)
(* among the columns it sets.  With the same clock and the same evidence   *)
(* no column changes and there is no UPDATE.                               *)
RefreshExistingAlert(c) ==
    LET a == alert[c]
    IN  /\ pc[c] = "refreshing"
        /\ \/ /\ ~Locked(c, a)
              /\ pend' = [pend EXCEPT ![c][a] = Seen(c, a)]
           \/ UNCHANGED pend
        /\ linked' = [linked EXCEPT ![c] = @ \cup {a}]
        /\ next' = [next EXCEPT ![c] = @ + 1]
        /\ Goto(c, "persisting")
        /\ UNCHANGED <<tables, list, alert, from, goal, run>>

(* The exception leaves session_scope: 400 for an unusable forecast run    *)
(* (a ValueError), 503 otherwise.                                          *)
EvaluationFailed(c) ==
    /\ pc[c] = "raising"
    /\ Abort(c, IF list[c] = <<>> THEN "rejected" ELSE "unavailable")

(* The run is marked succeeded; session_scope commits. *)
CommitEvaluation(c) ==
    LET created == {a \in Alerts : Exists(pend[c][a]) /\ ~Exists(alerts[a])}
    IN  /\ pc[c] = "persisting"
        /\ next[c] > Len(list[c])
        /\ alerts' = [a \in Alerts |-> Seen(c, a)]
        /\ history' = [a \in Alerts |->
              IF a \in created
              THEN Append(history[a], [from |-> "none", to |-> "open"])
              ELSE history[a]]
        /\ evidence' = evidence \cup (linked[c] \X {c})
        /\ runs' = [runs EXCEPT ![c] = "succeeded"]
        /\ Goto(c, "ok")
        /\ Rollback(c)
        /\ UNCHANGED request

-----------------------------------------------------------------------------
(* update_alert_state: PATCH /alerts/{alert_id}/state *)

(* The alert is loaded and transition_alert_state validates the state it   *)
(* was loaded with.                                                        *)
UpdateAlertState(c, a, state) ==
    /\ pc[c] = "idle"
    /\ MayStart
    /\ \/ /\ state \in ValidTransitions(alerts[a].state)
          /\ alert' = [alert EXCEPT ![c] = a]
          /\ from' = [from EXCEPT ![c] = alerts[a].state]
          /\ goal' = [goal EXCEPT ![c] = state]
          /\ Goto(c, "updating")
       \/ /\ state \notin ValidTransitions(alerts[a].state)
          /\ Goto(c, "rejected")
          /\ UNCHANGED <<alert, from, goal>>
    /\ UNCHANGED <<tables, list, next, pend, linked, run>>

(* Its UPDATE sets state, and resolved_at_utc when the new state is        *)
(* terminal, on the latest version of the row.                             *)
TransitionAlertState(c) ==
    LET a == alert[c]
        row == [alerts[a] EXCEPT !.state = goal[c],
                                 !.closed = @ \/ goal[c] \in Terminal]
        checked == IsActive(row)
    IN  /\ pc[c] = "updating"
        /\ ~Locked(c, a)
        /\ \/ /\ checked
              /\ IndexClash(c, a, row.fp)
              /\ Abort(c, "unavailable")
           \/ /\ checked => ~IndexClash(c, a, row.fp) /\ ~IndexBusy(c, a, row.fp)
              /\ pend' = [pend EXCEPT ![c][a] = row]
              /\ Goto(c, "replying")
              /\ UNCHANGED <<tables, request, linked, run>>

(* The history row goes with it; session_scope commits. *)
CommitTransition(c) ==
    LET a == alert[c]
    IN  /\ pc[c] = "replying"
        /\ alerts' = [alerts EXCEPT ![a] = pend[c][a]]
        /\ history' = [history EXCEPT ![a] =
              Append(@, [from |-> from[c], to |-> goal[c]])]
        /\ Goto(c, "ok")
        /\ Rollback(c)
        /\ UNCHANGED <<evidence, runs, request>>

(* The server process dies, or loses its connection. *)
Crash(c) ==
    /\ "crash" \in Faults
    /\ Open(c)
    /\ Abort(c, "crashed")

Step(c) ==
    \/ EvaluateAlertCandidates(c)
    \/ FindActiveAlert(c)
    \/ CreateAlert(c)
    \/ RefreshExistingAlert(c)
    \/ EvaluationFailed(c)
    \/ CommitEvaluation(c)
    \/ TransitionAlertState(c)
    \/ CommitTransition(c)

Next ==
    \E c \in Calls :
        \/ EvaluateAlerts(c)
        \/ \E a \in Alerts, state \in States : UpdateAlertState(c, a, state)
        \/ Step(c)
        \/ Crash(c)

Spec == Init /\ [][Next]_vars

-----------------------------------------------------------------------------
(* Correctness *)

(* A condition never has two active alerts, whatever evaluations and state *)
(* changes race on it (ALERT_RULES.md, "Duplicate Prevention").            *)
OneActiveAlert ==
    \A a, b \in Alerts :
        IsActive(alerts[a]) /\ IsActive(alerts[b]) /\ alerts[a].fp = alerts[b].fp
            => a = b

(* The lifecycle history of an alert starts with its creation and ends in  *)
(* the state the alert has: no state change goes unrecorded, and none is   *)
(* recorded that a concurrent writer's row version undid.                  *)
HistoryEndsInState ==
    \A a \in Alerts :
        IF Exists(alerts[a])
        THEN /\ history[a] # <<>>
             /\ history[a][1] = [from |-> "none", to |-> "open"]
             /\ history[a][Len(history[a])].to = alerts[a].state
        ELSE history[a] = <<>>

(* A succeeded evaluation left one evidence row per candidate, on an alert *)
(* of that candidate's fingerprint, whether it created the alert, reused   *)
(* it or met it being changed by others.                                   *)
EvidenceForEveryCandidate ==
    \A c \in Calls : runs[c] = "succeeded" =>
        \A i \in DOMAIN list[c] :
            Cardinality({a \in Alerts : /\ <<a, c>> \in evidence
                                        /\ alerts[a].fp = list[c][i]}) = 1

(* The moves ALERT_RULES.md lists under "Lifecycle States". *)
DocumentedMoves ==
    {<<"none", "open">>, <<"open", "acknowledged">>}
    \cup (Active \X Terminal)

(* With one call at a time an alert only makes documented moves, the move  *)
(* is recorded with the state it started from, and resolved_at is set      *)
(* exactly on alerts that are over.                                        *)
LifecycleObeyed ==
    [][\A a \in Alerts : alerts'[a] # alerts[a] =>
          LET old == alerts[a].state
              new == alerts'[a].state
          IN  /\ <<old, new>> \in DocumentedMoves
              /\ history'[a] = Append(history[a], [from |-> old, to |-> new])
              /\ alerts'[a].closed = (new \in Terminal)
      ]_alerts

(* With one call at a time, every candidate of an evaluation has an active *)
(* alert when the evaluation commits.                                      *)
EvaluatedConditionsActive ==
    [][\A c \in Calls : runs[c] # "succeeded" /\ runs'[c] = "succeeded" =>
          \A i \in DOMAIN list[c] :
              \E a \in Alerts : IsActive(alerts'[a]) /\ alerts'[a].fp = list[c][i]
      ]_<<alerts, runs>>

(* The calls that c's next statement waits for, when it does send one. *)
WaitsFor(c) ==
    LET busy(a, fp) == IF IndexClash(c, a, fp) THEN {} ELSE IndexBusyWith(c, a, fp)
        row == alerts[alert[c]]
    IN  CASE pc[c] = "creating" ->
               UNION {busy(a, list[c][next[c]]) : a \in {a \in Alerts : Unused(a)}}
          [] pc[c] \in {"refreshing", "updating"} ->
               {d \in Calls \ {c} : Exists(pend[d][alert[c]])}
               \cup (IF pc[c] = "updating" /\ goal[c] \in Active
                     THEN busy(alert[c], row.fp) ELSE {})
          [] OTHER -> {}

(* No calls wait for each other in a circle, although each holds row locks *)
(* and index entries up to its commit: nothing in the code retries a call  *)
(* that PostgreSQL would have to abort.                                    *)
NoCircularWait ==
    \A S \in (SUBSET Calls) \ {{}} : \E c \in S : WaitsFor(c) \cap S = {}

-----------------------------------------------------------------------------
(* What the documents say and the code does not do *)

(* ALERT_RULES.md, "Lifecycle States": "Resolved, suppressed, and expired  *)
(* alerts are terminal in this chunk."  Two PATCH requests that both load  *)
(* the open alert are both valid; the second overwrites the first.         *)
TerminalStatesStay ==
    [][\A a \in Alerts : alerts[a].state \in Terminal =>
          alerts'[a].state = alerts[a].state]_alerts
=============================================================================
