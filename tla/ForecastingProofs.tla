------------------------- MODULE ForecastingProofs -------------------------
(***************************************************************************)
(* Theorems about Forecasting for any number of commands, any plan, and    *)
(* any issue times, versions, files, models and datasets.                  *)
(*                                                                         *)
(* The properties are about committed rows; what makes them hold is in the *)
(* sessions of the commands in progress.  The inductive invariant says,    *)
(* stage by stage, what a session holds, which committed rows it refers    *)
(* to, what is in its file and which answers of the gate it has noticed    *)
(* (HeldBy), and that no two sessions or tables hold the same row (Apart). *)
(***************************************************************************)
EXTENDS Forecasting, WellFoundedInduction, TLAPS

(* Only a command in progress has a session, and only a finished one rows. *)
RestingBy(c) == ~Open(c) => session[c] = NoSession

Uncommitted ==
    \A c \in Commands : pc[c] # "done" =>
        /\ issues[c] = NoIssue
        /\ snaps[c] = NoSnap
        /\ trainings[c] = NoTraining
        /\ forecasts[c] = NoForecast
        /\ summaries[c] = NoSummary

(* A snapshot's id comes from the sequence. *)
IdsBelow == \A c \in Commands : snaps[c].id =< lastId

(* Where a command is before it has a snapshot. *)
Building == {"seeking", "issuing", "gating", "snapping"}

(* The issue row in a session, its own or a committed one. *)
IssueHeldBy(c) ==
    LET s == session[c]
    IN  /\ pc[c] \in {"seeking", "issuing", "finding", "reusing"} => s.issue.issue \in Issues
        /\ s.owner # 0 =>
              /\ pc[c] \in {"gating", "snapping", "loading", "committing"}
              /\ s.issue.issue \in Issues
              /\ s.issue.status # "absent"
        /\ pc[c] \in {"gating", "snapping"} => s.owner # 0
        /\ s.owner \notin {0, c} =>
              /\ issues[s.owner].status # "absent"
              /\ SameIssue(s.issue, issues[s.owner])

(* A snapshot settles the issue it belongs to. *)
Settles(snap, owner, issue) ==
    /\ snap.owner = owner
    /\ SameIssue(snap, issue)
    /\ \/ issue.status = "ready" /\ snap.status = "succeeded"
       \/ issue.status = "blocked" /\ snap.status = "blocked"

SnapHeldBy(c) ==
    LET s == session[c]
    IN  /\ s.snap.status # "absent" => s.owner # 0 /\ pc[c] \in {"loading", "committing"}
        /\ s.snap.status = "absent" => s.snap.owner = 0
        /\ s.owner # 0 /\ pc[c] \in {"loading", "committing"} =>
              Settles(s.snap, s.owner, s.issue)
        /\ s.snap.id =< lastId

Writing == {"truncating", "dumping", "hashing", "storing"}
Training == {"fitting"} \cup Writing

TrainingHeldBy(c) ==
    LET t == session[c].training
    IN  /\ pc[c] \in Training => t.file \in Files
        /\ pc[c] \in Writing => t.fit \in Fits
        /\ t.hash # Null => t.file \in Files /\ pc[c] \in {"storing", "committing"}
        /\ pc[c] = "storing" => t.hash # Null
        /\ \A d \in t.rows : snaps[d].status = "succeeded"

ForecastHeldBy(c) ==
    LET s == session[c]
        f == s.forecast
    IN  /\ f.status = "absent" =>
              f = NoForecast /\ pc[c] \notin {"finding", "reusing", "loading"}
        /\ f.status # "absent" =>
              /\ f.artifact \in Artifacts
              /\ f.issue = s.issue.issue
              /\ s.issue.version = trainings[f.artifact].version
        /\ f.status = "running" =>
              pc[c] \in {"finding", "reusing", "loading"} \cup Building
        /\ f.status \in {"succeeded", "blocked"} => pc[c] = "committing"
        /\ f.status = "running" /\ pc[c] # "finding" => trainings[f.artifact].selected
        /\ f.status # "succeeded" => f.model = Null
        /\ f.snap # 0 =>
              /\ pc[c] \in {"loading", "committing"}
              /\ SnapshotOf(c).status # "absent"
              /\ SnapshotOf(c).version = s.issue.version
              /\ SnapshotOf(c).status = "succeeded" => SnapshotOf(c).issue = f.issue
        /\ pc[c] = "loading" => f.snap # 0 /\ SnapshotOf(c).status = "succeeded"
        /\ f.status = "succeeded" =>
              /\ trainings[f.artifact].selected
              /\ f.model \in Fits
              /\ f.snap # 0
              /\ SnapshotOf(c).status = "succeeded" /\ SnapshotOf(c).complete

SummaryHeldBy(c) ==
    LET m == session[c].summary
    IN  /\ m.counted # {} => pc[c] \in {"recording", "committing"}
        /\ m.artifact \in {0} \cup Artifacts
        /\ \A d \in m.counted : forecasts[d].status = "succeeded"

(* The file of a training nobody disturbed, from the moment it is whole.   *)
FileHeldBy(c) ==
    LET t == session[c].training
    IN  c \notin clobbered =>
           /\ pc[c] = "hashing" => files[t.file] = t.fit
           /\ t.hash # Null => t.hash = t.fit /\ files[t.file] = t.fit

(* What a command knows of the gate was so at some moment since it looked  *)
(* for its issue.                                                          *)
SeenOpen(c, d) == TRUE \in seen[c][d]
SeenShut(c) == \E d \in Datasets : FALSE \in seen[c][d]
Watched(c) == \A d \in Datasets : open[d] \in seen[c][d]

GateNoticedBy(c) ==
    LET s == session[c]
    IN  /\ pc[c] \in {"seeking", "issuing", "finding", "reusing"} => s.gates = 0 /\ ~s.blocked
        /\ pc[c] = "gating" => Watched(c)
        /\ pc[c] = "snapping" => s.gates = Len(Required)
        /\ pc[c] \in {"gating", "snapping"} =>
              /\ s.blocked => SeenShut(c)
              /\ ~s.blocked => \A k \in 1..s.gates : SeenOpen(c, Required[k])
        /\ s.snap.status = "blocked" => SeenShut(c)
        /\ s.snap.status = "succeeded" /\ ~s.snap.complete =>
              \A d \in Datasets : SeenOpen(c, d)

HeldBy(c) ==
    /\ RestingBy(c)
    /\ IssueHeldBy(c)
    /\ SnapHeldBy(c)
    /\ TrainingHeldBy(c)
    /\ ForecastHeldBy(c)
    /\ SummaryHeldBy(c)
    /\ FileHeldBy(c)
    /\ GateNoticedBy(c)

Held == \A c \in Commands : HeldBy(c)

(* Committed rows refer to files and artifacts. *)
RowsHeld ==
    \A c \in Commands :
        /\ issues[c].status = "absent" => issues[c].issue = Null
        /\ trainings[c].hash # Null => trainings[c].file \in Files
        /\ forecasts[c].status = "absent" => forecasts[c] = NoForecast
        /\ forecasts[c].status # "absent" => forecasts[c].artifact \in Artifacts

(* No two rows are the same, in tables and in what open transactions have  *)
(* written.                                                                *)
IssuesApart ==
    \A c, d \in Commands : c # d =>
        /\ issues[c].status # "absent" => ~SameIssue(issues[c], issues[d])
        /\ WroteIssue(c) =>
              /\ ~SameIssue(session[c].issue, issues[d])
              /\ WroteIssue(d) => ~SameIssue(session[c].issue, session[d].issue)

HashesApart ==
    \A c, d \in Commands : c # d =>
        /\ trainings[c].hash # Null => trainings[c].hash # trainings[d].hash
        /\ WroteArtifact(c) =>
              /\ session[c].training.hash # trainings[d].hash
              /\ WroteArtifact(d) => session[c].training.hash # session[d].training.hash

SummariesApart ==
    \A c, d \in Commands : c # d =>
        /\ ~SameSummary(summaries[c], summaries[d])
        /\ WroteSummary(c) =>
              /\ ~SameSummary(session[c].summary, summaries[d])
              /\ WroteSummary(d) => ~SameSummary(session[c].summary, session[d].summary)

Apart == IssuesApart /\ HashesApart /\ SummariesApart

IInv ==
    /\ TypeOK
    /\ Held
    /\ Uncommitted
    /\ IdsBelow
    /\ RowsHeld
    /\ IssueFollowsRuns
    /\ ForecastsTrace
    /\ UndisturbedArtifacts
    /\ Apart

-----------------------------------------------------------------------------
(* Type correctness *)

LEMMA RequiredDatasets == \A k \in 1..Len(Required) : Required[k] \in Datasets
  BY ForecastingAssumption DEF Datasets

LEMMA EmptyRows ==
  /\ NoIssue \in IssueRow /\ NoSnap \in SnapRow /\ NoTraining \in TrainingRow
  /\ NoForecast \in ForecastRow /\ NoSummary \in SummaryRow
  BY ForecastingAssumption
     DEF NoIssue, IssueRow, NoSnap, SnapRow, NoTraining, TrainingRow, Contents,
         NoForecast, ForecastRow, NoSummary, SummaryRow

LEMMA NoSessionType == NoSession \in Session
  <1>1. Len(Required) \in Nat /\ N \in Nat
    BY ForecastingAssumption
  <1> QED
    BY <1>1, EmptyRows DEF NoSession, Session

LEMMA UnseenType == Unseen \in [Datasets -> SUBSET BOOLEAN]
  BY DEF Unseen

(* A session with one part replaced. *)
LEMMA SessionPut ==
  ASSUME NEW s \in Session
  PROVE  /\ \A x \in IssueRow : [s EXCEPT !.issue = x] \in Session
         /\ \A x \in TrainingRow : [s EXCEPT !.training = x] \in Session
         /\ \A x \in ForecastRow : [s EXCEPT !.forecast = x] \in Session
         /\ \A x \in SummaryRow : [s EXCEPT !.summary = x] \in Session
         /\ \A x \in SnapRow : [s EXCEPT !.snap = x] \in Session
  BY DEF Session

(* The initial state has the types. *)
LEMMA TypeInit == Init => TypeOK
  BY EmptyRows, NoSessionType, UnseenType
     DEF Init, TypeOK, Stages, Contents

(* Of a set of commands one has the newest snapshot. *)
LEMMA NewestType ==
  ASSUME TypeOK, IdsBelow, NEW S \in SUBSET Commands, S # {}
  PROVE  Newest(S) \in S
  <1> DEFINE Age(d) == lastId - snaps[d].id
             Ages == {Age(d) : d \in S}
  <1>1. \A d \in S : Age(d) \in Nat /\ snaps[d].id \in Nat
    BY DEF TypeOK, SnapRow, IdsBelow
  <1>2. Ages \subseteq Nat /\ Ages # {}
    BY <1>1
  <1> DEFINE Less == {p \in Nat \X Nat : p[1] < p[2]}
  <1>3. IsWellFoundedOn(Less, Nat)
    BY NatLessThanWellFounded DEF OpToRel
  <1>4. PICK m \in Ages : \A n \in Ages : ~(n < m)
    <2> HIDE DEF Ages, Less
    <2>1. \E m \in Ages : \A n \in Ages : <<n, m>> \notin Less
      BY <1>2, <1>3, WFMin
    <2> QED
      BY <1>2, <2>1 DEF Less
  <1>5. PICK d \in S : m = Age(d)
    OBVIOUS
  <1>6. \A e \in S : snaps[e].id =< snaps[d].id
    <2> TAKE e \in S
    <2>1. ~(Age(e) < Age(d))
      BY <1>4, <1>5
    <2>2. lastId \in Nat
      BY DEF TypeOK
    <2> QED
      BY <1>1, <2>1, <2>2
  <1> QED
    BY <1>6 DEF Newest

(* So does a state after a rollback ...                                    *)
LEMMA TypeRollback ==
  ASSUME TypeOK, NEW c \in Commands, Rollback(c)
  PROVE  TypeOK'
  BY NoSessionType, UnseenType DEF Rollback, Goto, TypeOK, Stages, tables, world

(* A step that only moves c on and replaces its session. *)
LEMMA TypeMove ==
  ASSUME TypeOK, NEW c \in Commands, NEW s \in Session, NEW stage \in Stages,
         session' = [session EXCEPT ![c] = s], Goto(c, stage),
         UNCHANGED <<tables, world, history>>
  PROVE  TypeOK'
  BY DEF Goto, TypeOK, tables, world, history

(* ... and after every step: a file, a hash and a snapshot id have theirs  *)
(* only because of what the session holds at that stage.                   *)
LEMMA TypeStep == TypeOK /\ Held /\ IdsBelow /\ [Next]_vars => TypeOK'
  <1> SUFFICES ASSUME TypeOK, Held, IdsBelow, [Next]_vars PROVE TypeOK'
    OBVIOUS
  <1>0. session \in [Commands -> Session]
    BY DEF TypeOK
  <1>1. ASSUME NEW c \in Commands, NEW i \in Issues, NEW v \in Versions, StartBuild(c, i, v)
        PROVE  TypeOK'
    <2>1. [session[c] EXCEPT !.issue = [issue |-> i, version |-> v, status |-> "absent"]] \in Session
      BY <1>0, SessionPut DEF IssueRow
    <2> QED
      BY <1>1, <2>1, TypeMove DEF StartBuild, Stages
  <1>2. ASSUME NEW c \in Commands, GetIssue(c) PROVE TypeOK'
    <2>0. session[c] \in Session
      BY <1>0
    <2>1. CASE IssueRowsLike(c) = {}
      BY <1>2, <2>1 DEF GetIssue, Goto, Stages, tables, world, TypeOK
    <2>2. CASE IssueRowsLike(c) # {}
      <3>1. PICK d \in IssueRowsLike(c) :
               session' = [session EXCEPT ![c].owner = d, ![c].was = issues[d].status,
                                          ![c].issue.status = issues[d].status]
        BY <1>2, <2>2 DEF GetIssue
      <3>2. /\ d \in 0..N
            /\ issues[d].status \in {"absent", "defined", "ready", "blocked"}
        <4>1. d \in Commands
          BY DEF IssueRowsLike
        <4>2. issues[d] \in IssueRow
          BY <4>1 DEF TypeOK
        <4>3. d \in 0..N
          BY <4>1, ForecastingAssumption DEF Commands
        <4> QED
          BY <4>2, <4>3 DEF IssueRow
      <3>3. session' \in [Commands -> Session]
        BY <1>0, <2>0, <3>1, <3>2 DEF Session, IssueRow
      <3>4. seen' \in [Commands -> [Datasets -> SUBSET BOOLEAN]]
        <4>1. Watch(c)
          BY <1>2, <2>2 DEF GetIssue
        <4> QED
          BY <4>1 DEF Watch, TypeOK
      <3> QED
        BY <1>2, <2>2, <3>3, <3>4, ZenonT(30) DEF GetIssue, Goto, Stages, tables, world, TypeOK
    <2> QED
      BY <2>1, <2>2
  <1>3. ASSUME NEW c \in Commands, InsertIssue(c) PROVE TypeOK'
    <2>0. session[c] \in Session
      BY <1>0
    <2>1. c \in 0..N
      BY ForecastingAssumption DEF Commands
    <2>2. session' = [session EXCEPT ![c].owner = c, ![c].was = "defined",
                                     ![c].issue.status = "defined"]
      BY <1>3 DEF InsertIssue
    <2>3. session' \in [Commands -> Session]
      BY <1>0, <2>0, <2>1, <2>2 DEF Session, IssueRow
    <2>4. seen' \in [Commands -> [Datasets -> SUBSET BOOLEAN]]
      BY <1>3 DEF InsertIssue, Watch, TypeOK
    <2> QED
      BY <1>3, <2>3, <2>4 DEF InsertIssue, Goto, Stages, tables, world, TypeOK
  <1>4. ASSUME NEW c \in Commands, IssueClash(c) PROVE TypeOK'
    BY <1>4, TypeRollback DEF IssueClash
  <1>5. ASSUME NEW c \in Commands, ReadGate(c) PROVE TypeOK'
    <2>0. session[c] \in Session
      BY <1>0
    <2>1. session[c].gates + 1 \in 0..Len(Required) /\ open[Required[session[c].gates + 1]] \in BOOLEAN
      BY <2>0, <1>5, RequiredDatasets, ForecastingAssumption DEF ReadGate, Session, TypeOK
    <2>2. session' = [session EXCEPT
             ![c].gates = session[c].gates + 1,
             ![c].blocked = @ \/ ~open[Required[session[c].gates + 1]]]
      BY <1>5 DEF ReadGate
    <2>3. session' \in [Commands -> Session]
      BY <1>0, <2>0, <2>1, <2>2 DEF Session
    <2> QED
      BY <1>5, <2>3 DEF ReadGate, Goto, Stages, tables, world, history, TypeOK
  <1>6. ASSUME NEW c \in Commands, WriteSnapshot(c) PROVE TypeOK'
    <2>0. session[c] \in Session
      BY <1>0
    <2> DEFINE s == session[c]
    <2>1. session' = [session EXCEPT ![c].issue.status = IssueStatus(s.blocked),
                                     ![c].snap = NewSnap(s),
                                     ![c].forecast = RestedOn(c, s.forecast, s.blocked)]
      BY <1>6 DEF WriteSnapshot
    <2>2. c \in 0..N
      BY ForecastingAssumption DEF Commands
    <2>3. lastId + 1 \in Nat
      BY DEF TypeOK
    <2>4. NewSnap(s) \in SnapRow
      BY <2>0, <2>3 DEF Session, IssueRow, SnapRow, NewSnap
    <2>5. RestedOn(c, s.forecast, s.blocked) \in ForecastRow
      BY <2>0, <2>2 DEF Session, ForecastRow, RestedOn
    <2>6. session' \in [Commands -> Session]
      BY <1>0, <2>0, <2>1, <2>4, <2>5 DEF Session, IssueRow, IssueStatus
    <2> QED
      BY <1>6, <2>3, <2>6 DEF WriteSnapshot, Goto, Stages, tables, history, TypeOK
  <1>7. ASSUME NEW c \in Commands, NEW v \in Versions, NEW f \in Files, StartTraining(c, v, f)
        PROVE  TypeOK'
    <2>1. [NoTraining EXCEPT !.status = "running", !.version = v, !.file = f] \in TrainingRow
      BY EmptyRows DEF TrainingRow
    <2> QED
      BY <1>0, <1>7, <2>1, SessionPut, TypeMove DEF StartTraining, Stages
  <1>8. ASSUME NEW c \in Commands, FitCandidate(c) PROVE TypeOK'
    <2>0. session[c] \in Session
      BY <1>0
    <2>1. PICK rows \in SUBSET Commands, fit \in Fits, selected \in BOOLEAN :
             session' = [session EXCEPT ![c].training.rows = rows,
                                        ![c].training.fit = fit,
                                        ![c].training.selected = selected]
      BY <1>8 DEF FitCandidate, Usable
    <2>2. session' \in [Commands -> Session]
      BY <1>0, <2>0, <2>1 DEF Session, TrainingRow
    <2> QED
      BY <1>8, <2>2, ZenonT(30) DEF FitCandidate, Goto, Stages, tables, world, history, TypeOK
  <1>9. ASSUME NEW c \in Commands, FailTraining(c) PROVE TypeOK'
    <2>0. session[c] \in Session
      BY <1>0
    <2>1. [NoTraining EXCEPT !.status = "failed", !.version = session[c].training.version]
             \in TrainingRow
      BY <2>0, EmptyRows DEF TrainingRow, Session
    <2> QED
      BY <1>0, <1>9, <2>1, SessionPut, TypeMove DEF FailTraining, Stages
  <1>10. ASSUME NEW c \in Commands, OpenFile(c) PROVE TypeOK'
    BY <1>10 DEF OpenFile, WriteFile, Goto, Stages, tables, Contents, TypeOK
  <1>11. ASSUME NEW c \in Commands, DumpModel(c) PROVE TypeOK'
    <2>1. session[c].training.fit \in Contents
      BY <1>11 DEF DumpModel, Held, HeldBy, TrainingHeldBy, Writing, Contents
    <2> QED
      BY <1>11, <2>1 DEF DumpModel, WriteFile, Goto, Stages, tables, TypeOK
  <1>12. ASSUME NEW c \in Commands, HashFile(c) PROVE TypeOK'
    <2>0. session[c] \in Session
      BY <1>0
    <2>1. files[session[c].training.file] \in Contents
      BY <1>12 DEF HashFile, Held, HeldBy, TrainingHeldBy, Training, Writing, TypeOK
    <2>2. session' = [session EXCEPT ![c].training.hash = files[session[c].training.file]]
      BY <1>12 DEF HashFile
    <2>3. session' \in [Commands -> Session]
      BY <1>0, <2>0, <2>1, <2>2 DEF Session, TrainingRow
    <2> QED
      BY <1>12, <2>3 DEF HashFile, Goto, Stages, tables, world, history, TypeOK
  <1>13. ASSUME NEW c \in Commands, StoreArtifact(c) PROVE TypeOK'
    <2>0. session[c] \in Session
      BY <1>0
    <2>1. session' = [session EXCEPT ![c].training.status = "succeeded"]
      BY <1>13 DEF StoreArtifact
    <2>2. session' \in [Commands -> Session]
      BY <1>0, <2>0, <2>1 DEF Session, TrainingRow
    <2> QED
      BY <1>13, <2>2 DEF StoreArtifact, Goto, Stages, tables, world, history, TypeOK
  <1>14. ASSUME NEW c \in Commands, ArtifactClash(c) PROVE TypeOK'
    BY <1>14, TypeRollback DEF ArtifactClash
  <1>15. ASSUME NEW c \in Commands, NEW a \in Commands, NEW i \in Issues, StartForecast(c, a, i)
        PROVE  TypeOK'
    <2>0. session[c] \in Session
      BY <1>0
    <2>1. a \in 0..N
      BY ForecastingAssumption DEF Commands
    <2>2. session' = [session EXCEPT
             ![c].forecast = [NoForecast EXCEPT !.status = "running", !.artifact = a, !.issue = i],
             ![c].issue = [issue |-> i, version |-> trainings[a].version, status |-> "absent"]]
      BY <1>15 DEF StartForecast
    <2>3. [NoForecast EXCEPT !.status = "running", !.artifact = a, !.issue = i] \in ForecastRow
      BY <2>1, EmptyRows DEF ForecastRow
    <2>4. [issue |-> i, version |-> trainings[a].version, status |-> "absent"] \in IssueRow
      BY DEF TypeOK, TrainingRow, IssueRow
    <2>5. session' \in [Commands -> Session]
      BY <1>0, <2>0, <2>2, <2>3, <2>4 DEF Session
    <2> QED
      BY <1>15, <2>5 DEF StartForecast, Goto, Stages, tables, world, history, TypeOK
  <1>16. ASSUME NEW c \in Commands, NEW snap \in 0..N, BlockForecast(c, snap),
                UNCHANGED <<tables, world, history>>
         PROVE  TypeOK'
    <2>0. session[c] \in Session
      BY <1>0
    <2>1. session' = [session EXCEPT ![c].forecast.status = "blocked", ![c].forecast.snap = snap]
      BY <1>16 DEF BlockForecast
    <2>2. session' \in [Commands -> Session]
      BY <1>0, <2>0, <2>1 DEF Session, ForecastRow
    <2> QED
      BY <1>16, <2>2 DEF BlockForecast, Goto, Stages, tables, world, history, TypeOK
  <1>17. ASSUME NEW S \in SUBSET Commands, S # {} PROVE Newest(S) \in 0..N
    <2>1. Newest(S) \in Commands
      BY <1>17, NewestType
    <2> QED
      BY <2>1, ForecastingAssumption DEF Commands
  <1>18. ASSUME NEW c \in Commands, FindSnapshot(c) PROVE TypeOK'
    <2>0. session[c] \in Session
      BY <1>0
    <2>1. CASE ~trainings[session[c].forecast.artifact].selected
      <3>1. 0 \in 0..N
        BY ForecastingAssumption
      <3> QED
        BY <1>16, <1>18, <2>1, <3>1 DEF FindSnapshot
    <2>2. CASE /\ trainings[session[c].forecast.artifact].selected
               /\ SnapshotsFor(c) # {}
      <3>1. Newest(SnapshotsFor(c)) \in 0..N
        BY <1>17, <2>2 DEF SnapshotsFor
      <3>2. /\ session' = [session EXCEPT ![c].forecast.snap = Newest(SnapshotsFor(c))]
            /\ Goto(c, "loading")
        BY <1>18, <2>2 DEF FindSnapshot
      <3>3. session' \in [Commands -> Session]
        BY <1>0, <2>0, <3>1, <3>2 DEF Session, ForecastRow
      <3> QED
        BY <1>18, <3>2, <3>3 DEF FindSnapshot, Goto, Stages, tables, world, history, TypeOK
    <2>3. CASE /\ trainings[session[c].forecast.artifact].selected
               /\ SnapshotsFor(c) = {}
      BY <1>18, <2>3 DEF FindSnapshot, Goto, Stages, tables, world, history, TypeOK
    <2> QED
      BY <2>1, <2>2, <2>3
  <1>19. ASSUME NEW c \in Commands, ReuseBlocked(c) PROVE TypeOK'
    <2> DEFINE blocked == {d \in Commands : /\ snaps[d].status = "blocked"
                                            /\ snaps[d].version = session[c].issue.version}
    <2>1. CASE blocked # {}
      <3>1. BlockForecast(c, Newest(blocked)) /\ UNCHANGED <<tables, world, history>>
        BY <1>19, <2>1 DEF ReuseBlocked
      <3>2. Newest(blocked) \in 0..N
        BY <1>17, <2>1
      <3> QED
        BY <1>16, <3>1, <3>2
    <2>2. CASE blocked = {}
      BY <1>19, <2>2 DEF ReuseBlocked, Goto, Stages, tables, world, history, TypeOK
    <2> QED
      BY <2>1, <2>2
  <1>20. ASSUME NEW c \in Commands, LoadModel(c) PROVE TypeOK'
    <2>0. session[c] \in Session
      BY <1>0
    <2> DEFINE content == files[trainings[session[c].forecast.artifact].file]
    <2>1. CASE content \in Fits /\ SnapshotOf(c).complete
      <3>1. session' = [session EXCEPT ![c].forecast.status = "succeeded",
                                       ![c].forecast.model = content]
        BY <1>20, <2>1 DEF LoadModel
      <3>2. session' \in [Commands -> Session]
        <4> HIDE DEF content
        <4> QED
          BY <1>0, <2>0, <2>1, <3>1 DEF Session, ForecastRow
      <3> QED
        BY <1>20, <2>1, <3>2 DEF LoadModel, Goto, Stages, tables, world, history, TypeOK
    <2>2. CASE ~(content \in Fits /\ SnapshotOf(c).complete)
      <3>1. session[c].forecast.snap \in 0..N
        BY <2>0 DEF Session, ForecastRow
      <3> QED
        BY <1>16, <1>20, <2>2, <3>1 DEF LoadModel
    <2> QED
      BY <2>1, <2>2
  <1>21. ASSUME NEW c \in Commands, NEW a \in Commands, NEW w \in Windows, StartSummary(c, a, w)
         PROVE  TypeOK'
    <2>1. a \in 0..N
      BY ForecastingAssumption DEF Commands
    <2>2. [status |-> "stored", artifact |-> a, window |-> w, counted |-> {}] \in SummaryRow
      BY <2>1 DEF SummaryRow
    <2> QED
      BY <1>0, <1>21, <2>2, SessionPut, TypeMove DEF StartSummary, Stages
  <1>22. ASSUME NEW c \in Commands, CountPerformance(c) PROVE TypeOK'
    <2>0. session[c] \in Session
      BY <1>0
    <2>1. PICK counted \in SUBSET Commands :
             session' = [session EXCEPT ![c].summary.counted = counted]
      BY <1>22 DEF CountPerformance
    <2>2. session' \in [Commands -> Session]
      BY <1>0, <2>0, <2>1 DEF Session, SummaryRow
    <2> QED
      BY <1>22, <2>2 DEF CountPerformance, Goto, Stages, tables, world, history, TypeOK
  <1>23. ASSUME NEW c \in Commands, StoreSummary(c) PROVE TypeOK'
    BY <1>23 DEF StoreSummary, Goto, Stages, tables, world, history, TypeOK
  <1>24. ASSUME NEW c \in Commands, SummaryClash(c) PROVE TypeOK'
    BY <1>24, TypeRollback DEF SummaryClash
  <1>25. ASSUME NEW c \in Commands, Commit(c) PROVE TypeOK'
    <2>1. session[c] \in Session
      BY <1>0
    <2>2. issues' \in [Commands -> IssueRow]
      <3>1. session[c].issue \in IssueRow /\ session[c].owner \in 0..N
        BY <2>1 DEF Session
      <3>2. session[c].issue.status \in {"absent", "defined", "ready", "blocked"}
        BY <3>1 DEF IssueRow
      <3>3. \/ issues' = [issues EXCEPT ![c] = session[c].issue]
            \/ issues' = [issues EXCEPT ![session[c].owner].status = session[c].issue.status]
            \/ issues' = issues
        BY <1>25 DEF Commit
      <3>4. issues \in [Commands -> IssueRow]
        BY DEF TypeOK
      <3> QED
        BY <3>1, <3>2, <3>3, <3>4 DEF IssueRow
    <2>3. /\ session[c].snap \in SnapRow /\ session[c].training \in TrainingRow
          /\ session[c].forecast \in ForecastRow /\ session[c].summary \in SummaryRow
      BY <2>1 DEF Session
    <2> QED
      BY <1>25, <2>2, <2>3, NoSessionType, UnseenType DEF Commit, Goto, Stages, world, TypeOK
  <1>26. ASSUME NEW c \in Commands, Crash(c) PROVE TypeOK'
    BY <1>26, TypeRollback DEF Crash
  <1>27. ASSUME NEW d \in Datasets, QualityRunCompletes(d) PROVE TypeOK'
    BY <1>27 DEF QualityRunCompletes, tables, TypeOK
  <1>28. CASE UNCHANGED vars
    BY <1>28 DEF vars, tables, world, history, TypeOK
  <1>29. ASSUME NEW c \in Commands, NEW i \in Issues, NEW v \in Versions, SeedSnapshot(c, i, v)
         PROVE  TypeOK'
    <2>0. session[c] \in Session
      BY <1>0
    <2>1. c \in 0..N
      BY ForecastingAssumption DEF Commands
    <2>2. lastId + 1 \in Nat
      BY DEF TypeOK
    <2> DEFINE issue == [issue |-> i, version |-> v, status |-> "ready"]
               snap == [id |-> lastId + 1, owner |-> c, issue |-> i, version |-> v,
                        status |-> "succeeded", complete |-> TRUE]
    <2>3. issue \in IssueRow /\ snap \in SnapRow
      BY <2>1, <2>2 DEF IssueRow, SnapRow
    <2>4. session' = [session EXCEPT ![c].issue = issue, ![c].owner = c, ![c].was = "ready",
                                     ![c].snap = snap]
      BY <1>29 DEF SeedSnapshot
    <2> HIDE DEF issue, snap
    <2>5. session' \in [Commands -> Session]
      BY <1>0, <2>0, <2>1, <2>3, <2>4 DEF Session
    <2> QED
      BY <1>29, <2>2, <2>5 DEF SeedSnapshot, Goto, Stages, tables, history, TypeOK
  <1> QED
    BY <1>1, <1>2, <1>3, <1>4, <1>5, <1>6, <1>7, <1>8, <1>9, <1>10, <1>11, <1>12, <1>13,
       <1>14, <1>15, <1>18, <1>19, <1>20, <1>21, <1>22, <1>23, <1>24, <1>25, <1>26, <1>27,
       <1>28, <1>29 DEF Next, Step

-----------------------------------------------------------------------------
(* Steps that leave the tables alone *)

(* Only c has moved. *)
Elsewhere(c) ==
    \A d \in Commands \ {c} :
        pc'[d] = pc[d] /\ session'[d] = session[d] /\ seen'[d] = seen[d]

(* What the others hold is as it was, but for their files ...              *)
LEMMA OthersKeep ==
  ASSUME IInv, TypeOK', NEW c \in Commands, Elsewhere(c),
         UNCHANGED <<tables, open>>, lastId' >= lastId,
         NEW d \in Commands \ {c}
  PROVE  /\ RestingBy(d)' /\ IssueHeldBy(d)' /\ SnapHeldBy(d)' /\ TrainingHeldBy(d)'
         /\ ForecastHeldBy(d)' /\ SummaryHeldBy(d)' /\ GateNoticedBy(d)'
  <1>1. /\ pc'[d] = pc[d] /\ session'[d] = session[d] /\ seen'[d] = seen[d]
        /\ UNCHANGED <<issues, snaps, trainings, forecasts, summaries, open>>
    BY DEF Elsewhere, tables
  <1>2. HeldBy(d)
    BY DEF IInv, Held
  <1>3. RestingBy(d)' /\ IssueHeldBy(d)' /\ TrainingHeldBy(d)' /\ GateNoticedBy(d)'
    BY <1>1, <1>2 DEF HeldBy, RestingBy, Open, IssueHeldBy, SameIssue, TrainingHeldBy,
       GateNoticedBy, SeenOpen, SeenShut, Watched
  <1>4. SnapHeldBy(d)'
    <2>1. session[d].snap.id \in Nat /\ lastId \in Nat /\ lastId' \in Nat
      BY DEF IInv, TypeOK, Session, SnapRow
    <2> QED
      BY <1>1, <1>2, <2>1 DEF HeldBy, SnapHeldBy, Settles, SameIssue
  <1>5. SnapshotOf(d)' = SnapshotOf(d) /\ Artifacts' = Artifacts
    BY <1>1 DEF SnapshotOf, Artifacts
  <1>6. ForecastHeldBy(d)' /\ SummaryHeldBy(d)'
    BY <1>1, <1>2, <1>5 DEF HeldBy, ForecastHeldBy, SummaryHeldBy
  <1> QED
    BY <1>3, <1>4, <1>6

(* ... and for them, too, if no file is written.                           *)
LEMMA OthersHold ==
  ASSUME IInv, TypeOK', NEW c \in Commands, Elsewhere(c),
         UNCHANGED <<tables, files, open, clobbered>>, lastId' >= lastId,
         NEW d \in Commands \ {c}
  PROVE  HeldBy(d)'
  <1>1. FileHeldBy(d)'
    BY DEF IInv, Held, HeldBy, FileHeldBy, Elsewhere
  <1> QED
    BY <1>1, OthersKeep DEF HeldBy

(* c has written nothing new. *)
WritesNoMore(c) ==
    /\ WroteIssue(c)' => WroteIssue(c) /\ SameIssue(session'[c].issue, session[c].issue)
    /\ ~WroteArtifact(c)'
    /\ ~WroteSummary(c)'

(* Nothing the others have written collides because c moves on. *)
LEMMA OthersApart ==
  ASSUME IInv, NEW c \in Commands, Elsewhere(c), UNCHANGED tables
  PROVE  /\ ~WroteArtifact(c)' => HashesApart'
         /\ ~WroteSummary(c)' => SummariesApart'
  <1>1. UNCHANGED <<trainings, summaries>>
    BY DEF tables
  <1>2. ASSUME ~WroteArtifact(c)' PROVE HashesApart'
    <2>1. \A d \in Commands : WroteArtifact(d)' => WroteArtifact(d) /\ session'[d] = session[d]
      BY <1>2 DEF Elsewhere, WroteArtifact
    <2> QED
      BY <1>1, <2>1 DEF IInv, Apart, HashesApart
  <1>3. ASSUME ~WroteSummary(c)' PROVE SummariesApart'
    <2>1. \A d \in Commands : WroteSummary(d)' => WroteSummary(d) /\ session'[d] = session[d]
      BY <1>3 DEF Elsewhere, WroteSummary
    <2> QED
      BY <1>1, <2>1 DEF IInv, Apart, SummariesApart, SameSummary
  <1> QED
    BY <1>2, <1>3

LEMMA StillApart ==
  ASSUME IInv, NEW c \in Commands, Elsewhere(c), UNCHANGED tables, WritesNoMore(c)
  PROVE  Apart'
  <1>1. UNCHANGED <<issues, trainings, summaries>>
    BY DEF tables
  <1>2. \A d \in Commands : WroteIssue(d)' =>
           WroteIssue(d) /\ SameIssue(session'[d].issue, session[d].issue)
    BY DEF Elsewhere, WritesNoMore, WroteIssue, SameIssue
  <1>3. IssuesApart'
    BY <1>1, <1>2 DEF IInv, Apart, IssuesApart, SameIssue
  <1> QED
    BY <1>3, OthersApart DEF Apart, WritesNoMore

(* The invariant but for the session of c. *)
LEMMA PlainStep ==
  ASSUME IInv, TypeOK', NEW c \in Commands, Elsewhere(c),
         UNCHANGED <<tables, files, open, clobbered>>, lastId' >= lastId,
         pc[c] # "done", pc'[c] # "done", HeldBy(c)', Apart'
  PROVE  IInv'
  <1>1. UNCHANGED <<issues, snaps, trainings, forecasts, summaries, files, clobbered>>
    BY DEF tables
  <1>2. Held'
    BY OthersHold DEF Held
  <1>3. Uncommitted'
    BY <1>1 DEF IInv, Uncommitted, Elsewhere
  <1>4. IdsBelow'
    BY <1>1 DEF IInv, IdsBelow, TypeOK, SnapRow
  <1>5. RowsHeld' /\ IssueFollowsRuns' /\ ForecastsTrace' /\ UndisturbedArtifacts'
    BY <1>1 DEF IInv, RowsHeld, IssueFollowsRuns, SameIssue, ForecastsTrace,
       UndisturbedArtifacts, Artifacts
  <1> QED
    BY <1>2, <1>3, <1>4, <1>5 DEF IInv

-----------------------------------------------------------------------------
(* The actions *)

(* What the invariant says of c's session. *)
LEMMA SessionFact ==
  ASSUME IInv, NEW c \in Commands
  PROVE  /\ session[c] \in Session
         /\ session[c].issue \in IssueRow
         /\ session[c].snap \in SnapRow
         /\ session[c].training \in TrainingRow
         /\ session[c].forecast \in ForecastRow
         /\ session[c].summary \in SummaryRow
         /\ session[c].owner \in 0..N
         /\ session[c].gates \in Nat
         /\ session[c].blocked \in BOOLEAN
         /\ pc[c] \in Stages
         /\ HeldBy(c)
         /\ lastId \in Nat
  <1>1. session[c] \in Session /\ pc[c] \in Stages /\ lastId \in Nat /\ HeldBy(c)
    BY DEF IInv, TypeOK, Held
  <1>2. Len(Required) \in Nat
    BY ForecastingAssumption
  <1> QED
    BY <1>1, <1>2 DEF Session

(* The session of a command that has not started. *)
LEMMA IdleFact ==
  ASSUME IInv, NEW c \in Commands, pc[c] = "idle"
  PROVE  session[c] = NoSession
  BY DEF IInv, Held, HeldBy, RestingBy, Open

SameTables == UNCHANGED <<issues, snaps, trainings, forecasts, summaries>>

(* The parts of a session that the invariant is about. *)
Parts(s, issue, owner, gates, blocked, snap, training, forecast, summary) ==
    /\ s.issue = issue /\ s.owner = owner /\ s.gates = gates /\ (s.blocked <=> blocked)
    /\ s.snap = snap /\ s.training = training /\ s.forecast = forecast /\ s.summary = summary

(* What a step of another kind of command leaves as it was: the training,  *)
(* ...                                                                     *)
LEMMA TrainingKept ==
  ASSUME IInv, NEW c \in Commands, SameTables, UNCHANGED <<files, clobbered>>,
         session'[c].training = session[c].training,
         pc[c] \notin Training \cup {"committing"}, pc'[c] \notin Training
  PROVE  /\ TrainingHeldBy(c)' /\ FileHeldBy(c)' /\ ~WroteArtifact(c)'
         /\ session'[c].training.hash = Null
  <1>1. TrainingHeldBy(c)
    BY SessionFact DEF HeldBy
  <1>2. session[c].training.hash = Null
    BY <1>1 DEF TrainingHeldBy, Training, Writing
  <1> QED
    BY <1>1, <1>2 DEF TrainingHeldBy, FileHeldBy, WroteArtifact, Training, Writing, SameTables

(* ... the summary ...                                                     *)
LEMMA SummaryKept ==
  ASSUME IInv, NEW c \in Commands, SameTables,
         session'[c].summary = session[c].summary,
         pc[c] \notin {"recording", "committing"}
  PROVE  /\ SummaryHeldBy(c)' /\ ~WroteSummary(c)'
         /\ session'[c].summary.counted = {}
  <1>1. SummaryHeldBy(c)
    BY SessionFact DEF HeldBy
  <1>2. session[c].summary.counted = {}
    BY <1>1 DEF SummaryHeldBy
  <1> QED
    BY <1>1, <1>2 DEF SummaryHeldBy, WroteSummary, SameTables, Artifacts

(* Where the commands are that build nothing. *)
Beside == Training \cup {"counting", "recording"}

(* ... and the build.                                                      *)
LEMMA BuildKept ==
  ASSUME IInv, NEW c \in Commands, SameTables, UNCHANGED lastId, seen'[c] = seen[c],
         Parts(session'[c], session[c].issue, session[c].owner, session[c].gates,
               session[c].blocked, session[c].snap, session'[c].training,
               session[c].forecast, session'[c].summary),
         pc[c] \in Beside \cup {"idle"}, pc'[c] \in Beside \cup {"committing"}
  PROVE  /\ IssueHeldBy(c)' /\ SnapHeldBy(c)' /\ ForecastHeldBy(c)' /\ GateNoticedBy(c)'
         /\ ~WroteIssue(c)'
  <1> DEFINE s == session[c]
  <1>1. /\ pc[c] \notin Building \cup {"finding", "reusing", "loading", "committing"}
        /\ pc'[c] \notin Building \cup {"finding", "reusing", "loading"}
    BY DEF Beside, Training, Writing, Building
  <1>2. s.owner = 0
    BY <1>1, SessionFact DEF HeldBy, IssueHeldBy, Building
  <1>3. s.snap.status = "absent" /\ s.snap.owner = 0 /\ s.snap.id =< lastId
    BY <1>1, SessionFact DEF HeldBy, SnapHeldBy
  <1>4. s.forecast.status = "absent" /\ s.forecast = NoForecast
    BY <1>1, SessionFact DEF HeldBy, ForecastHeldBy, ForecastRow
  <1>5. IssueHeldBy(c)' /\ SnapHeldBy(c)'
    BY <1>1, <1>2, <1>3 DEF Parts, IssueHeldBy, SnapHeldBy, Building
  <1>6. ForecastHeldBy(c)'
    BY <1>1, <1>4 DEF Parts, ForecastHeldBy, NoForecast
  <1>7. GateNoticedBy(c)'
    BY <1>1, <1>3 DEF Parts, GateNoticedBy, Building
  <1>8. ~WroteIssue(c)'
    BY <1>2, ForecastingAssumption DEF Parts, WroteIssue, Commands
  <1> QED
    BY <1>5, <1>6, <1>7, <1>8

(* No other row is written before a command has written one.               *)
LEMMA NothingWritten ==
  ASSUME IInv, NEW c \in Commands, Elsewhere(c), SameTables,
         WroteIssue(c)' => WroteIssue(c) /\ SameIssue(session'[c].issue, session[c].issue),
         ~WroteArtifact(c)', ~WroteSummary(c)'
  PROVE  Apart'
  BY StillApart DEF WritesNoMore, SameTables, tables

(* A step of a command that builds a snapshot or a forecast ...            *)
Ahead == Building \cup {"finding", "reusing", "loading"}

LEMMA BuilderStep ==
  ASSUME IInv, TypeOK', NEW c \in Commands, Elsewhere(c), SameTables,
         UNCHANGED <<files, open, clobbered>>, lastId' >= lastId,
         session'[c].training = session[c].training,
         session'[c].summary = session[c].summary,
         pc[c] \in Ahead \cup {"idle"}, pc'[c] \in Ahead \cup {"committing"},
         IssueHeldBy(c)', SnapHeldBy(c)', ForecastHeldBy(c)', GateNoticedBy(c)', IssuesApart'
  PROVE  IInv'
  <1>1. /\ pc[c] \notin Training \cup {"recording", "committing", "done"}
        /\ pc'[c] \notin Training \cup {"idle", "lost", "done"}
    BY DEF Ahead, Building, Training, Writing
  <1>2. TrainingHeldBy(c)' /\ FileHeldBy(c)' /\ ~WroteArtifact(c)'
    BY <1>1, TrainingKept
  <1>3. SummaryHeldBy(c)' /\ ~WroteSummary(c)'
    BY <1>1, SummaryKept
  <1>4. RestingBy(c)'
    BY <1>1 DEF RestingBy, Open
  <1>5. HeldBy(c)'
    BY <1>2, <1>3, <1>4 DEF HeldBy
  <1>6. Apart'
    BY <1>2, <1>3, OthersApart DEF SameTables, tables, Apart
  <1> QED
    BY <1>1, <1>5, <1>6, PlainStep DEF SameTables, tables

(* ... and of one that trains or summarizes.                               *)
LEMMA WorkerStep ==
  ASSUME IInv, TypeOK', NEW c \in Commands, Elsewhere(c), SameTables,
         UNCHANGED <<files, open, clobbered, lastId, seen>>,
         Parts(session'[c], session[c].issue, session[c].owner, session[c].gates,
               session[c].blocked, session[c].snap, session'[c].training,
               session[c].forecast, session'[c].summary),
         pc[c] \in Beside \cup {"idle"}, pc'[c] \in Beside \cup {"committing"},
         TrainingHeldBy(c)', SummaryHeldBy(c)', FileHeldBy(c)',
         HashesApart', SummariesApart'
  PROVE  IInv'
  <1>1. pc[c] # "done" /\ pc'[c] \notin {"idle", "lost", "done"}
    BY DEF Beside, Training, Writing
  <1>2. IssueHeldBy(c)' /\ SnapHeldBy(c)' /\ ForecastHeldBy(c)' /\ GateNoticedBy(c)'
        /\ ~WroteIssue(c)'
    BY BuildKept
  <1>3. RestingBy(c)'
    BY <1>1 DEF RestingBy, Open
  <1>4. IssuesApart'
    <2>1. \A d \in Commands : WroteIssue(d)' => WroteIssue(d) /\ session'[d] = session[d]
      BY <1>2 DEF Elsewhere, WroteIssue
    <2> QED
      BY <2>1 DEF IInv, Apart, IssuesApart, SameTables, SameIssue
  <1>5. HeldBy(c)'
    BY <1>2, <1>3 DEF HeldBy
  <1>6. lastId' >= lastId
    BY SessionFact
  <1> QED
    BY <1>1, <1>4, <1>5, <1>6, PlainStep DEF SameTables, tables, Apart

(* An issue row c has not written is no new one. *)
LEMMA NoNewIssue ==
  ASSUME IInv, NEW c \in Commands, Elsewhere(c), SameTables,
         WroteIssue(c)' => WroteIssue(c) /\ SameIssue(session'[c].issue, session[c].issue)
  PROVE  IssuesApart'
  <1>1. \A d \in Commands : WroteIssue(d)' =>
           WroteIssue(d) /\ SameIssue(session'[d].issue, session[d].issue)
    BY DEF Elsewhere, WroteIssue, SameIssue
  <1> QED
    BY <1>1 DEF IInv, Apart, IssuesApart, SameIssue, SameTables

-----------------------------------------------------------------------------
(* The build *)

LEMMA StartBuildInv ==
  ASSUME IInv, TypeOK', NEW c \in Commands, NEW i \in Issues, NEW v \in Versions,
         StartBuild(c, i, v)
  PROVE  IInv'
  <1> DEFINE issue == [issue |-> i, version |-> v, status |-> "absent"]
  <1>1. /\ pc[c] = "idle" /\ pc'[c] = "seeking"
        /\ session[c] = NoSession
        /\ Elsewhere(c)
        /\ SameTables /\ UNCHANGED <<files, open, clobbered, lastId, seen>>
    BY IdleFact, SessionFact DEF StartBuild, Starts, SameTables, tables,
       Goto, Elsewhere, world, history, IInv, TypeOK
  <1>2. Parts(session'[c], issue, 0, 0, FALSE, NoSnap, NoTraining, NoForecast, NoSummary)
    <2>1. session'[c] = [NoSession EXCEPT !.issue = issue]
      BY IdleFact, SessionFact DEF StartBuild, Starts, IInv, TypeOK
    <2> QED
      BY <2>1, SessionFact DEF Parts, NoSession
  <1>3. IssueHeldBy(c)' /\ SnapHeldBy(c)'
    BY <1>1, <1>2, SessionFact DEF Parts, IssueHeldBy, SnapHeldBy, NoSnap
  <1>4. ForecastHeldBy(c)' /\ GateNoticedBy(c)'
    BY <1>1, <1>2 DEF Parts, ForecastHeldBy, NoForecast, GateNoticedBy, NoSnap
  <1>5. ~WroteIssue(c)'
    BY <1>2, ForecastingAssumption DEF Parts, WroteIssue, Commands
  <1>6. session'[c].training = session[c].training /\ session'[c].summary = session[c].summary
    BY <1>1, <1>2 DEF Parts, NoSession
  <1>7. lastId' >= lastId
    BY <1>1, SessionFact
  <1> QED
    BY <1>1, <1>3, <1>4, <1>5, <1>6, <1>7, NoNewIssue, BuilderStep DEF Ahead, Building

(* Nothing is found: c will insert the row. *)
LEMMA MissIssueInv ==
  ASSUME IInv, TypeOK', NEW c \in Commands, GetIssue(c), IssueRowsLike(c) = {}
  PROVE  IInv'
  <1>1. /\ pc[c] = "seeking" /\ pc'[c] = "issuing"
        /\ session' = session
        /\ Elsewhere(c)
        /\ SameTables /\ UNCHANGED <<files, open, clobbered, lastId, seen>>
    BY SessionFact DEF GetIssue, SameTables, tables,
       Goto, Elsewhere, world, history, IInv, TypeOK
  <1>2. IssueHeldBy(c)' /\ SnapHeldBy(c)' /\ GateNoticedBy(c)'
    BY <1>1, SessionFact DEF HeldBy, IssueHeldBy, SnapHeldBy, GateNoticedBy, SeenShut, SeenOpen,
       SameTables, SameIssue, Settles
  <1>3. ForecastHeldBy(c)'
    BY <1>1, SessionFact DEF HeldBy, ForecastHeldBy, SnapshotOf, Artifacts, SameTables, Building
  <1>4. WroteIssue(c)' => WroteIssue(c) /\ SameIssue(session'[c].issue, session[c].issue)
    BY <1>1 DEF WroteIssue, SameIssue
  <1>5. lastId' >= lastId
    BY <1>1, SessionFact
  <1> QED
    BY <1>1, <1>2, <1>3, <1>4, <1>5, NoNewIssue, BuilderStep DEF Ahead, Building

(* GetIssue has found the row of d. *)
Finds(c, d, status) ==
    /\ pc[c] = "seeking"
    /\ d \in IssueRowsLike(c) /\ status = issues[d].status
    /\ session' = [session EXCEPT ![c].owner = d, ![c].was = status, ![c].issue.status = status]
    /\ Goto(c, "gating")
    /\ Watch(c)
    /\ UNCHANGED <<tables, world, clobbered>>

(* An issue row, found or inserted, opens the decision: what c holds then. *)
LEMMA DecisionOpens ==
  ASSUME IInv, NEW c \in Commands, NEW d \in Commands, NEW issue \in IssueRow,
         SameTables, UNCHANGED <<open, lastId>>,
         pc[c] \in {"seeking", "issuing"}, pc'[c] = "gating",
         seen'[c] = [e \in Datasets |-> {open[e]}],
         SameIssue(issue, session[c].issue), issue.status # "absent",
         d # c => issues[d].status # "absent" /\ SameIssue(issue, issues[d]),
         Parts(session'[c], issue, d, session[c].gates, session[c].blocked,
               session[c].snap, session[c].training, session[c].forecast, session[c].summary)
  PROVE  IssueHeldBy(c)' /\ SnapHeldBy(c)' /\ ForecastHeldBy(c)' /\ GateNoticedBy(c)'
  <1> DEFINE s == session[c]
  <1> d # 0
    BY ForecastingAssumption DEF Commands
  <1>1. issue.issue = s.issue.issue /\ issue.version = s.issue.version
    BY DEF SameIssue
  <1>2. s.snap.status = "absent" /\ s.snap.owner = 0 /\ s.snap.id =< lastId
    BY SessionFact DEF HeldBy, SnapHeldBy, SnapRow
  <1>3. IssueHeldBy(c)'
    BY <1>1, SessionFact DEF HeldBy, IssueHeldBy, Parts, SameTables, SameIssue
  <1>4. SnapHeldBy(c)'
    BY <1>2 DEF SnapHeldBy, Parts
  <1>5. ForecastHeldBy(c)'
    BY <1>1, SessionFact
       DEF Parts, HeldBy, ForecastHeldBy, SnapshotOf, Artifacts, SameTables, Building
  <1>6. GateNoticedBy(c)'
    <2>1. ~s.blocked /\ s.gates = 0
      BY SessionFact DEF HeldBy, GateNoticedBy
    <2>2. Watched(c)'
      BY DEF Watched
    <2> QED
      BY <1>2, <2>1, <2>2 DEF Parts, GateNoticedBy
  <1> QED
    BY <1>3, <1>4, <1>5, <1>6

(* c refers to a committed issue now, and the decision begins. *)
LEMMA FindIssueInv ==
  ASSUME IInv, TypeOK', NEW c \in Commands, NEW d \in Commands, NEW status,
         Finds(c, d, status)
  PROVE  IInv'
  <1> DEFINE s == session[c]
             issue == [s.issue EXCEPT !.status = status]
  <1>1. /\ pc[c] = "seeking" /\ pc'[c] = "gating"
        /\ status = issues[d].status /\ issues[d].status # "absent"
        /\ SameIssue(issues[d], s.issue)
        /\ seen'[c] = [e \in Datasets |-> {open[e]}]
        /\ Elsewhere(c)
        /\ SameTables /\ UNCHANGED <<files, open, clobbered, lastId>>
    BY SessionFact DEF Finds, IssueRowsLike, Watch, SameTables, tables,
       Goto, Elsewhere, world, history, IInv, TypeOK
  <1>2. Parts(session'[c], issue, d, s.gates, s.blocked, s.snap, s.training, s.forecast, s.summary)
    <2>1. session'[c] = [s EXCEPT !.owner = d, !.was = status, !.issue.status = status]
      BY SessionFact DEF Finds, IssueRowsLike, Watch, IInv, TypeOK
    <2> QED
      BY <2>1, SessionFact DEF Parts, Session, IssueRow
  <1>3. /\ issue.issue = s.issue.issue /\ issue.version = s.issue.version /\ issue.status = status
        /\ issue \in IssueRow
    <2>1. issues[d] \in IssueRow
      BY DEF IInv, TypeOK
    <2> QED
      BY <1>1, <2>1, SessionFact DEF IssueRow
  <1> HIDE DEF issue
  <1>4. IssueHeldBy(c)' /\ SnapHeldBy(c)' /\ ForecastHeldBy(c)' /\ GateNoticedBy(c)'
    <2>1. SameIssue(issue, s.issue) /\ SameIssue(issue, issues[d])
      BY <1>1, <1>3 DEF SameIssue
    <2> QED
      BY <1>1, <1>2, <1>3, <2>1, DecisionOpens
  <1>5. ~WroteIssue(c)'
    BY <1>1, <1>2 DEF Parts, WroteIssue, IInv, Uncommitted, NoIssue
  <1>6. session'[c].training = session[c].training /\ session'[c].summary = session[c].summary
    BY <1>2 DEF Parts
  <1>7. lastId' >= lastId
    BY <1>1, SessionFact
  <1> QED
    BY <1>1, <1>4, <1>5, <1>6, <1>7, NoNewIssue, BuilderStep DEF Ahead, Building

(* A new issue row collides with none if no twin is committed or written. *)
LEMMA NewIssueApart ==
  ASSUME IInv, NEW c \in Commands, Elsewhere(c), SameTables,
         NEW issue, session'[c].issue = issue, issue.issue \in Issues,
         \A d \in Commands : issues[d].status # "absent" => ~SameIssue(issues[d], issue),
         \A d \in Commands \ {c} : WroteIssue(d) => ~SameIssue(session[d].issue, issue)
  PROVE  IssuesApart'
  <1>1. \A d \in Commands : ~SameIssue(issue, issues[d])
    BY ForecastingAssumption DEF IInv, RowsHeld, SameIssue
  <1> SUFFICES ASSUME NEW x \in Commands, NEW y \in Commands, x # y
               PROVE  /\ issues'[x].status # "absent" => ~SameIssue(issues'[x], issues'[y])
                      /\ WroteIssue(x)' =>
                            /\ ~SameIssue(session'[x].issue, issues'[y])
                            /\ WroteIssue(y)' =>
                                  ~SameIssue(session'[x].issue, session'[y].issue)
    BY DEF IssuesApart, SameIssue
  <1>2. issues' = issues /\ IssuesApart
    BY DEF SameTables, IInv, Apart
  <1>3. \A d \in Commands \ {c} : session'[d] = session[d] /\ (WroteIssue(d)' <=> WroteIssue(d))
    BY DEF Elsewhere, WroteIssue
  <1>4. CASE x = c
    <2>1. y # c /\ WroteIssue(y)' => ~SameIssue(issue, session'[y].issue)
      BY <1>3 DEF SameIssue
    <2> QED
      BY <1>1, <1>2, <1>4, <2>1 DEF IssuesApart
  <1>5. CASE x # c /\ y = c
    <2>1. WroteIssue(x)' => ~SameIssue(session'[x].issue, issue)
      BY <1>3, <1>5 DEF SameIssue
    <2> QED
      BY <1>2, <1>3, <1>5, <2>1 DEF IssuesApart
  <1>6. CASE x # c /\ y # c
    BY <1>2, <1>3, <1>6 DEF IssuesApart
  <1> QED
    BY <1>4, <1>5, <1>6

(* No twin of the row is committed (IssueTaken) or written (IssueBusy). *)
LEMMA InsertIssueInv ==
  ASSUME IInv, TypeOK', NEW c \in Commands, InsertIssue(c)
  PROVE  IInv'
  <1> DEFINE s == session[c]
             issue == [s.issue EXCEPT !.status = "defined"]
  <1>1. /\ pc[c] = "issuing" /\ pc'[c] = "gating"
        /\ ~IssueBusy(c) /\ ~IssueTaken(c)
        /\ seen'[c] = [e \in Datasets |-> {open[e]}]
        /\ Elsewhere(c)
        /\ SameTables /\ UNCHANGED <<files, open, clobbered, lastId>>
    BY SessionFact DEF InsertIssue, Watch, SameTables, tables,
       Goto, Elsewhere, world, history, IInv, TypeOK
  <1>2. Parts(session'[c], issue, c, s.gates, s.blocked, s.snap, s.training, s.forecast, s.summary)
    <2>1. session'[c] = [s EXCEPT !.owner = c, !.was = "defined", !.issue.status = "defined"]
      BY SessionFact DEF InsertIssue, Watch, IInv, TypeOK
    <2> QED
      BY <2>1, SessionFact DEF Parts, Session, IssueRow
  <1>3. /\ issue.issue = s.issue.issue /\ issue.version = s.issue.version
        /\ issue.status = "defined" /\ issue \in IssueRow
    BY SessionFact DEF IssueRow
  <1> HIDE DEF issue
  <1>4. IssueHeldBy(c)' /\ SnapHeldBy(c)' /\ ForecastHeldBy(c)' /\ GateNoticedBy(c)'
    <2>1. SameIssue(issue, s.issue)
      BY <1>3 DEF SameIssue
    <2> QED
      BY <1>1, <1>2, <1>3, <2>1, DecisionOpens
  <1>5. IssuesApart'
    <2>1. session'[c].issue = issue /\ SameIssue(issue, s.issue)
      BY <1>2, <1>3 DEF Parts, SameIssue
    <2>2. issue.issue \in Issues
      BY <1>1, <1>3, SessionFact DEF HeldBy, IssueHeldBy
    <2>3. \A d \in Commands : issues[d].status # "absent" => ~SameIssue(issues[d], issue)
      BY <1>1, <2>1 DEF IssueTaken, IssueRowsLike, SameIssue
    <2>4. \A d \in Commands \ {c} : WroteIssue(d) => ~SameIssue(session[d].issue, issue)
      BY <1>1, <2>1 DEF IssueBusy, SameIssue
    <2> QED
      BY <1>1, <2>1, <2>2, <2>3, <2>4, NewIssueApart
  <1>6. session'[c].training = session[c].training /\ session'[c].summary = session[c].summary
    BY <1>2 DEF Parts
  <1>7. lastId' >= lastId
    BY <1>1, SessionFact
  <1> QED
    BY <1>1, <1>4, <1>5, <1>6, <1>7, BuilderStep DEF Ahead, Building

(* What is read is noticed, since open's answers of the moment are in seen. *)
LEMMA ReadGateInv ==
  ASSUME IInv, TypeOK', NEW c \in Commands, ReadGate(c)
  PROVE  IInv'
  <1> DEFINE s == session[c]
             k == s.gates + 1
             blocked == s.blocked \/ ~open[Required[k]]
  <1>1. /\ pc[c] = "gating"
        /\ pc'[c] = IF k = Len(Required) THEN "snapping" ELSE "gating"
        /\ k \in 1..Len(Required)
        /\ Elsewhere(c)
        /\ SameTables /\ UNCHANGED <<files, open, clobbered, lastId, seen>>
    BY SessionFact, ForecastingAssumption DEF ReadGate, SameTables, tables,
       Goto, Elsewhere, world, history, IInv, TypeOK
  <1>2. Parts(session'[c], s.issue, s.owner, k, blocked, s.snap, s.training, s.forecast, s.summary)
    <2>1. session'[c] = [s EXCEPT !.gates = k, !.blocked = blocked]
      BY SessionFact, ForecastingAssumption DEF ReadGate, IInv, TypeOK
    <2> QED
      BY <2>1, SessionFact DEF Parts, Session
  <1> HIDE DEF k, blocked
  <1>3. s.snap.status = "absent" /\ s.snap.owner = 0 /\ s.snap.id =< lastId
    BY <1>1, SessionFact DEF HeldBy, SnapHeldBy, SnapRow
  <1>4. IssueHeldBy(c)' /\ SnapHeldBy(c)'
    BY <1>1, <1>2, <1>3, SessionFact
       DEF Parts, HeldBy, IssueHeldBy, SnapHeldBy, SameTables, SameIssue
  <1>5. ForecastHeldBy(c)'
    BY <1>1, <1>2, SessionFact
       DEF Parts, HeldBy, ForecastHeldBy, SnapshotOf, Artifacts, SameTables, Building
  <1>6. GateNoticedBy(c)'
    <2>1. Watched(c) /\ GateNoticedBy(c)
      BY <1>1, SessionFact DEF HeldBy, GateNoticedBy
    <2>2. SeenShut(c)' = SeenShut(c) /\ \A d \in Datasets : SeenOpen(c, d)' = SeenOpen(c, d)
      BY <1>1 DEF SeenShut, SeenOpen
    <2>3. /\ blocked => SeenShut(c)
          /\ ~blocked => ~s.blocked /\ \A j \in 1..k : SeenOpen(c, Required[j])
      <3>1. Required[k] \in Datasets /\ open[Required[k]] \in seen[c][Required[k]]
        BY <1>1, <2>1, RequiredDatasets DEF Watched
      <3>2. CASE ~open[Required[k]]
        <4>1. open[Required[k]] = FALSE
          BY <3>1, <3>2 DEF IInv, TypeOK
        <4> QED
          BY <1>1, <2>1, <3>1, <4>1 DEF SeenShut, blocked
      <3>3. CASE open[Required[k]]
        <4>1. open[Required[k]] = TRUE
          BY <3>1, <3>3 DEF IInv, TypeOK
        <4>2. SeenOpen(c, Required[k])
          BY <3>1, <4>1 DEF SeenOpen
        <4>3. blocked <=> s.blocked
          BY <3>3 DEF blocked
        <4>4. \A j \in 1..k : j = k \/ j \in 1..s.gates
          BY <1>1, SessionFact DEF k
        <4> QED
          BY <1>1, <2>1, <4>2, <4>3, <4>4 DEF GateNoticedBy
      <3> QED
        BY <3>2, <3>3
    <2>4. Watched(c)'
      BY <1>1, <2>1 DEF Watched
    <2>5. \A j \in 1..k : Required[j] \in Datasets
      BY <1>1, RequiredDatasets
    <2> QED
      BY <1>1, <1>2, <1>3, <2>2, <2>3, <2>4, <2>5 DEF Parts, GateNoticedBy
  <1>7. WroteIssue(c)' => WroteIssue(c) /\ SameIssue(session'[c].issue, session[c].issue)
    BY <1>2 DEF Parts, WroteIssue, SameIssue
  <1>8. session'[c].training = session[c].training /\ session'[c].summary = session[c].summary
    BY <1>2 DEF Parts
  <1>9. lastId' >= lastId
    BY <1>1, SessionFact
  <1> QED
    BY <1>1, <1>4, <1>5, <1>6, <1>7, <1>8, <1>9, NoNewIssue, BuilderStep DEF Ahead, Building

(* The snapshot settles the issue; a forecast rests on it. *)
LEMMA WriteSnapshotInv ==
  ASSUME IInv, TypeOK', NEW c \in Commands, WriteSnapshot(c)
  PROVE  IInv'
  <1> DEFINE s == session[c]
             issue == [s.issue EXCEPT !.status = IssueStatus(s.blocked)]
             forecast == RestedOn(c, s.forecast, s.blocked)
  <1> c # 0
    BY ForecastingAssumption DEF Commands
  <1>0. session' = [session EXCEPT ![c].issue.status = IssueStatus(s.blocked),
                                   ![c].snap = NewSnap(s),
                                   ![c].forecast = RestedOn(c, s.forecast, s.blocked)]
    BY DEF WriteSnapshot
  <1> DEFINE snap == NewSnap(s)
  <1>1. /\ pc[c] = "snapping"
        /\ pc'[c] = IF s.forecast.status # "absent" /\ ~s.blocked THEN "loading" ELSE "committing"
        /\ lastId' = lastId + 1
        /\ Elsewhere(c)
        /\ SameTables /\ UNCHANGED <<files, open, clobbered, seen>>
    BY SessionFact DEF WriteSnapshot, SameTables, tables,
       Goto, Elsewhere, world, history, IInv, TypeOK
  <1>2. Parts(session'[c], issue, s.owner, s.gates, s.blocked, snap, s.training, forecast, s.summary)
    <2>1. session'[c] = [s EXCEPT !.issue.status = IssueStatus(s.blocked),
                                  !.snap = NewSnap(s),
                                  !.forecast = RestedOn(c, s.forecast, s.blocked)]
      BY <1>0, SessionFact DEF IInv, TypeOK
    <2> QED
      BY <2>1, SessionFact DEF Parts, Session, IssueRow
  <1>3. /\ issue.issue = s.issue.issue /\ issue.version = s.issue.version
        /\ issue.status = IF s.blocked THEN "blocked" ELSE "ready"
    BY SessionFact DEF IssueRow, IssueStatus
  <1>4. /\ snap.id = lastId + 1 /\ snap.owner = s.owner
        /\ snap.issue = s.issue.issue /\ snap.version = s.issue.version
        /\ snap.status = IF s.blocked THEN "blocked" ELSE "succeeded"
    BY DEF NewSnap
  <1>5. /\ s.forecast.status \in {"absent", "running"}
        /\ s.forecast.status = "absent" => forecast = s.forecast
        /\ s.forecast.status = "running" =>
              /\ forecast.snap = c /\ forecast.artifact = s.forecast.artifact
              /\ forecast.issue = s.forecast.issue /\ forecast.model = s.forecast.model
              /\ forecast.status = IF s.blocked THEN "blocked" ELSE "running"
    <2>1. s.forecast.status \in {"absent", "running"}
      BY <1>1, SessionFact DEF HeldBy, ForecastHeldBy, ForecastRow
    <2> QED
      BY <2>1, SessionFact DEF RestedOn, ForecastRow
  <1> HIDE DEF issue, snap, forecast
  <1>6. IssueHeldBy(c)'
    BY <1>1, <1>2, <1>3, SessionFact DEF Parts, HeldBy, IssueHeldBy, SameTables, SameIssue
  <1>7. SnapHeldBy(c)'
    <2>1. s.owner # 0
      BY <1>1, SessionFact DEF HeldBy, IssueHeldBy
    <2>2. Settles(snap, s.owner, issue)
      BY <1>3, <1>4 DEF Settles, SameIssue
    <2> QED
      BY <1>1, <1>2, <1>4, <2>1, <2>2, SessionFact DEF Parts, SnapHeldBy
  <1>8. ForecastHeldBy(c)'
    <2>1. ForecastHeldBy(c) /\ Artifacts' = Artifacts
      BY <1>1, SessionFact DEF HeldBy, Artifacts, SameTables
    <2>2. CASE s.forecast.status = "absent"
      BY <1>1, <1>2, <1>5, <2>1, <2>2 DEF Parts, ForecastHeldBy, NoForecast
    <2>3. CASE s.forecast.status = "running"
      <3>1. SnapshotOf(c)' = snap
        BY <1>2, <1>5, <2>3 DEF Parts, SnapshotOf
      <3>2. forecast.status # "absent" /\ forecast.status # "succeeded"
        BY <1>5, <2>3
      <3>3. trainings' = trainings
        BY <1>1 DEF SameTables
      <3>4. /\ s.forecast.artifact \in Artifacts
            /\ s.forecast.issue = s.issue.issue
            /\ s.issue.version = trainings[s.forecast.artifact].version
            /\ trainings[s.forecast.artifact].selected
            /\ s.forecast.model = Null
        BY <1>1, <2>1, <2>3 DEF ForecastHeldBy
      <3> QED
        BY <1>1, <1>2, <1>3, <1>4, <1>5, <2>1, <2>3, <3>1, <3>2, <3>3, <3>4
           DEF Parts, ForecastHeldBy
    <2> QED
      BY <1>5, <2>2, <2>3
  <1>9. GateNoticedBy(c)'
    <2>1. SeenShut(c)' = SeenShut(c) /\ \A d \in Datasets : SeenOpen(c, d)' = SeenOpen(c, d)
      BY <1>1 DEF SeenShut, SeenOpen
    <2>2. s.blocked => SeenShut(c)
      BY <1>1, SessionFact DEF HeldBy, GateNoticedBy
    <2>3. ~s.blocked => \A d \in Datasets : SeenOpen(c, d)
      <3>1. ~s.blocked => \A k \in 1..Len(Required) : SeenOpen(c, Required[k])
        BY <1>1, SessionFact DEF HeldBy, GateNoticedBy
      <3> QED
        BY <3>1, ForecastingAssumption DEF Datasets
    <2> QED
      BY <1>1, <1>2, <1>4, <2>1, <2>2, <2>3 DEF Parts, GateNoticedBy
  <1>10. WroteIssue(c)' => WroteIssue(c) /\ SameIssue(session'[c].issue, session[c].issue)
    BY <1>2, <1>3 DEF Parts, WroteIssue, SameIssue
  <1>11. session'[c].training = session[c].training /\ session'[c].summary = session[c].summary
    BY <1>2 DEF Parts
  <1>12. lastId' >= lastId
    BY <1>1, SessionFact
  <1> QED
    BY <1>1, <1>6, <1>7, <1>8, <1>9, <1>10, <1>11, <1>12, NoNewIssue, BuilderStep
       DEF Ahead, Building

(* Seeded rows settle their issue, and nobody asks the gate about them. *)
LEMMA SeedSnapshotInv ==
  ASSUME IInv, TypeOK', NEW c \in Commands, NEW i \in Issues, NEW v \in Versions,
         SeedSnapshot(c, i, v)
  PROVE  IInv'
  <1> DEFINE s == session[c]
             issue == [issue |-> i, version |-> v, status |-> "ready"]
             snap == [id |-> lastId + 1, owner |-> c, issue |-> i, version |-> v,
                      status |-> "succeeded", complete |-> TRUE]
  <1>0. c # 0
    BY ForecastingAssumption DEF Commands
  <1>1. /\ pc[c] = "idle" /\ pc'[c] = "committing"
        /\ lastId' = lastId + 1
        /\ Elsewhere(c)
        /\ SameTables /\ UNCHANGED <<files, open, clobbered, seen>>
    BY SessionFact DEF SeedSnapshot, Starts, SameTables, tables,
       Goto, Elsewhere, world, history, IInv, TypeOK
  <1>2. Parts(session'[c], issue, c, s.gates, s.blocked, snap, s.training, s.forecast, s.summary)
    <2>1. session'[c] = [s EXCEPT !.issue = issue, !.owner = c, !.was = "ready", !.snap = snap]
      BY SessionFact DEF SeedSnapshot, IInv, TypeOK
    <2> QED
      BY <2>1, SessionFact DEF Parts, Session
  <1>3. /\ issue.issue = i /\ issue.version = v /\ issue.status = "ready"
        /\ snap.id = lastId + 1 /\ snap.owner = c /\ snap.issue = i /\ snap.version = v
        /\ snap.status = "succeeded" /\ snap.complete
    OBVIOUS
  <1>4. IssuesApart'
    <2>1. /\ \A d \in Commands : issues[d].status # "absent" => ~SameIssue(issues[d], issue)
          /\ \A d \in Commands : WroteIssue(d) => ~SameIssue(session[d].issue, issue)
      BY DEF SeedSnapshot
    <2> HIDE DEF issue
    <2>2. session'[c].issue = issue /\ issue.issue \in Issues
      BY <1>2, <1>3 DEF Parts
    <2> QED
      BY <1>1, <2>1, <2>2, NewIssueApart
  <1> HIDE DEF issue, snap
  <1>5. IssueHeldBy(c)' /\ SnapHeldBy(c)'
    BY <1>0, <1>1, <1>2, <1>3, SessionFact
       DEF Parts, IssueHeldBy, SnapHeldBy, Settles, SameIssue
  <1>6. ForecastHeldBy(c)'
    <2>1. s.forecast = NoForecast
      BY <1>1, IdleFact DEF NoSession
    <2> QED
      BY <1>1, <1>2, <2>1 DEF Parts, ForecastHeldBy, NoForecast
  <1>7. GateNoticedBy(c)'
    BY <1>1, <1>2, <1>3 DEF Parts, GateNoticedBy
  <1>8. session'[c].training = session[c].training /\ session'[c].summary = session[c].summary
    BY <1>2 DEF Parts
  <1>9. lastId' >= lastId
    BY <1>1, SessionFact
  <1> QED
    BY <1>1, <1>4, <1>5, <1>6, <1>7, <1>8, <1>9, BuilderStep

-----------------------------------------------------------------------------
(* The forecast *)

LEMMA StartForecastInv ==
  ASSUME IInv, TypeOK', NEW c \in Commands, NEW a \in Commands, NEW i \in Issues,
         StartForecast(c, a, i)
  PROVE  IInv'
  <1> DEFINE issue == [issue |-> i, version |-> trainings[a].version, status |-> "absent"]
             forecast == [NoForecast EXCEPT !.status = "running", !.artifact = a, !.issue = i]
  <1>1. /\ pc[c] = "idle" /\ pc'[c] = "finding" /\ a \in Artifacts
        /\ session[c] = NoSession
        /\ Elsewhere(c)
        /\ SameTables /\ UNCHANGED <<files, open, clobbered, lastId, seen>>
    BY IdleFact, SessionFact DEF StartForecast, Starts, SameTables, tables,
       Goto, Elsewhere, world, history, IInv, TypeOK
  <1>2. Parts(session'[c], issue, 0, 0, FALSE, NoSnap, NoTraining, forecast, NoSummary)
    <2>1. session'[c] = [NoSession EXCEPT !.forecast = forecast, !.issue = issue]
      BY <1>1, SessionFact DEF StartForecast, Starts, IInv, TypeOK
    <2> QED
      BY <2>1 DEF Parts, NoSession
  <1>3. /\ forecast.status = "running" /\ forecast.artifact = a /\ forecast.issue = i
        /\ forecast.snap = 0 /\ forecast.model = Null
    BY DEF NoForecast
  <1> HIDE DEF forecast
  <1>4. IssueHeldBy(c)' /\ SnapHeldBy(c)'
    BY <1>1, <1>2, SessionFact DEF Parts, IssueHeldBy, SnapHeldBy, NoSnap
  <1>5. ForecastHeldBy(c)'
    BY <1>1, <1>2, <1>3 DEF Parts, ForecastHeldBy, SameTables, Artifacts
  <1>6. GateNoticedBy(c)'
    BY <1>1, <1>2 DEF Parts, GateNoticedBy, NoSnap
  <1>7. ~WroteIssue(c)'
    BY <1>2, ForecastingAssumption DEF Parts, WroteIssue, Commands
  <1>8. session'[c].training = session[c].training /\ session'[c].summary = session[c].summary
    BY <1>1, <1>2 DEF Parts, NoSession
  <1>9. lastId' >= lastId
    BY <1>1, SessionFact
  <1> QED
    BY <1>1, <1>4, <1>5, <1>6, <1>7, <1>8, <1>9, NoNewIssue, BuilderStep DEF Ahead, Building

(* A step that changes nothing of the session but the forecast. *)
ForecastMove(c, forecast) ==
    /\ Elsewhere(c) /\ SameTables /\ UNCHANGED <<files, open, clobbered, lastId, seen>>
    /\ Parts(session'[c], session[c].issue, session[c].owner, session[c].gates,
             session[c].blocked, session[c].snap, session[c].training, forecast,
             session[c].summary)
    /\ pc[c] \in {"finding", "reusing", "loading"}
    /\ \/ pc'[c] = "committing"
       \/ pc[c] # "loading" /\ pc'[c] \in {"reusing", "loading", "seeking"}

LEMMA ForecastStep ==
  ASSUME IInv, TypeOK', NEW c \in Commands, NEW forecast, ForecastMove(c, forecast),
         ForecastHeldBy(c)'
  PROVE  IInv'
  <1>1. /\ Elsewhere(c) /\ SameTables /\ UNCHANGED <<files, open, clobbered, lastId, seen>>
        /\ Parts(session'[c], session[c].issue, session[c].owner, session[c].gates,
                 session[c].blocked, session[c].snap, session[c].training, forecast,
                 session[c].summary)
        /\ pc[c] \in {"finding", "reusing", "loading"}
        /\ \/ pc'[c] = "committing"
           \/ pc[c] # "loading" /\ pc'[c] \in {"reusing", "loading", "seeking"}
    BY DEF ForecastMove
  <1>2. IssueHeldBy(c)'
    BY <1>1, SessionFact DEF Parts, HeldBy, IssueHeldBy, SameTables, SameIssue
  <1>3. SnapHeldBy(c)'
    BY <1>1, SessionFact DEF Parts, HeldBy, SnapHeldBy, IssueHeldBy, Settles, SameIssue
  <1>4. GateNoticedBy(c)'
    <2>1. SeenShut(c)' = SeenShut(c) /\ \A d \in Datasets : SeenOpen(c, d)' = SeenOpen(c, d)
      BY <1>1 DEF SeenShut, SeenOpen
    <2> QED
      BY <1>1, <2>1, SessionFact DEF Parts, HeldBy, GateNoticedBy
  <1>5. WroteIssue(c)' => WroteIssue(c) /\ SameIssue(session'[c].issue, session[c].issue)
    BY <1>1 DEF Parts, WroteIssue, SameIssue
  <1>6. session'[c].training = session[c].training /\ session'[c].summary = session[c].summary
    BY <1>1 DEF Parts
  <1>7. lastId' >= lastId
    BY <1>1, SessionFact
  <1> QED
    BY <1>1, <1>2, <1>3, <1>4, <1>5, <1>6, <1>7, NoNewIssue, BuilderStep DEF Ahead, Building

(* What a forecast in progress is. *)
LEMMA RunningForecast ==
  ASSUME IInv, NEW c \in Commands, pc[c] \in {"finding", "reusing", "loading"}
  PROVE  LET s == session[c]
             f == s.forecast
         IN  /\ f.status = "running" /\ f.artifact \in Artifacts
             /\ f.issue = s.issue.issue /\ f.model = Null
             /\ s.issue.version = trainings[f.artifact].version
             /\ pc[c] # "finding" => trainings[f.artifact].selected
             /\ f.snap # 0 => pc[c] = "loading"
             /\ snaps[c] = NoSnap
  <1>1. ForecastHeldBy(c) /\ session[c].forecast \in ForecastRow
    BY SessionFact DEF HeldBy
  <1>2. session[c].forecast.status = "running"
    BY <1>1 DEF ForecastHeldBy, ForecastRow
  <1>3. snaps[c] = NoSnap
    BY DEF IInv, Uncommitted
  <1> QED
    BY <1>1, <1>2, <1>3 DEF ForecastHeldBy

(* The except branch. *)
LEMMA BlockForecastInv ==
  ASSUME IInv, TypeOK', NEW c \in Commands, NEW snap,
         pc[c] \in {"finding", "reusing", "loading"},
         BlockForecast(c, snap), UNCHANGED <<tables, world, history>>,
         \/ snap = 0
         \/ snap = session[c].forecast.snap /\ pc[c] = "loading"
         \/ /\ snap \in Commands
            /\ snaps[snap].status = "blocked"
            /\ snaps[snap].version = session[c].issue.version
  PROVE  IInv'
  <1> DEFINE s == session[c]
             forecast == [s.forecast EXCEPT !.status = "blocked", !.snap = snap]
  <1>1. /\ pc'[c] = "committing"
        /\ Elsewhere(c) /\ SameTables /\ UNCHANGED <<files, open, clobbered, lastId, seen>>
    BY SessionFact DEF BlockForecast, SameTables, tables,
       Goto, Elsewhere, world, history, IInv, TypeOK
  <1>2. Parts(session'[c], s.issue, s.owner, s.gates, s.blocked, s.snap, s.training,
              forecast, s.summary)
    <2>1. session'[c] = [s EXCEPT !.forecast.status = "blocked", !.forecast.snap = snap]
      BY SessionFact DEF BlockForecast, IInv, TypeOK
    <2> QED
      BY <2>1, SessionFact DEF Parts, Session, ForecastRow
  <1>3. /\ forecast.status = "blocked" /\ forecast.snap = snap
        /\ forecast.artifact = s.forecast.artifact
        /\ forecast.issue = s.forecast.issue /\ forecast.model = s.forecast.model
    BY SessionFact DEF ForecastRow
  <1> HIDE DEF forecast
  <1>4. ForecastMove(c, forecast)
    BY <1>1, <1>2 DEF ForecastMove
  <1>5. ForecastHeldBy(c)'
    <2>1. Artifacts' = Artifacts /\ trainings' = trainings
      BY <1>1 DEF SameTables, Artifacts
    <2>2. snap # 0 =>
             /\ SnapshotOf(c)'.status # "absent"
             /\ SnapshotOf(c)'.version = s.issue.version
             /\ SnapshotOf(c)'.status = "succeeded" => SnapshotOf(c)'.issue = s.forecast.issue
      <3>1. CASE snap = 0
        BY <3>1
      <3>2. CASE snap # 0 /\ snap = s.forecast.snap /\ pc[c] = "loading"
        <4>1. SnapshotOf(c)' = SnapshotOf(c)
          BY <1>1, <1>2, <1>3, <3>2 DEF SnapshotOf, Parts, SameTables
        <4> QED
          BY <3>2, <4>1, SessionFact DEF HeldBy, ForecastHeldBy
      <3>3. CASE /\ snap \in Commands
                 /\ snaps[snap].status = "blocked"
                 /\ snaps[snap].version = s.issue.version
        <4>1. snap # c
          BY <3>3, RunningForecast DEF NoSnap
        <4>2. SnapshotOf(c)' = snaps[snap]
          BY <1>1, <1>2, <1>3, <4>1 DEF SnapshotOf, Parts, SameTables
        <4> QED
          BY <3>3, <4>2
      <3> QED
        BY <3>1, <3>2, <3>3
    <2> QED
      BY <1>1, <1>2, <1>3, <2>1, <2>2, RunningForecast DEF Parts, ForecastHeldBy
  <1> QED
    BY <1>4, <1>5, ForecastStep

(* The newest snapshot of the issue is a committed one. *)
LEMMA FindSnapshotInv ==
  ASSUME IInv, TypeOK', NEW c \in Commands, FindSnapshot(c)
  PROVE  IInv'
  <1> DEFINE s == session[c]
  <1>0. pc[c] = "finding" /\ UNCHANGED <<tables, world, history>>
    BY DEF FindSnapshot
  <1>1. CASE ~trainings[s.forecast.artifact].selected
    BY <1>0, <1>1, BlockForecastInv DEF FindSnapshot
  <1>2. CASE trainings[s.forecast.artifact].selected /\ SnapshotsFor(c) # {}
    <2> DEFINE d == Newest(SnapshotsFor(c))
               forecast == [s.forecast EXCEPT !.snap = d]
    <2>1. d \in SnapshotsFor(c)
      BY <1>2, NewestType DEF SnapshotsFor, IInv
    <2>2. /\ d \in Commands /\ snaps[d].status = "succeeded" /\ SameIssue(snaps[d], s.issue)
      BY <2>1 DEF SnapshotsFor
    <2>3. d # c /\ d # 0
      BY <1>0, <2>2, RunningForecast, ForecastingAssumption DEF NoSnap, Commands
    <2>4. /\ pc'[c] = "loading"
          /\ Elsewhere(c) /\ SameTables /\ UNCHANGED <<files, open, clobbered, lastId, seen>>
      BY <1>2, SessionFact DEF FindSnapshot, SameTables, tables,
         Goto, Elsewhere, world, history, IInv, TypeOK
    <2>5. Parts(session'[c], s.issue, s.owner, s.gates, s.blocked, s.snap, s.training,
                forecast, s.summary)
      <3>1. session'[c] = [s EXCEPT !.forecast.snap = d]
        BY <1>2, SessionFact DEF FindSnapshot, IInv, TypeOK
      <3> QED
        BY <3>1, SessionFact DEF Parts, Session, ForecastRow
    <2>6. /\ forecast.status = s.forecast.status /\ forecast.snap = d
          /\ forecast.artifact = s.forecast.artifact
          /\ forecast.issue = s.forecast.issue /\ forecast.model = s.forecast.model
      BY SessionFact DEF ForecastRow
    <2> HIDE DEF forecast, d
    <2>7. ForecastMove(c, forecast)
      BY <1>0, <2>4, <2>5 DEF ForecastMove
    <2>8. SnapshotOf(c)' = snaps[d]
      BY <2>3, <2>4, <2>5, <2>6 DEF SnapshotOf, Parts, SameTables
    <2>9. Artifacts' = Artifacts /\ trainings' = trainings
      BY <2>4 DEF SameTables, Artifacts
    <2>10. ForecastHeldBy(c)'
      BY <1>0, <1>2, <2>2, <2>3, <2>4, <2>5, <2>6, <2>8, <2>9, RunningForecast
         DEF Parts, ForecastHeldBy, SameIssue
    <2> QED
      BY <2>7, <2>10, ForecastStep
  <1>3. CASE trainings[s.forecast.artifact].selected /\ SnapshotsFor(c) = {}
    <2>1. /\ pc'[c] = "reusing" /\ session' = session
          /\ Elsewhere(c) /\ SameTables /\ UNCHANGED <<files, open, clobbered, lastId, seen>>
      BY <1>3, SessionFact DEF FindSnapshot, SameTables, tables,
         Goto, Elsewhere, world, history, IInv, TypeOK
    <2>2. ForecastMove(c, s.forecast)
      BY <1>0, <2>1 DEF ForecastMove, Parts
    <2>3. Artifacts' = Artifacts /\ trainings' = trainings
      BY <2>1 DEF SameTables, Artifacts
    <2>4. ForecastHeldBy(c)'
      BY <1>0, <1>3, <2>1, <2>3, RunningForecast DEF ForecastHeldBy
    <2> QED
      BY <2>2, <2>4, ForecastStep
  <1> QED
    BY <1>1, <1>2, <1>3

LEMMA ReuseBlockedInv ==
  ASSUME IInv, TypeOK', NEW c \in Commands, ReuseBlocked(c)
  PROVE  IInv'
  <1> DEFINE s == session[c]
             blocked == {d \in Commands : /\ snaps[d].status = "blocked"
                                          /\ snaps[d].version = s.issue.version}
  <1>0. pc[c] = "reusing" /\ UNCHANGED <<tables, world, history>>
    BY DEF ReuseBlocked
  <1>1. CASE blocked # {}
    <2>1. BlockForecast(c, Newest(blocked))
      BY <1>1 DEF ReuseBlocked
    <2>2. Newest(blocked) \in blocked
      BY <1>1, NewestType DEF IInv
    <2> QED
      BY <1>0, <2>1, <2>2, BlockForecastInv
  <1>2. CASE blocked = {}
    <2>1. /\ pc'[c] = "seeking" /\ session' = session
          /\ Elsewhere(c) /\ SameTables /\ UNCHANGED <<files, open, clobbered, lastId, seen>>
      BY <1>2, SessionFact DEF ReuseBlocked, SameTables, tables,
         Goto, Elsewhere, world, history, IInv, TypeOK
    <2>2. ForecastMove(c, s.forecast)
      BY <1>0, <2>1 DEF ForecastMove, Parts
    <2>3. Artifacts' = Artifacts /\ trainings' = trainings
      BY <2>1 DEF SameTables, Artifacts
    <2>4. ForecastHeldBy(c)'
      BY <1>0, <2>1, <2>3, RunningForecast DEF ForecastHeldBy, Building
    <2> QED
      BY <2>2, <2>4, ForecastStep
  <1> QED
    BY <1>1, <1>2

LEMMA LoadModelInv ==
  ASSUME IInv, TypeOK', NEW c \in Commands, LoadModel(c)
  PROVE  IInv'
  <1> DEFINE s == session[c]
             content == files[trainings[s.forecast.artifact].file]
  <1>0. pc[c] = "loading" /\ UNCHANGED <<tables, world, history>>
    BY DEF LoadModel
  <1>1. CASE content \in Fits /\ SnapshotOf(c).complete
    <2> DEFINE forecast == [s.forecast EXCEPT !.status = "succeeded", !.model = content]
    <2>1. /\ pc'[c] = "committing"
          /\ Elsewhere(c) /\ SameTables /\ UNCHANGED <<files, open, clobbered, lastId, seen>>
      BY <1>1, SessionFact DEF LoadModel, SameTables, tables,
         Goto, Elsewhere, world, history, IInv, TypeOK
    <2>2. session'[c] = [s EXCEPT !.forecast.status = "succeeded", !.forecast.model = content]
      BY <1>1, SessionFact DEF LoadModel, IInv, TypeOK
    <2> HIDE DEF content
    <2>3. Parts(session'[c], s.issue, s.owner, s.gates, s.blocked, s.snap, s.training,
                forecast, s.summary)
      BY <2>2, SessionFact DEF Parts, Session, ForecastRow
    <2>4. /\ forecast.status = "succeeded" /\ forecast.model = content
          /\ forecast.artifact = s.forecast.artifact
          /\ forecast.issue = s.forecast.issue /\ forecast.snap = s.forecast.snap
      BY SessionFact DEF ForecastRow
    <2> HIDE DEF forecast
    <2>5. ForecastMove(c, forecast)
      BY <1>0, <2>1, <2>3 DEF ForecastMove
    <2>6. SnapshotOf(c)' = SnapshotOf(c)
      BY <2>1, <2>3, <2>4 DEF SnapshotOf, Parts, SameTables
    <2>7. Artifacts' = Artifacts /\ trainings' = trainings
      BY <2>1 DEF SameTables, Artifacts
    <2>8. ForecastHeldBy(c)
      BY SessionFact DEF HeldBy
    <2>9. ForecastHeldBy(c)'
      BY <1>0, <1>1, <2>1, <2>3, <2>4, <2>6, <2>7, <2>8, RunningForecast
         DEF Parts, ForecastHeldBy
    <2> QED
      BY <2>5, <2>9, ForecastStep
  <1>2. CASE ~(content \in Fits /\ SnapshotOf(c).complete)
    <2>1. BlockForecast(c, s.forecast.snap)
      BY <1>2 DEF LoadModel
    <2> QED
      BY <1>0, <2>1, BlockForecastInv
  <1> QED
    BY <1>1, <1>2

-----------------------------------------------------------------------------
(* The training *)

(* A step that changes nothing of the session but the training. *)
TrainingMove(c, training) ==
    /\ Elsewhere(c) /\ SameTables /\ UNCHANGED <<files, open, clobbered, lastId, seen>>
    /\ Parts(session'[c], session[c].issue, session[c].owner, session[c].gates,
             session[c].blocked, session[c].snap, training, session[c].forecast,
             session[c].summary)
    /\ pc[c] \in Training \cup {"idle"}
    /\ pc'[c] \in Training \cup {"committing"}

LEMMA TrainingStep ==
  ASSUME IInv, TypeOK', NEW c \in Commands, NEW training, TrainingMove(c, training),
         TrainingHeldBy(c)', FileHeldBy(c)', WroteArtifact(c)' => HashesApart'
  PROVE  IInv'
  <1>1. /\ Elsewhere(c) /\ SameTables /\ UNCHANGED <<files, open, clobbered, lastId, seen>>
        /\ Parts(session'[c], session[c].issue, session[c].owner, session[c].gates,
                 session[c].blocked, session[c].snap, session'[c].training,
                 session[c].forecast, session'[c].summary)
        /\ session'[c].summary = session[c].summary
        /\ pc[c] \in Beside \cup {"idle"} /\ pc'[c] \in Beside \cup {"committing"}
        /\ pc[c] \notin {"recording", "committing"}
    BY DEF TrainingMove, Parts, Beside, Training, Writing
  <1>2. SummaryHeldBy(c)' /\ ~WroteSummary(c)'
    BY <1>1, SummaryKept
  <1>3. HashesApart' /\ SummariesApart'
    BY <1>1, <1>2, OthersApart DEF SameTables, tables
  <1> QED
    BY <1>1, <1>2, <1>3, WorkerStep

LEMMA StartTrainingInv ==
  ASSUME IInv, TypeOK', NEW c \in Commands, NEW v \in Versions, NEW f \in Files,
         StartTraining(c, v, f)
  PROVE  IInv'
  <1> DEFINE training == [NoTraining EXCEPT !.status = "running", !.version = v, !.file = f]
  <1>1. /\ pc[c] = "idle" /\ pc'[c] = "fitting"
        /\ session[c] = NoSession
        /\ Elsewhere(c)
        /\ SameTables /\ UNCHANGED <<files, open, clobbered, lastId, seen>>
    BY IdleFact, SessionFact DEF StartTraining, Starts, SameTables, tables,
       Goto, Elsewhere, world, history, IInv, TypeOK
  <1>2. Parts(session'[c], session[c].issue, session[c].owner, session[c].gates,
              session[c].blocked, session[c].snap, training, session[c].forecast,
              session[c].summary)
    <2>1. session'[c] = [session[c] EXCEPT !.training = training]
      BY <1>1, SessionFact DEF StartTraining, NoSession, IInv, TypeOK
    <2> QED
      BY <2>1, SessionFact DEF Parts, Session
  <1>3. training.file = f /\ training.hash = Null /\ training.rows = {}
    BY DEF NoTraining
  <1> HIDE DEF training
  <1>4. TrainingHeldBy(c)' /\ FileHeldBy(c)' /\ ~WroteArtifact(c)'
    BY <1>1, <1>2, <1>3 DEF Parts, TrainingHeldBy, FileHeldBy, WroteArtifact, Writing
  <1>5. TrainingMove(c, training)
    BY <1>1, <1>2 DEF TrainingMove, Training
  <1> QED
    BY <1>4, <1>5, TrainingStep

LEMMA FitCandidateInv ==
  ASSUME IInv, TypeOK', NEW c \in Commands, FitCandidate(c)
  PROVE  IInv'
  <1> DEFINE s == session[c]
             t == s.training
  <1>0. PICK rows \in (SUBSET Usable(t.version)) \ {{}}, fit \in Fits, selected \in BOOLEAN :
           session' = [session EXCEPT ![c].training.rows = rows,
                                      ![c].training.fit = fit,
                                      ![c].training.selected = selected]
    BY Zenon DEF FitCandidate
  <1> DEFINE training == [t EXCEPT !.rows = rows, !.fit = fit, !.selected = selected]
  <1>1. /\ pc[c] = "fitting" /\ pc'[c] = "truncating"
        /\ Elsewhere(c)
        /\ SameTables /\ UNCHANGED <<files, open, clobbered, lastId, seen>>
    BY SessionFact DEF FitCandidate, SameTables, tables,
       Goto, Elsewhere, world, history, IInv, TypeOK
  <1>2. Parts(session'[c], s.issue, s.owner, s.gates, s.blocked, s.snap, training,
              s.forecast, s.summary)
    <2>1. session'[c] = [s EXCEPT !.training.rows = rows, !.training.fit = fit,
                                  !.training.selected = selected]
      BY <1>0, SessionFact DEF IInv, TypeOK
    <2> QED
      BY <2>1, SessionFact DEF Parts, Session, TrainingRow
  <1>3. /\ training.file = t.file /\ training.hash = t.hash
        /\ training.rows = rows /\ training.fit = fit
    BY SessionFact DEF TrainingRow
  <1>4. t.file \in Files /\ t.hash = Null
    BY <1>1, SessionFact DEF HeldBy, TrainingHeldBy, Training
  <1> HIDE DEF training
  <1>5. \A d \in rows : snaps[d].status = "succeeded"
    BY DEF Usable
  <1>6. TrainingHeldBy(c)' /\ FileHeldBy(c)' /\ ~WroteArtifact(c)'
    BY <1>1, <1>2, <1>3, <1>4, <1>5
       DEF Parts, TrainingHeldBy, FileHeldBy, WroteArtifact, SameTables
  <1>7. TrainingMove(c, training)
    BY <1>1, <1>2 DEF TrainingMove, Training, Writing
  <1> QED
    BY <1>6, <1>7, TrainingStep

LEMMA FailTrainingInv ==
  ASSUME IInv, TypeOK', NEW c \in Commands, FailTraining(c)
  PROVE  IInv'
  <1> DEFINE s == session[c]
             training == [NoTraining EXCEPT !.status = "failed", !.version = s.training.version]
  <1>1. /\ pc[c] \in {"fitting", "truncating", "dumping"} /\ pc'[c] = "committing"
        /\ Elsewhere(c)
        /\ SameTables /\ UNCHANGED <<files, open, clobbered, lastId, seen>>
    BY SessionFact DEF FailTraining, SameTables, tables,
       Goto, Elsewhere, world, history, IInv, TypeOK
  <1>2. Parts(session'[c], s.issue, s.owner, s.gates, s.blocked, s.snap, training,
              s.forecast, s.summary)
    <2>1. session'[c] = [s EXCEPT !.training = training]
      BY SessionFact DEF FailTraining, IInv, TypeOK
    <2> QED
      BY <2>1, SessionFact DEF Parts, Session
  <1>3. training.hash = Null /\ training.rows = {}
    BY DEF NoTraining
  <1> HIDE DEF training
  <1>4. TrainingHeldBy(c)' /\ FileHeldBy(c)' /\ ~WroteArtifact(c)'
    BY <1>1, <1>2, <1>3
       DEF Parts, TrainingHeldBy, FileHeldBy, WroteArtifact, Training, Writing
  <1>5. TrainingMove(c, training)
    BY <1>1, <1>2 DEF TrainingMove, Training, Writing
  <1> QED
    BY <1>4, <1>5, TrainingStep

(* An undisturbed file still holds what was dumped. *)
LEMMA HashFileInv ==
  ASSUME IInv, TypeOK', NEW c \in Commands, HashFile(c)
  PROVE  IInv'
  <1> DEFINE s == session[c]
             t == s.training
             training == [t EXCEPT !.hash = files[t.file]]
  <1>1. /\ pc[c] = "hashing" /\ pc'[c] = "storing"
        /\ Elsewhere(c)
        /\ SameTables /\ UNCHANGED <<files, open, clobbered, lastId, seen>>
    BY SessionFact DEF HashFile, SameTables, tables,
       Goto, Elsewhere, world, history, IInv, TypeOK
  <1>2. Parts(session'[c], s.issue, s.owner, s.gates, s.blocked, s.snap, training,
              s.forecast, s.summary)
    <2>1. session'[c] = [s EXCEPT !.training.hash = files[t.file]]
      BY SessionFact DEF HashFile, IInv, TypeOK
    <2> QED
      BY <2>1, SessionFact DEF Parts, Session, TrainingRow
  <1>3. /\ training.file = t.file /\ training.hash = files[t.file]
        /\ training.rows = t.rows /\ training.fit = t.fit
    BY SessionFact DEF TrainingRow
  <1>4. /\ t.file \in Files /\ t.fit \in Fits /\ \A d \in t.rows : snaps[d].status = "succeeded"
        /\ c \notin clobbered => files[t.file] = t.fit
    BY <1>1, SessionFact DEF HeldBy, TrainingHeldBy, FileHeldBy, Training, Writing
  <1>5. files[t.file] # Null
    BY <1>4, ForecastingAssumption DEF IInv, TypeOK, Contents
  <1> HIDE DEF training
  <1>6. TrainingHeldBy(c)' /\ FileHeldBy(c)' /\ ~WroteArtifact(c)'
    BY <1>1, <1>2, <1>3, <1>4, <1>5
       DEF Parts, TrainingHeldBy, FileHeldBy, WroteArtifact, SameTables
  <1>7. TrainingMove(c, training)
    BY <1>1, <1>2 DEF TrainingMove, Training, Writing
  <1> QED
    BY <1>6, <1>7, TrainingStep

(* No twin of the artifact is committed (ArtifactTaken) or written. *)
LEMMA StoreArtifactInv ==
  ASSUME IInv, TypeOK', NEW c \in Commands, StoreArtifact(c)
  PROVE  IInv'
  <1> DEFINE s == session[c]
             t == s.training
             training == [t EXCEPT !.status = "succeeded"]
  <1>1. /\ pc[c] = "storing" /\ pc'[c] = "committing"
        /\ ~ArtifactBusy(c) /\ ~ArtifactTaken(c)
        /\ Elsewhere(c)
        /\ SameTables /\ UNCHANGED <<files, open, clobbered, lastId, seen>>
    BY SessionFact DEF StoreArtifact, SameTables, tables,
       Goto, Elsewhere, world, history, IInv, TypeOK
  <1>2. Parts(session'[c], s.issue, s.owner, s.gates, s.blocked, s.snap, training,
              s.forecast, s.summary)
    <2>1. session'[c] = [s EXCEPT !.training.status = "succeeded"]
      BY SessionFact DEF StoreArtifact, IInv, TypeOK
    <2> QED
      BY <2>1, SessionFact DEF Parts, Session, TrainingRow
  <1>3. /\ training.file = t.file /\ training.hash = t.hash
        /\ training.rows = t.rows /\ training.fit = t.fit
    BY SessionFact DEF TrainingRow
  <1> HIDE DEF training
  <1>4. TrainingHeldBy(c)' /\ FileHeldBy(c)'
    BY <1>1, <1>2, <1>3, SessionFact
       DEF Parts, HeldBy, TrainingHeldBy, FileHeldBy, SameTables, Training, Writing
  <1>5. HashesApart'
    <2>1. t.hash # Null /\ session'[c].training.hash = t.hash
      BY <1>1, <1>2, <1>3, SessionFact DEF Parts, HeldBy, TrainingHeldBy
    <2>2. \A d \in Commands : t.hash # trainings[d].hash
      BY <1>1, <2>1 DEF ArtifactTaken
    <2>3. \A d \in Commands \ {c} : WroteArtifact(d) => session[d].training.hash # t.hash
      BY <1>1 DEF ArtifactBusy
    <2>4. trainings' = trainings /\ HashesApart
      BY <1>1 DEF SameTables, IInv, Apart
    <2>5. \A d \in Commands \ {c} :
             session'[d] = session[d] /\ (WroteArtifact(d)' <=> WroteArtifact(d))
      BY <1>1 DEF Elsewhere, WroteArtifact
    <2> SUFFICES ASSUME NEW x \in Commands, NEW y \in Commands, x # y
                 PROVE  /\ trainings'[x].hash # Null => trainings'[x].hash # trainings'[y].hash
                        /\ WroteArtifact(x)' =>
                              /\ session'[x].training.hash # trainings'[y].hash
                              /\ WroteArtifact(y)' =>
                                    session'[x].training.hash # session'[y].training.hash
      BY DEF HashesApart
    <2>6. trainings'[x].hash # Null => trainings'[x].hash # trainings'[y].hash
      BY <2>4 DEF HashesApart
    <2>7. CASE x = c
      BY <2>1, <2>2, <2>3, <2>4, <2>5, <2>6, <2>7
    <2>8. CASE x # c /\ y = c
      <3>1. WroteArtifact(x)' => session'[x].training.hash # trainings'[y].hash
        BY <2>4, <2>5, <2>8 DEF HashesApart
      <3>2. WroteArtifact(x)' => session'[x].training.hash # t.hash
        BY <2>3, <2>5, <2>8
      <3> QED
        BY <2>1, <2>6, <2>8, <3>1, <3>2
    <2>9. CASE x # c /\ y # c
      BY <2>4, <2>5, <2>9 DEF HashesApart
    <2> QED
      BY <2>7, <2>8, <2>9
  <1>6. TrainingMove(c, training)
    BY <1>1, <1>2 DEF TrainingMove, Training, Writing
  <1> QED
    BY <1>4, <1>5, <1>6, TrainingStep

-----------------------------------------------------------------------------
(* The summary *)

(* A step that changes nothing of the session but the summary. *)
SummaryMove(c, summary) ==
    /\ Elsewhere(c) /\ SameTables /\ UNCHANGED <<files, open, clobbered, lastId, seen>>
    /\ Parts(session'[c], session[c].issue, session[c].owner, session[c].gates,
             session[c].blocked, session[c].snap, session[c].training,
             session[c].forecast, summary)
    /\ pc[c] \in {"idle", "counting", "recording"}
    /\ pc'[c] \in {"counting", "recording", "committing"}

LEMMA SummaryStep ==
  ASSUME IInv, TypeOK', NEW c \in Commands, NEW summary, SummaryMove(c, summary),
         SummaryHeldBy(c)', WroteSummary(c)' => SummariesApart'
  PROVE  IInv'
  <1>1. /\ Elsewhere(c) /\ SameTables /\ UNCHANGED <<files, open, clobbered, lastId, seen>>
        /\ Parts(session'[c], session[c].issue, session[c].owner, session[c].gates,
                 session[c].blocked, session[c].snap, session'[c].training,
                 session[c].forecast, session'[c].summary)
        /\ session'[c].training = session[c].training
        /\ pc[c] \in Beside \cup {"idle"} /\ pc'[c] \in Beside \cup {"committing"}
        /\ pc[c] \notin Training \cup {"committing"} /\ pc'[c] \notin Training
    BY DEF SummaryMove, Parts, Beside, Training, Writing
  <1>2. TrainingHeldBy(c)' /\ FileHeldBy(c)' /\ ~WroteArtifact(c)'
    BY <1>1, TrainingKept
  <1>3. HashesApart' /\ SummariesApart'
    BY <1>1, <1>2, OthersApart DEF SameTables, tables
  <1> QED
    BY <1>1, <1>2, <1>3, WorkerStep

LEMMA StartSummaryInv ==
  ASSUME IInv, TypeOK', NEW c \in Commands, NEW a \in Commands, NEW w \in Windows,
         StartSummary(c, a, w)
  PROVE  IInv'
  <1> DEFINE summary == [status |-> "stored", artifact |-> a, window |-> w, counted |-> {}]
  <1>1. /\ pc[c] = "idle" /\ pc'[c] = "counting" /\ a \in Artifacts
        /\ session[c] = NoSession
        /\ Elsewhere(c)
        /\ SameTables /\ UNCHANGED <<files, open, clobbered, lastId, seen>>
    BY IdleFact, SessionFact DEF StartSummary, Starts, SameTables, tables,
       Goto, Elsewhere, world, history, IInv, TypeOK
  <1>2. Parts(session'[c], session[c].issue, session[c].owner, session[c].gates,
              session[c].blocked, session[c].snap, session[c].training,
              session[c].forecast, summary)
    <2>1. session'[c] = [session[c] EXCEPT !.summary = summary]
      BY <1>1, SessionFact DEF StartSummary, NoSession, IInv, TypeOK
    <2> QED
      BY <2>1, SessionFact DEF Parts, Session
  <1>3. SummaryHeldBy(c)' /\ ~WroteSummary(c)'
    BY <1>1, <1>2 DEF Parts, SummaryHeldBy, WroteSummary, SameTables, Artifacts
  <1>4. SummaryMove(c, summary)
    BY <1>1, <1>2 DEF SummaryMove
  <1> QED
    BY <1>3, <1>4, SummaryStep

LEMMA CountPerformanceInv ==
  ASSUME IInv, TypeOK', NEW c \in Commands, CountPerformance(c)
  PROVE  IInv'
  <1> DEFINE s == session[c]
  <1>0. PICK counted \in SUBSET {f \in Commands : /\ forecasts[f].status = "succeeded"
                                                  /\ forecasts[f].artifact = s.summary.artifact} :
           session' = [session EXCEPT ![c].summary.counted = counted]
    BY DEF CountPerformance
  <1> DEFINE summary == [s.summary EXCEPT !.counted = counted]
  <1>1. /\ pc[c] = "counting" /\ pc'[c] = "recording"
        /\ Elsewhere(c)
        /\ SameTables /\ UNCHANGED <<files, open, clobbered, lastId, seen>>
    BY SessionFact DEF CountPerformance, SameTables, tables,
       Goto, Elsewhere, world, history, IInv, TypeOK
  <1>2. Parts(session'[c], s.issue, s.owner, s.gates, s.blocked, s.snap, s.training,
              s.forecast, summary)
    <2>1. session'[c] = [s EXCEPT !.summary.counted = counted]
      BY <1>0, SessionFact DEF IInv, TypeOK
    <2> QED
      BY <2>1, SessionFact DEF Parts, Session, SummaryRow
  <1>3. summary.artifact = s.summary.artifact /\ summary.counted = counted
    BY SessionFact DEF SummaryRow
  <1> HIDE DEF summary
  <1>4. SummaryHeldBy(c)' /\ ~WroteSummary(c)'
    BY <1>1, <1>2, <1>3, SessionFact
       DEF Parts, HeldBy, SummaryHeldBy, WroteSummary, SameTables, Artifacts
  <1>5. SummaryMove(c, summary)
    BY <1>1, <1>2 DEF SummaryMove
  <1> QED
    BY <1>4, <1>5, SummaryStep

(* No twin of the summary is committed (SummaryTaken) or written. *)
LEMMA StoreSummaryInv ==
  ASSUME IInv, TypeOK', NEW c \in Commands, StoreSummary(c)
  PROVE  IInv'
  <1> DEFINE m == session[c].summary
  <1>1. /\ pc[c] = "recording" /\ pc'[c] = "committing" /\ session' = session
        /\ ~SummaryBusy(c) /\ ~SummaryTaken(c)
        /\ Elsewhere(c)
        /\ SameTables /\ UNCHANGED <<files, open, clobbered, lastId, seen>>
    BY SessionFact DEF StoreSummary, SameTables, tables,
       Goto, Elsewhere, world, history, IInv, TypeOK
  <1>2. SummaryHeldBy(c)'
    BY <1>1, SessionFact DEF HeldBy, SummaryHeldBy, SameTables, Artifacts
  <1>3. SummariesApart'
    <2>1. \A d \in Commands : ~SameSummary(m, summaries[d])
      BY <1>1 DEF SummaryTaken, SameSummary
    <2>2. \A d \in Commands \ {c} : WroteSummary(d) => ~SameSummary(session[d].summary, m)
      BY <1>1 DEF SummaryBusy
    <2>3. summaries' = summaries /\ SummariesApart
      BY <1>1 DEF SameTables, IInv, Apart
    <2>4. \A d \in Commands \ {c} : WroteSummary(d)' <=> WroteSummary(d)
      BY <1>1 DEF Elsewhere, WroteSummary
    <2> SUFFICES ASSUME NEW x \in Commands, NEW y \in Commands, x # y
                 PROVE  /\ ~SameSummary(summaries[x], summaries[y])
                        /\ WroteSummary(x)' =>
                              /\ ~SameSummary(session[x].summary, summaries[y])
                              /\ WroteSummary(y)' =>
                                    ~SameSummary(session[x].summary, session[y].summary)
      BY <1>1 DEF SummariesApart, SameSummary, SameTables
    <2>5. CASE x = c
      BY <2>1, <2>2, <2>3, <2>4, <2>5 DEF SummariesApart, SameSummary
    <2>6. CASE x # c /\ y = c
      BY <2>2, <2>3, <2>4, <2>6 DEF SummariesApart
    <2>7. CASE x # c /\ y # c
      BY <2>3, <2>4, <2>7 DEF SummariesApart
    <2> QED
      BY <2>5, <2>6, <2>7
  <1>4. SummaryMove(c, m)
    BY <1>1 DEF SummaryMove, Parts
  <1> QED
    BY <1>2, <1>3, <1>4, SummaryStep

-----------------------------------------------------------------------------
(* The end of a command: what is rolled back ...                           *)

LEMMA RollbackInv ==
  ASSUME IInv, TypeOK', NEW c \in Commands, Rollback(c), pc[c] # "done"
  PROVE  IInv'
  <1>1. /\ pc'[c] = "lost" /\ session'[c] = NoSession
        /\ Elsewhere(c)
        /\ SameTables /\ UNCHANGED <<tables, files, open, clobbered, lastId>>
    BY SessionFact DEF Rollback, SameTables, tables, Goto, Elsewhere, world, IInv, TypeOK
  <1>2. Parts(session'[c], NoIssue, 0, 0, FALSE, NoSnap, NoTraining, NoForecast, NoSummary)
    BY <1>1 DEF Parts, NoSession
  <1>3. RestingBy(c)' /\ IssueHeldBy(c)' /\ SnapHeldBy(c)' /\ TrainingHeldBy(c)'
    BY <1>1, <1>2, SessionFact
       DEF Parts, RestingBy, IssueHeldBy, SnapHeldBy, NoSnap, TrainingHeldBy, NoTraining,
           Training, Writing
  <1>4. ForecastHeldBy(c)' /\ SummaryHeldBy(c)' /\ FileHeldBy(c)' /\ GateNoticedBy(c)'
    BY <1>1, <1>2
       DEF Parts, ForecastHeldBy, NoForecast, SummaryHeldBy, NoSummary, FileHeldBy, NoTraining,
           GateNoticedBy, NoSnap
  <1>5. ~WroteIssue(c)' /\ ~WroteArtifact(c)' /\ ~WroteSummary(c)'
    BY <1>1, <1>2, ForecastingAssumption
       DEF Parts, WroteIssue, WroteArtifact, WroteSummary, Commands
  <1>6. HeldBy(c)'
    BY <1>3, <1>4 DEF HeldBy
  <1>7. lastId' >= lastId
    BY <1>1, SessionFact
  <1> QED
    BY <1>1, <1>5, <1>6, <1>7, NothingWritten, PlainStep

(* ... what is written to a file ...                                       *)
LEMMA WriteFileInv ==
  ASSUME IInv, TypeOK', NEW c \in Commands, NEW content, WriteFile(c, content),
         UNCHANGED <<tables, lastId, open, session, seen>>,
         \/ pc[c] = "truncating" /\ Goto(c, "dumping")
         \/ pc[c] = "dumping" /\ Goto(c, "hashing") /\ content = session[c].training.fit
  PROVE  IInv'
  <1> DEFINE t == session[c].training
             f == t.file
  <1>1. /\ Elsewhere(c) /\ SameTables /\ session' = session
        /\ pc[c] \in {"truncating", "dumping"} /\ pc'[c] \in {"dumping", "hashing"}
        /\ pc'[c] = "hashing" => content = t.fit
    BY SessionFact DEF SameTables, tables, Goto, Elsewhere, IInv, TypeOK
  <1>2. f \in Files /\ t.fit \in Fits /\ t.hash = Null /\ \A d \in t.rows : snaps[d].status = "succeeded"
    BY <1>1, SessionFact DEF HeldBy, TrainingHeldBy, Training, Writing
  <1>3. /\ files' = [files EXCEPT ![f] = content] /\ files \in [Files -> Contents]
        /\ clobbered' = (clobbered \cup {d \in Commands : FileOf(d) = f}) \ {c}
    BY DEF WriteFile, IInv, TypeOK
  <1>4. trainings[c] = NoTraining
    BY <1>1 DEF IInv, Uncommitted
  <1>5. lastId' >= lastId
    BY SessionFact
  <1>6. Held'
    <2>1. ASSUME NEW d \in Commands, d # c PROVE HeldBy(d)'
      <3>1. pc'[d] = pc[d] /\ HeldBy(d)
        BY <1>1, <2>1, SessionFact DEF Elsewhere
      <3>2. FileHeldBy(d)'
        <4> SUFFICES ASSUME d \notin clobbered',
                            pc[d] = "hashing" \/ session[d].training.hash # Null
                     PROVE  files'[session[d].training.file] = files[session[d].training.file]
          BY <1>1, <1>3, <2>1, <3>1 DEF HeldBy, FileHeldBy
        <4>1. session[d].training.file \in Files
          BY <3>1 DEF HeldBy, TrainingHeldBy, Training, Writing
        <4>2. pc[d] # "done"
          BY <3>1 DEF HeldBy, RestingBy, Open, NoSession, NoTraining
        <4>3. FileOf(d) = session[d].training.file
          BY <4>2 DEF FileOf, IInv, Uncommitted, NoTraining
        <4>4. session[d].training.file # f
          BY <1>3, <2>1, <4>3
        <4> QED
          BY <1>2, <1>3, <4>1, <4>4
      <3> QED
        BY <1>1, <1>5, <2>1, <3>2, OthersKeep DEF HeldBy
    <2>2. HeldBy(c)'
      <3>1. IssueHeldBy(c)' /\ SnapHeldBy(c)' /\ ForecastHeldBy(c)' /\ GateNoticedBy(c)'
        BY <1>1, BuildKept DEF Parts, Beside, Training, Writing
      <3>2. SummaryHeldBy(c)'
        BY <1>1, SummaryKept
      <3>3. RestingBy(c)' /\ TrainingHeldBy(c)'
        BY <1>1, <1>2 DEF RestingBy, Open, TrainingHeldBy, SameTables
      <3>4. FileHeldBy(c)'
        BY <1>1, <1>2, <1>3 DEF FileHeldBy
      <3> QED
        BY <3>1, <3>2, <3>3, <3>4 DEF HeldBy
    <2> QED
      BY <2>1, <2>2 DEF Held
  <1>7. UndisturbedArtifacts'
    <2> SUFFICES ASSUME NEW a \in Artifacts, a \notin clobbered'
                 PROVE  /\ trainings[a].hash = trainings[a].fit
                        /\ files'[trainings[a].file] = trainings[a].fit
      BY <1>1 DEF UndisturbedArtifacts, Artifacts, SameTables
    <2>1. a \in Commands /\ trainings[a].hash # Null /\ trainings[a].file \in Files
      BY DEF Artifacts, IInv, RowsHeld
    <2>2. a # c
      BY <1>4, <2>1 DEF NoTraining
    <2>3. FileOf(a) = trainings[a].file
      BY <2>1, ForecastingAssumption DEF FileOf
    <2>4. trainings[a].file # f /\ a \notin clobbered
      BY <1>3, <2>1, <2>2, <2>3
    <2>5. files'[trainings[a].file] = files[trainings[a].file]
      BY <1>2, <1>3, <2>1, <2>4
    <2> QED
      BY <2>4, <2>5 DEF IInv, UndisturbedArtifacts
  <1>8. Apart'
    <2>1. ~WroteArtifact(c)' /\ ~WroteSummary(c)'
      BY <1>1 DEF WroteArtifact, WroteSummary
    <2> QED
      BY <1>1, <2>1, NothingWritten DEF WroteIssue, SameIssue
  <1>9. Uncommitted' /\ IdsBelow' /\ RowsHeld' /\ IssueFollowsRuns' /\ ForecastsTrace'
    <2>1. Uncommitted' /\ IdsBelow'
      BY <1>1 DEF IInv, Uncommitted, IdsBelow, SameTables, Elsewhere
    <2>2. RowsHeld' /\ IssueFollowsRuns' /\ ForecastsTrace'
      BY <1>1 DEF IInv, RowsHeld, IssueFollowsRuns, SameIssue, ForecastsTrace, Artifacts,
         SameTables
    <2> QED
      BY <2>1, <2>2
  <1> QED
    BY <1>6, <1>7, <1>8, <1>9 DEF IInv

(* ... and what a quality run changes in between.                          *)
LEMMA QualityRunInv ==
  ASSUME IInv, TypeOK', NEW d \in Datasets, QualityRunCompletes(d)
  PROVE  IInv'
  <1>1. /\ SameTables /\ UNCHANGED <<lastId, files, pc, session, clobbered>>
        /\ open' = [open EXCEPT ![d] = ~open[d]]
    BY DEF QualityRunCompletes, SameTables, tables
  <1>2. Held'
    <2> SUFFICES ASSUME NEW c \in Commands PROVE HeldBy(c)'
      BY DEF Held
    <2>1. HeldBy(c)
      BY SessionFact
    <2>2. RestingBy(c)' /\ IssueHeldBy(c)' /\ SnapHeldBy(c)' /\ TrainingHeldBy(c)'
      BY <1>1, <2>1 DEF HeldBy, RestingBy, Open, IssueHeldBy, SameIssue, SnapHeldBy, Settles,
         TrainingHeldBy, SameTables
    <2>3. ForecastHeldBy(c)' /\ SummaryHeldBy(c)' /\ FileHeldBy(c)'
      BY <1>1, <2>1 DEF HeldBy, ForecastHeldBy, SnapshotOf, Artifacts, SummaryHeldBy, FileHeldBy,
         SameTables
    <2>4. seen'[c] = IF pc[c] = "gating" THEN [seen[c] EXCEPT ![d] = @ \cup {~open[d]}]
                     ELSE seen[c]
      BY DEF QualityRunCompletes
    <2>5. seen[c] \in [Datasets -> SUBSET BOOLEAN] /\ open \in [Datasets -> BOOLEAN]
      BY DEF IInv, TypeOK
    <2>6. \A e \in Datasets : seen[c][e] \subseteq seen'[c][e]
      BY <2>4, <2>5
    <2>7. /\ SeenShut(c) => SeenShut(c)'
          /\ \A e \in Datasets : SeenOpen(c, e) => SeenOpen(c, e)'
      BY <2>6 DEF SeenShut, SeenOpen
    <2>8. pc[c] = "gating" => Watched(c)'
      <3> SUFFICES ASSUME pc[c] = "gating", NEW e \in Datasets PROVE open'[e] \in seen'[c][e]
        BY DEF Watched
      <3>1. open[e] \in seen[c][e]
        BY <2>1 DEF HeldBy, GateNoticedBy, Watched
      <3>2. CASE e = d
        BY <1>1, <2>4, <2>5, <3>2
      <3>3. CASE e # d
        BY <1>1, <2>4, <2>5, <3>1, <3>3
      <3> QED
        BY <3>2, <3>3
    <2>9. GateNoticedBy(c)'
      <3>1. GateNoticedBy(c)
        BY <2>1 DEF HeldBy
      <3>2. \A k \in 1..session[c].gates : k \in 1..Len(Required) /\ Required[k] \in Datasets
        <4>1. session[c].gates \in 0..Len(Required) /\ Len(Required) \in Nat
          BY SessionFact, ForecastingAssumption DEF Session
        <4> QED
          BY <4>1, RequiredDatasets
      <3> QED
        BY <1>1, <2>7, <2>8, <3>1, <3>2 DEF GateNoticedBy
    <2> QED
      BY <2>2, <2>3, <2>9 DEF HeldBy
  <1>3. Uncommitted' /\ IdsBelow' /\ RowsHeld'
    BY <1>1 DEF IInv, Uncommitted, IdsBelow, RowsHeld, Artifacts, SameTables
  <1>4. IssueFollowsRuns' /\ ForecastsTrace' /\ UndisturbedArtifacts'
    BY <1>1 DEF IInv, IssueFollowsRuns, SameIssue, ForecastsTrace, UndisturbedArtifacts, Artifacts,
       SameTables
  <1>5. Apart'
    BY <1>1 DEF IInv, Apart, IssuesApart, HashesApart, SummariesApart, WroteIssue, WroteArtifact,
       WroteSummary, SameIssue, SameSummary, SameTables
  <1> QED
    BY <1>2, <1>3, <1>4, <1>5 DEF IInv

-----------------------------------------------------------------------------
(* The commit *)

(* What c's commit changes and what it keeps: the rows of the others are   *)
(* as they were, but for the status of the issue that c's snapshot         *)
(* settles.                                                                *)
LEMMA CommitFacts ==
  ASSUME IInv, NEW c \in Commands, Commit(c)
  PROVE  /\ pc[c] = "committing" /\ pc'[c] = "done" /\ session'[c] = NoSession
         /\ Elsewhere(c)
         /\ UNCHANGED <<lastId, files, open, clobbered>>
         /\ snaps' = [snaps EXCEPT ![c] = session[c].snap]
         /\ trainings' = [trainings EXCEPT ![c] = session[c].training]
         /\ forecasts' = [forecasts EXCEPT ![c] = session[c].forecast]
         /\ summaries' = [summaries EXCEPT ![c] = session[c].summary]
         /\ issues[c] = NoIssue /\ snaps[c] = NoSnap /\ trainings[c] = NoTraining
         /\ forecasts[c] = NoForecast /\ summaries[c] = NoSummary
  <1>1. pc[c] = "committing" /\ pc'[c] = "done"
    BY SessionFact DEF Commit, Goto, IInv, TypeOK
  <1>2. session'[c] = NoSession /\ Elsewhere(c) /\ UNCHANGED <<lastId, files, open, clobbered>>
    BY DEF Commit, Goto, Elsewhere, world, IInv, TypeOK
  <1>3. /\ issues[c] = NoIssue /\ snaps[c] = NoSnap /\ trainings[c] = NoTraining
        /\ forecasts[c] = NoForecast /\ summaries[c] = NoSummary
    BY <1>1 DEF IInv, Uncommitted
  <1> QED
    BY <1>1, <1>2, <1>3 DEF Commit

(* The issue rows: c's own appears, the one c found changes at most its    *)
(* status, to what c's snapshot says.                                      *)
LEMMA CommitIssues ==
  ASSUME IInv, NEW c \in Commands, Commit(c), NEW x \in Commands
  PROVE  \/ issues'[x] = issues[x]
         \/ /\ x = session[c].owner
            /\ issues'[x].status = session[c].issue.status
            /\ issues'[x].status # "absent"
            /\ SameIssue(issues'[x], session[c].issue)
            /\ \/ x = c
               \/ issues[x].status # "absent" /\ SameIssue(issues'[x], issues[x])
  <1> DEFINE s == session[c]
  <1>1. issues[x] \in IssueRow /\ issues \in [Commands -> IssueRow]
    BY DEF IInv, TypeOK
  <1>2. IssueHeldBy(c)
    BY SessionFact DEF HeldBy
  <1>3. CASE s.owner = c
    <2>1. issues' = [issues EXCEPT ![c] = s.issue]
      BY <1>3 DEF Commit
    <2>2. c # 0
      BY ForecastingAssumption DEF Commands
    <2>3. s.issue.status # "absent"
      BY <1>2, <1>3, <2>2 DEF IssueHeldBy
    <2> QED
      BY <1>1, <1>3, <2>1, <2>3 DEF SameIssue
  <1>4. CASE s.owner # c /\ s.owner # 0 /\ s.issue.status # s.was
    <2>1. issues' = [issues EXCEPT ![s.owner].status = s.issue.status]
      BY <1>4 DEF Commit
    <2>2. /\ issues[s.owner].status # "absent" /\ SameIssue(s.issue, issues[s.owner])
          /\ s.issue.status # "absent"
      BY <1>2, <1>4 DEF IssueHeldBy
    <2>3. CASE x = s.owner
      <3>1. /\ issues'[x].status = s.issue.status /\ issues'[x].issue = issues[x].issue
            /\ issues'[x].version = issues[x].version
        BY <1>1, <2>1, <2>3 DEF IssueRow
      <3> QED
        BY <2>2, <2>3, <3>1 DEF SameIssue
    <2>4. CASE x # s.owner
      BY <1>1, <2>1, <2>4
    <2> QED
      BY <2>3, <2>4
  <1>5. CASE s.owner # c /\ ~(s.owner # 0 /\ s.issue.status # s.was)
    BY <1>5 DEF Commit
  <1> QED
    BY <1>3, <1>4, <1>5

(* What others refer to is kept. *)
LEMMA CommitKeeps ==
  ASSUME IInv, NEW c \in Commands, Commit(c), NEW x \in Commands
  PROVE  /\ issues[x].status # "absent" =>
               issues'[x].status # "absent" /\ SameIssue(issues'[x], issues[x])
         /\ snaps[x].status # "absent" => snaps'[x] = snaps[x]
         /\ x \in Artifacts => x \in Artifacts' /\ trainings'[x] = trainings[x]
         /\ forecasts[x].status # "absent" => forecasts'[x] = forecasts[x]
  <1>1. issues[x].status # "absent" =>
           issues'[x].status # "absent" /\ SameIssue(issues'[x], issues[x])
    <2>1. x = c => issues[x].status = "absent"
      BY CommitFacts DEF NoIssue
    <2> QED
      BY <2>1, CommitIssues DEF SameIssue
  <1>2. snaps[x].status # "absent" => snaps'[x] = snaps[x]
    BY CommitFacts DEF NoSnap, IInv, TypeOK
  <1>3. x \in Artifacts => x \in Artifacts' /\ trainings'[x] = trainings[x]
    BY CommitFacts DEF NoTraining, Artifacts, IInv, TypeOK
  <1>4. forecasts[x].status # "absent" => forecasts'[x] = forecasts[x]
    BY CommitFacts DEF NoForecast, IInv, TypeOK
  <1> QED
    BY <1>1, <1>2, <1>3, <1>4

(* What the others refer to is kept. *)
LEMMA CommitHeld ==
  ASSUME IInv, TypeOK', NEW c \in Commands, Commit(c)
  PROVE  Held'
  <1>1. ASSUME NEW d \in Commands, d # c PROVE HeldBy(d)'
    <2> DEFINE s == session[d]
    <2>1. /\ pc'[d] = pc[d] /\ session'[d] = session[d] /\ seen'[d] = seen[d]
          /\ UNCHANGED <<lastId, files, open, clobbered>>
      BY <1>1, CommitFacts DEF Elsewhere
    <2>2. HeldBy(d)
      BY SessionFact
    <2>3. RestingBy(d)' /\ FileHeldBy(d)' /\ GateNoticedBy(d)'
      BY <2>1, <2>2 DEF HeldBy, RestingBy, Open, FileHeldBy, GateNoticedBy, SeenOpen, SeenShut,
         Watched
    <2>4. IssueHeldBy(d)'
      <3>1. s.owner \in 0..N
        BY SessionFact
      <3>2. s.owner # 0 => s.owner \in Commands
        BY <3>1, ForecastingAssumption DEF Commands
      <3> QED
        BY <2>1, <2>2, <3>2, CommitKeeps DEF HeldBy, IssueHeldBy, SameIssue
    <2>5. SnapHeldBy(d)'
      BY <2>1, <2>2 DEF HeldBy, SnapHeldBy, Settles, SameIssue
    <2>6. TrainingHeldBy(d)'
      <3>1. s.training.rows \subseteq Commands
        BY SessionFact DEF TrainingRow
      <3> QED
        BY <2>1, <2>2, <3>1, CommitKeeps DEF HeldBy, TrainingHeldBy
    <2>7. ForecastHeldBy(d)'
      <3> DEFINE f == s.forecast
      <3>1. f.snap # 0 => SnapshotOf(d)' = SnapshotOf(d)
        <4>1. f.snap \in 0..N
          BY SessionFact DEF ForecastRow
        <4>2. f.snap # 0 => f.snap \in Commands
          BY <4>1, ForecastingAssumption DEF Commands
        <4>3. f.snap # 0 => SnapshotOf(d).status # "absent"
          BY <2>2 DEF HeldBy, ForecastHeldBy
        <4> QED
          BY <2>1, <4>2, <4>3, CommitKeeps DEF SnapshotOf
      <3>2. f.artifact \in Artifacts =>
               f.artifact \in Artifacts' /\ trainings'[f.artifact] = trainings[f.artifact]
        BY CommitKeeps DEF Artifacts
      <3>3. ForecastHeldBy(d)
        BY <2>2 DEF HeldBy
      <3>4. f.status # "absent" => f.artifact \in Artifacts
        BY <3>3 DEF ForecastHeldBy
      <3>5. pc[d] = "loading" => f.snap # 0
        BY <3>3 DEF ForecastHeldBy
      <3>6. f.status = "absent" => f.snap = 0
        BY <3>3 DEF ForecastHeldBy, NoForecast
      <3> QED
        BY <2>1, <3>1, <3>2, <3>3, <3>4, <3>5, <3>6 DEF ForecastHeldBy
    <2>8. SummaryHeldBy(d)'
      <3>1. s.summary.counted \subseteq Commands
        BY SessionFact DEF SummaryRow
      <3>2. s.summary.artifact \in Artifacts => s.summary.artifact \in Artifacts'
        BY CommitKeeps DEF Artifacts
      <3> QED
        BY <2>1, <2>2, <3>1, <3>2, CommitKeeps DEF HeldBy, SummaryHeldBy
    <2> QED
      BY <2>3, <2>4, <2>5, <2>6, <2>7, <2>8 DEF HeldBy
  <1>2. HeldBy(c)'
    <2>1. pc'[c] = "done" /\ session'[c] = NoSession /\ lastId' \in Nat
      BY CommitFacts, SessionFact
    <2>2. Parts(session'[c], NoIssue, 0, 0, FALSE, NoSnap, NoTraining, NoForecast, NoSummary)
      BY <2>1 DEF Parts, NoSession
    <2>3. RestingBy(c)' /\ IssueHeldBy(c)' /\ SnapHeldBy(c)' /\ TrainingHeldBy(c)'
      BY <2>1, <2>2
         DEF Parts, RestingBy, IssueHeldBy, SnapHeldBy, NoSnap, TrainingHeldBy, NoTraining,
             Training, Writing
    <2>4. ForecastHeldBy(c)' /\ SummaryHeldBy(c)' /\ FileHeldBy(c)' /\ GateNoticedBy(c)'
      BY <2>1, <2>2
         DEF Parts, ForecastHeldBy, NoForecast, SummaryHeldBy, NoSummary, FileHeldBy, NoTraining,
             GateNoticedBy, NoSnap
    <2> QED
      BY <2>3, <2>4 DEF HeldBy
  <1> QED
    BY <1>1, <1>2 DEF Held

(* What c's tables hold after its commit. *)
LEMMA CommitRows ==
  ASSUME IInv, TypeOK', NEW c \in Commands, Commit(c)
  PROVE  Uncommitted' /\ IdsBelow' /\ RowsHeld'
  <1>1. Uncommitted'
    <2> SUFFICES ASSUME NEW d \in Commands, pc'[d] # "done"
                 PROVE  /\ issues'[d] = NoIssue /\ snaps'[d] = NoSnap
                        /\ trainings'[d] = NoTraining /\ forecasts'[d] = NoForecast
                        /\ summaries'[d] = NoSummary
      BY DEF Uncommitted
    <2>1. d # c /\ pc[d] # "done"
      BY CommitFacts DEF Elsewhere
    <2>2. /\ issues[d] = NoIssue /\ snaps[d] = NoSnap /\ trainings[d] = NoTraining
          /\ forecasts[d] = NoForecast /\ summaries[d] = NoSummary
      BY <2>1 DEF IInv, Uncommitted
    <2>3. issues'[d] = issues[d]
      BY <2>1, <2>2, CommitIssues DEF NoIssue
    <2>4. /\ snaps'[d] = snaps[d] /\ trainings'[d] = trainings[d]
          /\ forecasts'[d] = forecasts[d] /\ summaries'[d] = summaries[d]
      BY <2>1, CommitFacts DEF IInv, TypeOK
    <2> QED
      BY <2>2, <2>3, <2>4
  <1>2. IdsBelow'
    <2> SUFFICES ASSUME NEW d \in Commands PROVE snaps'[d].id =< lastId'
      BY DEF IdsBelow
    <2>1. session[c].snap.id =< lastId
      BY SessionFact DEF HeldBy, SnapHeldBy
    <2> QED
      BY <2>1, CommitFacts DEF IInv, IdsBelow, TypeOK
  <1>3. RowsHeld'
    <2> SUFFICES ASSUME NEW d \in Commands
                 PROVE  /\ issues'[d].status = "absent" => issues'[d].issue = Null
                        /\ trainings'[d].hash # Null => trainings'[d].file \in Files
                        /\ forecasts'[d].status = "absent" => forecasts'[d] = NoForecast
                        /\ forecasts'[d].status # "absent" => forecasts'[d].artifact \in Artifacts'
      BY DEF RowsHeld
    <2>1. issues'[d].status = "absent" => issues'[d].issue = Null
      BY CommitIssues DEF IInv, RowsHeld
    <2>2. trainings'[d].hash # Null => trainings'[d].file \in Files
      <3>1. session[c].training.hash # Null => session[c].training.file \in Files
        BY SessionFact DEF HeldBy, TrainingHeldBy
      <3> QED
        BY <3>1, CommitFacts DEF IInv, RowsHeld, TypeOK
    <2>3. \A a \in Artifacts : a \in Artifacts'
      BY CommitKeeps DEF Artifacts
    <2>4. /\ forecasts'[d].status = "absent" => forecasts'[d] = NoForecast
          /\ forecasts'[d].status # "absent" => forecasts'[d].artifact \in Artifacts'
      <3>1. /\ session[c].forecast.status = "absent" => session[c].forecast = NoForecast
            /\ session[c].forecast.status # "absent" => session[c].forecast.artifact \in Artifacts
        BY SessionFact DEF HeldBy, ForecastHeldBy
      <3>2. forecasts'[d] = IF d = c THEN session[c].forecast ELSE forecasts[d]
        BY CommitFacts DEF IInv, TypeOK
      <3> QED
        BY <2>3, <3>1, <3>2 DEF IInv, RowsHeld
    <2> QED
      BY <2>1, <2>2, <2>4
  <1> QED
    BY <1>1, <1>2, <1>3

(* An issue that changes does so to what c's snapshot settles. *)
LEMMA CommitFollowsRuns ==
  ASSUME IInv, TypeOK', NEW c \in Commands, Commit(c)
  PROVE  IssueFollowsRuns'
  <1> DEFINE s == session[c]
  <1> SUFFICES ASSUME NEW x \in Commands, issues'[x].status # "absent"
               PROVE  \E d \in Commands : Settles(snaps'[d], x, issues'[x])
    BY DEF IssueFollowsRuns, Settles, SameIssue
  <1>1. CASE issues'[x] = issues[x]
    <2>1. PICK d \in Commands : Settles(snaps[d], x, issues[x])
      BY <1>1 DEF IInv, IssueFollowsRuns, Settles
    <2>2. snaps'[d] = snaps[d]
      BY <2>1, CommitKeeps DEF Settles
    <2> QED
      BY <1>1, <2>1, <2>2 DEF Settles, SameIssue
  <1>2. CASE /\ x = s.owner
             /\ issues'[x].status = s.issue.status
             /\ SameIssue(issues'[x], s.issue)
    <2>1. x # 0
      BY ForecastingAssumption DEF Commands
    <2>2. Settles(s.snap, s.owner, s.issue)
      BY <1>2, <2>1, CommitFacts, SessionFact DEF HeldBy, SnapHeldBy
    <2>3. snaps'[c] = s.snap
      BY CommitFacts DEF IInv, TypeOK
    <2> QED
      BY <1>2, <2>2, <2>3 DEF Settles, SameIssue
  <1> QED
    BY <1>1, <1>2, CommitIssues

(* c's forecast refers to rows that are committed with it or were before. *)
LEMMA CommitTraces ==
  ASSUME IInv, TypeOK', NEW c \in Commands, Commit(c)
  PROVE  ForecastsTrace'
  <1> DEFINE Traced(run, snap, artifact) ==
               /\ run.status \in {"succeeded", "blocked", "absent"}
               /\ run.status # "succeeded" => run.model = Null
               /\ run.status = "succeeded" =>
                     /\ artifact.selected
                     /\ run.model \in Fits
                     /\ run.snap # 0
                     /\ snap.status = "succeeded" /\ snap.complete
               /\ run.snap # 0 =>
                     /\ snap.status # "absent"
                     /\ snap.version = artifact.version
                     /\ snap.status = "succeeded" => snap.issue = run.issue
  <1> SUFFICES ASSUME NEW x \in Commands
               PROVE  Traced(forecasts'[x], snaps'[forecasts'[x].snap],
                             trainings'[forecasts'[x].artifact])
    BY DEF ForecastsTrace
  <1>0. ASSUME NEW d \in 0..N, d # 0 PROVE d \in Commands
    BY <1>0, ForecastingAssumption DEF Commands
  <1>1. CASE x # c
    <2> DEFINE run == forecasts[x]
    <2>1. forecasts'[x] = run /\ run \in ForecastRow
      BY <1>1, CommitFacts DEF IInv, TypeOK
    <2>2. Traced(run, snaps[run.snap], trainings[run.artifact])
      BY DEF IInv, ForecastsTrace
    <2>3. CASE run.status = "absent"
      <3>1. run = NoForecast
        BY <2>3 DEF IInv, RowsHeld
      <3> QED
        BY <2>1, <3>1 DEF NoForecast
    <2>4. CASE run.status # "absent"
      <3>1. run.artifact \in Artifacts
        BY <2>4 DEF IInv, RowsHeld
      <3>2. trainings'[run.artifact] = trainings[run.artifact]
        BY <3>1, CommitKeeps DEF Artifacts
      <3>3. run.snap # 0 => snaps'[run.snap] = snaps[run.snap]
        <4>1. run.snap \in 0..N
          BY <2>1 DEF ForecastRow
        <4> QED
          BY <1>0, <2>2, <4>1, CommitKeeps
      <3> QED
        BY <2>1, <2>2, <3>2, <3>3
    <2> QED
      BY <2>3, <2>4
  <1>2. CASE x = c
    <2> DEFINE f == session[c].forecast
    <2>1. forecasts'[x] = f
      BY <1>2, CommitFacts DEF IInv, TypeOK
    <2>2. ForecastHeldBy(c) /\ f \in ForecastRow
      BY SessionFact DEF HeldBy
    <2>3. CASE f.status = "absent"
      <3>1. f = NoForecast
        BY <2>2, <2>3 DEF ForecastHeldBy
      <3> QED
        BY <2>1, <3>1 DEF NoForecast
    <2>4. CASE f.status # "absent"
      <3>1. f.artifact \in Artifacts /\ f.status \in {"succeeded", "blocked"}
        BY <2>2, <2>4, CommitFacts DEF ForecastHeldBy, ForecastRow, Building
      <3>2. trainings'[f.artifact] = trainings[f.artifact]
        BY <3>1, CommitKeeps DEF Artifacts
      <3>3. f.snap # 0 => snaps'[f.snap] = SnapshotOf(c)
        <4>1. f.snap \in 0..N
          BY <2>2 DEF ForecastRow
        <4>2. f.snap # 0 => SnapshotOf(c).status # "absent"
          BY <2>2 DEF ForecastHeldBy
        <4>3. CASE f.snap = c
          BY <4>3, CommitFacts DEF SnapshotOf, IInv, TypeOK
        <4>4. CASE f.snap # c
          BY <1>0, <4>1, <4>2, <4>4, CommitKeeps DEF SnapshotOf
        <4> QED
          BY <4>3, <4>4
      <3> QED
        BY <2>1, <2>2, <3>1, <3>2, <3>3 DEF ForecastHeldBy
    <2> QED
      BY <2>3, <2>4
  <1> QED
    BY <1>1, <1>2

(* c's artifact has the hash of its file, unless c was clobbered. *)
LEMMA CommitUndisturbed ==
  ASSUME IInv, TypeOK', NEW c \in Commands, Commit(c)
  PROVE  UndisturbedArtifacts'
  <1> SUFFICES ASSUME NEW a \in Commands, trainings'[a].hash # Null, a \notin clobbered
               PROVE  /\ trainings'[a].hash = trainings'[a].fit
                      /\ files[trainings'[a].file] = trainings'[a].fit
    BY CommitFacts DEF UndisturbedArtifacts, Artifacts
  <1>1. CASE a = c
    <2>1. trainings'[a] = session[c].training
      BY <1>1, CommitFacts DEF IInv, TypeOK
    <2> QED
      BY <1>1, <2>1, SessionFact DEF HeldBy, FileHeldBy
  <1>2. CASE a # c
    <2>1. trainings'[a] = trainings[a]
      BY <1>2, CommitFacts DEF IInv, TypeOK
    <2> QED
      BY <2>1 DEF IInv, UndisturbedArtifacts, Artifacts
  <1> QED
    BY <1>1, <1>2

(* What c had written is now in the tables. *)
LEMMA CommitApart ==
  ASSUME IInv, TypeOK', NEW c \in Commands, Commit(c)
  PROVE  Apart'
  <1> DEFINE s == session[c]
  <1>0. /\ ~WroteIssue(c)' /\ ~WroteArtifact(c)' /\ ~WroteSummary(c)'
        /\ \A d \in Commands \ {c} :
              /\ session'[d] = session[d]
              /\ WroteIssue(d)' <=> WroteIssue(d)
              /\ WroteArtifact(d)' <=> WroteArtifact(d)
              /\ WroteSummary(d)' <=> WroteSummary(d)
    <2>1. session'[c] = NoSession /\ pc'[c] = "done" /\ c # 0
      BY CommitFacts, ForecastingAssumption DEF Commands
    <2> QED
      BY <2>1, CommitFacts DEF WroteIssue, WroteArtifact, WroteSummary, NoSession, Elsewhere
  <1>1. IssuesApart'
    <2>1. ASSUME NEW x \in Commands
          PROVE  \/ /\ SameIssue(issues'[x], issues[x])
                    /\ issues'[x].status # "absent" => issues[x].status # "absent"
                 \/ x = c /\ WroteIssue(c) /\ SameIssue(issues'[x], s.issue)
      BY CommitIssues DEF SameIssue, WroteIssue
    <2>2. IssuesApart
      BY DEF IInv, Apart
    <2> SUFFICES ASSUME NEW x \in Commands, NEW y \in Commands, x # y
                 PROVE  /\ issues'[x].status # "absent" => ~SameIssue(issues'[x], issues'[y])
                        /\ WroteIssue(x)' =>
                              /\ ~SameIssue(session'[x].issue, issues'[y])
                              /\ WroteIssue(y)' =>
                                    ~SameIssue(session'[x].issue, session'[y].issue)
      BY DEF IssuesApart, SameIssue
    <2>3. issues'[x].status # "absent" => ~SameIssue(issues'[x], issues'[y])
      BY <2>1, <2>2 DEF IssuesApart, SameIssue
    <2>4. WroteIssue(x)' => ~SameIssue(session'[x].issue, issues'[y])
      BY <1>0, <2>1, <2>2 DEF IssuesApart, SameIssue
    <2>5. WroteIssue(x)' /\ WroteIssue(y)' => ~SameIssue(session'[x].issue, session'[y].issue)
      BY <1>0, <2>2 DEF IssuesApart
    <2> QED
      BY <2>3, <2>4, <2>5
  <1>2. HashesApart'
    <2>1. HashesApart
      BY DEF IInv, Apart
    <2>2. \A x \in Commands : trainings'[x] = IF x = c THEN s.training ELSE trainings[x]
      BY CommitFacts DEF IInv, TypeOK
    <2>3. WroteArtifact(c) <=> s.training.hash # Null
      BY CommitFacts DEF WroteArtifact
    <2> SUFFICES ASSUME NEW x \in Commands, NEW y \in Commands, x # y
                 PROVE  /\ trainings'[x].hash # Null => trainings'[x].hash # trainings'[y].hash
                        /\ WroteArtifact(x)' =>
                              /\ session'[x].training.hash # trainings'[y].hash
                              /\ WroteArtifact(y)' =>
                                    session'[x].training.hash # session'[y].training.hash
      BY DEF HashesApart
    <2>4. trainings'[x].hash # Null => trainings'[x].hash # trainings'[y].hash
      BY <2>1, <2>2, <2>3 DEF HashesApart
    <2>5. WroteArtifact(x)' => session'[x].training.hash # trainings'[y].hash
      <3>1. CASE x = c
        BY <1>0, <3>1
      <3>2. CASE x # c /\ y = c
        <4>1. WroteArtifact(x) => session[x].training.hash # Null
          BY DEF WroteArtifact
        <4> QED
          BY <1>0, <2>1, <2>2, <2>3, <3>2, <4>1 DEF HashesApart
      <3>3. CASE x # c /\ y # c
        BY <1>0, <2>1, <2>2, <3>3 DEF HashesApart
      <3> QED
        BY <3>1, <3>2, <3>3
    <2>6. WroteArtifact(x)' /\ WroteArtifact(y)' =>
             session'[x].training.hash # session'[y].training.hash
      BY <1>0, <2>1 DEF HashesApart
    <2> QED
      BY <2>4, <2>5, <2>6
  <1>3. SummariesApart'
    <2>1. SummariesApart
      BY DEF IInv, Apart
    <2>2. \A x \in Commands : summaries'[x] = IF x = c THEN s.summary ELSE summaries[x]
      BY CommitFacts DEF IInv, TypeOK
    <2>3. WroteSummary(c) <=> s.summary.counted # {}
      BY CommitFacts DEF WroteSummary
    <2>4. \A m : SameSummary(s.summary, m) => WroteSummary(c)
      BY <2>3 DEF SameSummary
    <2>5. \A m, n : SameSummary(m, n) => SameSummary(n, m)
      BY DEF SameSummary
    <2> SUFFICES ASSUME NEW x \in Commands, NEW y \in Commands, x # y
                 PROVE  /\ ~SameSummary(summaries'[x], summaries'[y])
                        /\ WroteSummary(x)' =>
                              /\ ~SameSummary(session'[x].summary, summaries'[y])
                              /\ WroteSummary(y)' =>
                                    ~SameSummary(session'[x].summary, session'[y].summary)
      BY DEF SummariesApart, SameSummary
    <2>6. ~SameSummary(summaries'[x], summaries'[y])
      BY <2>1, <2>2, <2>4, <2>5 DEF SummariesApart
    <2>7. WroteSummary(x)' => ~SameSummary(session'[x].summary, summaries'[y])
      BY <1>0, <2>1, <2>2, <2>4, <2>5 DEF SummariesApart
    <2>8. WroteSummary(x)' /\ WroteSummary(y)' =>
             ~SameSummary(session'[x].summary, session'[y].summary)
      BY <1>0, <2>1 DEF SummariesApart
    <2> QED
      BY <2>6, <2>7, <2>8
  <1> QED
    BY <1>1, <1>2, <1>3 DEF Apart

LEMMA CommitInv ==
  ASSUME IInv, TypeOK', NEW c \in Commands, Commit(c)
  PROVE  IInv'
  BY CommitHeld, CommitRows, CommitFollowsRuns, CommitTraces, CommitUndisturbed, CommitApart
     DEF IInv

-----------------------------------------------------------------------------
(* The invariant *)

LEMMA InitInv == Init => IInv
  <1> SUFFICES ASSUME Init PROVE IInv
    OBVIOUS
  <1>1. /\ \A c \in Commands : /\ issues[c] = NoIssue /\ snaps[c] = NoSnap
                               /\ trainings[c] = NoTraining /\ forecasts[c] = NoForecast
                               /\ summaries[c] = NoSummary
                               /\ pc[c] = "idle" /\ session[c] = NoSession
        /\ lastId = 0
    BY DEF Init
  <1>2. Held
    <2> SUFFICES ASSUME NEW c \in Commands PROVE HeldBy(c)
      BY DEF Held
    <2>1. Parts(session[c], NoIssue, 0, 0, FALSE, NoSnap, NoTraining, NoForecast, NoSummary)
      BY <1>1 DEF Parts, NoSession
    <2>2. RestingBy(c) /\ IssueHeldBy(c) /\ SnapHeldBy(c) /\ TrainingHeldBy(c)
      BY <1>1, <2>1
         DEF Parts, RestingBy, IssueHeldBy, SnapHeldBy, NoSnap, TrainingHeldBy, NoTraining,
             Training, Writing
    <2>3. ForecastHeldBy(c) /\ SummaryHeldBy(c) /\ FileHeldBy(c) /\ GateNoticedBy(c)
      BY <1>1, <2>1
         DEF Parts, ForecastHeldBy, NoForecast, SummaryHeldBy, NoSummary, FileHeldBy, NoTraining,
             GateNoticedBy, NoSnap
    <2> QED
      BY <2>2, <2>3 DEF HeldBy
  <1>3. Uncommitted /\ IdsBelow /\ RowsHeld
    <2>1. Uncommitted
      BY <1>1 DEF Uncommitted
    <2>2. IdsBelow /\ RowsHeld
      BY <1>1 DEF IdsBelow, NoSnap, RowsHeld, NoIssue, NoTraining, NoForecast
    <2> QED
      BY <2>1, <2>2
  <1>4. IssueFollowsRuns /\ ForecastsTrace /\ UndisturbedArtifacts
    BY <1>1 DEF IssueFollowsRuns, NoIssue, ForecastsTrace, NoForecast, UndisturbedArtifacts,
       Artifacts, NoTraining
  <1>5. Apart
    <2>1. \A c \in Commands : ~WroteIssue(c) /\ ~WroteArtifact(c) /\ ~WroteSummary(c)
      BY <1>1, ForecastingAssumption
         DEF WroteIssue, WroteArtifact, WroteSummary, NoSession, Commands
    <2> QED
      BY <1>1, <2>1 DEF Apart, IssuesApart, HashesApart, SummariesApart, SameSummary,
         NoIssue, NoTraining, NoSummary
  <1> QED
    BY <1>2, <1>3, <1>4, <1>5, TypeInit DEF IInv

LEMMA CommandStep ==
  ASSUME IInv, TypeOK', NEW c \in Commands, Step(c)
  PROVE  IInv'
  <1>1. CASE GetIssue(c)
    <2>1. CASE IssueRowsLike(c) = {}
      BY <1>1, <2>1, MissIssueInv
    <2>2. CASE IssueRowsLike(c) # {}
      <3>1. PICK d \in IssueRowsLike(c) : Finds(c, d, issues[d].status)
        BY <1>1, <2>2, ZenonT(30) DEF GetIssue, Finds
      <3>2. d \in Commands
        BY DEF IssueRowsLike
      <3> QED
        BY <3>1, <3>2, FindIssueInv
    <2> QED
      BY <2>1, <2>2
  <1>2. CASE InsertIssue(c) \/ ReadGate(c) \/ WriteSnapshot(c)
    BY <1>2, InsertIssueInv, ReadGateInv, WriteSnapshotInv
  <1>3. CASE IssueClash(c) \/ ArtifactClash(c) \/ SummaryClash(c)
    BY <1>3, RollbackInv DEF IssueClash, ArtifactClash, SummaryClash
  <1>4. CASE FitCandidate(c) \/ HashFile(c) \/ StoreArtifact(c)
    BY <1>4, FitCandidateInv, HashFileInv, StoreArtifactInv
  <1>5. CASE OpenFile(c)
    BY <1>5, WriteFileInv DEF OpenFile
  <1>6. CASE DumpModel(c)
    BY <1>6, WriteFileInv DEF DumpModel
  <1>7. CASE FindSnapshot(c) \/ ReuseBlocked(c) \/ LoadModel(c)
    BY <1>7, FindSnapshotInv, ReuseBlockedInv, LoadModelInv
  <1>8. CASE CountPerformance(c) \/ StoreSummary(c)
    BY <1>8, CountPerformanceInv, StoreSummaryInv
  <1>9. CASE Commit(c)
    BY <1>9, CommitInv
  <1> QED
    BY <1>1, <1>2, <1>3, <1>4, <1>5, <1>6, <1>7, <1>8, <1>9 DEF Step

(* Every step preserves the invariant. *)
LEMMA StepInv == IInv /\ [Next]_vars => IInv'
  <1> SUFFICES ASSUME IInv, [Next]_vars PROVE IInv'
    OBVIOUS
  <1>0. TypeOK'
    BY TypeStep DEF IInv
  <1>1. ASSUME NEW c \in Commands, NEW i \in Issues, NEW v \in Versions, StartBuild(c, i, v)
        PROVE  IInv'
    BY <1>0, <1>1, StartBuildInv
  <1>2. ASSUME NEW c \in Commands, NEW v \in Versions, NEW f \in Files, StartTraining(c, v, f)
        PROVE  IInv'
    BY <1>0, <1>2, StartTrainingInv
  <1>3. ASSUME NEW c \in Commands, NEW a \in Commands, NEW i \in Issues, StartForecast(c, a, i)
        PROVE  IInv'
    BY <1>0, <1>3, StartForecastInv
  <1>4. ASSUME NEW c \in Commands, NEW a \in Commands, NEW w \in Windows, StartSummary(c, a, w)
        PROVE  IInv'
    BY <1>0, <1>4, StartSummaryInv
  <1>5. ASSUME NEW c \in Commands, Step(c) PROVE IInv'
    BY <1>0, <1>5, CommandStep
  <1>6. ASSUME NEW c \in Commands, FailTraining(c) PROVE IInv'
    BY <1>0, <1>6, FailTrainingInv
  <1>7. ASSUME NEW c \in Commands, Crash(c) PROVE IInv'
    BY <1>0, <1>7, RollbackInv DEF Crash, Open
  <1>8. ASSUME NEW d \in Datasets, QualityRunCompletes(d) PROVE IInv'
    BY <1>0, <1>8, QualityRunInv
  <1>10. ASSUME NEW c \in Commands, NEW i \in Issues, NEW v \in Versions, SeedSnapshot(c, i, v)
         PROVE  IInv'
    BY <1>0, <1>10, SeedSnapshotInv
  <1>9. CASE UNCHANGED vars
    <2>1. /\ SameTables /\ UNCHANGED <<lastId, files, open, pc, session, seen, clobbered>>
      BY <1>9 DEF vars, tables, world, history, SameTables
    <2>2. Held'
      <3> SUFFICES ASSUME NEW c \in Commands PROVE HeldBy(c)'
        BY DEF Held
      <3>1. HeldBy(c)
        BY SessionFact
      <3>2. RestingBy(c)' /\ IssueHeldBy(c)' /\ SnapHeldBy(c)' /\ TrainingHeldBy(c)'
        BY <2>1, <3>1 DEF HeldBy, RestingBy, Open, IssueHeldBy, SameIssue, SnapHeldBy, Settles,
           TrainingHeldBy, SameTables
      <3>3. ForecastHeldBy(c)' /\ SummaryHeldBy(c)' /\ FileHeldBy(c)'
        BY <2>1, <3>1 DEF HeldBy, ForecastHeldBy, SnapshotOf, Artifacts, SummaryHeldBy,
           FileHeldBy, SameTables
      <3>4. GateNoticedBy(c)'
        BY <2>1, <3>1 DEF HeldBy, GateNoticedBy, SeenOpen, SeenShut, Watched
      <3> QED
        BY <3>2, <3>3, <3>4 DEF HeldBy
    <2>3. Uncommitted' /\ IdsBelow' /\ RowsHeld'
      BY <2>1 DEF IInv, Uncommitted, IdsBelow, RowsHeld, Artifacts, SameTables
    <2>4. IssueFollowsRuns' /\ ForecastsTrace' /\ UndisturbedArtifacts'
      BY <2>1 DEF IInv, IssueFollowsRuns, SameIssue, ForecastsTrace, UndisturbedArtifacts,
         Artifacts, SameTables
    <2>5. Apart'
      BY <2>1 DEF IInv, Apart, IssuesApart, HashesApart, SummariesApart, WroteIssue, WroteArtifact,
         WroteSummary, SameIssue, SameSummary, SameTables
    <2> QED
      BY <1>0, <2>2, <2>3, <2>4, <2>5 DEF IInv
  <1> QED
    BY <1>1, <1>2, <1>3, <1>4, <1>5, <1>6, <1>7, <1>8, <1>9, <1>10 DEF Next

-----------------------------------------------------------------------------
(* The theorems *)

(* Every variable keeps its type.                                          *)
THEOREM TypeInvariant == Spec => []TypeOK
  <1>1. IInv => TypeOK
    BY DEF IInv
  <1> QED
    BY <1>1, InitInv, StepInv, PTL DEF Spec

(* Forecast issues, artifacts and performance summaries exist once, although *)
(* commands look, find nothing and insert concurrently: what one has written *)
(* makes the others wait, what it has committed makes them fail.             *)
THEOREM RowsExistOnce == Spec => []UniqueRows
  <1>1. IInv => UniqueRows
    BY DEF IInv, Apart, IssuesApart, HashesApart, SummariesApart, UniqueRows
  <1> QED
    BY <1>1, InitInv, StepInv, PTL DEF Spec

(* A committed issue has the status that a committed snapshot of it gave   *)
(* it, whatever crashed and whoever lost the race for its row.             *)
THEOREM IssuesFollowTheirRuns == Spec => []IssueFollowsRuns
  <1>1. IInv => IssueFollowsRuns
    BY DEF IInv
  <1> QED
    BY <1>1, InitInv, StepInv, PTL DEF Spec

(* A forecast that succeeded rests on a selected artifact, a committed and *)
(* complete snapshot of its issue time and a whole model.                  *)
THEOREM ForecastsAreTraced == Spec => []ForecastsTrace
  <1>1. IInv => ForecastsTrace
    BY DEF IInv
  <1> QED
    BY <1>1, InitInv, StepInv, PTL DEF Spec

(* An artifact's file holds the model that was evaluated, with the         *)
(* recorded hash, as long as no other training opens the file.             *)
THEOREM ArtifactsStandUndisturbed == Spec => []UndisturbedArtifacts
  <1>1. IInv => UndisturbedArtifacts
    BY DEF IInv
  <1> QED
    BY <1>1, InitInv, StepInv, PTL DEF Spec

(* Who holds the row another waits for never waits itself: an inserted     *)
(* issue, an updated one, an artifact or a summary is held by a command    *)
(* past its last wait.                                                     *)
THEOREM SomeoneCanMove == Spec => []NotAllWait
  <1>1. ASSUME IInv, NEW c \in Commands, Waiting(c)
        PROVE  \E d \in Commands : Open(d) /\ ~Waiting(d)
    <2>1. CASE pc[c] = "issuing" /\ IssueBusy(c)
      <3>1. PICK d \in Commands : WroteIssue(d)
        BY <2>1 DEF IssueBusy
      <3>2. session[d].owner = d /\ d # 0
        BY <3>1, ForecastingAssumption DEF WroteIssue, Commands
      <3>3. pc[d] \in {"gating", "snapping", "loading", "committing"}
        BY <1>1, <3>2, SessionFact DEF HeldBy, IssueHeldBy
      <3> QED
        BY <3>2, <3>3 DEF Open, Waiting, StatusBusy
    <2>2. CASE pc[c] = "snapping" /\ StatusBusy(c)
      <3>1. PICK d \in Commands : session[d].snap.status # "absent"
        BY <2>2 DEF StatusBusy, WroteStatus
      <3>2. pc[d] \in {"loading", "committing"}
        BY <1>1, <3>1, SessionFact DEF HeldBy, SnapHeldBy
      <3> QED
        BY <3>2 DEF Open, Waiting
    <2>3. CASE pc[c] = "storing" /\ ArtifactBusy(c)
      BY <2>3 DEF ArtifactBusy, WroteArtifact, Open, Waiting
    <2>4. CASE pc[c] = "recording" /\ SummaryBusy(c)
      BY <2>4 DEF SummaryBusy, WroteSummary, Open, Waiting
    <2> QED
      BY <1>1, <2>1, <2>2, <2>3, <2>4 DEF Waiting
  <1>2. IInv => NotAllWait
    BY <1>1 DEF NotAllWait
  <1> QED
    BY <1>2, InitInv, StepInv, PTL DEF Spec

(* Only a commit changes the tables, and only it ends a command well. *)
LEMMA OnlyCommitsPublish ==
  ASSUME IInv, [Next]_vars
  PROVE  \/ \E c \in Commands : Commit(c)
         \/ SameTables /\ \A d \in Commands : pc'[d] = "done" <=> pc[d] = "done"
  <1> SUFFICES ASSUME \A c \in Commands : ~Commit(c)
               PROVE  SameTables /\ \A d \in Commands : pc'[d] = "done" <=> pc[d] = "done"
    OBVIOUS
  <1>0. pc \in [Commands -> Stages]
    BY DEF IInv, TypeOK
  <1>1. ASSUME NEW c \in Commands, NEW stage, Goto(c, stage), pc[c] # "done", stage # "done",
               NEW d \in Commands
        PROVE  pc'[d] = "done" <=> pc[d] = "done"
    BY <1>0, <1>1 DEF Goto
  <1>2. ASSUME NEW c \in Commands,
               \/ \E i \in Issues, v \in Versions : StartBuild(c, i, v) \/ SeedSnapshot(c, i, v)
               \/ \E v \in Versions, f \in Files : StartTraining(c, v, f)
               \/ \E a \in Commands, i \in Issues : StartForecast(c, a, i)
               \/ \E a \in Commands, w \in Windows : StartSummary(c, a, w)
        PROVE  SameTables /\ \A d \in Commands : pc'[d] = "done" <=> pc[d] = "done"
    BY <1>1, <1>2 DEF StartBuild, SeedSnapshot, StartTraining, StartForecast, StartSummary, Starts,
       SameTables, tables
  <1>3. ASSUME NEW c \in Commands,
               IssueClash(c) \/ ArtifactClash(c) \/ SummaryClash(c) \/ Crash(c)
        PROVE  SameTables /\ \A d \in Commands : pc'[d] = "done" <=> pc[d] = "done"
    BY <1>1, <1>3 DEF IssueClash, ArtifactClash, SummaryClash, Crash, Open, Rollback,
       SameTables, tables
  <1>4. ASSUME NEW c \in Commands,
               GetIssue(c) \/ InsertIssue(c) \/ ReadGate(c) \/ WriteSnapshot(c)
        PROVE  SameTables /\ \A d \in Commands : pc'[d] = "done" <=> pc[d] = "done"
    BY <1>1, <1>4, ZenonT(40) DEF GetIssue, InsertIssue, ReadGate, WriteSnapshot, SameTables, tables
  <1>5. ASSUME NEW c \in Commands,
               \/ FitCandidate(c) \/ FailTraining(c) \/ OpenFile(c) \/ DumpModel(c)
               \/ HashFile(c) \/ StoreArtifact(c)
        PROVE  SameTables /\ \A d \in Commands : pc'[d] = "done" <=> pc[d] = "done"
    BY <1>1, <1>5, ZenonT(40)
       DEF FitCandidate, FailTraining, OpenFile, DumpModel, HashFile, StoreArtifact,
           SameTables, tables
  <1>6. ASSUME NEW c \in Commands,
               FindSnapshot(c) \/ ReuseBlocked(c) \/ LoadModel(c)
        PROVE  SameTables /\ \A d \in Commands : pc'[d] = "done" <=> pc[d] = "done"
    BY <1>1, <1>6 DEF FindSnapshot, ReuseBlocked, LoadModel, BlockForecast, SameTables, tables
  <1>7. ASSUME NEW c \in Commands, CountPerformance(c) \/ StoreSummary(c)
        PROVE  SameTables /\ \A d \in Commands : pc'[d] = "done" <=> pc[d] = "done"
    BY <1>1, <1>7 DEF CountPerformance, StoreSummary, SameTables, tables
  <1>8. ASSUME NEW d \in Datasets, QualityRunCompletes(d)
        PROVE  SameTables /\ \A e \in Commands : pc'[e] = "done" <=> pc[e] = "done"
    BY <1>8 DEF QualityRunCompletes, SameTables, tables
  <1>9. CASE UNCHANGED vars
    BY <1>9 DEF vars, tables, SameTables
  <1> QED
    BY <1>2, <1>3, <1>4, <1>5, <1>6, <1>7, <1>8, <1>9 DEF Next, Step

(* A built snapshot succeeds only if each dataset was open at some moment  *)
(* of the decision, and is blocked only if one was blocked, although the   *)
(* datasets are read one by one while quality runs complete.               *)
THEOREM VerdictsWereSeen == Spec => VerdictSeen
  <1> DEFINE Verdict(c) ==
               /\ Built(c, "succeeded") => \A d \in Datasets : TRUE \in seen[c][d]
               /\ Built(c, "blocked") => \E d \in Datasets : FALSE \in seen[c][d]
  <1>1. ASSUME IInv, [Next]_vars, NEW c \in Commands PROVE Verdict(c)
    <2>1. CASE Commit(c)
      <3>1. snaps'[c] = session[c].snap
        BY <1>1, <2>1, CommitFacts DEF IInv, TypeOK
      <3>2. GateNoticedBy(c)
        BY <1>1, SessionFact DEF HeldBy
      <3> QED
        BY <3>1, <3>2 DEF Built, GateNoticedBy, SeenOpen, SeenShut
    <2>2. ASSUME NEW e \in Commands, e # c, Commit(e) PROVE Verdict(c)
      <3>1. snaps'[c] = snaps[c]
        BY <1>1, <2>2, CommitFacts DEF IInv, TypeOK
      <3> QED
        BY <3>1 DEF Built
    <2>3. CASE SameTables
      BY <2>3 DEF Built, SameTables
    <2> QED
      BY <1>1, <2>1, <2>2, <2>3, OnlyCommitsPublish
  <1>2. IInv /\ [Next]_vars => [\A c \in Commands : Verdict(c)]_vars
    BY <1>1
  <1> QED
    BY <1>2, InitInv, StepInv, PTL DEF Spec, VerdictSeen

(* What c commits refers to committed outputs only. *)
LEMMA BasisCommitted ==
  ASSUME IInv, NEW c \in Commands, Commit(c), NEW o \in Basis(c)'
  PROVE  o \in Commands /\ pc[o] = "done"
  <1> DEFINE s == session[c]
  <1>0. ASSUME NEW d \in 0..N, d # 0 PROVE d \in Commands
    BY <1>0, ForecastingAssumption DEF Commands
  <1>1. /\ snaps'[c] = s.snap /\ trainings'[c] = s.training /\ forecasts'[c] = s.forecast
        /\ summaries'[c] = s.summary
    BY CommitFacts DEF IInv, TypeOK
  <1>2. /\ o \in {s.snap.owner, s.forecast.artifact, s.forecast.snap, s.summary.artifact}
                  \cup s.training.rows \cup s.summary.counted
        /\ o # 0 /\ o # c
    BY <1>1 DEF Basis
  <1>3. ASSUME NEW d \in Commands,
               \/ issues[d].status # "absent"
               \/ snaps[d].status # "absent"
               \/ d \in Artifacts
               \/ forecasts[d].status # "absent"
        PROVE  pc[d] = "done"
    BY <1>3 DEF IInv, Uncommitted, NoIssue, NoSnap, NoTraining, NoForecast, Artifacts
  <1>4. CASE o = s.snap.owner
    <2>1. s.snap.owner = s.owner
      BY <1>2, <1>4, CommitFacts, SessionFact DEF HeldBy, SnapHeldBy, Settles
    <2>2. issues[o].status # "absent" /\ o \in 0..N
      BY <1>2, <1>4, <2>1, SessionFact DEF HeldBy, IssueHeldBy
    <2> QED
      BY <1>0, <1>2, <1>3, <2>2
  <1>5. CASE o = s.forecast.artifact
    <2>1. s.forecast.status # "absent"
      BY <1>2, <1>5, SessionFact DEF HeldBy, ForecastHeldBy, NoForecast
    <2>2. o \in Artifacts
      BY <1>5, <2>1, SessionFact DEF HeldBy, ForecastHeldBy
    <2> QED
      BY <1>3, <2>2 DEF Artifacts
  <1>6. CASE o = s.forecast.snap
    <2>1. snaps[o].status # "absent" /\ o \in 0..N
      BY <1>2, <1>6, SessionFact DEF HeldBy, ForecastHeldBy, SnapshotOf, ForecastRow
    <2> QED
      BY <1>0, <1>2, <1>3, <2>1
  <1>7. CASE o = s.summary.artifact
    <2>1. o \in Artifacts
      BY <1>2, <1>7, SessionFact DEF HeldBy, SummaryHeldBy
    <2> QED
      BY <1>3, <2>1 DEF Artifacts
  <1>8. CASE o \in s.training.rows
    <2>1. o \in Commands /\ snaps[o].status = "succeeded"
      BY <1>8, SessionFact DEF HeldBy, TrainingHeldBy, TrainingRow
    <2> QED
      BY <1>3, <2>1
  <1>9. CASE o \in s.summary.counted
    <2>1. o \in Commands /\ forecasts[o].status = "succeeded"
      BY <1>9, SessionFact DEF HeldBy, SummaryHeldBy, SummaryRow
    <2> QED
      BY <1>3, <2>1
  <1> QED
    BY <1>2, <1>4, <1>5, <1>6, <1>7, <1>8, <1>9

(* The forecasting commands keep what Lineage promises: a commit publishes *)
(* an output that rests on published ones, every other step changes        *)
(* nothing that was published.                                             *)
THEOREM ForecastingImplementsLineage == Spec => ImplementsLineage
  <1> DEFINE published == {c \in Commands : pc[c] = "done"}
             basis == [c \in Commands |-> Basis(c)]
  <1>1. Init => Provenance!LineageInit
    <2> SUFFICES ASSUME Init PROVE published = {} /\ basis = [c \in Commands |-> {}]
      BY DEF Provenance!LineageInit
    <2>1. published = {}
      BY DEF Init
    <2>2. \A c \in Commands : Basis(c) = {}
      BY DEF Init, Basis, NoSnap, NoTraining, NoForecast, NoSummary
    <2> QED
      BY <2>1, <2>2
  <1>2. IInv /\ [Next]_vars => [Provenance!LineageNext]_(Provenance!lineageVars)
    <2> SUFFICES ASSUME IInv, [Next]_vars
                 PROVE  \/ \E o \in Commands : Provenance!Publish(o)
                        \/ published' = published /\ basis' = basis
      BY DEF Provenance!LineageNext, Provenance!lineageVars
    <2>1. ASSUME NEW c \in Commands, Commit(c) PROVE Provenance!Publish(c)
      <3>1. c \notin published
        BY <2>1, CommitFacts
      <3>2. published' = published \cup {c}
        BY <2>1, CommitFacts DEF Elsewhere
      <3>3. basis'[c] \subseteq published
        BY <2>1, BasisCommitted
      <3>4. basis' = [basis EXCEPT ![c] = basis'[c]]
        <4>1. \A d \in Commands \ {c} :
                 /\ snaps'[d] = snaps[d] /\ trainings'[d] = trainings[d]
                 /\ forecasts'[d] = forecasts[d] /\ summaries'[d] = summaries[d]
          BY <2>1, CommitFacts DEF IInv, TypeOK
        <4>2. \A d \in Commands \ {c} : Basis(d)' = Basis(d)
          BY <4>1 DEF Basis
        <4> QED
          BY <4>2
      <3> QED
        BY <3>1, <3>2, <3>3, <3>4 DEF Provenance!Publish
    <2>2. CASE SameTables /\ \A d \in Commands : pc'[d] = "done" <=> pc[d] = "done"
      BY <2>2 DEF SameTables, Basis
    <2> QED
      BY <2>1, <2>2, OnlyCommitsPublish
  <1> QED
    BY <1>1, <1>2, InitInv, StepInv, PTL DEF Spec, ImplementsLineage, Provenance!LineageSpec

=============================================================================
