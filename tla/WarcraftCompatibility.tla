----------------------- MODULE WarcraftCompatibility -----------------------
(* The offline LAN fix of Strajer.app: WarcraftCompatibilityController     *)
(* evaluates the installed Warcraft, derives an override of its WebUI,     *)
(* writes the nickname for it and shows whether Warcraft is fixed          *)
(* (WarcraftCompatibilityController.swift, NicknameController.swift).      *)
(*                                                                         *)
(* Everything runs on the main actor, whose jobs run in their order; an    *)
(* evaluation suspends while it asks Warcraft for its WebUI, and so do     *)
(* evaluations that were cancelled, which may still be handed an answer.   *)
(* Meanwhile Warcraft starts and quits, the user edits files, and Strajer  *)
(* is killed and started again.  A WebUI is reduced to what inspectWebUI   *)
(* makes of it: "buggy" for requiresPatch, "fixed" or "unknown".           *)
EXTENDS Naturals, Sequences

CONSTANTS
  Archives,       \* what the installed versions of Warcraft may contain
  Nicknames,
  MaxLaunches,    \* bound: launches of Warcraft
  MaxEvaluations, \* bound: evaluations of one life of Strajer, after which the
                  \* user schedules no more
  MaxEdits,       \* bound: overrides made or removed by the user
  MaxFailures,    \* bound: evaluations that fail before they write
  MaxDeaths       \* bound: deaths of Strajer

ASSUME CompatibilityAssumption ==
  /\ Archives \subseteq {"buggy", "fixed", "unknown"} /\ Archives # {}
  /\ Nicknames # {}
  /\ {MaxLaunches, MaxEvaluations, MaxEdits, MaxFailures, MaxDeaths} \subseteq Nat
  /\ MaxEvaluations # 0

VARIABLES
  archive, pages, game,               \* Warcraft: its WebUI, that of each launch,
                                      \* and the one that runs (0: none)
  override, backup, localFiles, config, \* files and preferences
  runs, status, nickname,             \* the controllers
  tasks, jobs,                        \* evaluations and the main actor's queue
  edits, failures, deaths,            \* bounds
  patched, overdue                    \* history: the first override that was
                                      \* patched, a WebUI not served within 60
                                      \* attempts

gameVars == <<archive, pages, game>>
fileVars == <<override, backup, localFiles, config>>
history == <<patched, overdue>>
vars == <<gameVars, fileVars, runs, status, nickname, tasks, jobs,
          edits, failures, deaths, history>>

(* An override and its maker: 0 is Strajer, other numbers are edits.       *)
File == [kind: {"buggy", "fixed", "unknown"}, by: 0..MaxEdits]
NoFile == [kind |-> "none", by |-> 0]
Patch == [kind |-> "fixed", by |-> 0]

Statuses == {"checking", "waitingForWarcraft", "applying", "ready", "restartRequired",
             "unavailable"}

Task == [app: 0..MaxLaunches, cancelled: BOOLEAN,
         stage: {"queued", "install", "compare", "answered", "done", "failed"}]
TaskIds == 1..(MaxEvaluations + MaxLaunches)
Job == [type: {"notice"}, app: 1..MaxLaunches] \cup [type: {"start"}, task: TaskIds]
  \cup [type: {"answer"}, task: TaskIds, asked: {"install", "compare"},
        page: {"buggy", "fixed", "none"}]

Enqueue(job) == jobs' = Append(jobs, job)

----------------------------------------------------------------------------
(* Scheduling. *)

Cancel(t) == [t EXCEPT !.cancelled = TRUE]

(* The evaluations so far, all cancelled, and a new one. *)
Scheduled(app) ==
  Append([i \in DOMAIN tasks |-> Cancel(tasks[i])],
         [app |-> app, cancelled |-> FALSE, stage |-> "queued"])

ScheduleEvaluation(app, queue) ==
  IF runs
    THEN /\ tasks' = Scheduled(app)
         /\ jobs' = Append(queue, [type |-> "start", task |-> Len(tasks) + 1])
    ELSE jobs' = queue /\ UNCHANGED tasks

Start ==
  /\ ~runs /\ runs' = TRUE /\ status' = "checking"
  /\ tasks' = <<[app |-> game, cancelled |-> FALSE, stage |-> "queued"]>>
  /\ jobs' = <<[type |-> "start", task |-> 1]>>
  /\ UNCHANGED <<gameVars, fileVars, nickname, edits, failures, deaths, history>>

Retry ==
  /\ runs /\ status = "unavailable"
  /\ Len(tasks) < MaxEvaluations /\ ScheduleEvaluation(game, jobs)
  /\ UNCHANGED <<gameVars, fileVars, runs, status, nickname, edits, failures, deaths, history>>

(* Entered in the menu, or captured from a join. *)
SaveNickname(n) ==
  /\ runs /\ n # nickname /\ nickname' = n
  /\ Len(tasks) < MaxEvaluations /\ ScheduleEvaluation(game, jobs)
  /\ UNCHANGED <<gameVars, fileVars, runs, status, edits, failures, deaths, history>>

NoticeLaunch ==
  /\ jobs # <<>> /\ Head(jobs).type = "notice"
  /\ ScheduleEvaluation(Head(jobs).app, Tail(jobs))
  /\ UNCHANGED <<gameVars, fileVars, runs, status, nickname, edits, failures, deaths, history>>

----------------------------------------------------------------------------
(* An evaluation.  It does not look whether it was cancelled until it asks *)
(* Warcraft for its WebUI, nor when it is handed the answer.               *)

Begins(i, t) ==
  /\ jobs # <<>> /\ Head(jobs) = [type |-> "start", task |-> i] /\ jobs' = Tail(jobs)
  /\ t = tasks[i]
  /\ UNCHANGED <<gameVars, runs, nickname, edits, deaths>>

Ends(i, stage, result) ==
  /\ tasks' = [tasks EXCEPT ![i].stage = stage]
  /\ status' = result

WrongPrepared ==
  localFiles' = TRUE /\ config' = (IF config = "absent" THEN nickname ELSE config)
  /\ UNCHANGED failures
Prepared == localFiles' = TRUE /\ config' = nickname /\ UNCHANGED failures

(* No Warcraft, or its directory or preferences cannot be written. *)
FailToPrepare(i, t) ==
  /\ Begins(i, t) /\ failures < MaxFailures /\ failures' = failures + 1
  /\ localFiles' \in {localFiles, TRUE}
  /\ Ends(i, "failed", "unavailable")
  /\ UNCHANGED <<override, backup, config, history>>

WrongBackedUp == IF backup = NoFile THEN Patch ELSE backup
BackedUp == IF backup = NoFile THEN override ELSE backup

IsBuggy(file) == file.kind = "buggy"

PatchExisting(i, t) ==
  /\ Begins(i, t) /\ Prepared
  /\ IsBuggy(override)
  /\ backup' = BackedUp /\ override' = Patch
  /\ patched' = IF patched = NoFile THEN override ELSE patched
  /\ Ends(i, "done", IF t.app = 0 THEN "ready" ELSE "restartRequired")
  /\ UNCHANGED overdue

RefuseUnknown(i, t) ==
  /\ Begins(i, t) /\ Prepared
  /\ override.kind = "unknown"
  /\ Ends(i, "done", "unavailable")
  /\ UNCHANGED <<override, backup, history>>

WrongIdleStatus == "applying"
IdleStatus == "waitingForWarcraft"

CheckWithoutGame(i, t) ==
  /\ Begins(i, t) /\ Prepared
  /\ t.app = 0 /\ override.kind \in {"fixed", "none"}
  /\ Ends(i, "done", IF override.kind = "fixed" THEN "ready" ELSE IdleStatus)
  /\ UNCHANGED <<override, backup, history>>

(* A cancelled task is stopped by the first check of the loop. *)
AskGame(i, t) ==
  /\ Begins(i, t) /\ Prepared
  /\ t.app # 0 /\ override.kind \in {"fixed", "none"}
  /\ IF override.kind = "fixed"
       THEN Ends(i, IF t.cancelled THEN "done" ELSE "compare", "checking")
       ELSE Ends(i, IF t.cancelled THEN "done" ELSE "install", "applying")
  /\ UNCHANGED <<override, backup, history>>

Page == IF game = 0 THEN "none" ELSE pages[game]

Asking(t) == t.stage \in {"install", "compare"}

Answered(i, page) ==
  /\ Asking(tasks[i])
  /\ Enqueue([type |-> "answer", task |-> i, asked |-> tasks[i].stage, page |-> page])
  /\ tasks' = [tasks EXCEPT ![i].stage = "answered"]
  /\ UNCHANGED <<gameVars, fileVars, runs, status, nickname, edits, failures, deaths,
                 patched>>

(* fetchWebUISource: also for a cancelled task whose response was complete.*)
GameAnswers(i) ==
  /\ Asking(tasks[i]) /\ game = tasks[i].app /\ Page # "unknown"
  /\ Answered(i, Page) /\ UNCHANGED overdue

GameIsSilent(i) ==
  /\ Asking(tasks[i]) /\ ~tasks[i].cancelled
  /\ Answered(i, "none")
  /\ overdue' = (overdue \/ (game = tasks[i].app /\ Page # "unknown"))

SeeCancellation(i) ==
  /\ Asking(tasks[i]) /\ tasks[i].cancelled
  /\ tasks' = [tasks EXCEPT ![i].stage = "done"]
  /\ UNCHANGED <<gameVars, fileVars, runs, status, nickname, jobs, edits, failures, deaths,
                 history>>

Resumes(i, asked, page) ==
  /\ jobs # <<>> /\ jobs' = Tail(jobs)
  /\ Head(jobs) = [type |-> "answer", task |-> i, asked |-> asked, page |-> page]
  /\ UNCHANGED <<gameVars, backup, localFiles, config, runs, nickname, edits, failures, deaths>>

Install(i) ==
  /\ Resumes(i, "install", "buggy")
  /\ override' = Patch
  /\ Ends(i, "done", "restartRequired")
  /\ UNCHANGED history

WrongVerdict(asked, page) == IF page = "none" THEN "restartRequired" ELSE "ready"

Verdict(asked, page) ==
  CASE page = "fixed" -> "ready"
    [] page = "buggy" -> "restartRequired"
    [] page = "none" -> IF asked = "compare" THEN "restartRequired" ELSE "unavailable"

Judge(i) ==
  /\ \E asked \in {"install", "compare"}, page \in {"buggy", "fixed", "none"} :
       /\ <<asked, page>> # <<"install", "buggy">>
       /\ Resumes(i, asked, page)
       /\ Ends(i, "done", Verdict(asked, page))
  /\ UNCHANGED <<override, history>>

----------------------------------------------------------------------------
(* The surroundings. *)

LaunchGame ==
  /\ game = 0 /\ Len(pages) < MaxLaunches
  /\ game' = Len(pages) + 1
  /\ pages' = Append(pages, IF localFiles /\ override # NoFile THEN override.kind ELSE archive)
  /\ IF runs THEN Enqueue([type |-> "notice", app |-> game']) ELSE UNCHANGED jobs
  /\ UNCHANGED <<archive, fileVars, runs, status, nickname, tasks, edits, failures, deaths,
                 history>>

QuitGame ==
  /\ game # 0 /\ game' = 0
  /\ UNCHANGED <<archive, pages, fileVars, runs, status, nickname, tasks, jobs, edits, failures,
                 deaths, history>>

EditOverride(file) ==
  /\ edits < MaxEdits /\ edits' = edits + 1
  /\ file = NoFile \/ file.by = edits'
  /\ override' = file
  /\ UNCHANGED <<gameVars, backup, localFiles, config, runs, status, nickname, tasks, jobs,
                 failures, deaths, history>>

Die ==
  /\ runs /\ deaths < MaxDeaths /\ deaths' = deaths + 1
  /\ runs' = FALSE /\ tasks' = <<>> /\ jobs' = <<>>
  /\ UNCHANGED <<gameVars, status, nickname, edits, failures, history>>

Killed == Die /\ UNCHANGED fileVars

(* Killed between the backup and the patch. *)
KilledAtPatch ==
  /\ jobs # <<>> /\ Head(jobs).type = "start" /\ override.kind = "buggy"
  /\ Die
  /\ backup' = BackedUp /\ localFiles' = TRUE /\ config' = nickname /\ UNCHANGED override

----------------------------------------------------------------------------
Init ==
  /\ archive \in Archives /\ pages = <<>> /\ game = 0
  /\ override = NoFile /\ backup = NoFile /\ localFiles = FALSE
  /\ config = "absent" /\ nickname = "none"
  /\ runs = FALSE /\ status = "checking" /\ tasks = <<>> /\ jobs = <<>>
  /\ edits = 0 /\ failures = 0 /\ deaths = 0
  /\ patched = NoFile /\ overdue = FALSE

Evaluate(i, t) ==
  \/ FailToPrepare(i, t) \/ PatchExisting(i, t) \/ RefuseUnknown(i, t)
  \/ CheckWithoutGame(i, t) \/ AskGame(i, t)

Asked(i) == GameAnswers(i) \/ GameIsSilent(i) \/ SeeCancellation(i)

MainActor ==
  \/ NoticeLaunch
  \/ \E i \in DOMAIN tasks : Evaluate(i, tasks[i]) \/ Install(i) \/ Judge(i)

User ==
  \/ Start \/ Retry \/ LaunchGame \/ QuitGame \/ Killed \/ KilledAtPatch
  \/ \E n \in Nicknames : SaveNickname(n)
  \/ \E file \in File \cup {NoFile} : EditOverride(file)

Next ==
  \/ MainActor
  \/ \E i \in DOMAIN tasks : Asked(i)
  \/ User

Spec == Init /\ [][Next]_vars

(* The main actor runs its jobs, and whoever asks Warcraft is answered,    *)
(* times out or sees that it was cancelled.                                *)
FairSpec ==
  /\ Spec
  /\ WF_vars(MainActor)
  /\ \A i \in TaskIds : WF_vars(i \in DOMAIN tasks /\ Asked(i))

----------------------------------------------------------------------------
(* Every variable keeps its type, and what Strajer made is fixed. *)
TypeOK ==
  /\ archive \in Archives /\ pages \in Seq({"buggy", "fixed", "unknown"})
  /\ game \in 0..Len(pages)
  /\ {override, backup, patched} \subseteq File \cup {NoFile}
  /\ \A file \in {override, backup} : file.by = 0 => file.kind \in {"fixed", "none"}
  /\ localFiles \in BOOLEAN /\ config \in Nicknames \cup {"none", "absent"} /\ nickname \in Nicknames \cup {"none"}
  /\ runs \in BOOLEAN /\ status \in Statuses
  /\ tasks \in Seq(Task) /\ jobs \in Seq(Job) /\ overdue \in BOOLEAN

(* Nothing is left to run and no evaluation is suspended. *)
Settled ==
  /\ runs /\ jobs = <<>>
  /\ \A i \in DOMAIN tasks : tasks[i].stage \in {"done", "failed"}

Newest == tasks[Len(tasks)]

(* `Verifica Offline LAN fix: Ready': a settled "ready" beside a running   *)
(* Warcraft means that this Warcraft shows the fixed WebUI, not the one    *)
(* before it nor the one after the next launch.  And `restart necessary',  *)
(* which install-macos.md shows only after the fix was installed, is not   *)
(* said beside a Warcraft that has the fix; this is true of a Warcraft     *)
(* that served its WebUI in time and of overrides that nobody else         *)
(* changed: the code shows restartRequired for any other outcome.          *)
StatusIsTrue ==
  Settled =>
    /\ status = "ready" => Page \in {"fixed", "none"}
    /\ status = "restartRequired" /\ ~overdue /\ edits = 0 => Page # "fixed"

(* The nickname that was saved last, in the menu or by a join, is the one  *)
(* written for Warcraft, unless the newest evaluation said that it failed. *)
NicknameReaches ==
  Settled /\ Newest.stage # "failed" => config = nickname

(* The backup is never Strajer's own patch, also when Strajer was killed   *)
(* between the two, and an override that the user made before any other    *)
(* stays in it once it was patched, whenever the user edits the override.  *)
FilesAreTheirs ==
  /\ TypeOK
  /\ backup # NoFile => backup.by # 0
  /\ patched.by = 1 => backup = patched

(* Whatever is cancelled, the status does not stay at checking or applying.*)
Settles == []<>(runs => status \notin {"checking", "applying"})
=============================================================================
