------------------------- MODULE CompatibilityProofs -------------------------
(* What Strajer says of Warcraft, and what it leaves of the user's files,  *)
(* for any number of launches, evaluations, edits and deaths.              *)
(*                                                                         *)
(* A settled status is true because what is said last is about the         *)
(* Warcraft that runs.  A launch is noticed in its turn, and its own       *)
(* evaluation starts behind everything that is said of an earlier one:     *)
(* whatever is not about the Warcraft that runs is overtaken (Overtaken),  *)
(* and whoever could still be told something else of it is cancelled       *)
(* (NewestIsAboutGame).                                                    *)
EXTENDS WarcraftCompatibility, TLAPS

Jobs == DOMAIN jobs
IsNotice(k, g) == jobs[k].type = "notice" /\ jobs[k].app = g
OfTask(k) == jobs[k].type \in {"start", "answer"}
Starts(k, g) == jobs[k].type = "start" /\ tasks[jobs[k].task].app = g

Noticed(g) == \E k \in Jobs : IsNotice(k, g)
Pending(g) == Noticed(g) \/ \E k \in Jobs : Starts(k, g)

(* Every job is of a task that waits for it, and no two of one task.       *)
JobsOfTasks ==
  /\ \A k \in Jobs : OfTask(k) =>
       /\ jobs[k].task \in DOMAIN tasks
       /\ tasks[jobs[k].task].stage = (IF jobs[k].type = "start" THEN "queued" ELSE "answered")
  /\ \A k, l \in Jobs : OfTask(k) /\ OfTask(l) /\ jobs[k].task = jobs[l].task => k = l

(* Launches have numbers that grow, and are noticed in their order; so     *)
(* there never are more tasks than evaluations and launches.               *)
LaunchesInOrder ==
  /\ Len(pages) <= MaxLaunches /\ game \in {0, Len(pages)}
  /\ \A i \in DOMAIN tasks : tasks[i].app \in 0..Len(pages)
  /\ \A k \in Jobs : jobs[k].type = "notice" =>
       /\ jobs[k].app \in 1..Len(pages)
       /\ Len(tasks) < MaxEvaluations + jobs[k].app
       /\ \A l \in Jobs : l < k /\ jobs[l].type = "notice" => jobs[l].app < jobs[k].app
  /\ Len(tasks) <= MaxEvaluations + Len(pages)

(* Strajer has something to say as long as it runs, and only then.         *)
RunsWithTasks ==
  /\ runs <=> tasks # <<>>
  /\ ~runs => jobs = <<>>

NewestIsAboutGame ==
  /\ \A i \in DOMAIN tasks : i < Len(tasks) => tasks[i].cancelled = TRUE
  /\ runs /\ game # 0 => tasks[Len(tasks)].app = game \/ Noticed(game)

(* What is not about the Warcraft that runs is followed by what is.        *)
Overtaken ==
  game # 0 =>
    \A k \in Jobs :
      /\ jobs[k].type = "notice" /\ jobs[k].app # game => Noticed(game)
      /\ OfTask(k) /\ tasks[jobs[k].task].app # game =>
           Noticed(game) \/ \E l \in Jobs : l > k /\ Starts(l, game)

(* An answer about the Warcraft that runs is true.                         *)
AnswersAreTrue ==
  \A k \in Jobs :
    jobs[k].type = "answer" /\ game # 0 /\ tasks[jobs[k].task].app = game =>
      /\ jobs[k].page = "none" => overdue \/ Page = "unknown"
      /\ jobs[k].page # "none" => jobs[k].page = Page

StatusFollows ==
  runs /\ game # 0 =>
    \/ Pending(game)
    \/ /\ status = "ready" => Page = "fixed"
       /\ status = "restartRequired" /\ ~overdue /\ edits = 0 => Page # "fixed"

(* The newest evaluation, once it ran, wrote the newest nickname.          *)
NicknameWritten ==
  runs /\ tasks[Len(tasks)].stage \notin {"queued", "failed"} => config = nickname

(* The override that was made first stays the backup of itself.            *)
BackupOfFirst ==
  /\ edits = 0 => override \in {NoFile, Patch} /\ backup = NoFile
  /\ backup # NoFile => backup.by # 0
  /\ override.by = 1 /\ backup # NoFile => backup = override
  /\ patched.by = 1 => backup = patched

SettlingInv ==
  /\ TypeOK /\ edits \in 0..MaxEdits /\ {failures, deaths} \subseteq Nat
  /\ override.by <= edits
  /\ JobsOfTasks /\ LaunchesInOrder /\ RunsWithTasks

CompatibilityInv ==
  /\ SettlingInv /\ NewestIsAboutGame /\ Overtaken /\ AnswersAreTrue /\ StatusFollows
  /\ NicknameWritten /\ BackupOfFirst

QueueInv ==
  JobsOfTasks /\ LaunchesInOrder /\ RunsWithTasks /\ NewestIsAboutGame /\ Overtaken

QueueTyped ==
  /\ tasks \in Seq(Task) /\ jobs \in Seq(Job) /\ pages \in Seq({"buggy", "fixed", "unknown"})
  /\ game \in Nat /\ runs \in BOOLEAN

----------------------------------------------------------------------------
(* Lemmas on queues and tasks. *)

LEMMA Bounds ==
  /\ MaxLaunches \in Nat /\ MaxEvaluations \in Nat \ {0} /\ MaxEdits \in Nat
  /\ MaxFailures \in Nat /\ MaxDeaths \in Nat
  BY CompatibilityAssumption DEF CompatibilityAssumption

LEMMA TailIsRest ==
  ASSUME NEW S, NEW q \in Seq(S), q # <<>>
  PROVE  /\ Tail(q) \in Seq(S) /\ Len(q) \in Nat \ {0} /\ Len(Tail(q)) = Len(q) - 1
         /\ Head(q) = q[1] /\ 1 \in DOMAIN q
         /\ DOMAIN Tail(q) = 1..(Len(q) - 1) /\ DOMAIN q = 1..Len(q)
         /\ \A k \in 1..(Len(q) - 1) : Tail(q)[k] = q[k + 1]
  OBVIOUS

LEMMA AppendIsAfter ==
  ASSUME NEW S, NEW q \in Seq(S), NEW x \in S
  PROVE  /\ Append(q, x) \in Seq(S) /\ Len(q) \in Nat /\ Len(Append(q, x)) = Len(q) + 1
         /\ DOMAIN Append(q, x) = 1..(Len(q) + 1) /\ DOMAIN q = 1..Len(q)
         /\ \A k \in 1..Len(q) : Append(q, x)[k] = q[k]
         /\ Append(q, x)[Len(q) + 1] = x
  OBVIOUS

LEMMA JobFields ==
  ASSUME NEW x \in Job
  PROVE  /\ x.type \in {"notice", "start", "answer"}
         /\ x.type = "notice" => x.app \in 1..MaxLaunches
         /\ x.type # "notice" => x.task \in TaskIds
         /\ x.type = "answer" => x.asked \in {"install", "compare"} /\ x.page \in {"buggy", "fixed", "none"}
  BY DEF Job

LEMMA CancelledTask ==
  ASSUME NEW t \in Task
  PROVE  /\ Cancel(t) \in Task /\ Cancel(t).app = t.app /\ Cancel(t).stage = t.stage
         /\ Cancel(t).cancelled = TRUE
<1>1. Cancel(t) \in Task
  BY DEF Task, Cancel
<1>2. Cancel(t).app = t.app /\ Cancel(t).stage = t.stage
  BY DEF Task, Cancel
<1>3. Cancel(t).cancelled = TRUE
  BY DEF Task, Cancel
<1> QED
  BY <1>1, <1>2, <1>3

(* All tasks so far are cancelled; the new one is the last. *)
LEMMA NewTask ==
  ASSUME tasks \in Seq(Task), NEW app \in 0..MaxLaunches, tasks' = Scheduled(app)
  PROVE  /\ tasks' \in Seq(Task) /\ Len(tasks) \in Nat /\ DOMAIN tasks = 1..Len(tasks)
         /\ Len(tasks') = Len(tasks) + 1 /\ DOMAIN tasks' = 1..(Len(tasks) + 1)
         /\ \A j \in 1..Len(tasks) : tasks'[j].app = tasks[j].app
         /\ \A j \in 1..Len(tasks) : tasks'[j].stage = tasks[j].stage
         /\ \A j \in 1..Len(tasks) : tasks'[j].cancelled = TRUE
         /\ tasks'[Len(tasks) + 1].app = app /\ tasks'[Len(tasks) + 1].stage = "queued"
         /\ tasks'[Len(tasks) + 1].cancelled = FALSE
<1> DEFINE old == [i \in DOMAIN tasks |-> Cancel(tasks[i])]
           new == [app |-> app, cancelled |-> FALSE, stage |-> "queued"]
<1>1. new \in Task
  BY DEF Task
<1>2. \A i \in DOMAIN tasks : /\ tasks[i] \in Task /\ Cancel(tasks[i]) \in Task
                              /\ Cancel(tasks[i]).app = tasks[i].app
                              /\ Cancel(tasks[i]).stage = tasks[i].stage
                              /\ Cancel(tasks[i]).cancelled = TRUE
  <2> SUFFICES ASSUME NEW i \in DOMAIN tasks
               PROVE  /\ tasks[i] \in Task /\ Cancel(tasks[i]) \in Task
                      /\ Cancel(tasks[i]).app = tasks[i].app
                      /\ Cancel(tasks[i]).stage = tasks[i].stage
                      /\ Cancel(tasks[i]).cancelled = TRUE
    OBVIOUS
  <2>1. tasks[i] \in Task
    OBVIOUS
  <2> QED
    BY <2>1, CancelledTask
<1>3. old \in Seq(Task) /\ Len(old) = Len(tasks) /\ Len(tasks) \in Nat /\ DOMAIN tasks = 1..Len(tasks)
  BY <1>2
<1> HIDE DEF old, new
<1>4. tasks' = Append(old, new)
  BY DEF Scheduled, old, new
<1>5. \A j \in 1..Len(tasks) : old[j] = Cancel(tasks[j])
  BY <1>3 DEF old
<1>6. new.app = app /\ new.stage = "queued" /\ new.cancelled = FALSE
  BY DEF new
<1>7. /\ tasks' \in Seq(Task) /\ Len(tasks') = Len(tasks) + 1 /\ DOMAIN tasks' = 1..(Len(tasks) + 1)
      /\ tasks'[Len(tasks) + 1] = new
  BY <1>1, <1>3, <1>4, AppendIsAfter
<1>8. \A j \in 1..Len(tasks) : tasks'[j] = Cancel(tasks[j])
  BY <1>1, <1>3, <1>4, <1>5, AppendIsAfter
<1> QED
  BY <1>2, <1>3, <1>6, <1>7, <1>8

LEMMA MovedTask ==
  ASSUME tasks \in Seq(Task), NEW i \in DOMAIN tasks,
         NEW stage \in {"queued", "install", "compare", "answered", "done", "failed"},
         tasks' = [tasks EXCEPT ![i].stage = stage]
  PROVE  /\ tasks' \in Seq(Task) /\ Len(tasks') = Len(tasks) /\ DOMAIN tasks' = DOMAIN tasks
         /\ DOMAIN tasks = 1..Len(tasks) /\ Len(tasks) \in Nat
         /\ \A j \in 1..Len(tasks) : tasks'[j].app = tasks[j].app
         /\ \A j \in 1..Len(tasks) : tasks'[j].cancelled = tasks[j].cancelled
         /\ \A j \in 1..Len(tasks) : j # i => tasks'[j] = tasks[j]
         /\ tasks'[i].stage = stage
<1> DEFINE moved == [tasks[i] EXCEPT !.stage = stage]
<1>1. tasks[i] \in Task
  OBVIOUS
<1>2. moved \in Task
  BY <1>1 DEF Task
<1>3. moved.app = tasks[i].app /\ moved.stage = stage
  BY <1>1 DEF Task
<1>4. moved.cancelled = tasks[i].cancelled
  BY <1>1 DEF Task
<1>5. tasks' = [tasks EXCEPT ![i] = moved]
  OBVIOUS
<1> HIDE DEF moved
<1>6. tasks' \in Seq(Task) /\ Len(tasks') = Len(tasks) /\ DOMAIN tasks' = DOMAIN tasks
      /\ DOMAIN tasks = 1..Len(tasks) /\ Len(tasks) \in Nat
  BY <1>2, <1>5
<1>7. tasks'[i] = moved /\ \A j \in DOMAIN tasks : j # i => tasks'[j] = tasks[j]
  BY <1>5
<1> QED
  BY <1>3, <1>4, <1>6, <1>7

----------------------------------------------------------------------------
(* What each kind of step does to the queue.  Its jobs, the tasks and the  *)
(* launches keep one another in order.                                     *)

LEMMA RescheduleKeepsQueue ==
  ASSUME QueueTyped, QueueInv, runs, Len(tasks) < MaxEvaluations, ScheduleEvaluation(game, jobs),
         UNCHANGED <<pages, game, runs>>
  PROVE  (QueueTyped /\ QueueInv)'
<1> USE Bounds
<1> DEFINE job == [type |-> "start", task |-> Len(tasks) + 1]
<1>1. game \in 0..MaxLaunches /\ Len(tasks) \in Nat /\ Len(pages) \in Nat
  BY DEF QueueInv, LaunchesInOrder, QueueTyped
<1>2. /\ tasks' = Scheduled(game) /\ jobs' = Append(jobs, job)
  BY DEF ScheduleEvaluation
<1>3. job \in Job
  BY <1>1 DEF Job, TaskIds
<1>4. /\ tasks' \in Seq(Task) /\ Len(tasks) \in Nat /\ DOMAIN tasks = 1..Len(tasks)
      /\ Len(tasks') = Len(tasks) + 1 /\ DOMAIN tasks' = 1..(Len(tasks) + 1)
      /\ \A j \in 1..Len(tasks) : tasks'[j].app = tasks[j].app
      /\ \A j \in 1..Len(tasks) : tasks'[j].stage = tasks[j].stage
      /\ \A j \in 1..Len(tasks) : tasks'[j].cancelled = TRUE
      /\ tasks'[Len(tasks) + 1].app = game /\ tasks'[Len(tasks) + 1].stage = "queued"
  <2>1. tasks \in Seq(Task)
    BY DEF QueueTyped
  <2> QED
    BY <1>1, <1>2, <2>1, NewTask
<1>5. /\ jobs' \in Seq(Job) /\ Len(jobs) \in Nat /\ DOMAIN jobs = 1..Len(jobs)
      /\ DOMAIN jobs' = 1..(Len(jobs) + 1)
      /\ \A k \in 1..Len(jobs) : jobs'[k] = jobs[k]
      /\ jobs'[Len(jobs) + 1] = job
  BY <1>2, <1>3, AppendIsAfter DEF QueueTyped
<1>6. \A k \in DOMAIN jobs : jobs[k] \in Job
  BY DEF QueueTyped
<1>7. job.type = "start" /\ job.task = Len(tasks) + 1
  OBVIOUS
<1> HIDE DEF job
<1>8. QueueTyped'
  BY <1>4, <1>5 DEF QueueTyped
<1>9. JobsOfTasks'
  <2>1. ASSUME NEW k \in DOMAIN jobs', OfTask(k)'
        PROVE  /\ jobs'[k].task \in DOMAIN tasks'
               /\ tasks'[jobs'[k].task].stage =
                    (IF jobs'[k].type = "start" THEN "queued" ELSE "answered")
               /\ jobs'[k].task = Len(tasks) + 1 <=> k = Len(jobs) + 1
    <3>1. CASE k = Len(jobs) + 1
      BY <3>1, <1>4, <1>5, <1>7
    <3>2. CASE k \in DOMAIN jobs
      <4>1. jobs'[k] = jobs[k] /\ OfTask(k)
        BY <3>2, <2>1, <1>5 DEF OfTask
      <4>2. /\ jobs[k].task \in DOMAIN tasks
            /\ tasks[jobs[k].task].stage =
                 (IF jobs[k].type = "start" THEN "queued" ELSE "answered")
        BY <3>2, <4>1 DEF QueueInv, JobsOfTasks, Jobs
      <4> QED
        BY <3>2, <4>1, <4>2, <1>4, <1>5
    <3> QED
      BY <3>1, <3>2, <1>5
  <2>2. ASSUME NEW k \in DOMAIN jobs', NEW l \in DOMAIN jobs', OfTask(k)', OfTask(l)',
               jobs'[k].task = jobs'[l].task
        PROVE  k = l
    <3>1. CASE k = Len(jobs) + 1 \/ l = Len(jobs) + 1
      BY <2>1, <2>2, <3>1
    <3>2. CASE k \in DOMAIN jobs /\ l \in DOMAIN jobs
      BY <2>2, <3>2, <1>5 DEF QueueInv, JobsOfTasks, Jobs, OfTask
    <3> QED
      BY <3>1, <3>2, <1>5
  <2> QED
    BY <2>1, <2>2 DEF JobsOfTasks, Jobs
<1>10. LaunchesInOrder'
  <2>1. /\ Len(pages') <= MaxLaunches /\ game' \in {0, Len(pages')}
        /\ \A i \in DOMAIN tasks' : tasks'[i].app \in 0..Len(pages')
    BY <1>1, <1>4 DEF QueueInv, LaunchesInOrder
  <2>2. Len(tasks') <= MaxEvaluations + Len(pages')
    BY <1>1, <1>4
  <2>3. ASSUME NEW k \in DOMAIN jobs', jobs'[k].type = "notice"
        PROVE  /\ jobs'[k].app \in 1..Len(pages')
               /\ Len(tasks') < MaxEvaluations + jobs'[k].app
               /\ \A l \in DOMAIN jobs' : l < k /\ jobs'[l].type = "notice" => jobs'[l].app < jobs'[k].app
    <3>1. k \in DOMAIN jobs /\ jobs'[k] = jobs[k]
      BY <2>3, <1>5, <1>7
    <3>2. /\ jobs[k].app \in 1..Len(pages)
          /\ \A l \in Jobs : l < k /\ jobs[l].type = "notice" => jobs[l].app < jobs[k].app
      BY <2>3, <3>1 DEF QueueInv, LaunchesInOrder, Jobs
    <3>3. Len(tasks') < MaxEvaluations + jobs'[k].app
      BY <3>1, <3>2, <1>1, <1>4
    <3>4. ASSUME NEW l \in DOMAIN jobs', l < k, jobs'[l].type = "notice"
          PROVE  jobs'[l].app < jobs'[k].app
      <4>1. l \in DOMAIN jobs /\ jobs'[l] = jobs[l]
        BY <3>1, <3>4, <1>5
      <4> QED
        BY <3>1, <3>2, <3>4, <4>1 DEF Jobs
    <3> QED
      BY <3>1, <3>2, <3>3, <3>4
  <2> QED
    BY <2>1, <2>2, <2>3 DEF LaunchesInOrder, Jobs
<1>11. RunsWithTasks'
  BY <1>4 DEF QueueInv, RunsWithTasks
<1>12. NewestIsAboutGame'
  BY <1>4 DEF NewestIsAboutGame
<1>13. Overtaken'
  <2> SUFFICES ASSUME game # 0, NEW k \in DOMAIN jobs'
      PROVE  /\ jobs'[k].type = "notice" /\ jobs'[k].app # game => Noticed(game)'
             /\ OfTask(k)' /\ tasks'[jobs'[k].task].app # game =>
                  \/ Noticed(game)'
                  \/ \E l \in DOMAIN jobs' :
                       /\ l > k /\ jobs'[l].type = "start" /\ tasks'[jobs'[l].task].app = game
    BY DEF Overtaken, Jobs, Starts
  <2>1. /\ jobs'[Len(jobs) + 1].type = "start"
        /\ tasks'[jobs'[Len(jobs) + 1].task].app = game
    BY <1>4, <1>5, <1>7
  <2>2. Noticed(game) => Noticed(game)'
    BY <1>5 DEF Noticed, IsNotice, Jobs
  <2>3. CASE k = Len(jobs) + 1
    BY <2>3, <1>4, <1>5, <1>7
  <2>4. CASE k \in DOMAIN jobs
    <3>1. jobs'[k] = jobs[k] /\ Len(jobs) + 1 > k /\ Len(jobs) + 1 \in DOMAIN jobs'
      BY <2>4, <1>5
    <3>2. jobs[k].type = "notice" /\ jobs[k].app # game => Noticed(game)
      BY <2>4 DEF QueueInv, Overtaken, Jobs
    <3> QED
      BY <3>1, <3>2, <2>1, <2>2
  <2> QED
    BY <2>3, <2>4, <1>5
<1> QED
  BY <1>8, <1>9, <1>10, <1>11, <1>12, <1>13 DEF QueueInv

LEMMA HandleKeepsQueue ==
  ASSUME QueueTyped, QueueInv, jobs # <<>>, OfTask(1), NEW i, i = jobs[1].task,
         NEW stage \in {"install", "compare", "done", "failed"},
         tasks' = [tasks EXCEPT ![i].stage = stage], jobs' = Tail(jobs),
         UNCHANGED <<pages, game, runs>>
  PROVE  (QueueTyped /\ QueueInv)'
<1> USE Bounds
<1>1. Len(tasks) \in Nat /\ Len(pages) \in Nat
  BY DEF QueueTyped
<1>2. /\ jobs' \in Seq(Job) /\ Len(jobs) \in Nat \ {0} /\ DOMAIN jobs = 1..Len(jobs)
      /\ DOMAIN jobs' = 1..(Len(jobs) - 1)
      /\ \A k \in 1..(Len(jobs) - 1) : jobs'[k] = jobs[k + 1]
  BY TailIsRest DEF QueueTyped
<1>3. i \in DOMAIN tasks
  BY <1>2 DEF QueueInv, JobsOfTasks, Jobs
<1>4. /\ tasks' \in Seq(Task) /\ Len(tasks') = Len(tasks) /\ DOMAIN tasks' = DOMAIN tasks
      /\ DOMAIN tasks = 1..Len(tasks)
      /\ \A j \in 1..Len(tasks) : tasks'[j].app = tasks[j].app
      /\ \A j \in 1..Len(tasks) : tasks'[j].cancelled = tasks[j].cancelled
      /\ \A j \in 1..Len(tasks) : j # i => tasks'[j] = tasks[j]
  <2>1. tasks \in Seq(Task)
    BY DEF QueueTyped
  <2> QED
    BY <1>3, <2>1, MovedTask
<1>5. ASSUME NEW k \in DOMAIN jobs'
      PROVE  /\ k + 1 \in DOMAIN jobs /\ jobs'[k] = jobs[k + 1] /\ k + 1 # 1
             /\ OfTask(k + 1) => jobs[k + 1].task \in DOMAIN tasks /\ jobs[k + 1].task # i
  BY <1>2 DEF QueueInv, JobsOfTasks, Jobs
<1>6. QueueTyped'
  BY <1>2, <1>4 DEF QueueTyped
<1>7. JobsOfTasks'
  <2>1. ASSUME NEW k \in DOMAIN jobs', OfTask(k)'
        PROVE  /\ jobs'[k].task \in DOMAIN tasks'
               /\ tasks'[jobs'[k].task].stage =
                    (IF jobs'[k].type = "start" THEN "queued" ELSE "answered")
    <3>1. OfTask(k + 1) /\ jobs'[k] = jobs[k + 1] /\ k + 1 \in DOMAIN jobs
      BY <1>5, <2>1 DEF OfTask
    <3>2. jobs[k + 1].task \in DOMAIN tasks /\ jobs[k + 1].task # i
      BY <1>5, <3>1
    <3>3. tasks[jobs[k + 1].task].stage =
            (IF jobs[k + 1].type = "start" THEN "queued" ELSE "answered")
      BY <3>1 DEF QueueInv, JobsOfTasks, Jobs
    <3> QED
      BY <3>1, <3>2, <3>3, <1>4
  <2>2. ASSUME NEW k \in DOMAIN jobs', NEW l \in DOMAIN jobs', OfTask(k)', OfTask(l)',
               jobs'[k].task = jobs'[l].task
        PROVE  k = l
    <3>1. k + 1 = l + 1
      BY <1>5, <2>2 DEF QueueInv, JobsOfTasks, Jobs, OfTask
    <3> QED
      BY <3>1, <1>2
  <2> QED
    BY <2>1, <2>2 DEF JobsOfTasks, Jobs
<1>8. LaunchesInOrder'
  <2>1. /\ Len(pages') <= MaxLaunches /\ game' \in {0, Len(pages')}
        /\ \A j \in DOMAIN tasks' : tasks'[j].app \in 0..Len(pages')
        /\ Len(tasks') <= MaxEvaluations + Len(pages')
    BY <1>4 DEF QueueInv, LaunchesInOrder
  <2>2. ASSUME NEW k \in DOMAIN jobs', jobs'[k].type = "notice"
        PROVE  /\ jobs'[k].app \in 1..Len(pages')
               /\ Len(tasks') < MaxEvaluations + jobs'[k].app
               /\ \A l \in DOMAIN jobs' : l < k /\ jobs'[l].type = "notice" => jobs'[l].app < jobs'[k].app
    <3>1. k + 1 \in DOMAIN jobs /\ jobs'[k] = jobs[k + 1]
      BY <1>5
    <3>2. /\ jobs[k + 1].app \in 1..Len(pages) /\ Len(tasks) < MaxEvaluations + jobs[k + 1].app
          /\ \A l \in Jobs : l < k + 1 /\ jobs[l].type = "notice" => jobs[l].app < jobs[k + 1].app
      BY <2>2, <3>1 DEF QueueInv, LaunchesInOrder, Jobs
    <3>3. ASSUME NEW l \in DOMAIN jobs', l < k, jobs'[l].type = "notice"
          PROVE  jobs'[l].app < jobs'[k].app
      <4>1. l + 1 \in Jobs /\ jobs'[l] = jobs[l + 1] /\ l + 1 < k + 1
        BY <1>5, <1>2, <3>3 DEF Jobs
      <4> QED
        BY <3>1, <3>2, <3>3, <4>1
    <3> QED
      BY <3>1, <3>2, <3>3, <1>4
  <2> QED
    BY <2>1, <2>2 DEF LaunchesInOrder, Jobs
<1>9. RunsWithTasks'
  BY <1>4, <1>3 DEF QueueInv, RunsWithTasks, QueueTyped
<1>10. ASSUME Noticed(game)
       PROVE  Noticed(game)'
  <2>1. PICK k \in DOMAIN jobs : IsNotice(k, game)
    BY <1>10 DEF Noticed, Jobs
  <2>2. k # 1
    BY <2>1 DEF IsNotice, OfTask
  <2>3. k - 1 \in DOMAIN jobs' /\ jobs'[k - 1] = jobs[k]
    BY <2>2, <1>2
  <2> QED
    BY <2>1, <2>3 DEF Noticed, Jobs, IsNotice
<1>11. NewestIsAboutGame'
  BY <1>1, <1>3, <1>4, <1>10 DEF QueueInv, NewestIsAboutGame
<1>12. Overtaken'
  <2> SUFFICES ASSUME game # 0, NEW k \in DOMAIN jobs'
      PROVE  /\ jobs'[k].type = "notice" /\ jobs'[k].app # game => Noticed(game)'
             /\ OfTask(k)' /\ tasks'[jobs'[k].task].app # game =>
                  \/ Noticed(game)'
                  \/ \E l \in DOMAIN jobs' :
                       /\ l > k /\ jobs'[l].type = "start" /\ tasks'[jobs'[l].task].app = game
    BY DEF Overtaken, Jobs, Starts
  <2>1. k + 1 \in Jobs /\ jobs'[k] = jobs[k + 1]
    BY <1>5 DEF Jobs
  <2>2. /\ jobs[k + 1].type = "notice" /\ jobs[k + 1].app # game => Noticed(game)
        /\ OfTask(k + 1) /\ tasks[jobs[k + 1].task].app # game =>
             Noticed(game) \/ \E l \in Jobs : l > k + 1 /\ Starts(l, game)
    BY <2>1 DEF QueueInv, Overtaken
  <2>3. ASSUME OfTask(k + 1), tasks'[jobs'[k].task].app # game, ~Noticed(game)
        PROVE  \E l \in DOMAIN jobs' :
                 l > k /\ jobs'[l].type = "start" /\ tasks'[jobs'[l].task].app = game
    <3>1. tasks[jobs[k + 1].task].app # game
      BY <1>4, <1>5, <2>1, <2>3
    <3>2. PICK l \in Jobs : l > k + 1 /\ Starts(l, game)
      BY <2>2, <2>3, <3>1
    <3>3. l - 1 \in DOMAIN jobs' /\ l - 1 > k /\ jobs'[l - 1] = jobs[l] /\ jobs[l].task \in DOMAIN tasks
      BY <1>2, <3>2 DEF Jobs, Starts, QueueInv, JobsOfTasks, OfTask
    <3>4. tasks'[jobs'[l - 1].task].app = game /\ jobs'[l - 1].type = "start"
      BY <1>4, <3>2, <3>3 DEF Starts
    <3> QED
      BY <3>3, <3>4
  <2>4. OfTask(k)' => OfTask(k + 1)
    BY <2>1 DEF OfTask
  <2> QED
    BY <2>1, <2>2, <2>3, <2>4, <1>10
<1> QED
  BY <1>6, <1>7, <1>8, <1>9, <1>11, <1>12 DEF QueueInv

(* The head was a notice: its launch gets an evaluation. *)
LEMMA NoticeKeepsQueue ==
  ASSUME QueueTyped, QueueInv, runs, jobs # <<>>, NEW a, a = jobs[1].app, jobs[1].type = "notice",
         ScheduleEvaluation(a, Tail(jobs)), UNCHANGED <<pages, game, runs>>
  PROVE  (QueueTyped /\ QueueInv)'
<1> USE Bounds
<1> DEFINE job == [type |-> "start", task |-> Len(tasks) + 1]
           n == Len(jobs)
<1>1. Len(tasks) \in Nat /\ Len(pages) \in Nat /\ tasks \in Seq(Task)
  BY DEF QueueTyped
<1>2. /\ Tail(jobs) \in Seq(Job) /\ Len(jobs) \in Nat \ {0} /\ DOMAIN jobs = 1..Len(jobs)
      /\ Len(Tail(jobs)) = Len(jobs) - 1
      /\ \A k \in 1..(Len(jobs) - 1) : Tail(jobs)[k] = jobs[k + 1]
  BY TailIsRest DEF QueueTyped
<1>3. /\ a \in 1..Len(pages) /\ a \in 0..MaxLaunches /\ Len(tasks) < MaxEvaluations + a
      /\ Len(pages) <= MaxLaunches
  <2>1. a \in 1..Len(pages) /\ Len(tasks) < MaxEvaluations + a /\ Len(pages) <= MaxLaunches
    BY <1>2 DEF QueueInv, LaunchesInOrder, Jobs
  <2> QED
    BY <2>1, <1>1
<1>4. tasks' = Scheduled(a) /\ jobs' = Append(Tail(jobs), job)
  BY DEF ScheduleEvaluation
<1>5. job \in Job
  BY <1>1, <1>3 DEF Job, TaskIds
<1>6. job.type = "start" /\ job.task = Len(tasks) + 1
  OBVIOUS
<1>7. /\ tasks' \in Seq(Task) /\ Len(tasks') = Len(tasks) + 1 /\ DOMAIN tasks = 1..Len(tasks)
      /\ DOMAIN tasks' = 1..(Len(tasks) + 1)
      /\ \A j \in 1..Len(tasks) : tasks'[j].app = tasks[j].app
      /\ \A j \in 1..Len(tasks) : tasks'[j].stage = tasks[j].stage
      /\ \A j \in 1..Len(tasks) : tasks'[j].cancelled = TRUE
      /\ tasks'[Len(tasks) + 1].app = a /\ tasks'[Len(tasks) + 1].stage = "queued"
  BY <1>1, <1>3, <1>4, NewTask
<1> HIDE DEF job
<1>8. /\ jobs' \in Seq(Job) /\ DOMAIN jobs' = 1..n /\ jobs'[n] = job
      /\ \A k \in 1..(n - 1) : jobs'[k] = jobs[k + 1]
  <2>1. /\ jobs' \in Seq(Job) /\ DOMAIN jobs' = 1..(Len(jobs) - 1 + 1)
        /\ \A k \in 1..(Len(jobs) - 1) : jobs'[k] = Tail(jobs)[k]
        /\ jobs'[Len(jobs) - 1 + 1] = job
    BY <1>2, <1>4, <1>5, AppendIsAfter
  <2> QED
    BY <1>2, <2>1
<1>9. ASSUME NEW k \in DOMAIN jobs'
      PROVE  k = n \/ (k < n /\ k + 1 \in DOMAIN jobs /\ jobs'[k] = jobs[k + 1])
  BY <1>2, <1>8
<1>10. QueueTyped'
  BY <1>7, <1>8 DEF QueueTyped
<1>11. JobsOfTasks'
  <2>1. ASSUME NEW k \in DOMAIN jobs', OfTask(k)'
        PROVE  /\ jobs'[k].task \in DOMAIN tasks'
               /\ tasks'[jobs'[k].task].stage =
                    (IF jobs'[k].type = "start" THEN "queued" ELSE "answered")
               /\ jobs'[k].task = Len(tasks) + 1 <=> k = n
    <3>1. CASE k = n
      BY <3>1, <1>6, <1>7, <1>8
    <3>2. CASE k # n
      <4>1. jobs'[k] = jobs[k + 1] /\ k + 1 \in DOMAIN jobs /\ OfTask(k + 1)
        BY <3>2, <2>1, <1>9 DEF OfTask
      <4>2. /\ jobs[k + 1].task \in DOMAIN tasks
            /\ tasks[jobs[k + 1].task].stage =
                 (IF jobs[k + 1].type = "start" THEN "queued" ELSE "answered")
        BY <4>1 DEF QueueInv, JobsOfTasks, Jobs
      <4> QED
        BY <3>2, <4>1, <4>2, <1>1, <1>7
    <3> QED
      BY <3>1, <3>2
  <2>2. ASSUME NEW k \in DOMAIN jobs', NEW l \in DOMAIN jobs', OfTask(k)', OfTask(l)',
               jobs'[k].task = jobs'[l].task
        PROVE  k = l
    <3>1. CASE k = n \/ l = n
      BY <2>1, <2>2, <3>1
    <3>2. CASE k # n /\ l # n
      <4>1. k + 1 = l + 1
        BY <1>9, <2>2, <3>2 DEF QueueInv, JobsOfTasks, Jobs, OfTask
      <4> QED
        BY <4>1, <1>8
    <3> QED
      BY <3>1, <3>2
  <2> QED
    BY <2>1, <2>2 DEF JobsOfTasks, Jobs
<1>12. LaunchesInOrder'
  <2>1. /\ Len(pages') <= MaxLaunches /\ game' \in {0, Len(pages')}
    BY <1>3 DEF QueueInv, LaunchesInOrder
  <2>2. \A j \in DOMAIN tasks' : tasks'[j].app \in 0..Len(pages')
    <3>1. \A j \in DOMAIN tasks : tasks[j].app \in 0..Len(pages)
      BY DEF QueueInv, LaunchesInOrder
    <3> QED
      BY <3>1, <1>1, <1>3, <1>7, SMTT(30)
  <2>3. Len(tasks') <= MaxEvaluations + Len(pages')
    BY <1>1, <1>3, <1>7
  <2>4. ASSUME NEW k \in DOMAIN jobs', jobs'[k].type = "notice"
        PROVE  /\ jobs'[k].app \in 1..Len(pages')
               /\ Len(tasks') < MaxEvaluations + jobs'[k].app
               /\ \A l \in DOMAIN jobs' : l < k /\ jobs'[l].type = "notice" => jobs'[l].app < jobs'[k].app
    <3>1. k + 1 \in DOMAIN jobs /\ jobs'[k] = jobs[k + 1]
      BY <1>6, <1>8, <1>9, <2>4
    <3>2. /\ jobs[k + 1].app \in 1..Len(pages)
          /\ \A l \in Jobs : l < k + 1 /\ jobs[l].type = "notice" => jobs[l].app < jobs[k + 1].app
      BY <2>4, <3>1 DEF QueueInv, LaunchesInOrder, Jobs
    <3>3. a < jobs[k + 1].app
      BY <1>2, <1>8, <3>2 DEF Jobs
    <3>4. ASSUME NEW l \in DOMAIN jobs', l < k, jobs'[l].type = "notice"
          PROVE  jobs'[l].app < jobs'[k].app
      <4>1. l + 1 \in Jobs /\ jobs'[l] = jobs[l + 1] /\ l + 1 < k + 1
        BY <1>8, <1>9, <3>4 DEF Jobs
      <4> QED
        BY <3>1, <3>2, <3>4, <4>1
    <3> QED
      BY <3>1, <3>2, <3>3, <3>4, <1>1, <1>3, <1>7
  <2> QED
    BY <2>1, <2>2, <2>3, <2>4 DEF LaunchesInOrder, Jobs
<1>13. RunsWithTasks'
  BY <1>1, <1>7 DEF QueueInv, RunsWithTasks
<1>14. ASSUME Noticed(game), game # a
       PROVE  Noticed(game)'
  <2>1. PICK k \in DOMAIN jobs : IsNotice(k, game)
    BY <1>14 DEF Noticed, Jobs
  <2>2. k - 1 \in DOMAIN jobs' /\ jobs'[k - 1] = jobs[k]
    BY <1>14, <2>1, <1>2, <1>8 DEF IsNotice
  <2> QED
    BY <2>1, <2>2 DEF Noticed, Jobs, IsNotice
<1>15. NewestIsAboutGame'
  <2>1. \A j \in DOMAIN tasks' : j < Len(tasks') => tasks'[j].cancelled = TRUE
    BY <1>1, <1>7
  <2>2. CASE game = a \/ game = 0
    BY <2>1, <2>2, <1>7 DEF NewestIsAboutGame
  <2>3. CASE game # a /\ game # 0
    <3>1. Noticed(game)
      BY <2>3, <1>2 DEF QueueInv, Overtaken, Jobs
    <3> QED
      BY <2>1, <2>3, <3>1, <1>14 DEF NewestIsAboutGame
  <2> QED
    BY <2>2, <2>3
<1>16. Overtaken'
  <2> SUFFICES ASSUME game # 0, NEW k \in DOMAIN jobs'
      PROVE  /\ jobs'[k].type = "notice" /\ jobs'[k].app # game => Noticed(game)'
             /\ OfTask(k)' /\ tasks'[jobs'[k].task].app # game =>
                  \/ Noticed(game)'
                  \/ \E l \in DOMAIN jobs' :
                       /\ l > k /\ jobs'[l].type = "start" /\ tasks'[jobs'[l].task].app = game
    BY DEF Overtaken, Jobs, Starts
  <2>1. CASE game # a
    <3>1. Noticed(game)
      BY <2>1, <1>2 DEF QueueInv, Overtaken, Jobs
    <3> QED
      BY <2>1, <3>1, <1>14
  <2>2. CASE game = a
    <3>1. jobs'[n].type = "start" /\ tasks'[jobs'[n].task].app = game /\ n \in DOMAIN jobs'
      BY <2>2, <1>2, <1>6, <1>7, <1>8
    <3>2. jobs'[k].type = "notice" => jobs'[k].app \in 1..Len(pages) /\ jobs'[k].app > a
      <4>1. ASSUME jobs'[k].type = "notice"
            PROVE  jobs'[k].app \in 1..Len(pages) /\ jobs'[k].app > a
        <5>1. k + 1 \in DOMAIN jobs /\ jobs'[k] = jobs[k + 1] /\ 1 < k + 1
          BY <1>6, <1>8, <1>9, <4>1
        <5> QED
          BY <1>2, <4>1, <5>1 DEF QueueInv, LaunchesInOrder, Jobs
      <4> QED
        BY <4>1
    <3>3. game = Len(pages)
      BY DEF QueueInv, LaunchesInOrder
    <3>4. jobs'[k].type # "notice"
      BY <2>2, <3>2, <3>3, <1>1
    <3>5. CASE k = n
      BY <3>4, <3>5, <1>6, <1>7, <1>8, <2>2
    <3>6. CASE k # n
      BY <3>1, <3>4, <3>6, <1>8
    <3> QED
      BY <3>5, <3>6
  <2> QED
    BY <2>1, <2>2
<1> QED
  BY <1>10, <1>11, <1>12, <1>13, <1>15, <1>16 DEF QueueInv

LEMMA AnswerKeepsQueue ==
  ASSUME QueueTyped, QueueInv, NEW i \in DOMAIN tasks, Asking(tasks[i]), NEW job \in Job,
         job.type = "answer", job.task = i,
         game # 0 /\ tasks[i].app # game => Noticed(game),
         tasks' = [tasks EXCEPT ![i].stage = "answered"], jobs' = Append(jobs, job),
         UNCHANGED <<pages, game, runs>>
  PROVE  (QueueTyped /\ QueueInv)'
<1> USE Bounds
<1> DEFINE n == Len(jobs)
<1>1. Len(tasks) \in Nat /\ Len(pages) \in Nat /\ tasks \in Seq(Task)
  BY DEF QueueTyped
<1>2. /\ tasks' \in Seq(Task) /\ Len(tasks') = Len(tasks) /\ DOMAIN tasks' = DOMAIN tasks
      /\ DOMAIN tasks = 1..Len(tasks)
      /\ \A j \in 1..Len(tasks) : tasks'[j].app = tasks[j].app
      /\ \A j \in 1..Len(tasks) : tasks'[j].cancelled = tasks[j].cancelled
      /\ \A j \in 1..Len(tasks) : j # i => tasks'[j] = tasks[j]
      /\ tasks'[i].stage = "answered"
  BY <1>1, MovedTask
<1>3. /\ jobs' \in Seq(Job) /\ n \in Nat /\ DOMAIN jobs = 1..n /\ DOMAIN jobs' = 1..(n + 1)
      /\ \A k \in 1..n : jobs'[k] = jobs[k]
      /\ jobs'[n + 1] = job
  BY AppendIsAfter DEF QueueTyped
<1>4. \A k \in DOMAIN jobs : OfTask(k) => jobs[k].task \in DOMAIN tasks /\ jobs[k].task # i
  BY DEF QueueInv, JobsOfTasks, Jobs, Asking
<1>5. QueueTyped'
  BY <1>2, <1>3 DEF QueueTyped
<1>6. JobsOfTasks'
  <2>1. ASSUME NEW k \in DOMAIN jobs', OfTask(k)'
        PROVE  /\ jobs'[k].task \in DOMAIN tasks'
               /\ tasks'[jobs'[k].task].stage =
                    (IF jobs'[k].type = "start" THEN "queued" ELSE "answered")
               /\ jobs'[k].task = i <=> k = n + 1
    <3>1. CASE k = n + 1
      BY <3>1, <1>2, <1>3
    <3>2. CASE k \in DOMAIN jobs
      <4>1. jobs'[k] = jobs[k] /\ OfTask(k) /\ k # n + 1
        BY <3>2, <2>1, <1>3 DEF OfTask
      <4>2. /\ jobs[k].task \in DOMAIN tasks /\ jobs[k].task # i
            /\ tasks[jobs[k].task].stage =
                 (IF jobs[k].type = "start" THEN "queued" ELSE "answered")
        BY <3>2, <4>1, <1>4 DEF QueueInv, JobsOfTasks, Jobs
      <4> QED
        BY <4>1, <4>2, <1>2
    <3> QED
      BY <3>1, <3>2, <1>3
  <2>2. ASSUME NEW k \in DOMAIN jobs', NEW l \in DOMAIN jobs', OfTask(k)', OfTask(l)',
               jobs'[k].task = jobs'[l].task
        PROVE  k = l
    <3>1. CASE k = n + 1 \/ l = n + 1
      BY <2>1, <2>2, <3>1
    <3>2. CASE k \in DOMAIN jobs /\ l \in DOMAIN jobs
      BY <2>2, <3>2, <1>3 DEF QueueInv, JobsOfTasks, Jobs, OfTask
    <3> QED
      BY <3>1, <3>2, <1>3
  <2> QED
    BY <2>1, <2>2 DEF JobsOfTasks, Jobs
<1>7. LaunchesInOrder'
  <2>1. /\ Len(pages') <= MaxLaunches /\ game' \in {0, Len(pages')}
        /\ \A j \in DOMAIN tasks' : tasks'[j].app \in 0..Len(pages')
        /\ Len(tasks') <= MaxEvaluations + Len(pages')
    BY <1>2 DEF QueueInv, LaunchesInOrder
  <2>2. ASSUME NEW k \in DOMAIN jobs', jobs'[k].type = "notice"
        PROVE  /\ jobs'[k].app \in 1..Len(pages')
               /\ Len(tasks') < MaxEvaluations + jobs'[k].app
               /\ \A l \in DOMAIN jobs' : l < k /\ jobs'[l].type = "notice" => jobs'[l].app < jobs'[k].app
    <3>1. k \in DOMAIN jobs /\ jobs'[k] = jobs[k]
      BY <2>2, <1>3
    <3>2. /\ jobs[k].app \in 1..Len(pages) /\ Len(tasks) < MaxEvaluations + jobs[k].app
          /\ \A l \in Jobs : l < k /\ jobs[l].type = "notice" => jobs[l].app < jobs[k].app
      BY <2>2, <3>1 DEF QueueInv, LaunchesInOrder, Jobs
    <3>3. ASSUME NEW l \in DOMAIN jobs', l < k, jobs'[l].type = "notice"
          PROVE  jobs'[l].app < jobs'[k].app
      <4>1. l \in Jobs /\ jobs'[l] = jobs[l]
        BY <3>1, <1>3, <3>3 DEF Jobs
      <4> QED
        BY <3>1, <3>2, <3>3, <4>1
    <3> QED
      BY <3>1, <3>2, <3>3, <1>2
  <2> QED
    BY <2>1, <2>2 DEF LaunchesInOrder, Jobs
<1>8. RunsWithTasks'
  BY <1>1, <1>2 DEF QueueInv, RunsWithTasks
<1>9. Noticed(game) => Noticed(game)'
  BY <1>3 DEF Noticed, Jobs, IsNotice
<1>10. NewestIsAboutGame'
  BY <1>1, <1>2, <1>9 DEF QueueInv, NewestIsAboutGame, RunsWithTasks
<1>11. Overtaken'
  <2> SUFFICES ASSUME game # 0, NEW k \in DOMAIN jobs'
      PROVE  /\ jobs'[k].type = "notice" /\ jobs'[k].app # game => Noticed(game)'
             /\ OfTask(k)' /\ tasks'[jobs'[k].task].app # game =>
                  \/ Noticed(game)'
                  \/ \E l \in DOMAIN jobs' :
                       /\ l > k /\ jobs'[l].type = "start" /\ tasks'[jobs'[l].task].app = game
    BY DEF Overtaken, Jobs, Starts
  <2>1. CASE k = n + 1
    BY <2>1, <1>2, <1>3, <1>9
  <2>2. CASE k \in DOMAIN jobs
    <3>1. jobs'[k] = jobs[k] /\ k \in Jobs
      BY <2>2, <1>3 DEF Jobs
    <3>2. /\ jobs[k].type = "notice" /\ jobs[k].app # game => Noticed(game)
          /\ OfTask(k) /\ tasks[jobs[k].task].app # game =>
               Noticed(game) \/ \E l \in Jobs : l > k /\ Starts(l, game)
      BY <3>1 DEF QueueInv, Overtaken
    <3>3. ASSUME OfTask(k), tasks'[jobs'[k].task].app # game, ~Noticed(game)
          PROVE  \E l \in DOMAIN jobs' :
                   l > k /\ jobs'[l].type = "start" /\ tasks'[jobs'[l].task].app = game
      <4>1. tasks[jobs[k].task].app # game
        BY <1>2, <1>4, <2>2, <3>1, <3>3
      <4>2. PICK l \in Jobs : l > k /\ Starts(l, game)
        BY <3>2, <3>3, <4>1
      <4>3. l \in DOMAIN jobs' /\ jobs'[l] = jobs[l] /\ jobs[l].task \in DOMAIN tasks
        BY <1>3, <1>4, <4>2 DEF Jobs, Starts, OfTask
      <4>4. tasks'[jobs'[l].task].app = game /\ jobs'[l].type = "start"
        BY <1>2, <4>2, <4>3 DEF Starts
      <4> QED
        BY <4>2, <4>3, <4>4
    <3>4. OfTask(k)' => OfTask(k)
      BY <3>1 DEF OfTask
    <3> QED
      BY <3>1, <3>2, <3>3, <3>4, <1>9
  <2> QED
    BY <2>1, <2>2, <1>3
<1> QED
  BY <1>5, <1>6, <1>7, <1>8, <1>10, <1>11 DEF QueueInv

(* An evaluation that sees its cancellation. *)
LEMMA LeaveKeepsQueue ==
  ASSUME QueueTyped, QueueInv, NEW i \in DOMAIN tasks, Asking(tasks[i]),
         tasks' = [tasks EXCEPT ![i].stage = "done"], UNCHANGED <<jobs, pages, game, runs>>
  PROVE  (QueueTyped /\ QueueInv)'
<1>1. tasks \in Seq(Task) /\ Len(pages) \in Nat /\ Len(jobs) \in Nat /\ DOMAIN jobs = 1..Len(jobs)
  BY DEF QueueTyped
<1>2. /\ tasks' \in Seq(Task) /\ Len(tasks') = Len(tasks) /\ DOMAIN tasks' = DOMAIN tasks
      /\ DOMAIN tasks = 1..Len(tasks) /\ Len(tasks) \in Nat
      /\ \A j \in 1..Len(tasks) : tasks'[j].app = tasks[j].app
      /\ \A j \in 1..Len(tasks) : tasks'[j].cancelled = tasks[j].cancelled
      /\ \A j \in 1..Len(tasks) : j # i => tasks'[j] = tasks[j]
  BY <1>1, MovedTask
<1>3. \A k \in DOMAIN jobs : OfTask(k) => jobs[k].task \in DOMAIN tasks /\ jobs[k].task # i
  BY DEF QueueInv, JobsOfTasks, Jobs, Asking
<1>4. QueueTyped'
  BY <1>2 DEF QueueTyped
<1>5. JobsOfTasks'
  BY <1>2, <1>3 DEF QueueInv, JobsOfTasks, Jobs, OfTask
<1>6. LaunchesInOrder'
  BY <1>2 DEF QueueInv, LaunchesInOrder, Jobs
<1>7. RunsWithTasks'
  BY <1>1, <1>2 DEF QueueInv, RunsWithTasks
<1>8. NewestIsAboutGame'
  BY <1>1, <1>2 DEF QueueInv, NewestIsAboutGame, RunsWithTasks, Noticed, IsNotice, Jobs
<1>9. Overtaken'
  <2> SUFFICES ASSUME game # 0, NEW k \in DOMAIN jobs
      PROVE  /\ jobs[k].type = "notice" /\ jobs[k].app # game => Noticed(game)
             /\ OfTask(k) /\ tasks'[jobs[k].task].app # game =>
                  \/ Noticed(game)
                  \/ \E l \in DOMAIN jobs :
                       /\ l > k /\ jobs[l].type = "start" /\ tasks'[jobs[l].task].app = game
    BY DEF Overtaken, Jobs, Starts, OfTask, Noticed, IsNotice
  <2>1. \A l \in DOMAIN jobs : Starts(l, game) => tasks'[jobs[l].task].app = game
    BY <1>2, <1>3 DEF Starts, OfTask
  <2>2. OfTask(k) => tasks'[jobs[k].task].app = tasks[jobs[k].task].app
    BY <1>2, <1>3
  <2> QED
    BY <2>1, <2>2 DEF QueueInv, Overtaken, Jobs, Starts
<1> QED
  BY <1>4, <1>5, <1>6, <1>7, <1>8, <1>9 DEF QueueInv

LEMMA LaunchKeepsQueue ==
  ASSUME QueueTyped, QueueInv, game = 0, Len(pages) < MaxLaunches, game' = Len(pages) + 1,
         NEW p \in {"buggy", "fixed", "unknown"}, pages' = Append(pages, p),
         IF runs THEN Enqueue([type |-> "notice", app |-> game']) ELSE UNCHANGED jobs,
         UNCHANGED <<tasks, runs>>
  PROVE  (QueueTyped /\ QueueInv)'
<1> USE Bounds
<1> DEFINE n == Len(jobs)
           job == [type |-> "notice", app |-> Len(pages) + 1]
<1>1. /\ Len(tasks) \in Nat /\ Len(pages) \in Nat /\ n \in Nat /\ DOMAIN jobs = 1..n
      /\ DOMAIN tasks = 1..Len(tasks) /\ runs \in BOOLEAN
  BY DEF QueueTyped
<1>2. pages' \in Seq({"buggy", "fixed", "unknown"}) /\ Len(pages') = Len(pages) + 1
  BY DEF QueueTyped
<1>3. CASE ~runs
  <2>1. jobs = <<>> /\ jobs' = <<>> /\ tasks = <<>>
    BY <1>3 DEF QueueInv, RunsWithTasks
  <2>2. QueueTyped'
    BY <1>1, <1>2, <2>1 DEF QueueTyped
  <2>3. DOMAIN jobs' = {} /\ DOMAIN tasks' = {} /\ Len(tasks') = 0
    BY <2>1
  <2>4. JobsOfTasks' /\ RunsWithTasks' /\ NewestIsAboutGame' /\ Overtaken'
    BY <1>3, <2>1, <2>3 DEF JobsOfTasks, RunsWithTasks, NewestIsAboutGame, Overtaken, Jobs
  <2>5. LaunchesInOrder'
    BY <1>1, <1>2, <2>3 DEF LaunchesInOrder, Jobs
  <2> QED
    BY <2>2, <2>4, <2>5 DEF QueueInv
<1>4. CASE runs
  <2>1. job \in Job /\ job.type = "notice" /\ job.app = Len(pages) + 1
    BY <1>1 DEF Job
  <2>2. jobs' = Append(jobs, job)
    BY <1>4 DEF Enqueue
  <2> HIDE DEF job
  <2>3. /\ jobs' \in Seq(Job) /\ DOMAIN jobs' = 1..(n + 1)
        /\ \A k \in 1..n : jobs'[k] = jobs[k]
        /\ jobs'[n + 1] = job
    BY <2>1, <2>2, AppendIsAfter DEF QueueTyped
  <2>4. QueueTyped'
    BY <1>1, <1>2, <2>3 DEF QueueTyped
  <2>5. JobsOfTasks'
    <3>1. ASSUME NEW k \in DOMAIN jobs', OfTask(k)'
          PROVE  k \in Jobs /\ jobs'[k] = jobs[k] /\ OfTask(k)
      <4>1. k # n + 1
        BY <2>1, <2>3, <3>1 DEF OfTask
      <4> QED
        BY <4>1, <3>1, <1>1, <2>3 DEF Jobs, OfTask
    <3> QED
      BY <3>1 DEF QueueInv, JobsOfTasks, Jobs
  <2>6. LaunchesInOrder'
    <3>1. /\ Len(pages') <= MaxLaunches /\ game' \in {0, Len(pages')}
          /\ \A j \in DOMAIN tasks' : tasks'[j].app \in 0..Len(pages')
          /\ Len(tasks') <= MaxEvaluations + Len(pages')
      BY <1>1, <1>2 DEF QueueInv, LaunchesInOrder
    <3>2. ASSUME NEW k \in DOMAIN jobs', jobs'[k].type = "notice"
          PROVE  /\ jobs'[k].app \in 1..Len(pages')
                 /\ Len(tasks') < MaxEvaluations + jobs'[k].app
                 /\ \A l \in DOMAIN jobs' :
                      l < k /\ jobs'[l].type = "notice" => jobs'[l].app < jobs'[k].app
      <4>1. CASE k = n + 1
        <5>1. jobs'[k].app = Len(pages) + 1
          BY <4>1, <2>1, <2>3
        <5>2. Len(tasks) <= MaxEvaluations + Len(pages)
          BY DEF QueueInv, LaunchesInOrder
        <5>3. ASSUME NEW l \in DOMAIN jobs', l < k, jobs'[l].type = "notice"
              PROVE  jobs'[l].app \in 1..Len(pages)
          BY <1>1, <2>3, <4>1, <5>3 DEF QueueInv, LaunchesInOrder, Jobs
        <5> QED
          BY <5>1, <5>2, <5>3, <1>1, <1>2
      <4>2. CASE k \in DOMAIN jobs
        <5>1. jobs'[k] = jobs[k]
          BY <4>2, <1>1, <2>3
        <5>2. /\ jobs[k].app \in 1..Len(pages) /\ Len(tasks) < MaxEvaluations + jobs[k].app
              /\ \A l \in Jobs : l < k /\ jobs[l].type = "notice" => jobs[l].app < jobs[k].app
          BY <4>2, <3>2, <5>1 DEF QueueInv, LaunchesInOrder, Jobs
        <5>3. ASSUME NEW l \in DOMAIN jobs', l < k, jobs'[l].type = "notice"
              PROVE  jobs'[l].app < jobs'[k].app
          <6>1. l \in Jobs /\ jobs'[l] = jobs[l]
            BY <4>2, <1>1, <2>3, <5>3 DEF Jobs
          <6> QED
            BY <5>1, <5>2, <5>3, <6>1
        <5> QED
          BY <5>1, <5>2, <5>3, <1>1, <1>2
      <4> QED
        BY <4>1, <4>2, <1>1, <2>3
    <3> QED
      BY <3>1, <3>2 DEF LaunchesInOrder, Jobs
  <2>7. RunsWithTasks'
    BY <1>4 DEF QueueInv, RunsWithTasks
  <2>8. n + 1 \in DOMAIN jobs' /\ jobs'[n + 1].type = "notice" /\ jobs'[n + 1].app = game'
    BY <1>1, <2>1, <2>3
  <2>9. \E k \in DOMAIN jobs' : jobs'[k].type = "notice" /\ jobs'[k].app = game'
    BY <2>8
  <2>10. Noticed(game)'
    BY <2>9 DEF Noticed, IsNotice, Jobs
  <2>11. NewestIsAboutGame'
    BY <2>10 DEF QueueInv, NewestIsAboutGame
  <2>12. Overtaken'
    BY <2>10 DEF Overtaken
  <2> QED
    BY <2>4, <2>5, <2>6, <2>7, <2>11, <2>12 DEF QueueInv
<1> QED
  BY <1>1, <1>3, <1>4

LEMMA QuitKeepsQueue ==
  ASSUME QueueTyped, QueueInv, game' \in {0, game}, UNCHANGED <<pages, jobs, tasks, runs>>
  PROVE  (QueueTyped /\ QueueInv)'
<1>1. QueueTyped'
  BY DEF QueueTyped
<1>2. JobsOfTasks' /\ RunsWithTasks'
  BY DEF QueueInv, JobsOfTasks, RunsWithTasks, Jobs, OfTask
<1>3. LaunchesInOrder'
  BY DEF QueueInv, LaunchesInOrder, Jobs
<1>4. ASSUME game' = 0
      PROVE  NewestIsAboutGame' /\ Overtaken'
  BY <1>4 DEF QueueInv, NewestIsAboutGame, Overtaken
<1>5. ASSUME game' = game
      PROVE  NewestIsAboutGame' /\ Overtaken'
  BY <1>5 DEF QueueInv, NewestIsAboutGame, Overtaken, Jobs, OfTask, Noticed, IsNotice, Starts
<1> QED
  BY <1>1, <1>2, <1>3, <1>4, <1>5 DEF QueueInv

LEMMA DeathKeepsQueue ==
  ASSUME QueueTyped, QueueInv, Die
  PROVE  (QueueTyped /\ QueueInv)'
<1>1. /\ runs' = FALSE /\ jobs' = <<>> /\ tasks' = <<>> /\ game' = game /\ pages' = pages
      /\ DOMAIN jobs' = {} /\ DOMAIN tasks' = {} /\ Len(tasks') = 0 /\ Len(pages) \in Nat
  BY DEF Die, QueueTyped, gameVars
<1>5. <<>> \in Seq(Task) /\ <<>> \in Seq(Job)
  OBVIOUS
<1>2. QueueTyped'
  <2>1. pages' \in Seq({"buggy", "fixed", "unknown"}) /\ game' \in Nat /\ runs' \in BOOLEAN
    BY <1>1 DEF QueueTyped
  <2> QED
    BY <1>1, <1>5, <2>1 DEF QueueTyped
<1>3. JobsOfTasks' /\ RunsWithTasks' /\ NewestIsAboutGame' /\ Overtaken'
  BY <1>1 DEF JobsOfTasks, RunsWithTasks, NewestIsAboutGame, Overtaken, Jobs
<1>4. LaunchesInOrder'
  BY <1>1, Bounds DEF QueueInv, LaunchesInOrder, Jobs
<1> QED
  BY <1>2, <1>3, <1>4 DEF QueueInv

LEMMA StartMakesQueue ==
  ASSUME QueueTyped, QueueInv, Start
  PROVE  (QueueTyped /\ QueueInv)'
<1> USE Bounds
<1> DEFINE task == [app |-> game, cancelled |-> FALSE, stage |-> "queued"]
           job == [type |-> "start", task |-> 1]
<1>1. Len(pages) \in Nat /\ game \in 0..Len(pages) /\ Len(pages) <= MaxLaunches /\ game \in {0, Len(pages)}
  BY DEF QueueTyped, QueueInv, LaunchesInOrder
<1>2. task \in Task /\ task.app = game /\ task.stage = "queued"
  BY <1>1 DEF Task
<1>3. job \in Job /\ job.type = "start" /\ job.task = 1
  BY DEF Job, TaskIds
<1>4. /\ tasks' = <<task>> /\ jobs' = <<job>> /\ runs' = TRUE
      /\ pages' = pages /\ game' = game
  BY DEF Start, gameVars
<1> HIDE DEF task, job
<1>5. /\ tasks' \in Seq(Task) /\ Len(tasks') = 1 /\ DOMAIN tasks' = {1} /\ tasks'[1] = task
      /\ jobs' \in Seq(Job) /\ Len(jobs') = 1 /\ DOMAIN jobs' = {1} /\ jobs'[1] = job
      /\ tasks' # <<>>
  BY <1>2, <1>3, <1>4
<1>6. QueueTyped'
  BY <1>4, <1>5 DEF QueueTyped
<1>7. JobsOfTasks' /\ RunsWithTasks'
  BY <1>2, <1>3, <1>4, <1>5 DEF JobsOfTasks, RunsWithTasks, Jobs, OfTask
<1>8. LaunchesInOrder'
  <2>1. \A k \in DOMAIN jobs' : jobs'[k].type # "notice"
    BY <1>3, <1>5
  <2>2. /\ Len(pages') <= MaxLaunches /\ game' \in {0, Len(pages')}
        /\ \A i \in DOMAIN tasks' : tasks'[i].app \in 0..Len(pages')
    BY <1>1, <1>2, <1>4, <1>5
  <2>3. Len(tasks') <= MaxEvaluations + Len(pages')
    BY <1>1, <1>4, <1>5
  <2> QED
    BY <2>1, <2>2, <2>3 DEF LaunchesInOrder, Jobs
<1>9. NewestIsAboutGame' /\ Overtaken'
  BY <1>2, <1>3, <1>4, <1>5 DEF NewestIsAboutGame, Overtaken, Jobs, OfTask
<1> QED
  BY <1>6, <1>7, <1>8, <1>9 DEF QueueInv

----------------------------------------------------------------------------
(* What each kind of step does to what is said and written. *)

LEMMA QueueOfInv ==
  ASSUME CompatibilityInv
  PROVE  /\ QueueTyped /\ QueueInv /\ game \in 0..Len(pages) /\ Len(tasks) \in Nat
         /\ DOMAIN tasks = 1..Len(tasks) /\ Len(jobs) \in Nat /\ Jobs = 1..Len(jobs)
         /\ jobs # <<>> => runs
         /\ runs => Len(tasks) \in DOMAIN tasks
         /\ game # 0 => Page \in {"buggy", "fixed", "unknown"}
<1>1. QueueTyped /\ QueueInv /\ game \in 0..Len(pages)
  BY DEF CompatibilityInv, SettlingInv, TypeOK, QueueTyped, QueueInv
<1>2. /\ Len(tasks) \in Nat /\ DOMAIN tasks = 1..Len(tasks)
      /\ Len(jobs) \in Nat /\ Jobs = 1..Len(jobs)
  BY <1>1 DEF QueueTyped, Jobs
<1>3. jobs # <<>> => runs
  BY <1>1 DEF QueueInv, RunsWithTasks, QueueTyped
<1>4. runs => Len(tasks) \in DOMAIN tasks
  <2>1. runs => tasks # <<>>
    BY <1>1 DEF QueueInv, RunsWithTasks
  <2>2. tasks # <<>> => Len(tasks) # 0
    BY <1>1 DEF QueueTyped
  <2> QED
    BY <1>2, <2>1, <2>2
<1>5. game # 0 => Page \in {"buggy", "fixed", "unknown"}
  BY <1>1 DEF Page, QueueTyped
<1> QED
  BY <1>1, <1>2, <1>3, <1>4, <1>5

LEMMA FilesKept ==
  ASSUME CompatibilityInv, UNCHANGED <<override, backup, edits, patched>>
  PROVE  /\ BackupOfFirst' /\ (override.by <= edits)' /\ (edits \in 0..MaxEdits)'
         /\ ({override, backup, patched} \subseteq File \cup {NoFile})'
         /\ (\A file \in {override, backup} : file.by = 0 => file.kind \in {"fixed", "none"})'
  BY DEF CompatibilityInv, SettlingInv, TypeOK, BackupOfFirst

(* A TypeOK' of parts. *)
LEMMA TypeOfParts ==
  ASSUME QueueTyped', game' \in 0..Len(pages'), archive' \in Archives,
         ({override, backup, patched} \subseteq File \cup {NoFile})',
         (\A file \in {override, backup} : file.by = 0 => file.kind \in {"fixed", "none"})',
         localFiles' \in BOOLEAN, config' \in Nicknames \cup {"none", "absent"},
         nickname' \in Nicknames \cup {"none"}, status' \in Statuses,
         overdue' \in BOOLEAN
  PROVE  TypeOK'
  BY DEF TypeOK, QueueTyped

LEMMA InvOfParts ==
  ASSUME QueueInv', TypeOK', (edits \in 0..MaxEdits)', ({failures, deaths} \subseteq Nat)',
         (override.by <= edits)', AnswersAreTrue', StatusFollows', NicknameWritten',
         BackupOfFirst'
  PROVE  CompatibilityInv'
  BY DEF CompatibilityInv, SettlingInv, QueueInv

(* An evaluation is scheduled, behind the job that asked for it if there is one. *)
LEMMA Scheduling ==
  ASSUME CompatibilityInv, runs, NEW app \in 0..MaxLaunches, NEW q \in Seq(Job),
         Len(tasks) + 1 \in TaskIds, ScheduleEvaluation(app, q)
  PROVE  /\ Len(tasks') = Len(tasks) + 1 /\ DOMAIN tasks' = 1..(Len(tasks) + 1)
         /\ \A j \in 1..Len(tasks) : tasks'[j].app = tasks[j].app
         /\ \A j \in 1..Len(tasks) : tasks'[j].stage = tasks[j].stage
         /\ tasks'[Len(tasks) + 1].app = app /\ tasks'[Len(tasks) + 1].stage = "queued"
         /\ Len(q) \in Nat /\ DOMAIN q = 1..Len(q) /\ DOMAIN jobs' = 1..(Len(q) + 1)
         /\ \A k \in 1..Len(q) : jobs'[k] = q[k]
         /\ jobs'[Len(q) + 1].type = "start" /\ jobs'[Len(q) + 1].task = Len(tasks) + 1
<1> DEFINE job == [type |-> "start", task |-> Len(tasks) + 1]
<1>1. tasks' = Scheduled(app) /\ jobs' = Append(q, job)
  BY DEF ScheduleEvaluation
<1>2. tasks \in Seq(Task)
  BY QueueOfInv DEF QueueTyped
<1>3. job \in Job /\ job.type = "start" /\ job.task = Len(tasks) + 1
  BY DEF Job
<1> HIDE DEF job
<1>4. /\ Len(q) \in Nat /\ DOMAIN q = 1..Len(q) /\ DOMAIN jobs' = 1..(Len(q) + 1)
      /\ \A k \in 1..Len(q) : jobs'[k] = q[k]
      /\ jobs'[Len(q) + 1] = job
  BY <1>1, <1>3, AppendIsAfter
<1>5. /\ Len(tasks') = Len(tasks) + 1 /\ DOMAIN tasks' = 1..(Len(tasks) + 1)
      /\ \A j \in 1..Len(tasks) : tasks'[j].app = tasks[j].app
      /\ \A j \in 1..Len(tasks) : tasks'[j].stage = tasks[j].stage
      /\ tasks'[Len(tasks) + 1].app = app /\ tasks'[Len(tasks) + 1].stage = "queued"
  BY <1>1, <1>2, NewTask
<1> QED
  BY <1>3, <1>4, <1>5

(* Nothing is said, and every job that is left was there. *)
LEMMA AnswersKept ==
  ASSUME CompatibilityInv, UNCHANGED <<pages, game>>, overdue => overdue',
         \A j \in 1..Len(tasks) : tasks'[j].app = tasks[j].app,
         \A k \in DOMAIN jobs' : jobs'[k].type = "answer" =>
           \E l \in DOMAIN jobs : jobs'[k] = jobs[l]
  PROVE  AnswersAreTrue'
<1> SUFFICES ASSUME NEW k \in DOMAIN jobs', jobs'[k].type = "answer", game # 0,
                    tasks'[jobs'[k].task].app = game
    PROVE  /\ jobs'[k].page = "none" => overdue' \/ Page = "unknown"
           /\ jobs'[k].page # "none" => jobs'[k].page = Page
  BY DEF AnswersAreTrue, Jobs, Page
<1>1. PICK l \in DOMAIN jobs : jobs'[k] = jobs[l]
  OBVIOUS
<1>2. jobs[l].task \in 1..Len(tasks)
  BY <1>1, QueueOfInv DEF QueueInv, JobsOfTasks, OfTask, Jobs
<1>3. tasks[jobs[l].task].app = game
  BY <1>1, <1>2
<1> QED
  BY <1>1, <1>3 DEF CompatibilityInv, AnswersAreTrue, Jobs

----------------------------------------------------------------------------
(* Every action keeps the invariant. *)

LEMMA RescheduleInv ==
  ASSUME CompatibilityInv, NEW n \in Nicknames, Retry \/ SaveNickname(n)
  PROVE  CompatibilityInv'
<1> USE Bounds
<1>1. /\ runs /\ Len(tasks) < MaxEvaluations /\ ScheduleEvaluation(game, jobs)
      /\ UNCHANGED <<gameVars, fileVars, runs, status, edits, failures, deaths, history>>
      /\ nickname' \in {nickname, n}
  BY DEF Retry, SaveNickname
<1>2. UNCHANGED <<pages, game, runs, archive, override, backup, localFiles, config, status, edits,
                  failures, deaths, patched, overdue>>
  BY <1>1 DEF gameVars, fileVars, history
<1>3. (QueueTyped /\ QueueInv)'
  BY <1>1, <1>2, QueueOfInv, RescheduleKeepsQueue
<1>4. game \in 0..MaxLaunches /\ Len(tasks) + 1 \in TaskIds /\ jobs \in Seq(Job)
  BY <1>1, QueueOfInv DEF QueueInv, LaunchesInOrder, QueueTyped, TaskIds
<1>5. /\ Len(tasks') = Len(tasks) + 1 /\ DOMAIN tasks' = 1..(Len(tasks) + 1)
      /\ \A j \in 1..Len(tasks) : tasks'[j].app = tasks[j].app
      /\ \A j \in 1..Len(tasks) : tasks'[j].stage = tasks[j].stage
      /\ tasks'[Len(tasks) + 1].app = game /\ tasks'[Len(tasks) + 1].stage = "queued"
      /\ Len(jobs) \in Nat /\ DOMAIN jobs = 1..Len(jobs) /\ DOMAIN jobs' = 1..(Len(jobs) + 1)
      /\ \A k \in 1..Len(jobs) : jobs'[k] = jobs[k]
      /\ jobs'[Len(jobs) + 1].type = "start" /\ jobs'[Len(jobs) + 1].task = Len(tasks) + 1
  BY <1>1, <1>4, Scheduling
<1>6. \A k \in DOMAIN jobs' : jobs'[k].type = "answer" => k \in DOMAIN jobs /\ jobs'[k] = jobs[k]
  BY <1>5
<1>7. Len(tasks) \in Nat /\ DOMAIN tasks = 1..Len(tasks)
  BY QueueOfInv
<1>8. TypeOK'
  BY <1>1, <1>2, <1>3, QueueOfInv, FilesKept, TypeOfParts DEF CompatibilityInv, SettlingInv, TypeOK
<1>9. AnswersAreTrue'
  BY <1>2, <1>5, <1>6, AnswersKept
<1>10. StatusFollows'
  <2>1. Len(jobs) + 1 \in DOMAIN jobs'
    BY <1>5
  <2>2. Pending(game)'
    BY <1>2, <1>5, <2>1 DEF Pending, Starts, Jobs
  <2> QED
    BY <2>2 DEF StatusFollows
<1>11. NicknameWritten'
  BY <1>5 DEF NicknameWritten
<1> QED
  BY <1>2, <1>3, <1>8, <1>9, <1>10, <1>11, FilesKept, InvOfParts
  DEF CompatibilityInv, SettlingInv

LEMMA NoticeInv ==
  ASSUME CompatibilityInv, NoticeLaunch
  PROVE  CompatibilityInv'
<1> USE Bounds
<1> DEFINE a == Head(jobs).app
           q == Tail(jobs)
<1>1. /\ runs /\ jobs # <<>> /\ Head(jobs).type = "notice" /\ ScheduleEvaluation(a, q)
      /\ UNCHANGED <<pages, game, runs, archive, override, backup, localFiles, config, status,
                     nickname, edits, failures, deaths, patched, overdue>>
  BY QueueOfInv DEF NoticeLaunch, gameVars, fileVars, history
<1>2. /\ q \in Seq(Job) /\ Len(jobs) \in Nat \ {0} /\ Len(q) = Len(jobs) - 1
      /\ Head(jobs) = jobs[1] /\ 1 \in Jobs /\ DOMAIN jobs = 1..Len(jobs)
      /\ \A k \in 1..(Len(jobs) - 1) : q[k] = jobs[k + 1]
  BY <1>1, QueueOfInv, TailIsRest DEF QueueTyped, Jobs
<1>3. (QueueTyped /\ QueueInv)'
  BY <1>1, <1>2, QueueOfInv, NoticeKeepsQueue
<1>4. a \in 1..Len(pages) /\ Len(pages) \in Nat /\ Len(pages) <= MaxLaunches
      /\ Len(tasks) < MaxEvaluations + a
  <2>1. 1 \in Jobs /\ jobs[1].type = "notice" /\ a = jobs[1].app
    BY <1>1, <1>2
  <2>2. Len(pages) \in Nat
    BY QueueOfInv DEF QueueTyped
  <2> HIDE DEF a, q
  <2> QED
    BY <2>1, <2>2, QueueOfInv DEF QueueInv, LaunchesInOrder
<1>5. Len(tasks) \in Nat /\ DOMAIN tasks = 1..Len(tasks)
  BY QueueOfInv
<1>6. a \in 0..MaxLaunches /\ Len(tasks) + 1 \in TaskIds
  BY <1>4, <1>5 DEF TaskIds
<1> HIDE DEF a, q
<1>7. /\ Len(tasks') = Len(tasks) + 1 /\ DOMAIN tasks' = 1..(Len(tasks) + 1)
      /\ \A j \in 1..Len(tasks) : tasks'[j].app = tasks[j].app
      /\ \A j \in 1..Len(tasks) : tasks'[j].stage = tasks[j].stage
      /\ tasks'[Len(tasks) + 1].app = a /\ tasks'[Len(tasks) + 1].stage = "queued"
      /\ Len(q) \in Nat /\ DOMAIN q = 1..Len(q) /\ DOMAIN jobs' = 1..(Len(q) + 1)
      /\ \A k \in 1..Len(q) : jobs'[k] = q[k]
      /\ jobs'[Len(q) + 1].type = "start" /\ jobs'[Len(q) + 1].task = Len(tasks) + 1
  BY <1>1, <1>2, <1>6, Scheduling
<1>8. \A k \in 1..Len(q) : k + 1 \in DOMAIN jobs /\ jobs'[k] = jobs[k + 1]
  BY <1>2, <1>7
<1>9. \A k \in DOMAIN jobs' : jobs'[k].type = "answer" => k + 1 \in DOMAIN jobs /\ jobs'[k] = jobs[k + 1]
  BY <1>7, <1>8
<1>10. TypeOK'
  BY <1>1, <1>3, QueueOfInv, FilesKept, TypeOfParts DEF CompatibilityInv, SettlingInv, TypeOK
<1>11. AnswersAreTrue'
  BY <1>1, <1>7, <1>9, AnswersKept
<1>12. StatusFollows'
  <2> SUFFICES ASSUME game # 0 PROVE Pending(game)'
    BY <1>1 DEF StatusFollows
  <2>1. CASE a = game
    <3>1. Len(q) + 1 \in DOMAIN jobs'
      BY <1>7
    <3> QED
      BY <1>1, <1>7, <2>1, <3>1 DEF Pending, Starts, Jobs
  <2>2. CASE a # game
    <3>1. jobs[1].type = "notice" /\ jobs[1].app # game
      BY <1>1, <1>2, <2>2 DEF a
    <3>2. Noticed(game)
      BY <1>2, <3>1 DEF CompatibilityInv, Overtaken
    <3>3. PICK k \in Jobs : IsNotice(k, game)
      BY <3>2 DEF Noticed
    <3>4. k # 1
      BY <3>1, <3>3 DEF IsNotice
    <3>5. k - 1 \in 1..Len(q) /\ jobs'[k - 1] = jobs[k]
      BY <1>2, <1>8, <3>4 DEF Jobs
    <3>6. k - 1 \in DOMAIN jobs'
      BY <1>7, <3>5
    <3> QED
      BY <1>1, <3>3, <3>5, <3>6 DEF Pending, Noticed, IsNotice, Jobs
  <2> QED
    BY <2>1, <2>2
<1>13. NicknameWritten'
  BY <1>7 DEF NicknameWritten
<1> QED
  BY <1>1, <1>3, <1>10, <1>11, <1>12, <1>13, FilesKept, InvOfParts
  DEF CompatibilityInv, SettlingInv

(* The first job is done: its evaluation goes on to another stage. *)
LEMMA Handling ==
  ASSUME CompatibilityInv, jobs # <<>>, OfTask(1), NEW i, i = jobs[1].task,
         NEW stage \in {"install", "compare", "done", "failed"},
         tasks' = [tasks EXCEPT ![i].stage = stage], jobs' = Tail(jobs),
         UNCHANGED <<pages, game, runs>>
  PROVE  /\ (QueueTyped /\ QueueInv)'
         /\ i \in DOMAIN tasks /\ tasks[i].app \in 0..MaxLaunches /\ 1 \in Jobs
         /\ tasks[i].stage = (IF jobs[1].type = "start" THEN "queued" ELSE "answered")
         /\ Len(tasks') = Len(tasks) /\ DOMAIN tasks' = DOMAIN tasks
         /\ \A j \in 1..Len(tasks) : tasks'[j].app = tasks[j].app
         /\ \A j \in 1..Len(tasks) : j # i => tasks'[j] = tasks[j]
         /\ tasks'[i].stage = stage
         /\ \A k \in DOMAIN jobs' : k + 1 \in DOMAIN jobs /\ jobs'[k] = jobs[k + 1]
         /\ game # 0 /\ tasks[i].app # game => Pending(game)'
<1>1. tasks \in Seq(Task) /\ jobs \in Seq(Job) /\ QueueTyped /\ QueueInv
  BY QueueOfInv DEF QueueTyped
<1>2. /\ jobs' \in Seq(Job) /\ Len(jobs) \in Nat \ {0} /\ DOMAIN jobs = 1..Len(jobs)
      /\ DOMAIN jobs' = 1..(Len(jobs) - 1) /\ 1 \in DOMAIN jobs
      /\ \A k \in 1..(Len(jobs) - 1) : jobs'[k] = jobs[k + 1]
  BY <1>1, TailIsRest
<1>3. /\ i \in DOMAIN tasks
      /\ tasks[i].stage = (IF jobs[1].type = "start" THEN "queued" ELSE "answered")
  BY <1>1, <1>2 DEF QueueInv, JobsOfTasks, Jobs
<1>4. /\ Len(tasks') = Len(tasks) /\ DOMAIN tasks' = DOMAIN tasks /\ DOMAIN tasks = 1..Len(tasks)
      /\ \A j \in 1..Len(tasks) : tasks'[j].app = tasks[j].app
      /\ \A j \in 1..Len(tasks) : j # i => tasks'[j] = tasks[j]
      /\ tasks'[i].stage = stage
  BY <1>1, <1>3, MovedTask
<1>5. (QueueTyped /\ QueueInv)'
  BY <1>1, HandleKeepsQueue
<1>6. tasks[i].app \in 0..MaxLaunches
  <2>1. tasks[i] \in Task
    BY <1>1, <1>3
  <2> QED
    BY <2>1 DEF Task
<1>7. \A k \in DOMAIN jobs' : k + 1 \in DOMAIN jobs /\ jobs'[k] = jobs[k + 1]
  BY <1>2
<1>8. \A l \in DOMAIN jobs : l # 1 => l - 1 \in DOMAIN jobs' /\ jobs'[l - 1] = jobs[l]
  BY <1>2
<1>9. ASSUME game # 0, tasks[i].app # game
      PROVE  Pending(game)'
  <2>1. Noticed(game) \/ \E l \in Jobs : l > 1 /\ Starts(l, game)
    BY <1>2, <1>9 DEF CompatibilityInv, Overtaken, Jobs
  <2>2. ASSUME NEW l \in DOMAIN jobs, IsNotice(l, game)
        PROVE  Pending(game)'
    <3>1. l # 1
      BY <2>2 DEF OfTask, IsNotice
    <3>2. l - 1 \in DOMAIN jobs' /\ jobs'[l - 1] = jobs[l]
      BY <1>8, <3>1
    <3> QED
      BY <2>2, <3>2 DEF Pending, Noticed, IsNotice, Jobs
  <2>3. ASSUME NEW l \in DOMAIN jobs, l > 1, Starts(l, game)
        PROVE  Pending(game)'
    <3>1. l - 1 \in DOMAIN jobs' /\ jobs'[l - 1] = jobs[l]
      BY <1>2, <1>8, <2>3
    <3>2. jobs[l].task \in DOMAIN tasks
      BY <1>1, <2>3 DEF QueueInv, JobsOfTasks, Jobs, OfTask, Starts
    <3>3. tasks'[jobs[l].task].app = game /\ jobs[l].type = "start"
      BY <1>4, <2>3, <3>2 DEF Starts
    <3>4. jobs'[l - 1].type = "start" /\ tasks'[jobs'[l - 1].task].app = game'
      BY <3>1, <3>3
    <3> QED
      BY <3>1, <3>4 DEF Pending, Starts, Jobs
  <2> QED
    BY <2>1, <2>2, <2>3 DEF Noticed, Jobs
<1> QED
  BY <1>2, <1>3, <1>4, <1>5, <1>6, <1>7, <1>9 DEF Jobs

(* What every handled job leaves alone. *)
LEMMA HandledKeeps ==
  ASSUME CompatibilityInv, jobs # <<>>, OfTask(1), NEW i, i = jobs[1].task,
         NEW stage \in {"install", "compare", "done", "failed"},
         tasks' = [tasks EXCEPT ![i].stage = stage], jobs' = Tail(jobs),
         UNCHANGED <<pages, game, runs, overdue, edits>>, status' \in Statuses,
         game # 0 /\ tasks[i].app = game =>
           /\ status' = "ready" => Page = "fixed"
           /\ status' = "restartRequired" /\ ~overdue /\ edits = 0 => Page # "fixed"
  PROVE  AnswersAreTrue' /\ StatusFollows'
<1>1. /\ \A j \in 1..Len(tasks) : tasks'[j].app = tasks[j].app
      /\ \A k \in DOMAIN jobs' : k + 1 \in DOMAIN jobs /\ jobs'[k] = jobs[k + 1]
      /\ game # 0 /\ tasks[i].app # game => Pending(game)'
  BY Handling
<1>2. AnswersAreTrue'
  BY <1>1, AnswersKept
<1>3. StatusFollows'
  BY <1>1 DEF StatusFollows, Page
<1> QED
  BY <1>2, <1>3

LEMMA Beginning ==
  ASSUME CompatibilityInv, NEW i \in DOMAIN tasks, Begins(i, tasks[i])
  PROVE  /\ jobs # <<>> /\ OfTask(1) /\ i = jobs[1].task /\ jobs[1].type = "start"
         /\ jobs' = Tail(jobs)
         /\ UNCHANGED <<archive, pages, game, runs, nickname, edits, deaths>>
         /\ \A k \in DOMAIN jobs' : jobs'[k].type = "answer" =>
              \E l \in DOMAIN jobs : jobs'[k] = jobs[l]
<1>1. /\ jobs # <<>> /\ Head(jobs) = [type |-> "start", task |-> i] /\ jobs' = Tail(jobs)
      /\ UNCHANGED <<archive, pages, game, runs, nickname, edits, deaths>>
  BY DEF Begins, gameVars
<1>2. jobs \in Seq(Job)
  BY QueueOfInv DEF QueueTyped
<1>3. /\ Head(jobs) = jobs[1] /\ DOMAIN Tail(jobs) = 1..(Len(jobs) - 1) /\ DOMAIN jobs = 1..Len(jobs)
      /\ Len(jobs) \in Nat
      /\ \A k \in 1..(Len(jobs) - 1) : Tail(jobs)[k] = jobs[k + 1]
  BY <1>1, <1>2, TailIsRest
<1>4. i = jobs[1].task /\ jobs[1].type = "start"
  BY <1>1, <1>3
<1>5. \A k \in DOMAIN jobs' : k + 1 \in DOMAIN jobs /\ jobs'[k] = jobs[k + 1]
  BY <1>1, <1>3
<1> QED
  BY <1>1, <1>4, <1>5 DEF OfTask

(* The nickname once the evaluation went on. *)
LEMMA NicknameOfHandled ==
  ASSUME CompatibilityInv, Len(tasks') = Len(tasks), NEW i, UNCHANGED <<runs, nickname>>,
         \A j \in 1..Len(tasks) : j # i => tasks'[j] = tasks[j],
         \/ config' = nickname
         \/ config' = config /\ tasks'[i].stage = "failed"
         \/ config' = config /\ tasks[i].stage \notin {"queued", "failed"}
  PROVE  NicknameWritten'
<1>1. runs => Len(tasks) \in 1..Len(tasks)
  BY QueueOfInv
<1> QED
  BY <1>1 DEF NicknameWritten, CompatibilityInv

LEMMA FailInv ==
  ASSUME CompatibilityInv, NEW i \in DOMAIN tasks, FailToPrepare(i, tasks[i])
  PROVE  CompatibilityInv'
<1>1. /\ Begins(i, tasks[i]) /\ tasks' = [tasks EXCEPT ![i].stage = "failed"]
      /\ failures' = failures + 1 /\ localFiles' \in {localFiles, TRUE}
      /\ status' = "unavailable"
      /\ UNCHANGED <<override, backup, config, patched, overdue>>
  BY DEF FailToPrepare, Ends, history
<1>2. /\ jobs # <<>> /\ OfTask(1) /\ i = jobs[1].task /\ jobs[1].type = "start" /\ jobs' = Tail(jobs)
      /\ UNCHANGED <<archive, pages, game, runs, nickname, edits, deaths>>
      /\ \A k \in DOMAIN jobs' : jobs'[k].type = "answer" =>
           \E l \in DOMAIN jobs : jobs'[k] = jobs[l]
  BY <1>1, Beginning
<1>3. /\ (QueueTyped /\ QueueInv)' /\ Len(tasks') = Len(tasks) /\ DOMAIN tasks' = DOMAIN tasks
      /\ \A j \in 1..Len(tasks) : j # i => tasks'[j] = tasks[j]
      /\ tasks'[i].stage = "failed"
  BY <1>1, <1>2, Handling
<1>4. status' \in Statuses
  BY <1>1 DEF Statuses
<1>5. AnswersAreTrue' /\ StatusFollows'
  BY <1>1, <1>2, <1>4, HandledKeeps
<1>6. TypeOK'
  BY <1>1, <1>2, <1>3, <1>4, QueueOfInv, FilesKept, TypeOfParts
  DEF CompatibilityInv, SettlingInv, TypeOK
<1>7. NicknameWritten'
  BY <1>1, <1>2, <1>3, NicknameOfHandled
<1> QED
  BY <1>1, <1>2, <1>3, <1>5, <1>6, <1>7, FilesKept, InvOfParts
  DEF CompatibilityInv, SettlingInv

LEMMA PatchInv ==
  ASSUME CompatibilityInv, NEW i \in DOMAIN tasks, PatchExisting(i, tasks[i])
  PROVE  CompatibilityInv'
<1> USE Bounds
<1>1. /\ Begins(i, tasks[i]) /\ tasks' = [tasks EXCEPT ![i].stage = "done"]
      /\ localFiles' = TRUE /\ config' = nickname /\ override.kind = "buggy"
      /\ backup' = (IF backup = NoFile THEN override ELSE backup) /\ override' = Patch
      /\ patched' = (IF patched = NoFile THEN override ELSE patched)
      /\ status' = (IF tasks[i].app = 0 THEN "ready" ELSE "restartRequired")
      /\ UNCHANGED <<failures, overdue>>
  BY DEF PatchExisting, Prepared, Ends, BackedUp, IsBuggy
<1>2. /\ jobs # <<>> /\ OfTask(1) /\ i = jobs[1].task /\ jobs[1].type = "start" /\ jobs' = Tail(jobs)
      /\ UNCHANGED <<archive, pages, game, runs, nickname, edits, deaths>>
      /\ \A k \in DOMAIN jobs' : jobs'[k].type = "answer" =>
           \E l \in DOMAIN jobs : jobs'[k] = jobs[l]
  BY <1>1, Beginning
<1>3. /\ (QueueTyped /\ QueueInv)' /\ Len(tasks') = Len(tasks) /\ DOMAIN tasks' = DOMAIN tasks
      /\ \A j \in 1..Len(tasks) : j # i => tasks'[j] = tasks[j]
      /\ tasks'[i].stage = "done"
  BY <1>1, <1>2, Handling
<1>4. status' \in Statuses
  BY <1>1 DEF Statuses
<1>5. Patch.by = 0 /\ Patch.kind = "fixed" /\ NoFile.kind = "none" /\ NoFile.by = 0
      /\ Patch \in File
  BY DEF Patch, NoFile, File
<1>6. edits # 0 /\ override # NoFile /\ override.by # 0
  BY <1>1, <1>5 DEF CompatibilityInv, SettlingInv, TypeOK, BackupOfFirst
<1>7. AnswersAreTrue' /\ StatusFollows'
  <2>1. game # 0 /\ tasks[i].app = game => status' = "restartRequired"
    BY <1>1
  <2> QED
    BY <1>1, <1>2, <1>4, <1>6, <2>1, HandledKeeps
<1>8. /\ ({override, backup, patched} \subseteq File \cup {NoFile})'
      /\ (\A file \in {override, backup} : file.by = 0 => file.kind \in {"fixed", "none"})'
  BY <1>1, <1>5 DEF CompatibilityInv, SettlingInv, TypeOK
<1>9. TypeOK'
  BY <1>1, <1>2, <1>3, <1>4, <1>8, QueueOfInv, TypeOfParts DEF CompatibilityInv, SettlingInv, TypeOK
<1>10. NicknameWritten'
  BY <1>1, <1>2, <1>3, NicknameOfHandled
<1>11. BackupOfFirst'
  <2>1. backup' # NoFile /\ backup'.by # 0
    BY <1>1, <1>6 DEF CompatibilityInv, BackupOfFirst
  <2>2. patched'.by = 1 => backup' = patched'
    BY <1>1, <1>5 DEF CompatibilityInv, BackupOfFirst
  <2> QED
    BY <1>1, <1>2, <1>5, <1>6, <2>1, <2>2 DEF BackupOfFirst
<1>12. (edits \in 0..MaxEdits)' /\ (override.by <= edits)' /\ ({failures, deaths} \subseteq Nat)'
  BY <1>1, <1>2, <1>5 DEF CompatibilityInv, SettlingInv
<1> QED
  BY <1>3, <1>7, <1>9, <1>10, <1>11, <1>12, InvOfParts

(* The evaluations that leave the override alone. *)
LEMMA LookInv ==
  ASSUME CompatibilityInv, NEW i \in DOMAIN tasks,
         \/ RefuseUnknown(i, tasks[i]) \/ CheckWithoutGame(i, tasks[i]) \/ AskGame(i, tasks[i])
  PROVE  CompatibilityInv'
<1>1. /\ Begins(i, tasks[i]) /\ localFiles' = TRUE /\ config' = nickname
      /\ UNCHANGED <<failures, override, backup, patched, overdue>>
  BY DEF RefuseUnknown, CheckWithoutGame, AskGame, Prepared, history
<1>2. /\ jobs # <<>> /\ OfTask(1) /\ i = jobs[1].task /\ jobs[1].type = "start" /\ jobs' = Tail(jobs)
      /\ UNCHANGED <<archive, pages, game, runs, nickname, edits, deaths>>
      /\ \A k \in DOMAIN jobs' : jobs'[k].type = "answer" =>
           \E l \in DOMAIN jobs : jobs'[k] = jobs[l]
  BY <1>1, Beginning
<1>3. \E stage \in {"install", "compare", "done", "failed"} :
        /\ tasks' = [tasks EXCEPT ![i].stage = stage]
        /\ stage = "install" => override.kind # "unknown"
        /\ status' \in Statuses
        /\ game # 0 /\ tasks[i].app = game => status' \notin {"ready", "restartRequired"}
  <2>1. CASE RefuseUnknown(i, tasks[i])
    BY <2>1 DEF RefuseUnknown, Ends, Statuses
  <2>2. CASE CheckWithoutGame(i, tasks[i])
    BY <2>2 DEF CheckWithoutGame, Ends, Statuses, IdleStatus
  <2>3. CASE AskGame(i, tasks[i])
    <3>1. CASE override.kind = "fixed"
      BY <2>3, <3>1 DEF AskGame, Ends, Statuses
    <3>2. CASE override.kind # "fixed"
      BY <2>3, <3>2 DEF AskGame, Ends, Statuses
    <3> QED
      BY <3>1, <3>2
  <2> QED
    BY <2>1, <2>2, <2>3
<1>4. PICK stage \in {"install", "compare", "done", "failed"} :
        /\ tasks' = [tasks EXCEPT ![i].stage = stage]
        /\ stage = "install" => override.kind # "unknown"
        /\ status' \in Statuses
        /\ game # 0 /\ tasks[i].app = game => status' \notin {"ready", "restartRequired"}
  BY <1>3
<1>5. /\ (QueueTyped /\ QueueInv)' /\ Len(tasks') = Len(tasks) /\ DOMAIN tasks' = DOMAIN tasks
      /\ DOMAIN tasks = 1..Len(tasks)
      /\ \A j \in 1..Len(tasks) : j # i => tasks'[j] = tasks[j]
      /\ tasks'[i].stage = stage
  BY <1>2, <1>4, Handling, QueueOfInv
<1>6. AnswersAreTrue' /\ StatusFollows'
  BY <1>1, <1>2, <1>4, HandledKeeps
<1>7. TypeOK'
  BY <1>1, <1>2, <1>4, <1>5, QueueOfInv, FilesKept, TypeOfParts
  DEF CompatibilityInv, SettlingInv, TypeOK
<1>8. NicknameWritten'
  BY <1>1, <1>2, <1>5, NicknameOfHandled
<1> QED
  BY <1>1, <1>2, <1>5, <1>6, <1>7, <1>8, FilesKept, InvOfParts
  DEF CompatibilityInv, SettlingInv

LEMMA Resuming ==
  ASSUME CompatibilityInv, NEW i \in DOMAIN tasks, NEW asked \in {"install", "compare"},
         NEW page \in {"buggy", "fixed", "none"}, Resumes(i, asked, page)
  PROVE  /\ jobs # <<>> /\ OfTask(1) /\ i = jobs[1].task /\ jobs[1].type = "answer"
         /\ jobs[1].asked = asked /\ jobs[1].page = page /\ 1 \in Jobs
         /\ jobs' = Tail(jobs)
         /\ UNCHANGED <<archive, pages, game, backup, localFiles, config, runs, nickname, edits,
                        failures, deaths>>
         /\ \A k \in DOMAIN jobs' : jobs'[k].type = "answer" =>
              \E l \in DOMAIN jobs : jobs'[k] = jobs[l]
         /\ game # 0 /\ tasks[i].app = game =>
              /\ page = "none" => overdue \/ Page = "unknown"
              /\ page # "none" => page = Page
<1>1. /\ jobs # <<>> /\ jobs' = Tail(jobs)
      /\ Head(jobs) = [type |-> "answer", task |-> i, asked |-> asked, page |-> page]
      /\ UNCHANGED <<archive, pages, game, backup, localFiles, config, runs, nickname, edits,
                     failures, deaths>>
  BY DEF Resumes, gameVars
<1>2. jobs \in Seq(Job)
  BY QueueOfInv DEF QueueTyped
<1>3. /\ Head(jobs) = jobs[1] /\ DOMAIN Tail(jobs) = 1..(Len(jobs) - 1) /\ DOMAIN jobs = 1..Len(jobs)
      /\ Len(jobs) \in Nat /\ 1 \in DOMAIN jobs
      /\ \A k \in 1..(Len(jobs) - 1) : Tail(jobs)[k] = jobs[k + 1]
  BY <1>1, <1>2, TailIsRest
<1>4. i = jobs[1].task /\ jobs[1].type = "answer" /\ jobs[1].asked = asked /\ jobs[1].page = page
  BY <1>1, <1>3
<1>5. \A k \in DOMAIN jobs' : k + 1 \in DOMAIN jobs /\ jobs'[k] = jobs[k + 1]
  BY <1>1, <1>3
<1>6. game # 0 /\ tasks[i].app = game =>
        /\ page = "none" => overdue \/ Page = "unknown"
        /\ page # "none" => page = Page
  BY <1>3, <1>4 DEF CompatibilityInv, AnswersAreTrue, Jobs
<1> QED
  BY <1>1, <1>3, <1>4, <1>5, <1>6 DEF OfTask, Jobs

LEMMA InstallInv ==
  ASSUME CompatibilityInv, NEW i \in DOMAIN tasks, Install(i)
  PROVE  CompatibilityInv'
<1> USE Bounds
<1>1. /\ Resumes(i, "install", "buggy") /\ tasks' = [tasks EXCEPT ![i].stage = "done"]
      /\ override' = Patch /\ status' = "restartRequired"
      /\ UNCHANGED <<patched, overdue>>
  BY DEF Install, Ends, history
<1>2. /\ jobs # <<>> /\ OfTask(1) /\ i = jobs[1].task /\ jobs[1].type = "answer"
      /\ jobs[1].asked = "install" /\ 1 \in Jobs /\ jobs' = Tail(jobs)
      /\ UNCHANGED <<archive, pages, game, backup, localFiles, config, runs, nickname, edits,
                     failures, deaths>>
      /\ \A k \in DOMAIN jobs' : jobs'[k].type = "answer" =>
           \E l \in DOMAIN jobs : jobs'[k] = jobs[l]
      /\ game # 0 /\ tasks[i].app = game => Page = "buggy"
  BY <1>1, Resuming
<1>3. /\ (QueueTyped /\ QueueInv)' /\ Len(tasks') = Len(tasks) /\ DOMAIN tasks' = DOMAIN tasks
      /\ \A j \in 1..Len(tasks) : j # i => tasks'[j] = tasks[j]
      /\ tasks[i].stage = "answered"
  BY <1>1, <1>2, Handling
<1>4. status' \in Statuses
  BY <1>1 DEF Statuses
<1>5. Patch.by = 0 /\ Patch.kind = "fixed" /\ NoFile.kind = "none" /\ NoFile.by = 0
      /\ Patch \in File
  BY DEF Patch, NoFile, File
<1>6. AnswersAreTrue' /\ StatusFollows'
  BY <1>1, <1>2, <1>4, HandledKeeps
<1>7. /\ ({override, backup, patched} \subseteq File \cup {NoFile})'
      /\ (\A file \in {override, backup} : file.by = 0 => file.kind \in {"fixed", "none"})'
  BY <1>1, <1>2, <1>5 DEF CompatibilityInv, SettlingInv, TypeOK
<1>8. TypeOK'
  BY <1>1, <1>2, <1>3, <1>4, <1>7, QueueOfInv, TypeOfParts DEF CompatibilityInv, SettlingInv, TypeOK
<1>9. NicknameWritten'
  BY <1>2, <1>3, NicknameOfHandled
<1>10. BackupOfFirst'
  BY <1>1, <1>2, <1>5 DEF CompatibilityInv, BackupOfFirst
<1>11. (edits \in 0..MaxEdits)' /\ (override.by <= edits)' /\ ({failures, deaths} \subseteq Nat)'
  BY <1>1, <1>2, <1>5 DEF CompatibilityInv, SettlingInv
<1> QED
  BY <1>3, <1>6, <1>8, <1>9, <1>10, <1>11, InvOfParts

LEMMA JudgeInv ==
  ASSUME CompatibilityInv, NEW i \in DOMAIN tasks, Judge(i)
  PROVE  CompatibilityInv'
<1>1. PICK asked \in {"install", "compare"}, page \in {"buggy", "fixed", "none"} :
        /\ <<asked, page>> # <<"install", "buggy">> /\ Resumes(i, asked, page)
        /\ tasks' = [tasks EXCEPT ![i].stage = "done"] /\ status' = Verdict(asked, page)
        /\ UNCHANGED <<override, patched, overdue>>
  BY DEF Judge, Ends, history
<1>2. /\ jobs # <<>> /\ OfTask(1) /\ i = jobs[1].task /\ jobs[1].type = "answer"
      /\ jobs' = Tail(jobs)
      /\ UNCHANGED <<archive, pages, game, backup, localFiles, config, runs, nickname, edits,
                     failures, deaths>>
      /\ \A k \in DOMAIN jobs' : jobs'[k].type = "answer" =>
           \E l \in DOMAIN jobs : jobs'[k] = jobs[l]
      /\ game # 0 /\ tasks[i].app = game =>
           /\ page = "none" => overdue \/ Page = "unknown"
           /\ page # "none" => page = Page
  BY <1>1, Resuming
<1>3. /\ (QueueTyped /\ QueueInv)' /\ Len(tasks') = Len(tasks) /\ DOMAIN tasks' = DOMAIN tasks
      /\ \A j \in 1..Len(tasks) : j # i => tasks'[j] = tasks[j]
      /\ tasks[i].stage = "answered" /\ tasks'[i].stage = "done"
  BY <1>1, <1>2, Handling
<1>4. /\ status' \in Statuses
      /\ status' = "ready" => page = "fixed"
      /\ status' = "restartRequired" => page \in {"buggy", "none"}
  BY <1>1 DEF Statuses, Verdict
<1>5. AnswersAreTrue' /\ StatusFollows'
  BY <1>1, <1>2, <1>4, HandledKeeps
<1>6. TypeOK'
  BY <1>1, <1>2, <1>3, <1>4, QueueOfInv, FilesKept, TypeOfParts
  DEF CompatibilityInv, SettlingInv, TypeOK
<1>7. NicknameWritten'
  BY <1>2, <1>3, NicknameOfHandled
<1> QED
  BY <1>1, <1>2, <1>3, <1>5, <1>6, <1>7, FilesKept, InvOfParts
  DEF CompatibilityInv, SettlingInv

(* The fetch returns: in time, or with an error after 60 attempts. *)
LEMMA AnswerInv ==
  ASSUME CompatibilityInv, NEW i \in DOMAIN tasks, GameAnswers(i) \/ GameIsSilent(i)
  PROVE  CompatibilityInv'
<1> DEFINE Answer(p) == [type |-> "answer", task |-> i, asked |-> tasks[i].stage, page |-> p]
<1>1. /\ Asking(tasks[i]) /\ tasks' = [tasks EXCEPT ![i].stage = "answered"]
      /\ UNCHANGED <<archive, pages, game, override, backup, localFiles, config, runs, status,
                     nickname, edits, failures, deaths, patched>>
  BY DEF GameAnswers, GameIsSilent, Answered, gameVars, fileVars
<1>2. /\ tasks \in Seq(Task) /\ tasks[i] \in Task /\ jobs \in Seq(Job)
      /\ DOMAIN tasks = 1..Len(tasks) /\ Len(tasks) \in Nat
  BY QueueOfInv DEF QueueTyped
<1>3. \E p \in {"buggy", "fixed", "none"} :
        /\ jobs' = Append(jobs, Answer(p))
        /\ overdue => overdue'
        /\ overdue' \in BOOLEAN
        /\ game # 0 /\ tasks[i].app = game =>
             /\ p = "none" => overdue' \/ Page = "unknown"
             /\ p # "none" => p = Page
        /\ game # 0 /\ tasks[i].app # game => Noticed(game)
  <2>1. CASE GameAnswers(i)
    <3>1. Page \in {"buggy", "fixed", "none"} /\ (game # 0 => Page # "none")
      BY <2>1, QueueOfInv DEF GameAnswers, Page
    <3>2. jobs' = Append(jobs, Answer(Page)) /\ overdue' = overdue /\ tasks[i].app = game
      BY <2>1 DEF GameAnswers, Answered, Enqueue
    <3> QED
      BY <3>1, <3>2 DEF CompatibilityInv, SettlingInv, TypeOK
  <2>2. CASE GameIsSilent(i)
    <3>1. /\ jobs' = Append(jobs, Answer("none")) /\ ~tasks[i].cancelled
          /\ overdue' = (overdue \/ (game = tasks[i].app /\ Page # "unknown"))
      BY <2>2 DEF GameIsSilent, Answered, Enqueue
    <3>2. i = Len(tasks) /\ runs
      <4>1. i < Len(tasks) => tasks[i].cancelled = TRUE
        BY QueueOfInv DEF QueueInv, NewestIsAboutGame
      <4>2. i = Len(tasks)
        BY <3>1, <4>1, <1>2
      <4>3. tasks # <<>>
        BY <1>2
      <4>4. runs
        BY <4>3, QueueOfInv DEF QueueInv, RunsWithTasks
      <4> QED
        BY <4>2, <4>4
    <3>3. game # 0 /\ tasks[i].app # game => Noticed(game)
      BY <3>2, QueueOfInv DEF QueueInv, NewestIsAboutGame
    <3> QED
      BY <3>1, <3>3 DEF CompatibilityInv, SettlingInv, TypeOK
  <2> QED
    BY <2>1, <2>2
<1>4. PICK p \in {"buggy", "fixed", "none"} :
        /\ jobs' = Append(jobs, Answer(p))
        /\ overdue => overdue'
        /\ overdue' \in BOOLEAN
        /\ game # 0 /\ tasks[i].app = game =>
             /\ p = "none" => overdue' \/ Page = "unknown"
             /\ p # "none" => p = Page
        /\ game # 0 /\ tasks[i].app # game => Noticed(game)
  BY <1>3
<1> DEFINE job == Answer(p)
           n == Len(jobs)
<1>5. i \in TaskIds
  BY <1>2, QueueOfInv, Bounds DEF QueueInv, LaunchesInOrder, QueueTyped, TaskIds
<1>6. /\ job.type = "answer" /\ job.task = i /\ job.asked = tasks[i].stage /\ job.page = p
      /\ job \in Job
  BY <1>1, <1>2, <1>5 DEF Job, Asking
<1>7. jobs' = Append(jobs, job)
  BY <1>4
<1> HIDE DEF Answer, job
<1>8. (QueueTyped /\ QueueInv)'
  BY <1>1, <1>4, <1>6, <1>7, QueueOfInv, AnswerKeepsQueue
<1>9. /\ Len(tasks') = Len(tasks) /\ DOMAIN tasks' = DOMAIN tasks
      /\ \A j \in 1..Len(tasks) : tasks'[j].app = tasks[j].app
      /\ \A j \in 1..Len(tasks) : j # i => tasks'[j] = tasks[j]
      /\ tasks'[i].stage = "answered"
  BY <1>1, <1>2, MovedTask
<1>10. /\ n \in Nat /\ DOMAIN jobs = 1..n /\ DOMAIN jobs' = 1..(n + 1)
       /\ \A k \in 1..n : jobs'[k] = jobs[k]
       /\ jobs'[n + 1] = job
  BY <1>2, <1>6, <1>7, AppendIsAfter
<1>11. AnswersAreTrue'
  <2> SUFFICES ASSUME NEW k \in DOMAIN jobs', jobs'[k].type = "answer", game # 0,
                      tasks'[jobs'[k].task].app = game
      PROVE  /\ jobs'[k].page = "none" => overdue' \/ Page = "unknown"
             /\ jobs'[k].page # "none" => jobs'[k].page = Page
    BY <1>1 DEF AnswersAreTrue, Jobs, Page
  <2>1. CASE k = n + 1
    BY <2>1, <1>2, <1>4, <1>6, <1>9, <1>10
  <2>2. CASE k \in DOMAIN jobs
    <3>1. jobs'[k] = jobs[k] /\ jobs[k].task \in DOMAIN tasks
      BY <2>2, <1>10, QueueOfInv DEF QueueInv, JobsOfTasks, OfTask, Jobs
    <3>2. tasks[jobs[k].task].app = game
      BY <3>1, <1>2, <1>9
    <3> QED
      BY <2>2, <3>1, <3>2, <1>4 DEF CompatibilityInv, AnswersAreTrue, Jobs
  <2> QED
    BY <2>1, <2>2, <1>10
<1>12. StatusFollows'
  <2>1. Noticed(game) => Noticed(game)'
    BY <1>1, <1>10 DEF Noticed, IsNotice, Jobs
  <2>2. ASSUME NEW k \in Jobs, Starts(k, game)
        PROVE  Pending(game)'
    <3>1. jobs[k].task \in DOMAIN tasks /\ jobs'[k] = jobs[k] /\ k \in DOMAIN jobs'
      BY <2>2, <1>10, QueueOfInv DEF QueueInv, JobsOfTasks, OfTask, Starts, Jobs
    <3>2. jobs'[k].type = "start" /\ tasks'[jobs'[k].task].app = game'
      BY <1>1, <1>2, <1>9, <2>2, <3>1 DEF Starts
    <3> QED
      BY <3>1, <3>2 DEF Pending, Starts, Jobs
  <2>3. Pending(game) => Pending(game)'
    BY <2>1, <2>2 DEF Pending
  <2> QED
    BY <1>1, <1>4, <2>3 DEF CompatibilityInv, StatusFollows, Page
<1>13. TypeOK'
  BY <1>1, <1>4, <1>8, QueueOfInv, FilesKept, TypeOfParts DEF CompatibilityInv, SettlingInv, TypeOK
<1>14. NicknameWritten'
  BY <1>1, <1>9, NicknameOfHandled DEF Asking
<1> QED
  BY <1>1, <1>8, <1>11, <1>12, <1>13, <1>14, FilesKept, InvOfParts
  DEF CompatibilityInv, SettlingInv

LEMMA LeaveInv ==
  ASSUME CompatibilityInv, NEW i \in DOMAIN tasks, SeeCancellation(i)
  PROVE  CompatibilityInv'
<1>1. /\ Asking(tasks[i]) /\ tasks' = [tasks EXCEPT ![i].stage = "done"]
      /\ UNCHANGED <<archive, pages, game, override, backup, localFiles, config, runs, status,
                     nickname, jobs, edits, failures, deaths, patched, overdue>>
  BY DEF SeeCancellation, gameVars, fileVars, history
<1>2. tasks \in Seq(Task) /\ DOMAIN tasks = 1..Len(tasks) /\ Len(tasks) \in Nat
  BY QueueOfInv DEF QueueTyped
<1>3. (QueueTyped /\ QueueInv)'
  BY <1>1, QueueOfInv, LeaveKeepsQueue
<1>4. /\ Len(tasks') = Len(tasks) /\ DOMAIN tasks' = DOMAIN tasks
      /\ \A j \in 1..Len(tasks) : tasks'[j].app = tasks[j].app
      /\ \A j \in 1..Len(tasks) : j # i => tasks'[j] = tasks[j]
      /\ tasks'[i].stage = "done"
  BY <1>1, <1>2, MovedTask
<1>5. AnswersAreTrue'
  BY <1>1, <1>4, AnswersKept
<1>6. StatusFollows'
  <2>1. ASSUME NEW k \in Jobs, Starts(k, game)
        PROVE  Pending(game)'
    <3>1. jobs[k].task \in DOMAIN tasks
      BY <2>1, QueueOfInv DEF QueueInv, JobsOfTasks, OfTask, Starts, Jobs
    <3>2. jobs[k].type = "start" /\ tasks'[jobs[k].task].app = game
      BY <1>2, <1>4, <2>1, <3>1 DEF Starts
    <3> QED
      BY <1>1, <3>2 DEF Pending, Starts, Jobs
  <2>2. Pending(game) => Pending(game)'
    BY <1>1, <2>1 DEF Pending, Noticed, IsNotice, Jobs
  <2> QED
    BY <1>1, <2>2 DEF CompatibilityInv, StatusFollows, Page
<1>7. TypeOK'
  BY <1>1, <1>3, QueueOfInv, FilesKept, TypeOfParts DEF CompatibilityInv, SettlingInv, TypeOK
<1>8. NicknameWritten'
  BY <1>1, <1>4, NicknameOfHandled DEF Asking
<1> QED
  BY <1>1, <1>3, <1>5, <1>6, <1>7, <1>8, FilesKept, InvOfParts DEF CompatibilityInv, SettlingInv

LEMMA LaunchInv ==
  ASSUME CompatibilityInv, LaunchGame
  PROVE  CompatibilityInv'
<1> USE Bounds
<1> DEFINE p == IF localFiles /\ override # NoFile THEN override.kind ELSE archive
           job == [type |-> "notice", app |-> game']
           n == Len(jobs)
<1>1. /\ game = 0 /\ Len(pages) < MaxLaunches /\ game' = Len(pages) + 1 /\ pages' = Append(pages, p)
      /\ IF runs THEN jobs' = Append(jobs, job) ELSE jobs' = jobs
      /\ UNCHANGED <<archive, override, backup, localFiles, config, runs, status, nickname, tasks,
                     edits, failures, deaths, patched, overdue>>
  BY DEF LaunchGame, Enqueue, fileVars, history
<1>2. p \in {"buggy", "fixed", "unknown"} /\ pages \in Seq({"buggy", "fixed", "unknown"})
  BY CompatibilityAssumption
  DEF CompatibilityAssumption, CompatibilityInv, SettlingInv, TypeOK, File, NoFile
<1>3. (QueueTyped /\ QueueInv)'
  BY <1>1, <1>2, QueueOfInv, LaunchKeepsQueue DEF Enqueue
<1> HIDE DEF p
<1>4. game' \in 1..Len(pages') /\ Len(pages) \in Nat
  BY <1>1, <1>2
<1>5. job \in Job /\ job.type = "notice" /\ job.app = game'
  BY <1>1, <1>4 DEF Job
<1> HIDE DEF job
<1>6. jobs \in Seq(Job) /\ \A k \in DOMAIN jobs : OfTask(k) => jobs[k].task \in DOMAIN tasks
  BY QueueOfInv DEF QueueTyped, QueueInv, JobsOfTasks, Jobs
<1>7. runs => /\ n \in Nat /\ DOMAIN jobs = 1..n /\ DOMAIN jobs' = 1..(n + 1)
              /\ \A k \in 1..n : jobs'[k] = jobs[k]
              /\ jobs'[n + 1] = job
  BY <1>1, <1>5, <1>6, AppendIsAfter
<1>8. \A k \in DOMAIN jobs' : jobs'[k].type = "answer" => k \in DOMAIN jobs /\ jobs'[k] = jobs[k]
  <2>1. CASE runs
    BY <2>1, <1>5, <1>7
  <2>2. CASE ~runs
    BY <2>2, <1>1
  <2> QED
    BY <2>1, <2>2
<1>9. AnswersAreTrue'
  <2>1. ASSUME NEW k \in DOMAIN jobs', jobs'[k].type = "answer"
        PROVE  tasks'[jobs'[k].task].app # game'
    <3>1. jobs[k].task \in DOMAIN tasks /\ jobs'[k] = jobs[k]
      BY <1>6, <1>8, <2>1 DEF OfTask
    <3>2. tasks[jobs[k].task].app \in 0..Len(pages)
      BY <3>1, QueueOfInv DEF QueueInv, LaunchesInOrder
    <3> QED
      BY <1>1, <1>4, <3>1, <3>2
  <2> QED
    BY <2>1 DEF AnswersAreTrue, Jobs
<1>10. StatusFollows'
  <2> SUFFICES ASSUME runs PROVE Pending(game)'
    BY <1>1 DEF StatusFollows
  <2>1. n + 1 \in DOMAIN jobs' /\ jobs'[n + 1].type = "notice" /\ jobs'[n + 1].app = game'
    BY <1>5, <1>7
  <2> QED
    BY <2>1 DEF Pending, Noticed, IsNotice, Jobs
<1>11. TypeOK'
  BY <1>1, <1>3, <1>4, FilesKept, TypeOfParts DEF CompatibilityInv, SettlingInv, TypeOK
<1>12. NicknameWritten'
  BY <1>1 DEF CompatibilityInv, NicknameWritten
<1> QED
  BY <1>1, <1>3, <1>9, <1>10, <1>11, <1>12, FilesKept, InvOfParts
  DEF CompatibilityInv, SettlingInv

LEMMA QuitInv ==
  ASSUME CompatibilityInv, QuitGame \/ UNCHANGED vars
  PROVE  CompatibilityInv'
<1>1. /\ game' \in {0, game}
      /\ UNCHANGED <<archive, pages, override, backup, localFiles, config, runs, status, nickname,
                     tasks, jobs, edits, failures, deaths, patched, overdue>>
  BY DEF QuitGame, vars, gameVars, fileVars, history
<1>2. (QueueTyped /\ QueueInv)'
  BY <1>1, QueueOfInv, QuitKeepsQueue
<1>3. AnswersAreTrue' /\ StatusFollows'
  <2>1. ASSUME game' = 0
        PROVE  AnswersAreTrue' /\ StatusFollows'
    BY <2>1 DEF AnswersAreTrue, StatusFollows
  <2>2. ASSUME game' = game
        PROVE  AnswersAreTrue' /\ StatusFollows'
    BY <1>1, <2>2
    DEF CompatibilityInv, AnswersAreTrue, StatusFollows, Pending, Noticed, IsNotice, Starts, Jobs, Page
  <2> QED
    BY <1>1, <2>1, <2>2
<1>4. game' \in 0..Len(pages')
  BY <1>1, QueueOfInv DEF QueueTyped
<1>5. TypeOK'
  BY <1>1, <1>2, <1>4, FilesKept, TypeOfParts DEF CompatibilityInv, SettlingInv, TypeOK
<1>6. NicknameWritten'
  BY <1>1 DEF CompatibilityInv, NicknameWritten, Jobs
<1> QED
  BY <1>1, <1>2, <1>3, <1>5, <1>6, FilesKept, InvOfParts DEF CompatibilityInv, SettlingInv

LEMMA EditInv ==
  ASSUME CompatibilityInv, NEW file \in File \cup {NoFile}, EditOverride(file)
  PROVE  CompatibilityInv'
<1> USE Bounds
<1>1. /\ edits < MaxEdits /\ edits' = edits + 1 /\ override' = file
      /\ file = NoFile \/ file.by = edits'
      /\ UNCHANGED <<archive, pages, game, backup, localFiles, config, runs, status, nickname,
                     tasks, jobs, failures, deaths, patched, overdue>>
  BY DEF EditOverride, gameVars, history
<1>2. (QueueTyped /\ QueueInv)'
  BY <1>1, QueueOfInv, QuitKeepsQueue
<1>3. edits \in Nat /\ edits' # 0 /\ edits' \in 0..MaxEdits
  BY <1>1 DEF CompatibilityInv, SettlingInv
<1>4. file.by <= edits' /\ NoFile.by = 0 /\ NoFile.kind = "none"
  BY <1>1, <1>3 DEF NoFile
<1>5. AnswersAreTrue' /\ StatusFollows'
  BY <1>1, <1>3
  DEF CompatibilityInv, AnswersAreTrue, StatusFollows, Pending, Noticed, IsNotice, Starts, Jobs, Page
<1>6. /\ ({override, backup, patched} \subseteq File \cup {NoFile})'
      /\ (\A f \in {override, backup} : f.by = 0 => f.kind \in {"fixed", "none"})'
  BY <1>1, <1>3, <1>4 DEF CompatibilityInv, SettlingInv, TypeOK
<1>7. TypeOK'
  BY <1>1, <1>2, <1>6, QueueOfInv, TypeOfParts DEF CompatibilityInv, SettlingInv, TypeOK
<1>8. NicknameWritten'
  BY <1>1 DEF CompatibilityInv, NicknameWritten
<1>9. BackupOfFirst'
  <2>1. override'.by = 1 => backup' = NoFile
    BY <1>1, <1>3, <1>4 DEF CompatibilityInv, BackupOfFirst
  <2> QED
    BY <1>1, <1>3, <2>1 DEF CompatibilityInv, BackupOfFirst
<1> QED
  BY <1>1, <1>2, <1>3, <1>4, <1>5, <1>7, <1>8, <1>9, InvOfParts
  DEF CompatibilityInv, SettlingInv

LEMMA DieInv ==
  ASSUME CompatibilityInv, Killed \/ KilledAtPatch
  PROVE  CompatibilityInv'
<1> USE Bounds
<1>1. /\ Die /\ deaths' = deaths + 1 /\ runs' = FALSE /\ tasks' = <<>> /\ jobs' = <<>>
      /\ UNCHANGED <<archive, pages, game, override, status, nickname, edits, failures,
                     patched, overdue>>
  BY DEF Killed, KilledAtPatch, Die, gameVars, fileVars, history
<1>2. \/ UNCHANGED <<backup, localFiles, config>>
      \/ /\ override.kind = "buggy" /\ backup' = (IF backup = NoFile THEN override ELSE backup)
         /\ localFiles' = TRUE /\ config' = nickname
  BY DEF Killed, KilledAtPatch, fileVars, BackedUp
<1>3. (QueueTyped /\ QueueInv)'
  BY <1>1, QueueOfInv, DeathKeepsQueue
<1>4. DOMAIN jobs' = {} /\ DOMAIN tasks' = {}
  BY <1>1
<1>5. AnswersAreTrue' /\ StatusFollows' /\ NicknameWritten'
  BY <1>1, <1>4 DEF AnswersAreTrue, StatusFollows, NicknameWritten, Jobs
<1>6. override.kind = "buggy" => edits # 0 /\ override # NoFile /\ override.by # 0
  BY DEF CompatibilityInv, SettlingInv, TypeOK, BackupOfFirst, NoFile, Patch
<1>7. /\ ({override, backup, patched} \subseteq File \cup {NoFile})'
      /\ (\A file \in {override, backup} : file.by = 0 => file.kind \in {"fixed", "none"})'
  BY <1>1, <1>2 DEF CompatibilityInv, SettlingInv, TypeOK
<1>8. localFiles' \in BOOLEAN /\ config' \in Nicknames \cup {"none", "absent"}
  BY <1>2 DEF CompatibilityInv, SettlingInv, TypeOK
<1>9. TypeOK'
  BY <1>1, <1>3, <1>7, <1>8, QueueOfInv, TypeOfParts DEF CompatibilityInv, SettlingInv, TypeOK
<1>10. BackupOfFirst'
  <2>1. CASE UNCHANGED backup
    BY <1>1, <2>1 DEF CompatibilityInv, BackupOfFirst
  <2>2. CASE override.kind = "buggy" /\ backup' = (IF backup = NoFile THEN override ELSE backup)
    <3>1. backup' # NoFile /\ backup'.by # 0
      BY <1>6, <2>2 DEF CompatibilityInv, BackupOfFirst
    <3>2. override.by = 1 => backup' = override
      BY <2>2 DEF CompatibilityInv, BackupOfFirst
    <3>3. patched.by = 1 => backup' = patched
      BY <2>2 DEF CompatibilityInv, BackupOfFirst, NoFile
    <3> QED
      BY <1>1, <1>6, <2>2, <3>1, <3>2, <3>3 DEF BackupOfFirst
  <2> QED
    BY <1>2, <2>1, <2>2
<1>11. (edits \in 0..MaxEdits)' /\ (override.by <= edits)' /\ ({failures, deaths} \subseteq Nat)'
  BY <1>1 DEF CompatibilityInv, SettlingInv
<1> QED
  BY <1>3, <1>5, <1>9, <1>10, <1>11, InvOfParts

LEMMA StartInv ==
  ASSUME CompatibilityInv, Start
  PROVE  CompatibilityInv'
<1> DEFINE task == [app |-> game, cancelled |-> FALSE, stage |-> "queued"]
           job == [type |-> "start", task |-> 1]
<1>1. /\ status' = "checking" /\ runs' = TRUE /\ tasks' = <<task>> /\ jobs' = <<job>>
      /\ UNCHANGED <<archive, pages, game, override, backup, localFiles, config, nickname,
                     edits, failures, deaths, patched, overdue>>
  BY DEF Start, gameVars, fileVars, history
<1>2. (QueueTyped /\ QueueInv)'
  BY QueueOfInv, StartMakesQueue
<1>3. task.app = game /\ task.stage = "queued" /\ job.type = "start" /\ job.task = 1
  OBVIOUS
<1> HIDE DEF task, job
<1>4. /\ DOMAIN tasks' = {1} /\ Len(tasks') = 1 /\ tasks'[1] = task
      /\ DOMAIN jobs' = {1} /\ jobs'[1] = job
  BY <1>1
<1>5. AnswersAreTrue'
  BY <1>3, <1>4 DEF AnswersAreTrue, Jobs
<1>6. StatusFollows'
  BY <1>1, <1>3, <1>4 DEF StatusFollows, Pending, Starts, Jobs
<1>7. NicknameWritten'
  BY <1>3, <1>4 DEF NicknameWritten
<1>8. status' \in Statuses
  BY <1>1 DEF Statuses
<1>9. TypeOK'
  BY <1>1, <1>2, <1>8, QueueOfInv, FilesKept, TypeOfParts DEF CompatibilityInv, SettlingInv, TypeOK
<1> QED
  BY <1>1, <1>2, <1>5, <1>6, <1>7, <1>9, FilesKept, InvOfParts
  DEF CompatibilityInv, SettlingInv

----------------------------------------------------------------------------
(* The theorems. *)

LEMMA CompatibilityInvInit == Init => CompatibilityInv
<1> SUFFICES ASSUME Init PROVE CompatibilityInv
  OBVIOUS
<1> USE Bounds
<1>1. /\ tasks = <<>> /\ jobs = <<>> /\ pages = <<>> /\ game = 0 /\ runs = FALSE /\ edits = 0
      /\ override = NoFile /\ backup = NoFile /\ patched = NoFile
      /\ NoFile.by = 0 /\ NoFile.kind = "none"
      /\ DOMAIN tasks = {} /\ DOMAIN jobs = {} /\ Len(tasks) = 0 /\ Len(pages) = 0
  BY DEF Init, NoFile
<1>2. /\ pages \in Seq({"buggy", "fixed", "unknown"}) /\ tasks \in Seq(Task) /\ jobs \in Seq(Job)
      /\ status \in Statuses
  BY <1>1 DEF Init, Statuses
<1>3. TypeOK
  <2>1. /\ game \in 0..Len(pages) /\ {override, backup, patched} \subseteq File \cup {NoFile}
        /\ \A file \in {override, backup} : file.by = 0 => file.kind \in {"fixed", "none"}
    BY <1>1
  <2>2. /\ archive \in Archives /\ localFiles \in BOOLEAN /\ runs \in BOOLEAN
        /\ overdue \in BOOLEAN
    BY <1>1 DEF Init
  <2>3. config \in Nicknames \cup {"none", "absent"} /\ nickname \in Nicknames \cup {"none"}
    BY DEF Init
  <2> QED
    BY <1>2, <2>1, <2>2, <2>3 DEF TypeOK
<1>4. JobsOfTasks /\ LaunchesInOrder /\ RunsWithTasks /\ NewestIsAboutGame /\ Overtaken
  BY <1>1 DEF JobsOfTasks, LaunchesInOrder, RunsWithTasks, NewestIsAboutGame, Overtaken, Jobs
<1>5. AnswersAreTrue /\ StatusFollows /\ NicknameWritten /\ BackupOfFirst
  BY <1>1 DEF AnswersAreTrue, StatusFollows, NicknameWritten, BackupOfFirst, Jobs
<1>6. edits \in 0..MaxEdits /\ {failures, deaths} \subseteq Nat /\ override.by <= edits
  BY <1>1 DEF Init
<1> QED
  BY <1>3, <1>4, <1>5, <1>6 DEF CompatibilityInv, SettlingInv

LEMMA CompatibilityInvStep ==
  ASSUME CompatibilityInv, [Next]_vars
  PROVE  CompatibilityInv'
<1>1. CASE Start
  BY <1>1, StartInv
<1>2. CASE Retry \/ \E n \in Nicknames : SaveNickname(n)
  <2>1. PICK n \in Nicknames : Retry \/ SaveNickname(n)
    BY <1>2, CompatibilityAssumption DEF CompatibilityAssumption
  <2> QED
    BY <2>1, RescheduleInv
<1>3. CASE NoticeLaunch
  BY <1>3, NoticeInv
<1>4. ASSUME NEW i \in DOMAIN tasks, Evaluate(i, tasks[i])
      PROVE  CompatibilityInv'
  BY <1>4, FailInv, PatchInv, LookInv DEF Evaluate
<1>5. ASSUME NEW i \in DOMAIN tasks, Install(i) \/ Judge(i)
      PROVE  CompatibilityInv'
  BY <1>5, InstallInv, JudgeInv
<1>6. ASSUME NEW i \in DOMAIN tasks, Asked(i)
      PROVE  CompatibilityInv'
  BY <1>6, AnswerInv, LeaveInv DEF Asked
<1>7. CASE LaunchGame
  BY <1>7, LaunchInv
<1>8. CASE QuitGame \/ UNCHANGED vars
  BY <1>8, QuitInv
<1>9. CASE Killed \/ KilledAtPatch
  BY <1>9, DieInv
<1>10. ASSUME NEW file \in File \cup {NoFile}, EditOverride(file)
       PROVE  CompatibilityInv'
  BY <1>10, EditInv
<1> QED
  BY <1>1, <1>2, <1>3, <1>4, <1>5, <1>6, <1>7, <1>8, <1>9, <1>10 DEF Next, MainActor, User

(* Type correctness, and what is said of a running Warcraft is about that  *)
(* Warcraft or overtaken by what will be.                                  *)
THEOREM CompatibilityCorrect == Spec => []CompatibilityInv
<1>1. CompatibilityInv /\ [Next]_vars => CompatibilityInv'
  BY CompatibilityInvStep
<1> QED
  BY <1>1, CompatibilityInvInit, PTL DEF Spec

(* `Verifica Offline LAN fix: Ready' is true of the Warcraft that runs, and *)
(* `restart necessary' too, whatever was launched, quit, cancelled or       *)
(* killed in between (WarcraftCompatibilityController.swift).               *)
THEOREM StatusIsTrueAlways == Spec => []StatusIsTrue
<1>1. CompatibilityInv => StatusIsTrue
  <2> SUFFICES ASSUME CompatibilityInv, Settled
               PROVE  /\ status = "ready" => Page \in {"fixed", "none"}
                      /\ status = "restartRequired" /\ ~overdue /\ edits = 0 => Page # "fixed"
    BY DEF StatusIsTrue
  <2>1. CASE game = 0
    BY <2>1 DEF Page
  <2>2. CASE game # 0
    <3>1. runs /\ ~Pending(game)
      BY DEF Settled, Pending, Noticed, Jobs
    <3> QED
      BY <2>2, <3>1 DEF CompatibilityInv, StatusFollows
  <2> QED
    BY <2>1, <2>2
<1> QED
  BY <1>1, CompatibilityCorrect, PTL

(* The nickname saved last is the one written for Warcraft when nothing is *)
(* left to do, although cancelled evaluations write theirs too             *)
(* (NicknameController.swift).                                             *)
THEOREM NicknameReachesAlways == Spec => []NicknameReaches
<1>1. CompatibilityInv => NicknameReaches
  <2> SUFFICES ASSUME CompatibilityInv, Settled, Newest.stage # "failed"
               PROVE  config = nickname
    BY DEF NicknameReaches
  <2>1. runs /\ Len(tasks) \in DOMAIN tasks
    BY QueueOfInv DEF Settled
  <2>2. tasks[Len(tasks)].stage = "done"
    BY <2>1 DEF Settled, Newest
  <2> QED
    BY <2>1, <2>2 DEF CompatibilityInv, NicknameWritten
<1> QED
  BY <1>1, CompatibilityCorrect, PTL

(* Whenever Strajer is killed and whatever the user edits meanwhile, also   *)
(* while an evaluation is about to install the fix, the backup is not       *)
(* Strajer's patch, and it is the user's first override once that was       *)
(* patched.                                                                 *)
THEOREM FilesAreTheirsAlways == Spec => []FilesAreTheirs
<1>1. CompatibilityInv => FilesAreTheirs
  BY DEF CompatibilityInv, SettlingInv, BackupOfFirst, FilesAreTheirs
<1> QED
  BY <1>1, CompatibilityCorrect, PTL
=============================================================================
