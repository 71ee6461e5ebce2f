------------------------------- MODULE Exports -------------------------------
(***************************************************************************)
(* Export jobs of one user (modules/exports/exports.service.ts and          *)
(* lib/export-queue.ts).  A job may be run by the worker, inline, or by     *)
(* both when the enqueue timed out but went through; the cleanup pass       *)
(* expires files and fails jobs that look stuck.                            *)
(***************************************************************************)
EXTENDS Naturals, FiniteSets

CONSTANTS
  Jobs,
  Runners,    \* "worker", "inline"
  MaxActive   \* EXPORT_MAX_ACTIVE_JOBS_PER_USER

VARIABLES
  job,        \* ExportJob.status; before the row: "none", "counted", "refused"
  file,       \* jobs whose file is on disk
  overdue,    \* completed jobs whose expiresAt has passed
  due,        \* << job, runner >> that will still call processExportJob
  run,        \* what each runner is doing with each job
  expiring,   \* the completed job the cleanup has found expired, or NoJob
  claims,     \* history: how often each job was claimed
  racedJobs,  \* history: jobs created while another create was under way
  stranded    \* history: jobs whose runner died holding a file, or lost an answer

exportVars == << job, file, overdue, due, run, expiring, claims, racedJobs, stranded >>
NoJob == "no job"
Active == { j \in Jobs : job[j] \in { "queued", "running" } }
Set(j, s) == job' = [job EXCEPT ![j] = s]
RunGoto(j, r, l) == run' = [run EXCEPT ![j][r] = l]

ExportsInit ==
  /\ job = [j \in Jobs |-> "none"]
  /\ file = {} /\ overdue = {} /\ due = {}
  /\ run = [j \in Jobs |-> [r \in Runners |-> "idle"]]
  /\ expiring = NoJob
  /\ claims = [j \in Jobs |-> 0] /\ racedJobs = {} /\ stranded = {}

CountActive_OffByOne(j) ==
  /\ job[j] = "none"
  /\ Set(j, IF Cardinality(Active) > MaxActive THEN "refused" ELSE "counted")
  /\ racedJobs' = racedJobs \cup { i \in Jobs : job[i] = "counted" }
                            \cup { i \in {j} : \E k \in Jobs : job[k] = "counted" }
  /\ UNCHANGED << file, overdue, due, run, expiring, claims, stranded >>

\* createExport counts the active jobs, then inserts the row.
CountActive(j) ==
  /\ job[j] = "none"
  /\ Set(j, IF Cardinality(Active) >= MaxActive THEN "refused" ELSE "counted")
  /\ racedJobs' = racedJobs \cup { i \in Jobs : job[i] = "counted" }
                            \cup { i \in {j} : \E k \in Jobs : job[k] = "counted" }
  /\ UNCHANGED << file, overdue, due, run, expiring, claims, stranded >>

\* The row, and its delivery: to the worker, inline, or after a timeout to both; or
\* the process dies before either.
CreateJob(j) ==
  /\ job[j] = "counted"
  /\ Set(j, "queued")
  /\ \E R \in SUBSET Runners : due' = due \cup ({j} \X R)
  /\ UNCHANGED << file, overdue, run, expiring, claims, racedJobs, stranded >>

Claim_Unconditional(j, r) ==
  /\ << j, r >> \in due /\ job[j] # "expired"
  /\ due' = due \ { << j, r >> }
  /\ Set(j, "running") /\ RunGoto(j, r, "generate")
  /\ claims' = [claims EXCEPT ![j] = @ + 1]
  /\ UNCHANGED << file, overdue, expiring, racedJobs, stranded >>

\* processExportJob claims a queued row, or skips the job.
Claim(j, r) ==
  /\ << j, r >> \in due
  /\ due' = due \ { << j, r >> }
  /\ IF job[j] = "queued"
       THEN Set(j, "running") /\ RunGoto(j, r, "generate") /\ claims' = [claims EXCEPT ![j] = @ + 1]
       ELSE UNCHANGED << job, run, claims >>
  /\ UNCHANGED << file, overdue, expiring, racedJobs, stranded >>

\* The payments are read and rendered, and the file is written; or one of it fails.
Generate(j, r) ==
  /\ run[j][r] = "generate"
  /\ \/ file' = file \cup {j} /\ RunGoto(j, r, "complete")
     \/ RunGoto(j, r, "fail") /\ UNCHANGED file
  /\ UNCHANGED << job, overdue, due, expiring, claims, racedJobs, stranded >>

Complete_KeepsFile(j, r) ==
  /\ run[j][r] = "complete"
  /\ \/ Set(j, "completed") /\ RunGoto(j, r, "idle") /\ UNCHANGED << file, stranded >>
     \/ RunGoto(j, r, "fail") /\ UNCHANGED << job, file, stranded >>
  /\ UNCHANGED << overdue, due, expiring, claims, racedJobs >>

\* The row is completed, whatever its status is by now.  When the update fails the
\* file is deleted; it may have been applied all the same.
Complete(j, r) ==
  /\ run[j][r] = "complete"
  /\ \/ Set(j, "completed") /\ RunGoto(j, r, "idle") /\ UNCHANGED << file, stranded >>
     \/ RunGoto(j, r, "fail") /\ file' = file \ {j} /\ UNCHANGED << job, stranded >>
     \/ /\ Set(j, "completed") /\ RunGoto(j, r, "fail")
        /\ file' = file \ {j} /\ stranded' = stranded \cup {j}
  /\ UNCHANGED << overdue, due, expiring, claims, racedJobs >>

\* The catch clause; an error of the database is logged.
RecordFailure(j, r) ==
  /\ run[j][r] = "fail"
  /\ Set(j, "failed") \/ UNCHANGED job
  /\ RunGoto(j, r, "idle")
  /\ UNCHANGED << file, overdue, due, expiring, claims, racedJobs, stranded >>

\* The process of a runner dies: a job in the queue is delivered again, an inline
\* one is forgotten.
RunnerDies(j, r) ==
  /\ run[j][r] # "idle"
  /\ RunGoto(j, r, "idle")
  /\ due' = (IF r = "worker" THEN due \cup { << j, r >> } ELSE due \ (Jobs \X {r}))
  /\ stranded' = (IF run[j][r] = "complete" THEN stranded \cup {j} ELSE stranded)
  /\ UNCHANGED << job, file, overdue, expiring, claims, racedJobs >>

\* EXPORT_TTL_SECONDS pass.
Expire(j) ==
  /\ job[j] = "completed" /\ j \notin overdue
  /\ overdue' = overdue \cup {j}
  /\ UNCHANGED << job, file, due, run, expiring, claims, racedJobs, stranded >>

\* The cleanup finds an expired job, deletes its file, then marks the row; a pass
\* may end in between.
FindExpired(j) ==
  /\ expiring = NoJob /\ job[j] = "completed" /\ j \in overdue
  /\ expiring' = j /\ file' = file \ {j}
  /\ UNCHANGED << job, overdue, due, run, claims, racedJobs, stranded >>

MarkExpired ==
  /\ expiring # NoJob
  /\ job' = (IF job[expiring] = "completed" THEN [job EXCEPT ![expiring] = "expired"] ELSE job)
  /\ expiring' = NoJob
  /\ UNCHANGED << file, overdue, due, run, claims, racedJobs, stranded >>

CleanupDies ==
  /\ expiring # NoJob
  /\ expiring' = NoJob
  /\ UNCHANGED << job, file, overdue, due, run, claims, racedJobs, stranded >>

FailStale_RunningOnly(j) ==
  /\ job[j] = "running"
  /\ Set(j, "failed")
  /\ UNCHANGED << file, overdue, due, run, expiring, claims, racedJobs, stranded >>

\* EXPORT_STALE_JOB_MS without progress; the runner may only be slow.
FailStale(j) ==
  /\ j \in Active
  /\ Set(j, "failed")
  /\ UNCHANGED << file, overdue, due, run, expiring, claims, racedJobs, stranded >>

RunStep(j, r) == Claim(j, r) \/ Generate(j, r) \/ Complete(j, r) \/ RecordFailure(j, r)
ExportsNext ==
  \/ \E j \in Jobs : CountActive(j) \/ CreateJob(j) \/ Expire(j) \/ FindExpired(j) \/ FailStale(j)
  \/ \E j \in Jobs, r \in Runners : RunStep(j, r) \/ RunnerDies(j, r)
  \/ MarkExpired \/ CleanupDies


-----------------------------------------------------------------------------
(* Properties.                                                             *)

\* A job delivered twice is generated once.
GeneratedOnce == \A j \in Jobs : claims[j] <= 1

\* A download that is offered has its file until it expires, and a file belongs to
\* such a download or to a runner about to offer it; a runner that died with its
\* file, or lost the answer of its last update, is the one exception.
FilesMatchRows ==
  \A j \in Jobs \ stranded :
    /\ job[j] = "completed" => j \in file \/ j \in overdue
    /\ j \in file => job[j] = "completed" \/ \E r \in Runners : run[j][r] = "complete"

\* The limit of active jobs holds but for creations that overlapped.
ActiveLimit == Cardinality(Active \ racedJobs) <= MaxActive

\* No job stays queued or running, whoever died on the way.
ExportsEnd == \A j \in Jobs : (j \in Active) ~> (j \notin Active)
=============================================================================
