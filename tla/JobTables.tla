------------------------------ MODULE JobTables ------------------------------
(***************************************************************************)
(* One row of a job table and everybody who writes it: the export jobs of  *)
(* apis/exportjob with their timeout monitor, the asynchronous jobs of     *)
(* job/asyncjob, and the record a cron run keeps of itself (job/cronjob.go)*)
(* Reading a row, deciding and writing it back are separate steps, since   *)
(* nothing locks the row in between.                                       *)
(***************************************************************************)
EXTENDS Integers, Sequences

CONSTANTS JbWorkers,  \* callers of UpdateJobStatus
          JbMaxCalls  \* bound: calls of UpdateJobStatus

ASSUME JbAssumption == JbMaxCalls \in Nat

VARIABLES jbKind,  \* "export", "async" or "cron": the table
          jbRow,   \* the row: status, error messages, whether it has an output
          jbTimed, \* timeout_seconds > 0
          jbLate,  \* more than timeout_seconds have passed
          jbPc,    \* where each worker is
          jbCopy,  \* the row as the worker has it
          jbMon,   \* the rows repairTimeoutJobs has found
          jbCalls, \* calls left
          jbSeen   \* the last answer of DetailExportJob or of a batch read

jobVars == <<jbKind, jbRow, jbTimed, jbLate, jbPc, jbCopy, jbMon, jbCalls, jbSeen>>

NoRow == [status |-> "none", msg |-> << >>, out |-> FALSE]
NewRow == [NoRow EXCEPT !.status = "pending"]
JobStatus == {"none", "pending", "success", "failed"}
JobErrors == {"timeout", "error"}
JobRows == [status : JobStatus, msg : Seq(JobErrors), out : BOOLEAN]
JobAnswers == [status : JobStatus, msg : Seq(JobErrors), url : BOOLEAN]

JbTypeOK ==
  /\ jbKind \in {"export", "async", "cron"} /\ jbRow \in JobRows
  /\ jbTimed \in BOOLEAN /\ jbLate \in BOOLEAN
  /\ jbPc \in [JbWorkers -> {"idle", "got", "save"}]
  /\ jbCopy \in [JbWorkers -> JobRows] /\ jbMon \subseteq JobRows
  /\ jbCalls \in 0..JbMaxCalls
  /\ jbSeen \in JobAnswers

JbInit ==
  /\ jbKind \in {"export", "async", "cron"} /\ jbRow = NoRow
  /\ jbTimed = FALSE /\ jbLate = FALSE
  /\ jbPc = [w \in JbWorkers |-> "idle"] /\ jbCopy = [w \in JbWorkers |-> NoRow]
  /\ jbMon = {} /\ jbCalls = JbMaxCalls
  /\ jbSeen = [status |-> "none", msg |-> << >>, url |-> FALSE]

JbGo(w, from, to) == jbPc[w] = from /\ jbPc' = [jbPc EXCEPT ![w] = to]

\* Create a pending row, with or without a timeout.
CreateExportJob ==
  /\ jbKind = "export" /\ jbRow = NoRow
  /\ jbRow' = NewRow /\ jbTimed' \in BOOLEAN
  /\ UNCHANGED <<jbKind, jbLate, jbPc, jbCopy, jbMon, jbCalls, jbSeen>>

CreateAsyncJob ==
  /\ jbKind = "async" /\ jbRow = NoRow
  /\ jbRow' = NewRow
  /\ UNCHANGED <<jbKind, jbTimed, jbLate, jbPc, jbCopy, jbMon, jbCalls, jbSeen>>

\* UpdateJobStatus of either table begins with GetJobByUUID.
GetJobByUUID(w) ==
  /\ jbKind # "cron" /\ jbRow # NoRow /\ jbCalls > 0
  /\ JbGo(w, "idle", "got") /\ jbCopy' = [jbCopy EXCEPT ![w] = jbRow]
  /\ jbCalls' = jbCalls - 1
  /\ UNCHANGED <<jbKind, jbRow, jbTimed, jbLate, jbMon, jbSeen>>

WithOutput(r, output) == IF output THEN [r EXCEPT !.out = TRUE] ELSE r

TimedOut(r) == [r EXCEPT !.status = "failed", !.msg = <<"timeout">>]

\* exportjob.UpdateJobStatus: what the row becomes, from the copy.
ExportResult(r, late, failed, output) ==
  LET s == IF late THEN TimedOut(r) ELSE r
      t == IF failed THEN [s EXCEPT !.status = "failed", !.msg = Append(@, "error")]
           ELSE IF s.status = "pending" THEN [s EXCEPT !.status = "success"] ELSE s
  IN  WithOutput(t, output)

ExportDecide(w, failed, output) ==
  /\ jbKind = "export" /\ JbGo(w, "got", "save")
  /\ jbCopy' = [jbCopy EXCEPT ![w] = ExportResult(@, jbLate, failed, output)]
  /\ UNCHANGED <<jbKind, jbRow, jbTimed, jbLate, jbMon, jbCalls, jbSeen>>

ExportSaveColumns(w) ==
  /\ jbKind = "export" /\ JbGo(w, "save", "idle")
  /\ jbRow' = [jbRow EXCEPT !.status = jbCopy[w].status, !.out = jbCopy[w].out]
  /\ jbCopy' = [jbCopy EXCEPT ![w] = NoRow]
  /\ UNCHANGED <<jbKind, jbTimed, jbLate, jbMon, jbCalls, jbSeen>>

\* Save writes every column of the copy, or fails.
ExportSave(w) ==
  /\ jbKind = "export" /\ JbGo(w, "save", "idle")
  /\ jbRow' \in {jbCopy[w], jbRow}
  /\ jbCopy' = [jbCopy EXCEPT ![w] = NoRow]
  /\ UNCHANGED <<jbKind, jbTimed, jbLate, jbMon, jbCalls, jbSeen>>

\* asyncjob.UpdateJobStatus: Updates writes the columns of its map only; the
\* error is appended to the messages read before.
AsyncUpdate(w, failed, output) ==
  LET status == IF failed THEN "failed" ELSE "success"
      msg == IF failed THEN Append(jbCopy[w].msg, "error") ELSE jbRow.msg
      r == [jbRow EXCEPT !.status = status, !.msg = msg]
  IN  /\ jbKind = "async" /\ JbGo(w, "got", "idle")
      /\ jbRow' \in {WithOutput(r, output), jbRow}
      /\ jbCopy' = [jbCopy EXCEPT ![w] = NoRow]
      /\ UNCHANGED <<jbKind, jbTimed, jbLate, jbMon, jbCalls, jbSeen>>

\* repairTimeoutJobs: the pending rows with a timeout are read at once ...
repairTimeoutJobs ==
  /\ jbKind = "export" /\ jbMon = {} /\ jbRow.status = "pending" /\ jbTimed
  /\ jbMon' = {jbRow}
  /\ UNCHANGED <<jbKind, jbRow, jbTimed, jbLate, jbPc, jbCopy, jbCalls, jbSeen>>

\* ... and each is saved as it was read, failed, when its time is over.
checkTimeoutJob ==
  /\ jbMon # {} /\ jbMon' = {}
  /\ jbRow' \in IF jbLate THEN {TimedOut(r) : r \in jbMon} \cup {jbRow} ELSE {jbRow}
  /\ UNCHANGED <<jbKind, jbTimed, jbLate, jbPc, jbCopy, jbCalls, jbSeen>>

\* Every ten seconds, one repair after the other.
MonitorExportJobRoutine == repairTimeoutJobs \/ checkTimeoutJob

\* The owner is shown the job, with a link to its output after success.
DetailExportJob ==
  /\ jbKind = "export" /\ jbRow # NoRow
  /\ jbSeen' = [status |-> jbRow.status, msg |-> jbRow.msg,
                url |-> jbRow.out /\ jbRow.status = "success"]
  /\ UNCHANGED <<jbKind, jbRow, jbTimed, jbLate, jbPc, jbCopy, jbMon, jbCalls>>

BatchGetJobByUUIDs ==
  /\ jbKind = "async" /\ jbRow # NoRow
  /\ jbSeen' = [status |-> jbRow.status, msg |-> jbRow.msg, url |-> FALSE]
  /\ UNCHANGED <<jbKind, jbRow, jbTimed, jbLate, jbPc, jbCopy, jbMon, jbCalls>>

\* A tick of a cron function on the master creates its record, ...
CronTick(w) ==
  /\ jbKind = "cron" /\ jbRow = NoRow /\ JbGo(w, "idle", "got")
  /\ jbRow' = NewRow /\ jbCopy' = [jbCopy EXCEPT ![w] = NewRow]
  /\ UNCHANGED <<jbKind, jbTimed, jbLate, jbMon, jbCalls, jbSeen>>

\* ... runs the function and saves the outcome; a panic leaves it pending.
CronFinish(w) ==
  LET done == {[NewRow EXCEPT !.status = "success", !.out = TRUE],
               [NewRow EXCEPT !.status = "failed", !.msg = <<"error">>]}
  IN  /\ jbKind = "cron" /\ JbGo(w, "got", "idle")
      /\ jbRow' \in done \cup {jbRow}
      /\ jbCopy' = [jbCopy EXCEPT ![w] = NoRow]
      /\ UNCHANGED <<jbKind, jbTimed, jbLate, jbMon, jbCalls, jbSeen>>

\* External: the time a job is given runs out.
JobTimePasses ==
  /\ jbTimed /\ ~jbLate /\ jbLate' = TRUE
  /\ UNCHANGED <<jbKind, jbRow, jbTimed, jbPc, jbCopy, jbMon, jbCalls, jbSeen>>

JbNext ==
  \/ CreateExportJob \/ CreateAsyncJob \/ MonitorExportJobRoutine
  \/ DetailExportJob \/ BatchGetJobByUUIDs \/ JobTimePasses
  \/ \E w \in JbWorkers :
       \/ GetJobByUUID(w) \/ ExportSave(w) \/ CronTick(w) \/ CronFinish(w)
       \/ \E failed, output \in BOOLEAN :
            ExportDecide(w, failed, output) \/ AsyncUpdate(w, failed, output)

JbSpec == JbInit /\ [][JbNext]_jobVars

Coherent(r) ==
  /\ r.status = "failed" => r.msg # << >>
  /\ r.status = "success" /\ jbKind # "async" => r.msg = << >>
  /\ r.status \in {"none", "pending"} => r.msg = << >> /\ ~r.out

\* However updates, the timeout monitor and stale copies overlap, a job row is
\* never half of one outcome and half of another: a failed job says why, a
\* successful export or cron record carries no error, a link is only given out
\* for such a row, and a job that was settled is never pending again
\* (job_update.go:12-47, job_monitor.go:38-69, asyncjob/job.go:73-107).
JobRowsCoherent ==
  [][/\ Coherent(jbRow')
     /\ jbSeen'.url => jbSeen'.status = "success" /\ jbSeen'.msg = << >>
     /\ jbRow.status \notin {"none", "pending"} => jbRow'.status \in {"success", "failed"}
    ]_jobVars
=============================================================================
