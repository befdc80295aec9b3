------------------------------ MODULE RunnerJob ------------------------------
(***************************************************************************)
(* One CI job inside Executor.Run (runner/executor.go): the capacity rows  *)
(* logged while Create waits, the steps with their exec retries, the       *)
(* checkout's commands and its fallback from commit to branch, the log     *)
(* rows with the window each step reports, and the result.                 *)
(*                                                                         *)
(* Commands have an outcome and a number of log rows; their text, the      *)
(* environment and the expressions in it are left out.                     *)
(***************************************************************************)
EXTENDS Naturals, Sequences, FiniteSets

CONSTANTS
  RjPlans,     \* jobs: [steps: sequences of "run" and "checkout", refs: how many refs]
  RjRows,      \* how many rows a command may print
  RjWaits,     \* bound: rows logged while the create waits
  RjDrops      \* bound: rows of a live job whose upload fails

ASSUME RjAssumption == RjRows \subseteq Nat /\ {RjWaits, RjDrops} \subseteq Nat

VARIABLES
  job,         \* the plan
  jat,         \* "create", "step", "run", "checkout", "over"
  idx,         \* logIndex
  wrote, dropped, rowsSent,   \* history: the indices written at the forge, the ones whose
                              \* upload failed, and how many rows were sent
  states,      \* state.Steps
  cur,         \* the current step: [res, from, len, cmd, tries, exit]
  ended,       \* the job's context has ended
  final,       \* state.Result
  record       \* a failure record was written

rjvars == <<job, jat, idx, wrote, dropped, rowsSent, states, cur, ended, final, record>>

NoStep == [res |-> "success", from |-> 0, len |-> 0, cmd |-> 0, tries |-> 0, exit |-> 0]

RJInit ==
  /\ job \in RjPlans /\ jat = "create" /\ idx = 0 /\ wrote = {} /\ dropped = {} /\ rowsSent = 0
  /\ states = <<>> /\ cur = NoStep /\ ended = FALSE /\ final = "success" /\ record = FALSE

\* log, logLines: n rows from index i on, in one call or several.  A call that fails, as
\* every one does once the context has ended, drops its rows and nothing else: their
\* indices are used up and the job goes on.
Rows(i, n) ==
  \E failed \in SUBSET (i .. i + n - 1) :
    /\ IF ended THEN failed = i .. i + n - 1
       ELSE Cardinality(dropped) + Cardinality(failed) <= RjDrops
    /\ wrote' = wrote \cup ((i .. i + n - 1) \ failed)
    /\ dropped' = dropped \cup failed
    /\ rowsSent' = rowsSent + n

\* keepaliveWhileWaiting: a row about the wait.
WaitRow ==
  /\ jat = "create" /\ ~ended /\ idx < RjWaits
  /\ Rows(idx, 1) /\ idx' = idx + 1
  /\ UNCHANGED <<job, jat, states, cur, ended, final, record>>

\* Mutant: the steps' rows start over at the first.
FromZero == 0

\* The steps' rows go on where the waiting rows ended.
FirstRow == idx

\* Create returned a sandbox, or its error ends the job (fail writes the record).
CreateReturns(ok) ==
  /\ jat = "create"
  /\ IF ok /\ ~ended THEN jat' = "step" /\ idx' = FirstRow /\ UNCHANGED <<final, record>>
     ELSE /\ jat' = "over" /\ UNCHANGED idx
          /\ final' = IF ended THEN "cancelled" ELSE "failure"
          /\ record' = ~ended
  /\ UNCHANGED <<job, wrote, dropped, rowsSent, states, cur, ended>>

AllStepsRun == Len(states) = Len(job.steps)
Failed == states # <<>> /\ states[Len(states)].res = "failure"

\* A step begins; a command's own is preceded by three rows about its environment.
StepBegin ==
  /\ jat = "step" /\ ~AllStepsRun /\ ~Failed
  /\ IF job.steps[Len(states) + 1] = "checkout"
     THEN /\ jat' = "checkout" /\ cur' = [NoStep EXCEPT !.from = idx, !.cmd = 1]
          /\ UNCHANGED <<idx, wrote, dropped, rowsSent>>
     ELSE /\ jat' = "run" /\ cur' = [NoStep EXCEPT !.from = idx]
          /\ Rows(idx, 3) /\ idx' = idx + 3
  /\ UNCHANGED <<job, states, ended, final, record>>

\* HTTPLeaseClient.Exec: a transport error or a 5xx answer is tried again, twice.
ExecRetry ==
  /\ jat \in {"run", "checkout"} /\ ~ended /\ cur.tries < 2
  /\ cur' = [cur EXCEPT !.tries = @ + 1]
  /\ UNCHANGED <<job, jat, idx, wrote, dropped, rowsSent, states, ended, final, record>>

StepEnds(s) == states' = Append(states, s) /\ jat' = "step" /\ cur' = NoStep

\* A command's exec gives up: a final refusal, the third failure, or the context.
RunError ==
  /\ jat = "run"
  /\ Rows(idx, 1) /\ idx' = idx + 1
  /\ StepEnds([cur EXCEPT !.res = "failure", !.exit = 1, !.len = 1])
  /\ UNCHANGED <<job, ended, final, record>>

\* A command ran: its lines (a line too long for one row takes two), a row about a bad exit, and a closing row that the step's
\* window, already copied, does not count.
RunDone(n, long, exit) ==
  /\ jat = "run" /\ ~ended /\ (long => n > 0)
  /\ LET all == IF exit = 0 THEN n ELSE n + 1
         sent == IF long THEN all + 2 ELSE all + 1 IN
     /\ Rows(idx, sent) /\ idx' = idx + sent
     /\ StepEnds([cur EXCEPT !.res = IF exit = 0 THEN "success" ELSE "failure",
                             !.exit = exit, !.len = all])
  /\ UNCHANGED <<job, ended, final, record>>

\* The checkout's commands: three to clone, one fetch for each ref, and the checkout.
Fetches == job.refs
LastCmd == IF Fetches = 0 THEN 3 ELSE 4 + Fetches
IsFetch(c) == c > 3 /\ c < LastCmd

\* Mutant: the failed fetch of the commit still marks the step.
MarkStays(s) == s

\* A fetch that works makes good for the one before it.
FetchWorked(s) == [s EXCEPT !.res = "success"]

\* checkoutExec worked: on to the next command, from a fetch to the checkout.
CheckoutOk(n) ==
  /\ jat = "checkout" /\ ~ended
  /\ Rows(idx, n) /\ idx' = idx + n
  /\ LET s == [cur EXCEPT !.len = @ + n, !.tries = 0] IN
     IF s.cmd = LastCmd THEN StepEnds(s)
     ELSE /\ cur' = IF IsFetch(s.cmd) THEN [FetchWorked(s) EXCEPT !.cmd = LastCmd]
                    ELSE [s EXCEPT !.cmd = @ + 1]
          /\ UNCHANGED <<states, jat>>
  /\ UNCHANGED <<job, ended, final, record>>

\* checkoutExec failed: the next ref is tried, and a row says so after the last.
CheckoutFails(n) ==
  /\ jat = "checkout"
  /\ LET s == [cur EXCEPT !.len = @ + n, !.tries = 0, !.res = "failure"]
         tryNext == IsFetch(s.cmd) /\ s.cmd + 1 < LastCmd
         said == IF IsFetch(s.cmd) /\ ~tryNext THEN n + 1 ELSE n IN
     /\ Rows(idx, said) /\ idx' = idx + said
     /\ IF tryNext THEN cur' = [s EXCEPT !.cmd = @ + 1] /\ UNCHANGED <<states, jat>>
        ELSE StepEnds([s EXCEPT !.len = s.len + said - n, !.exit = 1])
  /\ UNCHANGED <<job, ended, final, record>>

\* The context ends: a timeout, the forge's cancellation, or the pool's stop.
ContextEnds ==
  /\ jat # "over" /\ ~ended /\ ended' = TRUE
  /\ UNCHANGED <<job, jat, idx, wrote, dropped, rowsSent, states, cur, final, record>>

\* The job's result: cancelled when its context ended, else its steps'.
JobResult == IF ended THEN "cancelled" ELSE IF Failed THEN "failure" ELSE "success"

\* The last step, or the first that failed, ends the job; a failure is recorded.
JobEnds ==
  /\ jat = "step" /\ (AllStepsRun \/ Failed)
  /\ jat' = "over" /\ final' = JobResult /\ record' = (JobResult = "failure")
  /\ UNCHANGED <<job, idx, wrote, dropped, rowsSent, states, cur, ended>>

RJNext ==
  \/ WaitRow \/ StepBegin \/ ExecRetry \/ RunError \/ ContextEnds \/ JobEnds
  \/ \E ok \in BOOLEAN : CreateReturns(ok)
  \/ \E n \in RjRows :
       \/ CheckoutOk(n) \/ CheckoutFails(n)
       \/ \E e \in {0, 1}, l \in BOOLEAN : RunDone(n, l, e)

RJSpec == RJInit /\ [][RJNext]_rjvars

(***************************************************************************)
(* Properties.                                                             *)
(***************************************************************************)
\* No log row overwrites another and none is skipped: the rows of the wait, of the steps
\* and of the checkout follow one another, each at the forge or lost with its own upload,
\* and so do the windows the steps report.
LogIsWhole ==
  /\ Cardinality(wrote) + Cardinality(dropped) = rowsSent
  /\ wrote \cup dropped = 0 .. rowsSent - 1
  /\ \A i \in DOMAIN states :
       states[i].from + states[i].len <= IF i < Len(states) THEN states[i + 1].from ELSE idx

\* The job says success only when its plan ran to the end and every step succeeded; a
\* step that is a success is one whose last command was; a recorded failure is one (Run,
\* checkout).
ResultIsTrue ==
  /\ jat = "over" /\ final = "success" =>
       ~ended /\ AllStepsRun /\ \A i \in DOMAIN states : states[i].res = "success"
  /\ \A i \in DOMAIN states : states[i].res = "success" <=> states[i].exit = 0
  /\ record => final = "failure"

=============================================================================
