----------------------------- MODULE JobRegistry -----------------------------
(***************************************************************************)
(* The live job registry of rollshot-agent (src/crates/rollshot-agent/src/ *)
(* jobs.rs): a mutex-protected table of background jobs shared by the UI   *)
(* thread (admit, cancel, collect, prune, shutdown) and by one worker per  *)
(* job, which owns a JobReporter.  Every operation holds the lock for its  *)
(* whole body, so one operation is one step; the cancellation callbacks    *)
(* are cloned under the lock and invoked after it is released, so they are *)
(* steps of their own.                                                     *)
(*                                                                         *)
(* Abstracted: progress values, diagnostics, owners and failure categories *)
(* (no guard reads them), and the revision counters, which only grow.      *)
(***************************************************************************)
EXTENDS Naturals, FiniteSets

CONSTANTS
    Jobs,                          \* the identities JobId::new may return
    MAX_ACTIVE_JOBS,
    MAX_UNCOLLECTED_RESULT_SLOTS,
    MAX_TERMINAL_JOBS,
    TERMINAL_TTL,                  \* TERMINAL_TTL_MS
    MaxTime,                       \* bound: the last instant of the clock
    ClockLag,                      \* how old a worker's now_ms may be when it gets the lock
    ClockStepsBack                 \* may the wall clock be set back?

ASSUME LimitsAssumption ==
    /\ MAX_ACTIVE_JOBS \in Nat \ {0}
    /\ MAX_UNCOLLECTED_RESULT_SLOTS \in Nat \ {0}
    /\ MAX_TERMINAL_JOBS \in Nat \ {0}

ASSUME ClockAssumption ==
    /\ TERMINAL_TTL \in Nat \ {0}
    /\ MaxTime \in Nat
    /\ ClockLag \in Nat
    /\ ClockStepsBack \in BOOLEAN

VARIABLES
    jobs,               \* the table: a function from the ids present to records
    shutting_down,
    tombstones,         \* ids whose uncollected result is gone
    reporter,           \* per id: "none" before admission, "held", "dropped"
    terminal_reported,  \* the flag inside each reporter
    callbacks,          \* cancellation callbacks cloned but not yet invoked
    signalled,          \* ids whose callback has run
    now                 \* the wall clock

vars == <<jobs, shutting_down, tombstones, reporter, terminal_reported,
          callbacks, signalled, now>>

ActiveStates == {"Starting", "Running", "Cancelling"}
TerminalStates == {"Succeeded", "Failed", "Cancelled"}

(* terminal_at starts as the creation time: the code reads                 *)
(* terminal_at_ms.unwrap_or(created_at_ms).                                *)
JobRecord == [state : ActiveStates \cup TerminalStates,
              result : BOOLEAN,             \* result.is_some()
              result_collected : BOOLEAN,
              result_expired : BOOLEAN,
              cancel_requested : BOOLEAN,   \* cancelled_at_ms.is_some()
              updated_at : Nat,
              terminal_at : Nat]

NewRecord(t) == [state |-> "Starting", result |-> FALSE,
                 result_collected |-> FALSE, result_expired |-> FALSE,
                 cancel_requested |-> FALSE, updated_at |-> t, terminal_at |-> t]

Active(js)   == {j \in DOMAIN js : js[j].state \in ActiveStates}
Terminal(js) == {j \in DOMAIN js : js[j].state \in TerminalStates}
Reserved(js) == {j \in DOMAIN js : js[j].state \in ActiveStates \/ js[j].result}

TypeOK ==
    /\ DOMAIN jobs \subseteq Jobs
    /\ jobs \in [DOMAIN jobs -> JobRecord]
    /\ shutting_down \in BOOLEAN
    /\ tombstones \subseteq Jobs
    /\ reporter \in [Jobs -> {"none", "held", "dropped"}]
    /\ terminal_reported \in [Jobs -> BOOLEAN]
    /\ callbacks \subseteq Jobs
    /\ signalled \subseteq Jobs
    /\ now \in Nat

Init ==
    /\ jobs = [j \in {} |-> NewRecord(0)]
    /\ shutting_down = FALSE
    /\ tombstones = {}
    /\ reporter = [j \in Jobs |-> "none"]
    /\ terminal_reported = [j \in Jobs |-> FALSE]
    /\ callbacks = {}
    /\ signalled = {}
    /\ now = 0

-----------------------------------------------------------------------------
(* prune_terminals.  The table is a HashMap, so entries of equal age are   *)
(* met in any order and pruning has a set of possible results.             *)

(* Stage 1: the uncollected successes whose TTL has passed lose their      *)
(* result.                                                                 *)
TtlReached(js, t) ==
    {j \in DOMAIN js : /\ js[j].state = "Succeeded"
                       /\ js[j].result
                       /\ ~js[j].result_collected
                       /\ js[j].terminal_at + TERMINAL_TTL <= t}

Expire(js, E) ==
    [j \in DOMAIN js |->
        IF j \in E
        THEN [js[j] EXCEPT !.result = FALSE, !.result_expired = TRUE]
        ELSE js[j]]

(* The tombstones that can be added for the ids in C: all of them, or as   *)
(* many as the cap leaves room for.                                        *)
Tombstoned(ts, C) ==
    {S \in SUBSET (C \ ts) :
        /\ S # {} => Cardinality(ts \cup S) <= MAX_TERMINAL_JOBS
        /\ S = C \ ts \/ Cardinality(ts \cup S) >= MAX_TERMINAL_JOBS}

(* Stage 2, only when an admission needs room: at the cap, Excess          *)
(* terminals are evicted, those with nothing to collect before the others, *)
(* and within each of the two passes the ones that ended first.            *)
HasUncollected(r) ==
    /\ r.state = "Succeeded"
    /\ r.result \/ r.result_expired
    /\ ~r.result_collected

Owed(js) == {j \in Terminal(js) : HasUncollected(js[j])}

Excess(js) ==
    IF Cardinality(Terminal(js)) >= MAX_TERMINAL_JOBS
    THEN (Cardinality(Terminal(js)) - MAX_TERMINAL_JOBS) + 1
    ELSE 0

OldestFirst(js, S, C) ==
    \A a \in S, b \in C \ S : js[a].terminal_at <= js[b].terminal_at

EvictionsByAgeOnly(js) ==            \* mutant: no first pass that spares results
    {S \in SUBSET Terminal(js) :
        Cardinality(S) = Excess(js) /\ OldestFirst(js, S, Terminal(js))}

Evictions(js) ==
    LET plain == Terminal(js) \ Owed(js)
    IN  {S \in SUBSET Terminal(js) :
            /\ Cardinality(S) = Excess(js)
            /\ S \cap Owed(js) # {} => plain \subseteq S
            /\ OldestFirst(js, S \cap plain, plain)
            /\ OldestFirst(js, S \cap Owed(js), Owed(js))}

Without(js, S) == [j \in DOMAIN js \ S |-> js[j]]

(* Evicting V leaves a tombstone for what was owed, oldest first.          *)
Evict(js, ts, V) ==
    LET owed == V \cap Owed(js)
    IN  {[jobs |-> Without(js, V), tombstones |-> ts \cup S] :
            S \in {C \in Tombstoned(ts, owed) : OldestFirst(js, C, owed \ ts)}}

(* The possible results of prune_terminals at time t.                      *)
PruneTerminals(t, make_room) ==
    LET E == TtlReached(jobs, t)
        x == Expire(jobs, E)
        victims == IF make_room THEN Evictions(x) ELSE {{}}
    IN  UNION {UNION {Evict(x, tombstones \cup S, V) : V \in victims} :
                  S \in Tombstoned(tombstones, E)}

-----------------------------------------------------------------------------
(* Operations of the registry's owner, the UI thread.                      *)

(* The three capacity checks of admit, in the code's order; none of them   *)
(* changes state, so only their conjunction matters.                       *)
HasRoom(js) ==
    /\ Cardinality(Terminal(js)) < MAX_TERMINAL_JOBS
    /\ Cardinality(Active(js)) < MAX_ACTIVE_JOBS
    /\ Cardinality(Reserved(js)) < MAX_UNCOLLECTED_RESULT_SLOTS

Insert(js, j, r) == [k \in DOMAIN js \cup {j} |-> IF k = j THEN r ELSE js[k]]

(* admit: prunes first, and the pruning stays even if the job is refused.  *)
Admitted(j) ==
    /\ ~shutting_down
    /\ reporter[j] = "none"
    /\ \E p \in PruneTerminals(now, TRUE) :
          /\ HasRoom(p.jobs)
          /\ jobs' = Insert(p.jobs, j, NewRecord(now))
          /\ tombstones' = p.tombstones
    /\ reporter' = [reporter EXCEPT ![j] = "held"]
    /\ UNCHANGED <<shutting_down, terminal_reported, callbacks, signalled, now>>

AdmitRefused ==
    /\ ~shutting_down
    /\ \E p \in PruneTerminals(now, TRUE) :
          /\ ~HasRoom(p.jobs)
          /\ jobs' = p.jobs
          /\ tombstones' = p.tombstones
    /\ UNCHANGED <<shutting_down, reporter, terminal_reported, callbacks,
                   signalled, now>>

(* The jobs a cancellation request reaches: not yet cancelling or ended.   *)
Cancellable == {j \in DOMAIN jobs : jobs[j].state \in {"Starting", "Running"}}

RequestCancel(C) ==
    /\ jobs' = [j \in DOMAIN jobs |->
                  IF j \in C
                  THEN [jobs[j] EXCEPT !.state = "Cancelling",
                                       !.cancel_requested = TRUE]
                  ELSE jobs[j]]
    /\ callbacks' = callbacks \cup C

Cancel(j) ==
    /\ j \in Cancellable
    /\ RequestCancel({j})
    /\ UNCHANGED <<shutting_down, tombstones, reporter, terminal_reported,
                   signalled, now>>

(* ctrl.invoke(), after the lock is released.                              *)
InvokeCallback(j) ==
    /\ j \in callbacks
    /\ callbacks' = callbacks \ {j}
    /\ signalled' = signalled \cup {j}
    /\ UNCHANGED <<jobs, shutting_down, tombstones, reporter,
                   terminal_reported, now>>

(* shutdown, which dropping the registry also runs.                        *)
Shutdown ==
    /\ shutting_down' = TRUE
    /\ RequestCancel(Cancellable)
    /\ UNCHANGED <<tombstones, reporter, terminal_reported, signalled, now>>

(* collect: prunes first; then the result moves out, or an error leaves    *)
(* the table as it is (ResultExpired only repeats result_expired = true).  *)
Collected(j) ==
    /\ \E p \in PruneTerminals(now, FALSE) :
          /\ j \in DOMAIN p.jobs
          /\ p.jobs[j].state = "Succeeded"
          /\ ~p.jobs[j].result_collected
          /\ p.jobs[j].result
          /\ jobs' = [p.jobs EXCEPT ![j] = [@ EXCEPT !.result = FALSE,
                                                     !.result_collected = TRUE]]
          /\ tombstones' = p.tombstones
    /\ UNCHANGED <<shutting_down, reporter, terminal_reported, callbacks,
                   signalled, now>>

(* prune, and every collect that ends in an error.                         *)
Prune ==
    /\ \E p \in PruneTerminals(now, FALSE) :
          /\ jobs' = p.jobs
          /\ tombstones' = p.tombstones
    /\ UNCHANGED <<shutting_down, reporter, terminal_reported, callbacks,
                   signalled, now>>

-----------------------------------------------------------------------------

(* Operations of a worker through its reporter.  The worker reads the      *)
(* clock before it gets the lock, so its now_ms may be old.                *)
ReadTimes == {t \in 0..now : t + ClockLag >= now}

Finish(j, s, gotResult, t) ==
    jobs' = [jobs EXCEPT ![j] = [@ EXCEPT !.state = s, !.result = gotResult,
                                          !.terminal_at = t, !.updated_at = t]]

ReporterUnchanged ==
    UNCHANGED <<shutting_down, tombstones, reporter, callbacks, signalled, now>>

MarkRunning(j) ==
    /\ reporter[j] = "held" /\ ~terminal_reported[j]
    /\ j \in DOMAIN jobs /\ jobs[j].state = "Starting"
    /\ \E t \in ReadTimes :
          jobs' = [jobs EXCEPT ![j] = [@ EXCEPT !.state = "Running",
                                                !.updated_at = t]]
    /\ UNCHANGED terminal_reported
    /\ ReporterUnchanged

(* report_progress and append_diagnostic.                                  *)
ReportProgress(j) ==
    /\ reporter[j] = "held" /\ ~terminal_reported[j]
    /\ j \in Active(jobs)
    /\ \E t \in ReadTimes : 
          jobs' = [jobs EXCEPT ![j] = [@ EXCEPT !.updated_at = t]]
    /\ UNCHANGED terminal_reported
    /\ ReporterUnchanged

(* A terminal report sets terminal_reported before it looks at the record. *)
(* It takes the flag back when the record is terminal already, and keeps   *)
(* it when the record is gone.                                             *)
Reports(j) ==
    /\ reporter[j] = "held"
    /\ j \in Active(jobs)
    /\ terminal_reported' = [terminal_reported EXCEPT ![j] = TRUE]
    /\ ReporterUnchanged

SucceedRegardless(j) ==              \* mutant: a late success beats the cancellation
    /\ Reports(j)
    /\ \E t \in ReadTimes : Finish(j, "Succeeded", TRUE, t)

Succeed(j) ==
    /\ Reports(j)
    /\ \E t \in ReadTimes :
          IF jobs[j].state = "Cancelling"
          THEN Finish(j, "Cancelled", FALSE, t)
          ELSE Finish(j, "Succeeded", TRUE, t)

Fail(j) ==
    /\ Reports(j)
    /\ \E t \in ReadTimes : Finish(j, "Failed", jobs[j].result, t)

Cancelled(j) ==
    /\ Reports(j)
    /\ jobs[j].state = "Cancelling"
    /\ \E t \in ReadTimes : Finish(j, "Cancelled", jobs[j].result, t)

ReportRefusedForGood(j) ==           \* mutant: the flag is not taken back
    /\ reporter[j] = "held"
    /\ j \in DOMAIN jobs => jobs[j].state # "Cancelling"
    /\ terminal_reported' = [terminal_reported EXCEPT ![j] = TRUE]
    /\ UNCHANGED jobs
    /\ ReporterUnchanged

(* A report on an ended or evicted job, or cancelled() without a request.  *)
ReportRefused(j) ==
    /\ reporter[j] = "held"
    /\ j \in DOMAIN jobs => jobs[j].state # "Cancelling"
    /\ terminal_reported' = [terminal_reported EXCEPT
                                ![j] = j \notin DOMAIN jobs]
    /\ UNCHANGED jobs
    /\ ReporterUnchanged

DropReporterAlways(j) ==             \* mutant: no check of the record's state
    /\ reporter[j] = "held"
    /\ reporter' = [reporter EXCEPT ![j] = "dropped"]
    /\ jobs' = IF j \in DOMAIN jobs
               THEN [jobs EXCEPT ![j] = [@ EXCEPT !.state = "Failed"]]
               ELSE jobs
    /\ UNCHANGED <<shutting_down, tombstones, terminal_reported, callbacks,
                   signalled, now>>

(* Drop of the reporter: the last word if nothing terminal was reported.   *)
DropReporter(j) ==
    /\ reporter[j] = "held"
    /\ reporter' = [reporter EXCEPT ![j] = "dropped"]
    /\ jobs' = IF ~terminal_reported[j] /\ j \in Active(jobs)
               THEN [jobs EXCEPT ![j] =
                       [@ EXCEPT !.state = IF jobs[j].state = "Cancelling"
                                           THEN "Cancelled" ELSE "Failed",
                                 !.terminal_at = jobs[j].updated_at]]
               ELSE jobs
    /\ UNCHANGED <<shutting_down, tombstones, terminal_reported, callbacks,
                   signalled, now>>

-----------------------------------------------------------------------------
(* The wall clock (SystemTime): it runs, and an administrator or a time    *)
(* service may set it back.                                                *)
Tick ==
    /\ now' \in {t \in 0..MaxTime : t > now \/ ClockStepsBack}
    /\ UNCHANGED <<jobs, shutting_down, tombstones, reporter,
                   terminal_reported, callbacks, signalled>>

Next ==
    \/ AdmitRefused \/ Shutdown \/ Prune \/ Tick
    \/ \E j \in Jobs :
          \/ Admitted(j) \/ Cancel(j) \/ InvokeCallback(j) \/ Collected(j)
          \/ MarkRunning(j) \/ ReportProgress(j)
          \/ Succeed(j) \/ Fail(j) \/ Cancelled(j) \/ ReportRefused(j)
          \/ DropReporter(j)

Spec == Init /\ [][Next]_vars

-----------------------------------------------------------------------------
(* Admission reserves a result slot before launch: however cancellations,  *)
(* late reports and collections interleave, running jobs and held results  *)
(* together never exceed the slots, nor running jobs their own limit.      *)
SlotsBounded ==
    /\ Cardinality(Reserved(jobs)) <= MAX_UNCOLLECTED_RESULT_SLOTS
    /\ Cardinality(Active(jobs)) <= MAX_ACTIVE_JOBS

(* The table itself is bounded.  Only admit evicts, so jobs that end after *)
(* the last admission may push the terminal records over their cap, but    *)
(* never past the cap plus the jobs that were active.                      *)
RecordsBounded ==
    Cardinality(DOMAIN jobs) < MAX_TERMINAL_JOBS + MAX_ACTIVE_JOBS

(* A record that is still active is backed by a reporter that can still    *)
(* end it (Drop does nothing once terminal_reported is set): no sequence   *)
(* of refused reports leaves a job active, and its slot taken, forever.    *)
ActiveHasReporter ==
    \A j \in Active(jobs) : reporter[j] = "held" /\ ~terminal_reported[j]

(* Once cancellation has been requested no result of the job is ever held, *)
(* whatever the worker reports afterwards; and a cancellation callback     *)
(* only ever runs for such a job.                                          *)
CancelHonoured ==
    \A j \in DOMAIN jobs :
        /\ jobs[j].cancel_requested =>
              jobs[j].state # "Succeeded" /\ ~jobs[j].result
        /\ j \in callbacks \cup signalled => jobs[j].cancel_requested

(* How the flags of a record fit its state: a result is held only by a     *)
(* success, collected or expired ones are gone, an expiry is only recorded *)
(* once the TTL has really passed (on a clock that never steps back), and  *)
(* a requested cancellation is never forgotten by the state.               *)
RecordConsistent(r, t) ==
    /\ r.result => r.state = "Succeeded"
    /\ r.result_collected => r.state = "Succeeded" /\ ~r.result
    /\ r.result_expired =>
          /\ r.state = "Succeeded" /\ ~r.result
          /\ ClockStepsBack \/ r.terminal_at + TERMINAL_TTL <= t
    /\ r.cancel_requested => r.state \in {"Cancelling", "Cancelled", "Failed"}

RecordsConsistent == \A j \in DOMAIN jobs : RecordConsistent(jobs[j], now)

(* A terminal record is immutable: no late report, drop, cancel or prune   *)
(* changes how and when it ended, brings its result back, or lets it be    *)
(* collected twice; and an evicted id never returns.                       *)
TerminalIsFinal ==
    [][\A j \in Jobs :
          /\ j \in Terminal(jobs) /\ j \in DOMAIN jobs' =>
                /\ jobs'[j].state = jobs[j].state
                /\ jobs'[j].terminal_at = jobs[j].terminal_at
                /\ jobs'[j].result => jobs[j].result
                /\ jobs[j].result_collected => jobs'[j].result_collected
          /\ reporter[j] # "none" /\ j \notin DOMAIN jobs =>
                j \notin DOMAIN jobs'
      ]_vars

(* Active jobs are never evicted, however full the table is.               *)
ActiveNeverEvicted ==
    [][\A j \in Active(jobs) : j \in DOMAIN jobs']_vars

(* An uncollected successful result leaves the registry only by being      *)
(* collected or because its TTL has passed; pressure on the terminal cap   *)
(* alone never costs a result.                                             *)
ResultDroppedOnlyAtTtl ==
    [][\A j \in DOMAIN jobs :
          jobs[j].result =>
              \/ j \in DOMAIN jobs' /\ jobs'[j].result
              \/ j \in DOMAIN jobs' /\ jobs'[j].result_collected
              \/ jobs[j].terminal_at + TERMINAL_TTL <= now]_vars

=============================================================================
