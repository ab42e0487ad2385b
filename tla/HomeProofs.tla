------------------------------ MODULE HomeProofs -----------------------------
(***************************************************************************)
(* Proofs about the home screen: JobRegistry, for every set of job ids and *)
(* every value of the limits; VideoImport, which uses the registry only    *)
(* through its operations and runs no import behind the user's back; and   *)
(* RecordPreflight, where motion is kept only after some confirmed opt-in. *)
(***************************************************************************)
EXTENDS VideoImport, RecordPreflight, FiniteSetTheorems, TLAPS

(***************************************************************************)
(* Pruning, as every caller sees it: no id appears, no active job leaves,  *)
(* and a surviving record is untouched unless its TTL made it expire.      *)
(***************************************************************************)
Expired(r) == [r EXCEPT !.result = FALSE, !.result_expired = TRUE]

LEMMA PruneShape ==
    ASSUME NEW t, NEW mr \in BOOLEAN, NEW p \in PruneTerminals(t, mr)
    PROVE  \E S \in Tombstoned(tombstones, TtlReached(jobs, t)),
              V \in (IF mr THEN Evictions(Expire(jobs, TtlReached(jobs, t))) ELSE {{}}) :
                 p \in Evict(Expire(jobs, TtlReached(jobs, t)), tombstones \cup S, V)
  BY DEF PruneTerminals

LEMMA PruneLemma ==
    ASSUME TypeOK, NEW t \in Nat, NEW mr \in BOOLEAN,
           NEW p \in PruneTerminals(t, mr)
    PROVE  /\ DOMAIN p.jobs \subseteq DOMAIN jobs
           /\ p.jobs \in [DOMAIN p.jobs -> JobRecord]
           /\ p.tombstones \subseteq Jobs
           /\ \A j \in DOMAIN p.jobs :
                 p.jobs[j] = IF j \in TtlReached(jobs, t)
                             THEN Expired(jobs[j]) ELSE jobs[j]
           /\ Active(jobs) \subseteq DOMAIN p.jobs
<1> DEFINE E == TtlReached(jobs, t)
           x == Expire(jobs, E)
           victims == IF mr THEN Evictions(x) ELSE {{}}
<1>1. PICK S \in Tombstoned(tombstones, E), V \in victims :
        p \in Evict(x, tombstones \cup S, V)
  BY PruneShape, Zenon
<1>2. PICK S2 \in Tombstoned(tombstones \cup S, V \cap Owed(x)) :
            p = [jobs |-> Without(x, V), tombstones |-> (tombstones \cup S) \cup S2]
  BY <1>1, Zenon DEF Evict
<1>3. V \subseteq Terminal(x)
  BY DEF Evictions
<1>4. DOMAIN x = DOMAIN jobs /\ E \subseteq DOMAIN jobs
  BY DEF Expire, TtlReached
<1>5. \A j \in DOMAIN jobs : x[j] = IF j \in E THEN Expired(jobs[j]) ELSE jobs[j]
  BY DEF Expire, Expired
<1>6. \A j \in DOMAIN jobs : x[j] \in JobRecord
  <2>1. ASSUME NEW r \in JobRecord PROVE Expired(r) \in JobRecord
    BY DEF JobRecord, Expired
  <2>2. \A j \in DOMAIN jobs : jobs[j] \in JobRecord
    BY DEF TypeOK
  <2> HIDE DEF x, E
  <2> QED
    BY <2>1, <2>2, <1>5
<1>7. p.jobs = [j \in DOMAIN jobs \ V |-> x[j]] /\ p.tombstones = (tombstones \cup S) \cup S2
  BY <1>2, <1>4 DEF Without
<1>8. S \subseteq DOMAIN jobs /\ S2 \subseteq DOMAIN jobs
  BY <1>2, <1>3, <1>4 DEF Tombstoned, Owed, Terminal
<1>9. ASSUME NEW j \in Active(jobs) PROVE j \in DOMAIN jobs \ V
  <2>1. j \notin E /\ j \in DOMAIN jobs
    BY DEF TtlReached, Active, ActiveStates
  <2>2. x[j] = jobs[j]
    BY <2>1, <1>5
  <2> QED
    BY <2>1, <2>2, <1>3 DEF Terminal, Active, ActiveStates, TerminalStates
<1> QED
  BY <1>4, <1>5, <1>6, <1>7, <1>8, <1>9 DEF TypeOK

-----------------------------------------------------------------------------
(* The record updates the operations make stay within JobRecord.           *)
LEMMA RecordLemma ==
    ASSUME NEW r \in JobRecord
    PROVE  /\ \A s \in TerminalStates, b \in BOOLEAN, t \in Nat :
                 [r EXCEPT !.state = s, !.result = b,
                           !.terminal_at = t, !.updated_at = t] \in JobRecord
           /\ \A t \in Nat : [r EXCEPT !.state = "Running", !.updated_at = t] \in JobRecord
           /\ \A t \in Nat : [r EXCEPT !.updated_at = t] \in JobRecord
           /\ \A s \in TerminalStates, t \in Nat :
                 [r EXCEPT !.state = s, !.terminal_at = t] \in JobRecord
           /\ [r EXCEPT !.state = "Cancelling", !.cancel_requested = TRUE] \in JobRecord
           /\ [r EXCEPT !.result = FALSE, !.result_collected = TRUE] \in JobRecord
           /\ r.result \in BOOLEAN /\ r.updated_at \in Nat /\ r.terminal_at \in Nat
<1> USE DEF JobRecord
<1>1. ASSUME NEW s \in TerminalStates, NEW b \in BOOLEAN, NEW t \in Nat
      PROVE  /\ [r EXCEPT !.state = s, !.result = b,
                          !.terminal_at = t, !.updated_at = t] \in JobRecord
             /\ [r EXCEPT !.state = s, !.terminal_at = t] \in JobRecord
  OBVIOUS
<1>2. ASSUME NEW t \in Nat
      PROVE  /\ [r EXCEPT !.state = "Running", !.updated_at = t] \in JobRecord
             /\ [r EXCEPT !.updated_at = t] \in JobRecord
  BY DEF ActiveStates
<1>3. /\ [r EXCEPT !.state = "Cancelling", !.cancel_requested = TRUE] \in JobRecord
      /\ [r EXCEPT !.result = FALSE, !.result_collected = TRUE] \in JobRecord
      /\ r.result \in BOOLEAN /\ r.updated_at \in Nat /\ r.terminal_at \in Nat
  BY DEF ActiveStates
<1> HIDE DEF JobRecord
<1> QED
  BY <1>1, <1>2, <1>3

(* Every operation keeps the table, the reporters and the callback sets    *)
(* within their types.                                                     *)
LEMMA TypeStep == TypeOK /\ [Next]_vars => TypeOK'
<1> SUFFICES ASSUME TypeOK, [Next]_vars PROVE TypeOK'
  OBVIOUS
<1> USE DEF TypeOK
<1>t. now \in Nat /\ ReadTimes \subseteq Nat
  BY DEF ReadTimes
<1>r. \A j \in DOMAIN jobs : jobs[j] \in JobRecord
  OBVIOUS
<1>1. ASSUME NEW j \in Jobs, Admitted(j) PROVE TypeOK'
  <2>1. PICK p \in PruneTerminals(now, TRUE) :
            jobs' = Insert(p.jobs, j, NewRecord(now)) /\ tombstones' = p.tombstones
    BY <1>1 DEF Admitted
  <2>2. NewRecord(now) \in JobRecord
    BY DEF NewRecord, JobRecord, ActiveStates
  <2>3. /\ DOMAIN p.jobs \subseteq Jobs
        /\ p.jobs \in [DOMAIN p.jobs -> JobRecord]
        /\ p.tombstones \subseteq Jobs
    BY PruneLemma
  <2>4. DOMAIN jobs' = DOMAIN p.jobs \cup {j} /\ jobs' \in [DOMAIN jobs' -> JobRecord]
    BY <2>1, <2>2, <2>3 DEF Insert
  <2> QED
    BY <1>1, <2>1, <2>3, <2>4 DEF Admitted
<1>2. CASE AdmitRefused
  BY <1>2, PruneLemma DEF AdmitRefused
<1>3. CASE Shutdown
  BY <1>3, <1>r, RecordLemma DEF Shutdown, RequestCancel, Cancellable, ActiveStates
<1>4. CASE Prune
  BY <1>4, PruneLemma DEF Prune
<1>5. CASE Tick
  BY <1>5, ClockAssumption DEF Tick
<1>6. ASSUME NEW j \in Jobs, Cancel(j) PROVE TypeOK'
  BY <1>6, <1>r, RecordLemma DEF Cancel, RequestCancel, Cancellable, ActiveStates
<1>7. ASSUME NEW j \in Jobs, InvokeCallback(j) PROVE TypeOK'
  BY <1>7 DEF InvokeCallback
<1>8. ASSUME NEW j \in Jobs, Collected(j) PROVE TypeOK'
  <2>1. PICK p \in PruneTerminals(now, FALSE) :
            /\ j \in DOMAIN p.jobs
            /\ jobs' = [p.jobs EXCEPT ![j] = [@ EXCEPT !.result = FALSE,
                                                       !.result_collected = TRUE]]
            /\ tombstones' = p.tombstones
    BY <1>8 DEF Collected
  <2>2. p.jobs \in [DOMAIN p.jobs -> JobRecord] /\ DOMAIN p.jobs \subseteq Jobs
    BY PruneLemma
  <2>3. jobs' \in [DOMAIN p.jobs -> JobRecord]
    BY <2>1, <2>2, RecordLemma
  <2> QED
    BY <1>8, <2>1, <2>2, <2>3, PruneLemma DEF Collected
<1>9. ASSUME NEW j \in Jobs, MarkRunning(j) PROVE TypeOK'
  <2>1. PICK t \in ReadTimes :
            jobs' = [jobs EXCEPT ![j] = [@ EXCEPT !.state = "Running", !.updated_at = t]]
    BY <1>9 DEF MarkRunning
  <2>2. j \in DOMAIN jobs
    BY <1>9 DEF MarkRunning
  <2>3. [jobs[j] EXCEPT !.state = "Running", !.updated_at = t] \in JobRecord
    BY <1>t, <1>r, <2>2, RecordLemma
  <2> QED
    BY <1>9, <2>1, <2>2, <2>3 DEF MarkRunning, ReporterUnchanged
<1>10. ASSUME NEW j \in Jobs, ReportProgress(j) PROVE TypeOK'
  <2>1. PICK t \in ReadTimes : jobs' = [jobs EXCEPT ![j] = [@ EXCEPT !.updated_at = t]]
    BY <1>10 DEF ReportProgress
  <2>2. j \in DOMAIN jobs
    BY <1>10 DEF ReportProgress, Active
  <2>3. [jobs[j] EXCEPT !.updated_at = t] \in JobRecord
    BY <1>t, <1>r, <2>2, RecordLemma
  <2> QED
    BY <1>10, <2>1, <2>2, <2>3 DEF ReportProgress, ReporterUnchanged
<1>11. ASSUME NEW j \in Jobs, Reports(j),
              NEW s \in TerminalStates, NEW b \in BOOLEAN, NEW t \in ReadTimes,
              Finish(j, s, b, t)
       PROVE TypeOK'
  <2>1. j \in DOMAIN jobs
    BY <1>11 DEF Reports, Active
  <2>2. [jobs[j] EXCEPT !.state = s, !.result = b,
                        !.terminal_at = t, !.updated_at = t] \in JobRecord
    BY <1>t, <1>r, <2>1, RecordLemma
  <2> QED
    BY <1>11, <2>1, <2>2 DEF Finish, Reports, ReporterUnchanged
<1>12. ASSUME NEW j \in Jobs, Succeed(j) PROVE TypeOK'
  BY <1>12, <1>11 DEF Succeed, TerminalStates
<1>13. ASSUME NEW j \in Jobs, Fail(j) PROVE TypeOK'
  <2>1. jobs[j].result \in BOOLEAN
    BY <1>13, <1>r DEF Fail, Reports, Active, JobRecord
  <2> QED
    BY <1>13, <1>11, <2>1 DEF Fail, TerminalStates
<1>14. ASSUME NEW j \in Jobs, Cancelled(j) PROVE TypeOK'
  <2>1. jobs[j].result \in BOOLEAN
    BY <1>14, <1>r DEF Cancelled, Reports, Active, JobRecord
  <2> QED
    BY <1>14, <1>11, <2>1 DEF Cancelled, TerminalStates
<1>15. ASSUME NEW j \in Jobs, ReportRefused(j) PROVE TypeOK'
  BY <1>15 DEF ReportRefused, ReporterUnchanged
<1>16. ASSUME NEW j \in Jobs, DropReporter(j) PROVE TypeOK'
  <2>1. \A k \in DOMAIN jobs : jobs[k].updated_at \in Nat
    BY <1>r, RecordLemma
  <2>2. jobs' \in [DOMAIN jobs -> JobRecord]
    BY <1>16, <1>r, <2>1, RecordLemma DEF DropReporter, Active, TerminalStates
  <2> QED
    BY <1>16, <2>2 DEF DropReporter
<1>17. CASE UNCHANGED vars
  BY <1>17 DEF vars
<1> QED
  BY <1>1, <1>2, <1>3, <1>4, <1>5, <1>6, <1>7, <1>8, <1>9, <1>10, <1>12,
     <1>13, <1>14, <1>15, <1>16, <1>17 DEF Next

(* Type correctness of the registry, for every set of ids and every limit. *)
THEOREM TypeCorrect == Spec => []TypeOK
<1>1. Init => TypeOK
  <2> SUFFICES ASSUME Init PROVE TypeOK
    OBVIOUS
  <2>1. DOMAIN jobs = {} /\ jobs \in [{} -> JobRecord]
    BY DEF Init
  <2> QED
    BY <2>1 DEF Init, TypeOK
<1> QED
  BY <1>1, TypeStep, PTL DEF Spec

-----------------------------------------------------------------------------
(* The part of the inductive invariant that speaks of single jobs.  The    *)
(* last conjunct makes ids fresh: nothing is known of one before it is     *)
(* admitted.                                                               *)
CallbacksRequested ==
    \A j \in (callbacks \cup signalled) \cap DOMAIN jobs : jobs[j].cancel_requested

IdsFresh ==
    \A j \in Jobs :
        reporter[j] = "none" =>
            /\ j \notin DOMAIN jobs
            /\ j \notin callbacks
            /\ j \notin signalled
            /\ ~terminal_reported[j]

PerJob == RecordsConsistent /\ ActiveHasReporter /\ CallbacksRequested /\ IdsFresh

(* What a record brings along when it expires.                             *)
LEMMA ExpiredLemma ==
    ASSUME TypeOK, RecordsConsistent, NEW j \in TtlReached(jobs, now)
    PROVE  /\ j \in DOMAIN jobs
           /\ RecordConsistent(Expired(jobs[j]), now)
           /\ Expired(jobs[j]).state = "Succeeded"
           /\ Expired(jobs[j]).cancel_requested = jobs[j].cancel_requested
<1>1. j \in DOMAIN jobs /\ jobs[j] \in JobRecord /\ RecordConsistent(jobs[j], now)
  BY DEF TtlReached, TypeOK, RecordsConsistent
<1> QED
  BY <1>1 DEF TtlReached, RecordConsistent, Expired, JobRecord

(* Pruning keeps the per-job invariant, apart from what the caller adds.   *)
LEMMA PruneKeeps ==
    ASSUME TypeOK, PerJob, NEW mr \in BOOLEAN, NEW p \in PruneTerminals(now, mr),
           NEW j \in DOMAIN p.jobs
    PROVE  /\ j \in DOMAIN jobs
           /\ RecordConsistent(p.jobs[j], now)
           /\ p.jobs[j].state = jobs[j].state
           /\ p.jobs[j].cancel_requested = jobs[j].cancel_requested
<1>1. /\ j \in DOMAIN jobs
      /\ p.jobs[j] = IF j \in TtlReached(jobs, now) THEN Expired(jobs[j]) ELSE jobs[j]
  BY PruneLemma DEF TypeOK
<1>2. CASE j \in TtlReached(jobs, now)
  BY <1>1, <1>2, ExpiredLemma DEF PerJob, TtlReached
<1>3. CASE j \notin TtlReached(jobs, now)
  BY <1>1, <1>3 DEF PerJob, RecordsConsistent
<1> QED
  BY <1>2, <1>3

LEMMA PerJobStep ==
    TypeOK /\ PerJob /\ [Next]_vars => PerJob'
<1> SUFFICES ASSUME TypeOK, PerJob, [Next]_vars PROVE PerJob'
  OBVIOUS
<1>r. \A j \in DOMAIN jobs : jobs[j] \in JobRecord
  BY DEF TypeOK
<1>n. now \in Nat
  BY DEF TypeOK
<1> USE DEF PerJob
<1>p. ASSUME NEW mr \in BOOLEAN, NEW p \in PruneTerminals(now, mr),
             jobs' = p.jobs,
             UNCHANGED <<reporter, terminal_reported, callbacks, signalled, now>>
      PROVE  PerJob'
  <2>0. DOMAIN jobs' \subseteq DOMAIN jobs
    BY <1>p, PruneKeeps
  <2>1. RecordsConsistent'
    BY <1>p, PruneKeeps DEF RecordsConsistent
  <2>2. ActiveHasReporter'
    BY <1>p, PruneKeeps DEF ActiveHasReporter, Active
  <2>3. CallbacksRequested'
    BY <1>p, PruneKeeps DEF CallbacksRequested
  <2>4. IdsFresh'
    BY <1>p, <2>0 DEF IdsFresh
  <2> QED
    BY <2>1, <2>2, <2>3, <2>4
<1>1. ASSUME NEW j \in Jobs, Admitted(j) PROVE PerJob'
  <2>1. PICK p \in PruneTerminals(now, TRUE) : jobs' = Insert(p.jobs, j, NewRecord(now))
    BY <1>1 DEF Admitted
  <2>2. /\ DOMAIN jobs' = DOMAIN p.jobs \cup {j}
        /\ jobs'[j] = NewRecord(now)
        /\ \A k \in DOMAIN p.jobs : k # j => jobs'[k] = p.jobs[k]
    BY <2>1 DEF Insert
  <2>3. /\ j \notin DOMAIN jobs /\ j \notin callbacks /\ j \notin signalled
        /\ ~terminal_reported[j]
    BY <1>1 DEF Admitted, IdsFresh
  <2>4. /\ reporter'[j] = "held"
        /\ \A k \in Jobs \ {j} : reporter'[k] = reporter[k]
        /\ UNCHANGED <<terminal_reported, callbacks, signalled, now>>
    BY <1>1 DEF Admitted, TypeOK
  <2>5. RecordConsistent(NewRecord(now), now)
    BY DEF NewRecord, RecordConsistent
  <2>k. ASSUME NEW k \in DOMAIN p.jobs
        PROVE  /\ k \in DOMAIN jobs
               /\ RecordConsistent(p.jobs[k], now)
               /\ p.jobs[k].state = jobs[k].state
               /\ p.jobs[k].cancel_requested = jobs[k].cancel_requested
    BY PruneKeeps, Zenon
  <2>6. ASSUME NEW k \in DOMAIN p.jobs
        PROVE  /\ k # j /\ k \in DOMAIN jobs /\ k \in Jobs
               /\ RecordConsistent(jobs'[k], now)
               /\ jobs'[k].state = jobs[k].state
               /\ jobs'[k].cancel_requested = jobs[k].cancel_requested
    BY <2>k, <2>2, <2>3 DEF TypeOK
  <2>7. RecordsConsistent'
    BY <2>2, <2>4, <2>5, <2>6 DEF RecordsConsistent
  <2>8. ActiveHasReporter'
    BY <2>2, <2>3, <2>4, <2>6 DEF ActiveHasReporter, Active
  <2>9. CallbacksRequested'
    BY <2>2, <2>3, <2>4, <2>6 DEF CallbacksRequested
  <2>10. IdsFresh'
    BY <2>2, <2>4, <2>6 DEF IdsFresh
  <2> QED
    BY <2>7, <2>8, <2>9, <2>10
<1>2. CASE AdmitRefused
  BY <1>2, <1>p DEF AdmitRefused
<1>3. ASSUME NEW C \in SUBSET Cancellable, RequestCancel(C),
             UNCHANGED <<reporter, terminal_reported, signalled, now>>
      PROVE  PerJob'
  <2>1. /\ DOMAIN jobs' = DOMAIN jobs
        /\ \A j \in DOMAIN jobs \ C : jobs'[j] = jobs[j]
        /\ \A j \in C : jobs'[j] = [jobs[j] EXCEPT !.state = "Cancelling",
                                                   !.cancel_requested = TRUE]
    BY <1>3 DEF RequestCancel, Cancellable
  <2>2. ASSUME NEW j \in C
        PROVE  /\ j \in DOMAIN jobs /\ j \in Active(jobs) /\ j \in Jobs
               /\ RecordConsistent(jobs'[j], now)
               /\ jobs'[j].cancel_requested
    <3>1. /\ j \in DOMAIN jobs /\ jobs[j] \in JobRecord
          /\ jobs[j].state \in {"Starting", "Running"} /\ j \in Jobs
      BY <1>3, <1>r DEF Cancellable, TypeOK
    <3>2. RecordConsistent(jobs[j], now)
      BY <3>1 DEF RecordsConsistent
    <3> QED
      BY <2>1, <3>1, <3>2 DEF RecordConsistent, JobRecord, Active, ActiveStates
  <2>3. callbacks' = callbacks \cup C
    BY <1>3 DEF RequestCancel
  <2>4. RecordsConsistent'
    BY <1>3, <2>1, <2>2 DEF RecordsConsistent
  <2>5. ActiveHasReporter'
    BY <1>3, <2>1, <2>2 DEF ActiveHasReporter, Active
  <2>6. CallbacksRequested'
    BY <1>3, <2>1, <2>2, <2>3 DEF CallbacksRequested
  <2>7. IdsFresh'
    BY <1>3, <2>1, <2>2, <2>3 DEF IdsFresh
  <2> QED
    BY <2>4, <2>5, <2>6, <2>7
<1>4. CASE Prune
  BY <1>4, <1>p DEF Prune
<1>5. CASE Tick
  <2>1. now' \in Nat /\ (ClockStepsBack \/ now <= now')
    BY <1>5, <1>n, ClockAssumption DEF Tick
  <2>2. ASSUME NEW j \in DOMAIN jobs PROVE RecordConsistent(jobs[j], now')
    <3>1. RecordConsistent(jobs[j], now) /\ jobs[j].terminal_at \in Nat
      BY <1>r DEF RecordsConsistent, JobRecord
    <3> QED
      BY <1>n, <2>1, <3>1, ClockAssumption DEF RecordConsistent
  <2>3. RecordsConsistent'
    BY <1>5, <2>2 DEF Tick, RecordsConsistent
  <2> QED
    BY <1>5, <2>3 DEF Tick, ActiveHasReporter, CallbacksRequested, IdsFresh, Active
<1>6. ASSUME NEW j \in Jobs, InvokeCallback(j) PROVE PerJob'
  BY <1>6 DEF InvokeCallback, RecordsConsistent, ActiveHasReporter, CallbacksRequested,
     IdsFresh, Active
<1>7. ASSUME NEW j \in Jobs, Collected(j) PROVE PerJob'
  <2>1. PICK p \in PruneTerminals(now, FALSE) :
            /\ j \in DOMAIN p.jobs
            /\ p.jobs[j].state = "Succeeded" /\ ~p.jobs[j].result_collected /\ p.jobs[j].result
            /\ jobs' = [p.jobs EXCEPT ![j] = [@ EXCEPT !.result = FALSE,
                                                       !.result_collected = TRUE]]
    BY <1>7 DEF Collected
  <2>2. UNCHANGED <<reporter, terminal_reported, callbacks, signalled, now>>
    BY <1>7 DEF Collected
  <2>3. p.jobs[j] \in JobRecord /\ RecordConsistent(p.jobs[j], now)
    BY <1>n, <2>1, PruneLemma, PruneKeeps
  <2>4. /\ DOMAIN jobs' = DOMAIN p.jobs
        /\ jobs'[j] = [p.jobs[j] EXCEPT !.result = FALSE, !.result_collected = TRUE]
        /\ \A k \in DOMAIN p.jobs : k # j => jobs'[k] = p.jobs[k]
    BY <2>1
  <2>5. /\ RecordConsistent(jobs'[j], now)
        /\ jobs'[j].state = p.jobs[j].state
        /\ jobs'[j].cancel_requested = p.jobs[j].cancel_requested
    BY <2>1, <2>3, <2>4 DEF RecordConsistent, JobRecord
  <2>k. ASSUME NEW k \in DOMAIN p.jobs
        PROVE  /\ k \in DOMAIN jobs
               /\ RecordConsistent(p.jobs[k], now)
               /\ p.jobs[k].state = jobs[k].state
               /\ p.jobs[k].cancel_requested = jobs[k].cancel_requested
    BY PruneKeeps, Zenon
  <2>6. ASSUME NEW k \in DOMAIN jobs'
        PROVE  /\ k \in DOMAIN jobs
               /\ RecordConsistent(jobs'[k], now)
               /\ jobs'[k].state = jobs[k].state
               /\ jobs'[k].cancel_requested = jobs[k].cancel_requested
    <3>1. CASE k = j
      BY <2>1, <2>5, <2>k, <3>1
    <3>2. CASE k # j
      BY <2>4, <2>k, <3>2
    <3> QED
      BY <3>1, <3>2
  <2>7. RecordsConsistent'
    BY <2>2, <2>6 DEF RecordsConsistent
  <2>8. ActiveHasReporter' /\ CallbacksRequested'
    BY <2>2, <2>6 DEF ActiveHasReporter, Active, CallbacksRequested
  <2>9. IdsFresh'
    BY <2>2, <2>6 DEF IdsFresh
  <2> QED
    BY <2>7, <2>8, <2>9
(* A reporter's step changes one active record and, at most, its own flag. *)
<1>8. ASSUME NEW j \in Active(jobs), NEW r \in JobRecord,
             jobs' = [jobs EXCEPT ![j] = r],
             RecordConsistent(r, now),
             r.cancel_requested = jobs[j].cancel_requested,
             r.state \in ActiveStates => UNCHANGED <<reporter, terminal_reported>>,
             \A k \in Jobs \ {j} : /\ reporter'[k] = reporter[k]
                                   /\ terminal_reported'[k] = terminal_reported[k],
             reporter'[j] # "none",
             UNCHANGED <<callbacks, signalled, now>>
      PROVE  PerJob'
  <2>1. /\ DOMAIN jobs' = DOMAIN jobs /\ j \in DOMAIN jobs /\ DOMAIN jobs \subseteq Jobs
        /\ jobs'[j] = r
        /\ \A k \in DOMAIN jobs : k # j => jobs'[k] = jobs[k]
    BY <1>8 DEF Active, TypeOK
  <2>2. RecordsConsistent'
    BY <1>8, <2>1 DEF RecordsConsistent
  <2>3. ActiveHasReporter'
    BY <1>8, <2>1 DEF ActiveHasReporter, Active
  <2>4. CallbacksRequested'
    BY <1>8, <2>1 DEF CallbacksRequested
  <2>5. IdsFresh'
    BY <1>8, <2>1 DEF IdsFresh
  <2> QED
    BY <2>2, <2>3, <2>4, <2>5
<1>9. ASSUME NEW j \in Jobs, MarkRunning(j) PROVE PerJob'
  <2>1. PICK t \in ReadTimes :
            jobs' = [jobs EXCEPT ![j] = [@ EXCEPT !.state = "Running", !.updated_at = t]]
    BY <1>9 DEF MarkRunning
  <2> DEFINE r == [jobs[j] EXCEPT !.state = "Running", !.updated_at = t]
  <2>2. /\ j \in DOMAIN jobs /\ jobs[j].state = "Starting" /\ reporter[j] = "held"
        /\ UNCHANGED <<reporter, terminal_reported, callbacks, signalled, now>>
    BY <1>9 DEF MarkRunning, ReporterUnchanged
  <2>3. /\ j \in Active(jobs) /\ jobs[j] \in JobRecord /\ t \in Nat
        /\ RecordConsistent(jobs[j], now)
    BY <1>r, <2>2 DEF Active, ActiveStates, RecordsConsistent, ReadTimes
  <2>4. r \in JobRecord /\ r.cancel_requested = jobs[j].cancel_requested
    BY <2>3 DEF JobRecord, ActiveStates
  <2>5. RecordConsistent(r, now)
    BY <2>2, <2>3 DEF JobRecord, RecordConsistent
  <2>6. jobs' = [jobs EXCEPT ![j] = r]
    BY <2>1, <2>2
  <2> HIDE DEF r
  <2> QED
    BY <1>8, <2>2, <2>3, <2>4, <2>5, <2>6
<1>10. ASSUME NEW j \in Jobs, ReportProgress(j) PROVE PerJob'
  <2>1. PICK t \in ReadTimes : jobs' = [jobs EXCEPT ![j] = [@ EXCEPT !.updated_at = t]]
    BY <1>10 DEF ReportProgress
  <2> DEFINE r == [jobs[j] EXCEPT !.updated_at = t]
  <2>2. /\ j \in Active(jobs) /\ reporter[j] = "held"
        /\ UNCHANGED <<reporter, terminal_reported, callbacks, signalled, now>>
    BY <1>10 DEF ReportProgress, ReporterUnchanged
  <2>3. /\ j \in DOMAIN jobs /\ jobs[j] \in JobRecord /\ t \in Nat
        /\ RecordConsistent(jobs[j], now)
    BY <1>r, <2>2 DEF Active, RecordsConsistent, ReadTimes
  <2>4. r \in JobRecord /\ r.cancel_requested = jobs[j].cancel_requested
    BY <2>3 DEF JobRecord
  <2>5. RecordConsistent(r, now)
    BY <2>3 DEF JobRecord, RecordConsistent
  <2>6. jobs' = [jobs EXCEPT ![j] = r]
    BY <2>1, <2>3
  <2> HIDE DEF r
  <2> QED
    BY <1>8, <2>2, <2>3, <2>4, <2>5, <2>6
(* The three terminal reports.                                             *)
<1>11. ASSUME NEW j \in Jobs, Reports(j),
              NEW s \in TerminalStates, NEW b \in BOOLEAN, NEW t \in ReadTimes,
              b => s = "Succeeded",
              jobs[j].state = "Cancelling" => s # "Succeeded",
              s = "Cancelled" => jobs[j].state = "Cancelling",
              Finish(j, s, b, t)
       PROVE PerJob'
  <2> DEFINE r == [jobs[j] EXCEPT !.state = s, !.result = b,
                                  !.terminal_at = t, !.updated_at = t]
  <2>2. /\ j \in Active(jobs) /\ reporter[j] = "held"
        /\ terminal_reported' = [terminal_reported EXCEPT ![j] = TRUE]
        /\ UNCHANGED <<reporter, callbacks, signalled, now>>
    BY <1>11 DEF Reports, ReporterUnchanged
  <2>3. /\ j \in DOMAIN jobs /\ jobs[j] \in JobRecord /\ t \in Nat
        /\ RecordConsistent(jobs[j], now) /\ jobs[j].state \in ActiveStates
    BY <1>r, <2>2 DEF Active, RecordsConsistent, ReadTimes
  <2>4. r \in JobRecord /\ r.cancel_requested = jobs[j].cancel_requested /\ r.state = s
    BY <2>3 DEF JobRecord
  <2>5. RecordConsistent(r, now)
    BY <1>11, <2>3 DEF JobRecord, RecordConsistent, ActiveStates, TerminalStates
  <2>6. jobs' = [jobs EXCEPT ![j] = r]
    BY <1>11, <2>3 DEF Finish
  <2>7. \A k \in Jobs \ {j} : terminal_reported'[k] = terminal_reported[k]
    BY <2>2 DEF TypeOK
  <2>8. r.state \notin ActiveStates
    BY <2>4 DEF ActiveStates, TerminalStates
  <2> HIDE DEF r
  <2> QED
    BY <1>8, <2>2, <2>3, <2>4, <2>5, <2>6, <2>7, <2>8
<1>12. ASSUME NEW j \in Jobs, Succeed(j) PROVE PerJob'
  BY <1>12, <1>11 DEF Succeed, TerminalStates
<1>f. ASSUME NEW j \in Jobs, Reports(j) PROVE jobs[j].result = FALSE
  BY <1>f, <1>r DEF Reports, Active, ActiveStates, RecordsConsistent, RecordConsistent, JobRecord
<1>13. ASSUME NEW j \in Jobs, Fail(j) PROVE PerJob'
  BY <1>13, <1>11, <1>f DEF Fail, TerminalStates
<1>14. ASSUME NEW j \in Jobs, Cancelled(j) PROVE PerJob'
  BY <1>14, <1>11, <1>f DEF Cancelled, TerminalStates
<1>15. ASSUME NEW j \in Jobs, ReportRefused(j) PROVE PerJob'
  <2>1. /\ UNCHANGED <<jobs, reporter, callbacks, signalled, now>> /\ reporter[j] = "held"
        /\ \A k \in Jobs \ {j} : terminal_reported'[k] = terminal_reported[k]
        /\ j \in DOMAIN jobs => ~terminal_reported'[j]
    BY <1>15 DEF ReportRefused, ReporterUnchanged, TypeOK
  <2>2. ActiveHasReporter' /\ IdsFresh'
    BY <2>1 DEF ActiveHasReporter, Active, IdsFresh, TypeOK
  <2> QED
    BY <2>1, <2>2 DEF RecordsConsistent, CallbacksRequested
<1>16. ASSUME NEW j \in Jobs, DropReporter(j) PROVE PerJob'
  <2>1. /\ reporter'[j] = "dropped"
        /\ \A k \in Jobs \ {j} : reporter'[k] = reporter[k]
        /\ UNCHANGED <<terminal_reported, callbacks, signalled, now>>
    BY <1>16 DEF DropReporter, TypeOK
  <2>2. CASE j \in Active(jobs)
    <3> DEFINE r == [jobs[j] EXCEPT !.state = IF jobs[j].state = "Cancelling"
                                              THEN "Cancelled" ELSE "Failed",
                                    !.terminal_at = jobs[j].updated_at]
    <3>1. ~terminal_reported[j]
      BY <2>2 DEF ActiveHasReporter
    <3>2. /\ j \in DOMAIN jobs /\ jobs[j] \in JobRecord
          /\ RecordConsistent(jobs[j], now) /\ jobs[j].state \in ActiveStates
      BY <1>r, <2>2 DEF Active, RecordsConsistent
    <3>3. jobs' = [jobs EXCEPT ![j] = r]
      BY <1>16, <2>2, <3>1, <3>2 DEF DropReporter
    <3>4. /\ r \in JobRecord /\ r.cancel_requested = jobs[j].cancel_requested
          /\ r.state \in {"Cancelled", "Failed"}
      BY <3>2 DEF JobRecord, TerminalStates
    <3>5. RecordConsistent(r, now)
      BY <3>2 DEF JobRecord, RecordConsistent, ActiveStates
    <3>6. r.state \notin ActiveStates
      BY <3>4 DEF ActiveStates
    <3> HIDE DEF r
    <3> QED
      BY <1>8, <2>1, <2>2, <3>3, <3>4, <3>5, <3>6
  <2>3. CASE j \notin Active(jobs)
    <3>1. jobs' = jobs
      BY <1>16, <2>3 DEF DropReporter
    <3>2. ActiveHasReporter'
      BY <2>1, <2>3, <3>1 DEF ActiveHasReporter, Active, TypeOK
    <3>3. IdsFresh'
      BY <2>1, <3>1 DEF IdsFresh
    <3> QED
      BY <2>1, <3>1, <3>2, <3>3 DEF RecordsConsistent, CallbacksRequested
  <2> QED
    BY <2>2, <2>3
<1>17. CASE UNCHANGED vars
  BY <1>17 DEF vars, RecordsConsistent, ActiveHasReporter, CallbacksRequested, IdsFresh, Active
<1>18. CASE Shutdown
  BY <1>18, <1>3 DEF Shutdown
<1>19. ASSUME NEW j \in Jobs, Cancel(j) PROVE PerJob'
  BY <1>19, <1>3 DEF Cancel
<1> QED
  BY <1>1, <1>2, <1>4, <1>5, <1>6, <1>7, <1>9, <1>10, <1>12, <1>13, <1>14,
     <1>15, <1>16, <1>17, <1>18, <1>19 DEF Next

-----------------------------------------------------------------------------
(* What one step may do to the table, whatever the step.                   *)
TerminalKept(old, new) ==
    /\ new.state = old.state
    /\ new.terminal_at = old.terminal_at
    /\ new.result => old.result
    /\ old.result_collected => new.result_collected
    /\ old.result => \/ new.result \/ new.result_collected
                     \/ old.terminal_at + TERMINAL_TTL <= now

TableStep ==
    /\ Active(jobs) \subseteq DOMAIN jobs'
    /\ \A k \in DOMAIN jobs' :
          k \in DOMAIN jobs /\ k \notin Active(jobs) => TerminalKept(jobs[k], jobs'[k])

Shrinks == DOMAIN jobs' \subseteq DOMAIN jobs /\ TableStep

LEMMA TableLemma ==
    ASSUME TypeOK, PerJob, [Next]_vars
    PROVE  Shrinks \/ \E j \in Jobs : Admitted(j) /\ TableStep
<1>r. \A j \in DOMAIN jobs : jobs[j] \in JobRecord
  BY DEF TypeOK
<1>n. now \in Nat
  BY DEF TypeOK
<1>k. \A r \in JobRecord : TerminalKept(r, r)
  BY DEF TerminalKept
<1>p. ASSUME NEW mr \in BOOLEAN, NEW p \in PruneTerminals(now, mr)
      PROVE  /\ DOMAIN p.jobs \subseteq DOMAIN jobs
             /\ Active(jobs) \subseteq DOMAIN p.jobs
             /\ p.jobs \in [DOMAIN p.jobs -> JobRecord]
             /\ \A k \in DOMAIN p.jobs : TerminalKept(jobs[k], p.jobs[k])
  <2>1. /\ DOMAIN p.jobs \subseteq DOMAIN jobs
        /\ Active(jobs) \subseteq DOMAIN p.jobs
        /\ p.jobs \in [DOMAIN p.jobs -> JobRecord]
        /\ \A j \in DOMAIN p.jobs :
              p.jobs[j] = IF j \in TtlReached(jobs, now) THEN Expired(jobs[j]) ELSE jobs[j]
    BY <1>n, <1>p, PruneLemma
  <2>2. \A k \in TtlReached(jobs, now) : TerminalKept(jobs[k], Expired(jobs[k]))
    BY <1>r DEF TerminalKept, Expired, JobRecord, TtlReached
  <2>3. ASSUME NEW k \in DOMAIN p.jobs PROVE TerminalKept(jobs[k], p.jobs[k])
    BY <1>r, <1>k, <2>1, <2>2
  <2> QED
    BY <2>1, <2>3
<1>s. ASSUME NEW mr \in BOOLEAN, NEW p \in PruneTerminals(now, mr), jobs' = p.jobs
      PROVE  Shrinks
  BY <1>p, <1>s DEF Shrinks, TableStep
<1>1. ASSUME NEW j \in Jobs, Admitted(j) PROVE TableStep
  <2>1. PICK p \in PruneTerminals(now, TRUE) : jobs' = Insert(p.jobs, j, NewRecord(now))
    BY <1>1 DEF Admitted
  <2>2. /\ DOMAIN jobs' = DOMAIN p.jobs \cup {j}
        /\ \A k \in DOMAIN p.jobs : k # j => jobs'[k] = p.jobs[k]
    BY <2>1 DEF Insert
  <2>3. j \notin DOMAIN jobs
    BY <1>1 DEF Admitted, PerJob, IdsFresh
  <2>4. /\ Active(jobs) \subseteq DOMAIN p.jobs
        /\ \A k \in DOMAIN p.jobs : TerminalKept(jobs[k], p.jobs[k])
    BY <1>p, Zenon
  <2> QED
    BY <2>2, <2>3, <2>4 DEF TableStep
<1>2. ASSUME NEW j \in Active(jobs), NEW r, jobs' = [jobs EXCEPT ![j] = r]
      PROVE  Shrinks
  <2>1. DOMAIN jobs' = DOMAIN jobs /\ \A k \in DOMAIN jobs : k # j => jobs'[k] = jobs[k]
    BY <1>2
  <2> QED
    BY <1>2, <1>r, <1>k, <2>1 DEF Shrinks, TableStep, Active
<1>3. ASSUME NEW C \in SUBSET Cancellable, RequestCancel(C) PROVE Shrinks
  <2>1. DOMAIN jobs' = DOMAIN jobs /\ \A k \in DOMAIN jobs \ C : jobs'[k] = jobs[k]
    BY <1>3 DEF RequestCancel
  <2>2. C \subseteq Active(jobs)
    BY <1>3 DEF Cancellable, Active, ActiveStates
  <2> QED
    BY <1>r, <1>k, <2>1, <2>2 DEF Shrinks, TableStep, Active
<1>4. ASSUME NEW j \in Jobs, Collected(j) PROVE Shrinks
  <2>1. PICK p \in PruneTerminals(now, FALSE) :
            /\ j \in DOMAIN p.jobs
            /\ jobs' = [p.jobs EXCEPT ![j] = [@ EXCEPT !.result = FALSE,
                                                       !.result_collected = TRUE]]
    BY <1>4 DEF Collected
  <2>2. /\ DOMAIN jobs' = DOMAIN p.jobs
        /\ jobs'[j] = [p.jobs[j] EXCEPT !.result = FALSE, !.result_collected = TRUE]
        /\ \A k \in DOMAIN p.jobs : k # j => jobs'[k] = p.jobs[k]
    BY <2>1
  <2>3. /\ DOMAIN p.jobs \subseteq DOMAIN jobs
        /\ Active(jobs) \subseteq DOMAIN p.jobs
        /\ p.jobs \in [DOMAIN p.jobs -> JobRecord]
        /\ \A k \in DOMAIN p.jobs : TerminalKept(jobs[k], p.jobs[k])
    BY <1>p, Zenon
  <2>4. TerminalKept(jobs[j], jobs'[j])
    BY <2>1, <2>2, <2>3 DEF TerminalKept, JobRecord
  <2> QED
    BY <2>2, <2>3, <2>4 DEF Shrinks, TableStep
<1>5. ASSUME UNCHANGED jobs PROVE Shrinks
  BY <1>5, <1>r, <1>k DEF Shrinks, TableStep, Active
<1>6. ASSUME NEW j \in Jobs, MarkRunning(j) PROVE Shrinks
  BY <1>6, <1>2 DEF MarkRunning, Active, ActiveStates
<1>7. ASSUME NEW j \in Jobs, ReportProgress(j) PROVE Shrinks
  BY <1>7, <1>2 DEF ReportProgress
<1>8. ASSUME NEW j \in Jobs, Succeed(j) \/ Fail(j) \/ Cancelled(j) PROVE Shrinks
  BY <1>8, <1>2 DEF Succeed, Fail, Cancelled, Reports, Finish
<1>9. ASSUME NEW j \in Jobs, DropReporter(j) PROVE Shrinks
  BY <1>9, <1>2, <1>5 DEF DropReporter
<1>10. CASE AdmitRefused \/ Prune
  BY <1>10, <1>s DEF AdmitRefused, Prune
<1>11. CASE Shutdown
  BY <1>11, <1>3 DEF Shutdown
<1>12. ASSUME NEW j \in Jobs, Cancel(j) PROVE Shrinks
  BY <1>12, <1>3 DEF Cancel
<1>13. ASSUME NEW j \in Jobs, ReportRefused(j) \/ InvokeCallback(j) PROVE Shrinks
  BY <1>13, <1>5 DEF ReportRefused, InvokeCallback
<1>14. CASE Tick \/ UNCHANGED vars
  BY <1>14, <1>5 DEF Tick, vars
<1> QED
  BY <1>1, <1>4, <1>6, <1>7, <1>8, <1>9, <1>10, <1>11, <1>12, <1>13, <1>14 DEF Next

-----------------------------------------------------------------------------
(* The bounds, with the finiteness that cardinalities need.                *)
Bounds == IsFiniteSet(DOMAIN jobs) /\ SlotsBounded /\ RecordsBounded

LEMMA BoundsStep ==
    TypeOK /\ PerJob /\ Bounds /\ [Next]_vars => Bounds'
<1> SUFFICES ASSUME TypeOK, PerJob, Bounds, [Next]_vars PROVE Bounds'
  OBVIOUS
<1>1. CASE Shrinks
  <2>1. /\ DOMAIN jobs' \subseteq DOMAIN jobs
        /\ Active(jobs') \subseteq Active(jobs)
        /\ Reserved(jobs') \subseteq Reserved(jobs)
    BY <1>1 DEF Shrinks, TableStep, TerminalKept, Active, Reserved
  <2>2. Active(jobs) \subseteq DOMAIN jobs /\ Reserved(jobs) \subseteq DOMAIN jobs
    BY DEF Active, Reserved
  <2>3. /\ IsFiniteSet(DOMAIN jobs) /\ IsFiniteSet(Active(jobs)) /\ IsFiniteSet(Reserved(jobs))
    BY <2>2, FS_Subset DEF Bounds
  <2>4. /\ IsFiniteSet(DOMAIN jobs') /\ Cardinality(DOMAIN jobs') <= Cardinality(DOMAIN jobs)
        /\ Cardinality(Active(jobs')) <= Cardinality(Active(jobs))
        /\ Cardinality(Reserved(jobs')) <= Cardinality(Reserved(jobs))
    BY <2>1, <2>3, FS_Subset
  <2>5. /\ Cardinality(DOMAIN jobs) \in Nat /\ Cardinality(DOMAIN jobs') \in Nat
        /\ Cardinality(Active(jobs)) \in Nat /\ Cardinality(Active(jobs')) \in Nat
        /\ Cardinality(Reserved(jobs)) \in Nat /\ Cardinality(Reserved(jobs')) \in Nat
    BY <2>1, <2>3, FS_Subset, FS_CardinalityType
  <2> QED
    BY <2>4, <2>5, LimitsAssumption DEF Bounds, SlotsBounded, RecordsBounded
<1>2. ASSUME NEW j \in Jobs, Admitted(j) PROVE Bounds'
  <2>1. PICK p \in PruneTerminals(now, TRUE) :
            HasRoom(p.jobs) /\ jobs' = Insert(p.jobs, j, NewRecord(now))
    BY <1>2 DEF Admitted
  <2>2. /\ DOMAIN p.jobs \subseteq DOMAIN jobs
        /\ p.jobs \in [DOMAIN p.jobs -> JobRecord]
    BY PruneLemma DEF TypeOK
  <2>3. j \notin DOMAIN p.jobs
    BY <1>2, <2>2 DEF Admitted, PerJob, IdsFresh
  <2>4. DOMAIN jobs' = DOMAIN p.jobs \cup {j}
    BY <2>1 DEF Insert
  <2>5. /\ Active(jobs') = Active(p.jobs) \cup {j}
        /\ Reserved(jobs') = Reserved(p.jobs) \cup {j}
    BY <2>1, <2>3 DEF Insert, NewRecord, Active, Reserved, ActiveStates
  <2>6. /\ IsFiniteSet(DOMAIN p.jobs) /\ IsFiniteSet(Active(p.jobs))
        /\ IsFiniteSet(Reserved(p.jobs)) /\ IsFiniteSet(Terminal(p.jobs))
    BY <2>2, FS_Subset DEF Bounds, Active, Reserved, Terminal
  <2>7. DOMAIN p.jobs = Terminal(p.jobs) \cup Active(p.jobs)
    BY <2>2 DEF Terminal, Active, JobRecord
  <2>8. Cardinality(DOMAIN p.jobs) <= Cardinality(Terminal(p.jobs)) + Cardinality(Active(p.jobs))
    <3>1. Cardinality(Terminal(p.jobs) \cup Active(p.jobs)) =
            Cardinality(Terminal(p.jobs)) + Cardinality(Active(p.jobs))
              - Cardinality(Terminal(p.jobs) \cap Active(p.jobs))
      BY <2>6, FS_Union
    <3>2. /\ Cardinality(Terminal(p.jobs)) \in Nat /\ Cardinality(Active(p.jobs)) \in Nat
          /\ Cardinality(Terminal(p.jobs) \cap Active(p.jobs)) \in Nat
      BY <2>6, FS_Intersection, FS_CardinalityType
    <3> QED
      BY <2>7, <3>1, <3>2
  <2>9. /\ Cardinality(DOMAIN jobs') = Cardinality(DOMAIN p.jobs) + 1
        /\ Cardinality(Active(jobs')) = Cardinality(Active(p.jobs)) + 1
        /\ Cardinality(Reserved(jobs')) = Cardinality(Reserved(p.jobs)) + 1
        /\ IsFiniteSet(DOMAIN jobs')
    <3>1. j \notin Active(p.jobs) /\ j \notin Reserved(p.jobs)
      BY <2>3 DEF Active, Reserved
    <3>2. /\ Cardinality(DOMAIN p.jobs \cup {j}) = Cardinality(DOMAIN p.jobs) + 1
          /\ IsFiniteSet(DOMAIN p.jobs \cup {j})
      BY <2>3, <2>6, FS_AddElement
    <3>3. Cardinality(Active(p.jobs) \cup {j}) = Cardinality(Active(p.jobs)) + 1
      BY <2>6, <3>1, FS_AddElement
    <3>4. Cardinality(Reserved(p.jobs) \cup {j}) = Cardinality(Reserved(p.jobs)) + 1
      BY <2>6, <3>1, FS_AddElement
    <3> QED
      BY <2>4, <2>5, <3>2, <3>3, <3>4
  <2>10. /\ Cardinality(DOMAIN p.jobs) \in Nat /\ Cardinality(Terminal(p.jobs)) \in Nat
         /\ Cardinality(Active(p.jobs)) \in Nat /\ Cardinality(Reserved(p.jobs)) \in Nat
    BY <2>6, FS_CardinalityType
  <2> QED
    BY <2>1, <2>8, <2>9, <2>10, LimitsAssumption
    DEF Bounds, SlotsBounded, RecordsBounded, HasRoom
<1> QED
  BY <1>1, <1>2, TableLemma

-----------------------------------------------------------------------------
(* The inductive invariant.                                                *)
IInv == TypeOK /\ PerJob /\ Bounds

(* The empty registry satisfies it.                                        *)
LEMMA InitIInv == Init => IInv
<1> SUFFICES ASSUME Init PROVE IInv
  OBVIOUS
<1>1. DOMAIN jobs = {} /\ jobs \in [{} -> JobRecord]
  BY DEF Init
<1>2. TypeOK
  BY <1>1 DEF Init, TypeOK
<1>3. PerJob
  BY <1>1 DEF Init, PerJob, RecordsConsistent, ActiveHasReporter, Active,
              CallbacksRequested, IdsFresh
<1>4. Active(jobs) = {} /\ Reserved(jobs) = {}
  BY <1>1 DEF Active, Reserved
<1>5. Bounds
  BY <1>1, <1>4, FS_EmptySet, LimitsAssumption DEF Bounds, SlotsBounded, RecordsBounded
<1> QED
  BY <1>2, <1>3, <1>5 DEF IInv

(* Every operation keeps it.                                               *)
LEMMA IInvStep == IInv /\ [Next]_vars => IInv'
  BY TypeStep, PerJobStep, BoundsStep DEF IInv

(* So it always holds.                                                     *)
LEMMA Invariance == Spec => []IInv
  BY InitIInv, IInvStep, PTL DEF Spec

(* Running jobs and held results never exceed the result slots, and        *)
(* running jobs never exceed MAX_ACTIVE_JOBS, for all limits and ids.      *)
THEOREM SlotsAlwaysBounded == Spec => []SlotsBounded
<1>1. IInv => SlotsBounded
  BY DEF IInv, Bounds
<1> QED
  BY <1>1, Invariance, PTL

(* The table never outgrows the terminal cap plus the active limit.        *)
THEOREM RecordsAlwaysBounded == Spec => []RecordsBounded
<1>1. IInv => RecordsBounded
  BY DEF IInv, Bounds
<1> QED
  BY <1>1, Invariance, PTL

(* An active record can always still be ended by its reporter.             *)
THEOREM ActiveAlwaysHasReporter == Spec => []ActiveHasReporter
<1>1. IInv => ActiveHasReporter
  BY DEF IInv, PerJob
<1> QED
  BY <1>1, Invariance, PTL

(* No result survives a requested cancellation; callbacks run only for     *)
(* requested ones.                                                         *)
THEOREM CancelAlwaysHonoured == Spec => []CancelHonoured
<1>1. IInv => CancelHonoured
  <2> SUFFICES ASSUME IInv, NEW j \in DOMAIN jobs
               PROVE  /\ jobs[j].cancel_requested =>
                            jobs[j].state # "Succeeded" /\ ~jobs[j].result
                      /\ j \in callbacks \cup signalled => jobs[j].cancel_requested
    BY DEF CancelHonoured
  <2>1. RecordConsistent(jobs[j], now)
    BY DEF IInv, PerJob, RecordsConsistent
  <2>2. j \in callbacks \cup signalled => jobs[j].cancel_requested
    BY DEF IInv, PerJob, CallbacksRequested
  <2> QED
    BY <2>1, <2>2 DEF RecordConsistent
<1> QED
  BY <1>1, Invariance, PTL

(* A terminal record is immutable and an evicted id never comes back.      *)
THEOREM TerminalAlwaysFinal == Spec => TerminalIsFinal
<1>1. ASSUME IInv, IInv', [Next]_vars, NEW j \in Jobs
      PROVE  /\ j \in Terminal(jobs) /\ j \in DOMAIN jobs' =>
                /\ jobs'[j].state = jobs[j].state
                /\ jobs'[j].terminal_at = jobs[j].terminal_at
                /\ jobs'[j].result => jobs[j].result
                /\ jobs[j].result_collected => jobs'[j].result_collected
             /\ reporter[j] # "none" /\ j \notin DOMAIN jobs =>
                j \notin DOMAIN jobs'
  <2>1. TableStep
    BY <1>1, TableLemma DEF IInv, Shrinks
  <2>2. ASSUME reporter[j] # "none", j \notin DOMAIN jobs PROVE j \notin DOMAIN jobs'
    <3>1. CASE Shrinks
      BY <2>2, <3>1 DEF Shrinks
    <3>2. ASSUME NEW k \in Jobs, Admitted(k) PROVE j \notin DOMAIN jobs'
      <4>1. PICK p \in PruneTerminals(now, TRUE) : jobs' = Insert(p.jobs, k, NewRecord(now))
        BY <3>2 DEF Admitted
      <4>2. DOMAIN p.jobs \subseteq DOMAIN jobs
        BY <1>1, PruneLemma DEF IInv, TypeOK
      <4>3. j # k
        BY <2>2, <3>2 DEF Admitted
      <4> QED
        BY <2>2, <4>1, <4>2, <4>3 DEF Insert
    <3> QED
      BY <1>1, <3>1, <3>2, TableLemma DEF IInv
  <2> QED
    BY <2>1, <2>2 DEF TableStep, TerminalKept, Terminal, Active, ActiveStates, TerminalStates
<1>2. IInv /\ IInv' /\ [Next]_vars =>
        [\A j \in Jobs :
          /\ j \in Terminal(jobs) /\ j \in DOMAIN jobs' =>
                /\ jobs'[j].state = jobs[j].state
                /\ jobs'[j].terminal_at = jobs[j].terminal_at
                /\ jobs'[j].result => jobs[j].result
                /\ jobs[j].result_collected => jobs'[j].result_collected
          /\ reporter[j] # "none" /\ j \notin DOMAIN jobs =>
                j \notin DOMAIN jobs']_vars
  BY <1>1
<1> QED
  BY <1>2, Invariance, PTL DEF Spec, TerminalIsFinal

(* No admission, however full the table, evicts an active job.             *)
THEOREM ActiveIsNeverEvicted == Spec => ActiveNeverEvicted
<1>1. IInv /\ [Next]_vars => [\A j \in Active(jobs) : j \in DOMAIN jobs']_vars
  BY TableLemma DEF IInv, Shrinks, TableStep
<1> QED
  BY <1>1, Invariance, PTL DEF Spec, ActiveNeverEvicted

-----------------------------------------------------------------------------
(* Pressure on the terminal cap never costs a result.  If a live result j  *)
(* were evicted, so would be every terminal without a result: the plain    *)
(* ones because the first pass runs dry before the second starts, and the  *)
(* expired ones because they ended at least a TTL ago and so sort before   *)
(* j.  That leaves at least MAX_TERMINAL_JOBS live results, more than the  *)
(* result slots allow.                                                     *)
LEMMA EvictionSparesResults ==
    ASSUME IInv, ~ClockStepsBack, MAX_UNCOLLECTED_RESULT_SLOTS < MAX_TERMINAL_JOBS,
           NEW mr \in BOOLEAN, NEW p \in PruneTerminals(now, mr),
           NEW j \in DOMAIN jobs, jobs[j].result,
           ~(jobs[j].terminal_at + TERMINAL_TTL <= now)
    PROVE  j \in DOMAIN p.jobs
<1> DEFINE E == TtlReached(jobs, now)
           x == Expire(jobs, E)
           victims == IF mr THEN Evictions(x) ELSE {{}}
           T == Terminal(x)
           L == {k \in T : x[k].result}
<1>1. PICK V \in victims : p.jobs = Without(x, V)
  <2>1. PICK S \in Tombstoned(tombstones, E), V \in victims :
          p \in Evict(x, tombstones \cup S, V)
    BY PruneShape, Zenon
  <2> HIDE DEF x, E, victims
  <2> QED
    BY <2>1 DEF Evict
<1>2. SUFFICES ASSUME j \in V PROVE FALSE
  BY <1>1 DEF Without, Expire
<1>3. V \in Evictions(x)
  BY <1>2
<1>r. /\ \A k \in DOMAIN jobs : jobs[k] \in JobRecord /\ RecordConsistent(jobs[k], now)
      /\ now \in Nat /\ DOMAIN x = DOMAIN jobs
  BY DEF IInv, TypeOK, PerJob, RecordsConsistent, Expire
<1>4. x[j] = jobs[j]
  BY DEF Expire, TtlReached
<1>5. ASSUME NEW k \in DOMAIN jobs
      PROVE  /\ x[k].terminal_at = jobs[k].terminal_at /\ x[k].terminal_at \in Nat
             /\ x[k].result => jobs[k].result
             /\ x[k].result_expired => x[k].terminal_at + TERMINAL_TTL <= now
  <2>1. CASE k \in E
    <3>1. x[k] = Expired(jobs[k])
      BY <2>1 DEF Expire, Expired
    <3>2. k \in TtlReached(jobs, now) /\ jobs[k] \in JobRecord
      BY <1>r, <2>1
    <3> HIDE DEF x
    <3> QED
      BY <3>1, <3>2 DEF TtlReached, Expired, JobRecord
  <2>2. CASE k \notin E
    <3>1. x[k] = jobs[k]
      BY <2>2 DEF Expire
    <3> HIDE DEF x
    <3> QED
      BY <1>r, <3>1 DEF RecordConsistent, JobRecord
  <2> QED
    BY <2>1, <2>2
<1> HIDE DEF x, E
<1>6. j \in Owed(x) /\ j \in L
  BY <1>r, <1>4 DEF Owed, Terminal, TerminalStates, HasUncollected, RecordConsistent
<1>7. T \ Owed(x) \subseteq V
  BY <1>2, <1>3, <1>6 DEF Evictions
<1>8. ASSUME NEW k \in Owed(x), ~x[k].result PROVE k \in V
  <2>1. k \in DOMAIN jobs /\ x[k].result_expired
    BY <1>8, <1>r DEF Owed, Terminal, HasUncollected
  <2>2. x[k].terminal_at < x[j].terminal_at
    BY <2>1, <1>5, <1>4, <1>r, ClockAssumption
  <2>3. OldestFirst(x, V \cap Owed(x), Owed(x))
    BY <1>3 DEF Evictions
  <2>4. SUFFICES ASSUME k \notin V PROVE FALSE
    OBVIOUS
  <2>5. x[j].terminal_at <= x[k].terminal_at
    BY <1>2, <1>6, <1>8, <2>3, <2>4 DEF OldestFirst
  <2> QED
    BY <2>2, <2>5, <2>1, <1>5
<1>9. (T \ L) \cup {j} \subseteq V /\ j \notin T \ L
  BY <1>2, <1>6, <1>7, <1>8 DEF Owed
<1>10. /\ IsFiniteSet(T) /\ IsFiniteSet(V) /\ IsFiniteSet(L) /\ IsFiniteSet(T \ L)
       /\ IsFiniteSet(Reserved(jobs))
  <2>1. /\ T \subseteq DOMAIN jobs /\ V \subseteq DOMAIN jobs /\ L \subseteq DOMAIN jobs
        /\ T \ L \subseteq DOMAIN jobs /\ Reserved(jobs) \subseteq DOMAIN jobs
    BY <1>3, <1>r DEF Terminal, Reserved, Evictions
  <2> QED
    BY <2>1, FS_Subset DEF IInv, Bounds
<1>11. Cardinality(L) <= MAX_UNCOLLECTED_RESULT_SLOTS
  <2>1. L \subseteq Reserved(jobs)
    BY <1>5, <1>r DEF Terminal, Reserved
  <2>2. Cardinality(L) <= Cardinality(Reserved(jobs))
    BY <2>1, <1>10, FS_Subset
  <2> QED
    BY <2>2, <1>10, FS_CardinalityType, LimitsAssumption DEF IInv, Bounds, SlotsBounded
<1>12. Cardinality(T \ L) = Cardinality(T) - Cardinality(L)
  <2>1. Cardinality(T \ L) = Cardinality(T) - Cardinality(T \cap L)
    BY <1>10, FS_Difference
  <2>2. T \cap L = L
    OBVIOUS
  <2> QED
    BY <2>1, <2>2
<1>13. Cardinality(T \ L) + 1 <= Cardinality(V)
  <2>1. Cardinality((T \ L) \cup {j}) = Cardinality(T \ L) + 1
    BY <1>9, <1>10, FS_AddElement
  <2>2. Cardinality((T \ L) \cup {j}) <= Cardinality(V)
    BY <1>9, <1>10, FS_Subset
  <2> QED
    BY <2>1, <2>2
<1>14. /\ Cardinality(T) \in Nat /\ Cardinality(V) \in Nat /\ Cardinality(L) \in Nat
       /\ Cardinality(T \ L) \in Nat
  BY <1>10, FS_CardinalityType
<1>15. Cardinality(V) = IF Cardinality(T) >= MAX_TERMINAL_JOBS
                        THEN (Cardinality(T) - MAX_TERMINAL_JOBS) + 1 ELSE 0
  BY <1>3 DEF Evictions, Excess
<1> QED
  BY <1>11, <1>12, <1>13, <1>14, <1>15, LimitsAssumption

(* On a clock that never steps back, and with fewer result slots than      *)
(* terminal records (4 against 128 in the code), an uncollected result is  *)
(* dropped only when its TTL has passed.                                   *)
THEOREM ResultsDropOnlyAtTtl ==
    ASSUME ~ClockStepsBack, MAX_UNCOLLECTED_RESULT_SLOTS < MAX_TERMINAL_JOBS
    PROVE  Spec => ResultDroppedOnlyAtTtl
<1>1. ASSUME IInv, [Next]_vars, NEW j \in DOMAIN jobs, jobs[j].result,
             ~(jobs[j].terminal_at + TERMINAL_TTL <= now)
      PROVE  j \in DOMAIN jobs' /\ (jobs'[j].result \/ jobs'[j].result_collected)
  <2>1. TableStep /\ j \notin Active(jobs)
    BY <1>1, TableLemma
    DEF IInv, Shrinks, PerJob, RecordsConsistent, RecordConsistent, Active, ActiveStates
  <2>2. SUFFICES j \in DOMAIN jobs'
    BY <1>1, <2>1 DEF TableStep, TerminalKept
  <2>3. ASSUME NEW mr \in BOOLEAN, NEW p \in PruneTerminals(now, mr)
        PROVE  j \in DOMAIN p.jobs
    BY <1>1, <2>3, EvictionSparesResults
  <2>4. CASE AdmitRefused
    BY <2>3, <2>4 DEF AdmitRefused
  <2>5. ASSUME NEW k \in Jobs, Admitted(k) PROVE j \in DOMAIN jobs'
    BY <2>3, <2>5 DEF Admitted, Insert
  <2>6. ASSUME NEW k \in Jobs, Collected(k) PROVE j \in DOMAIN jobs'
    BY <2>3, <2>6 DEF Collected
  <2>7. CASE Prune
    BY <2>3, <2>7 DEF Prune
  <2>8. ASSUME NEW C, RequestCancel(C) PROVE j \in DOMAIN jobs'
    BY <2>8 DEF RequestCancel
  <2>9. CASE Shutdown \/ \E k \in Jobs : Cancel(k)
    BY <2>8, <2>9 DEF Shutdown, Cancel
  <2>10. CASE \E k \in Jobs : \/ MarkRunning(k) \/ ReportProgress(k) \/ Succeed(k)
                              \/ Fail(k) \/ Cancelled(k) \/ DropReporter(k)
    BY <2>10 DEF MarkRunning, ReportProgress, Succeed, Fail, Cancelled, Finish, DropReporter
  <2>11. CASE UNCHANGED jobs
    BY <2>11
  <2>12. CASE \E k \in Jobs : ReportRefused(k) \/ InvokeCallback(k)
    BY <2>11, <2>12 DEF ReportRefused, InvokeCallback
  <2>13. CASE Tick \/ UNCHANGED vars
    BY <2>11, <2>13 DEF Tick, vars
  <2> QED
    BY <1>1, <2>4, <2>5, <2>6, <2>7, <2>9, <2>10, <2>12, <2>13 DEF Next
<1>2. IInv /\ [Next]_vars =>
        [\A j \in DOMAIN jobs :
          jobs[j].result =>
              \/ j \in DOMAIN jobs' /\ jobs'[j].result
              \/ j \in DOMAIN jobs' /\ jobs'[j].result_collected
              \/ jobs[j].terminal_at + TERMINAL_TTL <= now]_vars
  BY <1>1
<1> QED
  BY <1>2, Invariance, PTL DEF Spec, ResultDroppedOnlyAtTtl

-----------------------------------------------------------------------------
(* The home screen.                                                        *)

(* Every step of the home screen and its workers is a step of the registry *)
(* or leaves the registry alone.                                           *)
LEMMA StepIsRegistryStep ==
    job_id \subseteq Jobs /\ [ImportNext]_all_vars => [Next]_vars
<1> SUFFICES ASSUME job_id \subseteq Jobs, [ImportNext]_all_vars PROVE [Next]_vars
  OBVIOUS
<1>1. CASE HomeStep
  <2>1. ASSUME NEW j \in Jobs, CancelJob(j) PROVE [Next]_vars
    BY <2>1 DEF CancelJob, Next, vars
  <2>2. ASSUME NEW op \in Operations, NEW j \in Jobs, ToolchainAvailable(op, j)
        PROVE  [Next]_vars
    BY <2>2 DEF ToolchainAvailable, Next
  <2>3. ASSUME NEW op \in Operations, ToolchainAvailableRefused(op) PROVE [Next]_vars
    BY <2>3 DEF ToolchainAvailableRefused, Next
  <2>4. ASSUME NEW op \in Operations, ToolchainNeedsSetup(op) PROVE UNCHANGED vars
    BY <2>4 DEF ToolchainNeedsSetup
  <2>5. ASSUME NEW op \in Operations, NEW ok \in BOOLEAN, ImportSetupFinished(op, ok)
        PROVE  UNCHANGED vars
    BY <2>5 DEF ImportSetupFinished
  <2>6. ASSUME NEW t \in tasks, AnswerIgnored(t) PROVE UNCHANGED vars
    BY <2>6 DEF AnswerIgnored
  <2>7. ImportRecording \/ OpenPicker \/ RecentSelected \/ ImportPickerSelected
           \/ ImportPickerCancelled \/ CancelBeforeJob => UNCHANGED vars
    BY DEF ImportRecording, OpenPicker, RecentSelected, ImportPickerSelected,
           ImportPickerCancelled, CancelBeforeJob
  <2> QED
    BY <1>1, <2>1, <2>2, <2>3, <2>4, <2>5, <2>6, <2>7 DEF HomeStep
<1>2. CASE ReconcileStep
  <2>1. ASSUME NEW n, ReconcileSucceeded(n) PROVE [Next]_vars
    <3>1. PICK j \in job_id : Collected(j)
      BY <2>1 DEF ReconcileSucceeded
    <3>2. j \in Jobs
      BY <3>1
    <3> QED
      BY <3>1, <3>2 DEF Next
  <2>2. ASSUME NEW n, ReconcileExpired(n) PROVE [Next]_vars
    BY <2>2 DEF ReconcileExpired, Next
  <2>3. ASSUME NEW n, NothingToReconcile(n) \/ ReconcileEnded(n) \/ NoticeIgnored(n)
        PROVE  UNCHANGED vars
    BY <2>3 DEF NothingToReconcile, ReconcileEnded, NoticeIgnored
  <2> QED
    BY <1>2, <2>1, <2>2, <2>3 DEF ReconcileStep
<1>3. CASE WatchChanged
  BY <1>3 DEF WatchChanged
<1>4. CASE ProjectStep
  BY <1>4 DEF ProjectStep, ProjectPickerAnswered, Opened, CloseWorkspace
<1>5. CASE TimePasses
  BY <1>5 DEF TimePasses, Next
<1>6. ASSUME NEW j \in Jobs, WorkerEnds(j) \/ Progress(j) \/ CallbackRuns(j)
      PROVE  [Next]_vars
  BY <1>6 DEF WorkerEnds, Start, StartRefused, Report, Exit, Progress, CallbackRuns, Next
<1> QED
  BY <1>1, <1>2, <1>3, <1>4, <1>5, <1>6 DEF ImportNext, all_vars

-----------------------------------------------------------------------------
(* The types of what the home screen and its workers keep.                 *)
ScreenTypes ==
    /\ import_state \in {"Idle", "Picking", "ResolvingToolchain", "SettingUp",
                         "Importing"}
    /\ next_operation_id \in Operations
    /\ operation_id \in Option({op \in Operations : op < next_operation_id})
    /\ job_id \in Option(Jobs)
    /\ tasks \subseteq Task
    /\ PickRecording \in tasks => next_operation_id < MaxOperations

(* Messages are told apart by their kind and their operation.              *)
LEMMA TaskKinds ==
    ASSUME NEW op, NEW op2
    PROVE  /\ Resolve(op) # PickRecording /\ Setup(op) # PickRecording
           /\ Resolve(op) # Setup(op2)
           /\ Resolve(op) = Resolve(op2) => op = op2
           /\ Setup(op) = Setup(op2) => op = op2
<1>1. Resolve(op).kind = "ResolveImportToolchain" /\ Resolve(op).operation = op
  BY DEF Resolve
<1>2. Setup(op2).kind = "SetupImportToolchain" /\ Setup(op2).operation = op2
  BY DEF Setup
<1>3. Resolve(op2).operation = op2 /\ Setup(op).operation = op /\ Setup(op).kind = "SetupImportToolchain"
  BY DEF Resolve, Setup
<1>4. PickRecording.kind = "PickRecording"
  BY DEF PickRecording
<1> QED
  BY <1>1, <1>2, <1>3, <1>4, Zenon

(* Every handler keeps what the screen stores within its types; a dialog   *)
(* is only open while there is an operation id left to give it.            *)
LEMMA ScreenTypesStep ==
    ScreenTypes /\ [ImportNext]_all_vars => ScreenTypes'
<1> SUFFICES ASSUME ScreenTypes, [ImportNext]_all_vars PROVE ScreenTypes'
  OBVIOUS
<1> USE DEF ScreenTypes
<1>i. ASSUME FinishIdle PROVE /\ import_state' = "Idle" /\ next_operation_id' = next_operation_id
                              /\ operation_id' \in Option({op \in Operations : op < next_operation_id'})
                              /\ job_id' \in Option(Jobs)
  BY <1>i DEF FinishIdle, Option
<1>o. MaxOperations \in Nat
  BY ImportAssumption
<1>k. ASSUME NEW op \in Operations
      PROVE  /\ Resolve(op) \in Task /\ Setup(op) \in Task
             /\ Resolve(op) # PickRecording /\ Setup(op) # PickRecording
  <2>1. /\ Resolve(op) \in [kind : {"ResolveImportToolchain", "SetupImportToolchain"},
                            operation : Operations]
        /\ Setup(op) \in [kind : {"ResolveImportToolchain", "SetupImportToolchain"},
                          operation : Operations]
    BY DEF Resolve, Setup
  <2> QED
    BY <2>1, TaskKinds, Zenon DEF Task
<1>1. ASSUME ImportRecording PROVE ScreenTypes'
  <2>1. PickRecording \in [kind : {"PickRecording"}]
    BY DEF PickRecording
  <2>2. PickRecording \in Task
    BY <2>1, Zenon DEF Task
  <2> QED
    BY <1>1, <2>2 DEF ImportRecording, Option
<1>2. ASSUME ImportPickerSelected PROVE ScreenTypes'
  <2>1. next_operation_id + 1 \in Operations /\ next_operation_id < next_operation_id + 1
    BY <1>2, <1>o DEF ImportPickerSelected, Answered, Begin, Operations
  <2> QED
    BY <1>2, <1>k, <2>1 DEF ImportPickerSelected, Begin, Option
<1>3. ASSUME ImportPickerCancelled \/ CancelBeforeJob PROVE ScreenTypes'
  BY <1>3, <1>i DEF ImportPickerCancelled, CancelBeforeJob, product
<1>4. ASSUME NEW j \in Jobs, CancelJob(j) PROVE ScreenTypes'
  BY <1>4, <1>i DEF CancelJob, product
<1>5. ASSUME NEW op \in Operations, NEW j \in Jobs, ToolchainAvailable(op, j)
      PROVE  ScreenTypes'
  BY <1>5 DEF ToolchainAvailable, BindJob, Option
<1>6. ASSUME NEW op \in Operations, ToolchainAvailableRefused(op) PROVE ScreenTypes'
  BY <1>6, <1>i DEF ToolchainAvailableRefused
<1>7. ASSUME NEW op \in Operations, ToolchainNeedsSetup(op) PROVE ScreenTypes'
  BY <1>7, <1>k DEF ToolchainNeedsSetup, MarkSettingUp
<1>8. ASSUME NEW op \in Operations, NEW ok \in BOOLEAN, ImportSetupFinished(op, ok)
      PROVE  ScreenTypes'
  BY <1>8, <1>k, <1>i DEF ImportSetupFinished, coordinator
<1>9. ASSUME NEW n, ReconcileEnded(n) \/ ReconcileSucceeded(n) \/ ReconcileExpired(n)
      PROVE  ScreenTypes'
  BY <1>9, <1>i DEF ReconcileEnded, ReconcileSucceeded, ReconcileExpired, product
<1>10. ASSUME NEW t \in tasks, AnswerIgnored(t) PROVE ScreenTypes'
  BY <1>10 DEF AnswerIgnored, coordinator
<1>11. ASSUME UNCHANGED <<coordinator, tasks>> PROVE ScreenTypes'
  BY <1>11 DEF coordinator
<1>12. ASSUME \/ UNCHANGED all_vars \/ OpenPicker \/ RecentSelected \/ WatchChanged
              \/ ProjectStep \/ TimePasses
              \/ \E n \in Jobs \cup {"watch"} : NothingToReconcile(n) \/ NoticeIgnored(n)
              \/ \E j \in Jobs : WorkerEnds(j) \/ Progress(j) \/ CallbackRuns(j)
       PROVE  UNCHANGED <<coordinator, tasks>>
  BY <1>12 DEF all_vars, import_vars, product, OpenPicker, RecentSelected, WatchChanged,
               ProjectStep, ProjectPickerAnswered, Opened, CloseWorkspace, TimePasses,
               NothingToReconcile, NoticeIgnored, WorkerEnds, Start, StartRefused,
               Report, Exit, Progress, CallbackRuns, WorkerStep
<1> QED
  BY <1>1, <1>2, <1>3, <1>4, <1>5, <1>6, <1>7, <1>8, <1>9, <1>10, <1>11, <1>12, Zenon
     DEF ImportNext, HomeStep, ReconcileStep

-----------------------------------------------------------------------------
(* What the home screen waits for.  A job is bound only once nothing else  *)
(* of its operation is under way, so no answer can replace it by another.  *)
Asked(op) == {Resolve(op), Setup(op)} \cap tasks

Waits ==
    /\ job_id # {} => import_state = "Importing"
    /\ import_state \in {"Idle", "Picking"} => operation_id = {}
    /\ PickRecording \in tasks => import_state = "Picking"
    /\ \A op \in Operations : Asked(op) # {} => op < next_operation_id
    /\ \A op \in operation_id :
          Asked(op) # {} => job_id = {} /\ ~(Resolve(op) \in tasks /\ Setup(op) \in tasks)

(* Every handler keeps at most one answer pending for its operation.       *)
LEMMA WaitsStep ==
    ScreenTypes /\ Waits /\ [ImportNext]_all_vars => Waits'
<1> SUFFICES ASSUME ScreenTypes, Waits, [ImportNext]_all_vars PROVE Waits'
  OBVIOUS
<1> USE DEF Waits
<1>o. /\ operation_id \subseteq Operations /\ Operations \subseteq Nat
      /\ \A op \in operation_id : operation_id = {op} /\ op < next_operation_id
      /\ next_operation_id \in Operations
  BY ImportAssumption DEF ScreenTypes, Option, Operations
<1>k. \A op \in Operations, op2 \in Operations :
          /\ Resolve(op) # PickRecording /\ Setup(op) # PickRecording
          /\ Resolve(op) # Setup(op2)
          /\ Resolve(op) = Resolve(op2) => op = op2
          /\ Setup(op) = Setup(op2) => op = op2
  BY TaskKinds, Zenon
<1>u. ASSUME UNCHANGED <<coordinator, tasks>> PROVE Waits'
  BY <1>u DEF coordinator, Asked
<1>i. ASSUME FinishIdle, tasks' \subseteq tasks \ {PickRecording} PROVE Waits'
  BY <1>i DEF FinishIdle, Asked
<1>n. ASSUME PickRecording \in tasks => import_state = "Picking" /\ FALSE,
             FinishIdle, tasks' \subseteq tasks
      PROVE  Waits'
  BY <1>n, <1>i
<1>1. ASSUME ImportRecording PROVE Waits'
  BY <1>1, <1>k, <1>o DEF ImportRecording, Asked
<1>2. ASSUME ImportPickerSelected PROVE Waits'
  <2>1. /\ operation_id' = {next_operation_id} /\ job_id' = {}
        /\ next_operation_id' = next_operation_id + 1
        /\ tasks' = (tasks \ {PickRecording}) \cup {Resolve(next_operation_id)}
        /\ import_state' = "ResolvingToolchain"
    BY <1>2 DEF ImportPickerSelected, Begin
  <2>2. Asked(next_operation_id) = {}
    BY <1>o
  <2>3. PickRecording \notin tasks'
    BY <2>1, <1>k, <1>o
  <2>4. \A op \in Operations : Asked(op)' # {} => op = next_operation_id \/ Asked(op) # {}
    BY <2>1, <1>k, <1>o DEF Asked
  <2>5. \A op \in Operations : Asked(op)' # {} => op < next_operation_id'
    BY <2>1, <2>4, <1>o
  <2>6. Setup(next_operation_id) \notin tasks'
    BY <2>1, <2>2, <1>k, <1>o DEF Asked
  <2> QED
    BY <2>1, <2>3, <2>5, <2>6
<1>3. ASSUME ImportPickerCancelled PROVE Waits'
  BY <1>3, <1>i DEF ImportPickerCancelled
<1>4. ASSUME CancelBeforeJob PROVE Waits'
  BY <1>4, <1>i DEF CancelBeforeJob, product
<1>5. ASSUME NEW j \in Jobs, CancelJob(j) PROVE Waits'
  BY <1>5, <1>i DEF CancelJob, product
<1>6. ASSUME NEW op \in Operations, NEW j \in Jobs, ToolchainAvailable(op, j) PROVE Waits'
  <2>1. /\ op \in operation_id /\ Resolve(op) \in tasks
        /\ job_id' = {j} /\ import_state' = "Importing"
        /\ operation_id' = operation_id /\ next_operation_id' = next_operation_id
        /\ tasks' = tasks \ {Resolve(op)}
    BY <1>6 DEF ToolchainAvailable, Answered, BindJob
  <2>2. operation_id = {op} /\ Setup(op) \notin tasks /\ PickRecording \notin tasks
    BY <2>1, <1>o DEF Asked
  <2>3. Asked(op)' = {}
    BY <2>1, <2>2, <1>k DEF Asked
  <2>4. \A o \in Operations : Asked(o)' \subseteq Asked(o)
    BY <2>1 DEF Asked
  <2> QED
    BY <2>1, <2>2, <2>3, <2>4, <1>o
<1>7. ASSUME NEW op \in Operations, ToolchainAvailableRefused(op) PROVE Waits'
  BY <1>7, <1>i DEF ToolchainAvailableRefused, Answered
<1>8. ASSUME NEW op \in Operations, ToolchainNeedsSetup(op) PROVE Waits'
  <2>1. /\ op \in operation_id /\ Resolve(op) \in tasks
        /\ UNCHANGED <<job_id, operation_id, next_operation_id>>
        /\ import_state' = "SettingUp"
        /\ tasks' = (tasks \ {Resolve(op)}) \cup {Setup(op)}
    BY <1>8 DEF ToolchainNeedsSetup, Answered, MarkSettingUp
  <2>2. /\ operation_id = {op} /\ PickRecording \notin tasks /\ job_id = {}
        /\ op < next_operation_id
    BY <2>1, <1>o DEF Asked
  <2>3. Resolve(op) \notin tasks' /\ PickRecording \notin tasks'
    BY <2>1, <2>2, <1>k
  <2>4. \A o \in Operations : Asked(o)' # {} => o = op \/ Asked(o) # {}
    BY <2>1, <1>k DEF Asked
  <2> QED
    BY <2>1, <2>2, <2>3, <2>4
<1>9. ASSUME NEW op \in Operations, NEW ok \in BOOLEAN, ImportSetupFinished(op, ok)
      PROVE  Waits'
  <2>1. op \in operation_id /\ Setup(op) \in tasks
    BY <1>9 DEF ImportSetupFinished, Answered
  <2>2. /\ operation_id = {op} /\ PickRecording \notin tasks /\ job_id = {}
        /\ op < next_operation_id
    BY <2>1, <1>o DEF Asked
  <2>3. CASE ~ok
    BY <1>9, <2>2, <2>3, <1>i DEF ImportSetupFinished
  <2>4. CASE ok
    <3>1. /\ UNCHANGED <<job_id, operation_id, next_operation_id, import_state>>
          /\ tasks' = (tasks \ {Setup(op)}) \cup {Resolve(op)}
      BY <1>9, <2>4 DEF ImportSetupFinished, coordinator
    <3>2. Setup(op) \notin tasks' /\ PickRecording \notin tasks'
      BY <3>1, <2>2, <1>k
    <3>3. \A o \in Operations : Asked(o)' # {} => o = op \/ Asked(o) # {}
      BY <3>1, <1>k DEF Asked
    <3> QED
      BY <3>1, <3>2, <3>3, <2>2
  <2> QED
    BY <2>3, <2>4
<1>10. ASSUME NEW t \in tasks, AnswerIgnored(t) PROVE Waits'
  BY <1>10 DEF AnswerIgnored, coordinator, Asked
<1>11. ASSUME NEW n, ReconcileEnded(n) \/ ReconcileSucceeded(n) \/ ReconcileExpired(n)
       PROVE  Waits'
  <2>1. job_id # {} /\ FinishIdle /\ tasks' = tasks
    BY <1>11 DEF ReconcileEnded, ReconcileSucceeded, ReconcileExpired, product
  <2>2. PickRecording \notin tasks
    BY <2>1
  <2> QED
    BY <2>1, <2>2, <1>i
<1>12. ASSUME \/ UNCHANGED all_vars \/ OpenPicker \/ RecentSelected \/ WatchChanged
              \/ ProjectStep \/ TimePasses
              \/ \E n \in Jobs \cup {"watch"} : NothingToReconcile(n) \/ NoticeIgnored(n)
              \/ \E j \in Jobs : WorkerEnds(j) \/ Progress(j) \/ CallbackRuns(j)
       PROVE  UNCHANGED <<coordinator, tasks>>
  BY <1>12 DEF all_vars, import_vars, product, OpenPicker, RecentSelected, WatchChanged,
               ProjectStep, ProjectPickerAnswered, Opened, CloseWorkspace, TimePasses,
               NothingToReconcile, NoticeIgnored, WorkerEnds, Start, StartRefused,
               Report, Exit, Progress, CallbackRuns, WorkerStep
<1> QED
  BY <1>1, <1>2, <1>3, <1>4, <1>5, <1>6, <1>7, <1>8, <1>9, <1>10, <1>11, <1>12, <1>u, Zenon
     DEF ImportNext, HomeStep, ReconcileStep

-----------------------------------------------------------------------------
(* Cancelling is left only for an end: no report, pruning or second        *)
(* request brings a cancelled job back to work.                            *)
StaysCancelling ==
    \A k \in DOMAIN jobs \cap DOMAIN jobs' :
        jobs[k].state = "Cancelling" => jobs'[k].state \in {"Cancelling"} \cup TerminalStates

(* Every operation of the registry leaves a cancelling job cancelling or   *)
(* ended.                                                                  *)
LEMMA CancellingStays ==
    ASSUME TypeOK, PerJob, [Next]_vars PROVE StaysCancelling
<1>r. \A j \in DOMAIN jobs : jobs[j] \in JobRecord
  BY DEF TypeOK
<1>p. ASSUME NEW mr \in BOOLEAN, NEW p \in PruneTerminals(now, mr), NEW k \in DOMAIN p.jobs
      PROVE  k \in DOMAIN jobs /\ p.jobs[k].state = jobs[k].state
  BY <1>p, PruneKeeps, Zenon
<1>j. ASSUME NEW j \in Jobs, NEW r, jobs' = [jobs EXCEPT ![j] = r],
             jobs[j].state = "Cancelling" => r.state \in {"Cancelling"} \cup TerminalStates
      PROVE  StaysCancelling
  BY <1>j DEF StaysCancelling
<1>u. ASSUME UNCHANGED jobs PROVE StaysCancelling
  BY <1>u DEF StaysCancelling
<1>1. ASSUME NEW j \in Jobs, Admitted(j) PROVE StaysCancelling
  <2>1. PICK p \in PruneTerminals(now, TRUE) : jobs' = Insert(p.jobs, j, NewRecord(now))
    BY <1>1 DEF Admitted
  <2>2. j \notin DOMAIN jobs
    BY <1>1 DEF Admitted, PerJob, IdsFresh
  <2>3. \A k \in DOMAIN p.jobs : p.jobs[k].state = jobs[k].state
    BY <1>p, Zenon
  <2> QED
    BY <2>1, <2>2, <2>3 DEF StaysCancelling, Insert
<1>2. ASSUME NEW mr \in BOOLEAN, NEW p \in PruneTerminals(now, mr), jobs' = p.jobs
      PROVE  StaysCancelling
  BY <1>2, <1>p DEF StaysCancelling
<1>3. ASSUME NEW C \in SUBSET Cancellable, RequestCancel(C) PROVE StaysCancelling
  BY <1>3, <1>r DEF RequestCancel, Cancellable, StaysCancelling, JobRecord
<1>4. ASSUME NEW j \in Jobs, Collected(j) PROVE StaysCancelling
  <2>1. PICK p \in PruneTerminals(now, FALSE) :
            /\ j \in DOMAIN p.jobs /\ p.jobs[j].state = "Succeeded"
            /\ jobs' = [p.jobs EXCEPT ![j] = [@ EXCEPT !.result = FALSE,
                                                       !.result_collected = TRUE]]
    BY <1>4 DEF Collected
  <2>2. \A k \in DOMAIN p.jobs : p.jobs[k].state = jobs[k].state
    BY <1>p, Zenon
  <2> QED
    BY <2>1, <2>2 DEF StaysCancelling
<1>5. ASSUME NEW j \in Jobs, MarkRunning(j) PROVE StaysCancelling
  BY <1>5, <1>j DEF MarkRunning
<1>6. ASSUME NEW j \in Jobs, ReportProgress(j) PROVE StaysCancelling
  <2>1. PICK t \in ReadTimes : jobs' = [jobs EXCEPT ![j] = [@ EXCEPT !.updated_at = t]]
    BY <1>6 DEF ReportProgress
  <2>2. j \in DOMAIN jobs
    BY <1>6 DEF ReportProgress, Active
  <2>3. [jobs[j] EXCEPT !.updated_at = t].state = jobs[j].state
    BY <1>r, <2>2 DEF JobRecord
  <2> QED
    BY <2>1, <2>2, <2>3, <1>j
<1>7. ASSUME NEW j \in Jobs, Reports(j), NEW s \in TerminalStates, NEW b, NEW t, Finish(j, s, b, t)
      PROVE  StaysCancelling
  <2>1. j \in DOMAIN jobs
    BY <1>7 DEF Reports, Active
  <2>2. [jobs[j] EXCEPT !.state = s, !.result = b,
                        !.terminal_at = t, !.updated_at = t].state = s
    BY <1>r, <2>1 DEF JobRecord
  <2> QED
    BY <1>7, <2>1, <2>2, <1>j DEF Finish
<1>8. ASSUME NEW j \in Jobs, Succeed(j) \/ Fail(j) \/ Cancelled(j) PROVE StaysCancelling
  BY <1>8, <1>7 DEF Succeed, Fail, Cancelled, TerminalStates
<1>9. ASSUME NEW j \in Jobs, DropReporter(j) PROVE StaysCancelling
  <2>1. CASE ~terminal_reported[j] /\ j \in Active(jobs)
    <3> DEFINE r == [jobs[j] EXCEPT !.state = IF jobs[j].state = "Cancelling"
                                              THEN "Cancelled" ELSE "Failed",
                                    !.terminal_at = jobs[j].updated_at]
    <3>1. j \in DOMAIN jobs
      BY <2>1 DEF Active
    <3>2. r.state \in TerminalStates
      BY <1>r, <3>1 DEF JobRecord, TerminalStates
    <3>3. jobs' = [jobs EXCEPT ![j] = r]
      BY <1>9, <2>1, <3>1 DEF DropReporter
    <3> HIDE DEF r
    <3> QED
      BY <3>2, <3>3, <1>j
  <2> QED
    BY <1>9, <2>1, <1>u DEF DropReporter
<1>10. CASE AdmitRefused \/ Prune
  BY <1>10, <1>2 DEF AdmitRefused, Prune
<1>11. CASE Shutdown
  BY <1>11, <1>3 DEF Shutdown
<1>12. ASSUME NEW j \in Jobs, Cancel(j) PROVE StaysCancelling
  BY <1>12, <1>3 DEF Cancel
<1>13. ASSUME NEW j \in Jobs, ReportRefused(j) \/ InvokeCallback(j) PROVE StaysCancelling
  BY <1>13, <1>u DEF ReportRefused, InvokeCallback
<1>14. CASE Tick \/ UNCHANGED vars
  BY <1>14, <1>u DEF Tick, vars
<1> QED
  BY <1>1, <1>4, <1>5, <1>6, <1>8, <1>9, <1>10, <1>11, <1>12, <1>13, <1>14 DEF Next

-----------------------------------------------------------------------------
(* A step that hands out no reporter admits nothing: what is active or     *)
(* reserved after it was so before, and a job on its way out stays so.     *)
Recedes ==
    /\ Reserved(jobs') \subseteq Reserved(jobs)
    /\ \A k \in Active(jobs') :
          k \in Active(jobs) /\ (jobs[k].state = "Cancelling" => jobs'[k].state = "Cancelling")

(* The step of every operation but admit recedes.                          *)
LEMMA NothingAdmitted ==
    ASSUME TypeOK, PerJob, [Next]_vars,
           \A k \in Jobs : reporter'[k] = "held" => reporter[k] = "held"
    PROVE  Recedes
<1>1. \A k \in Jobs : ~Admitted(k)
  BY DEF Admitted, TypeOK
<1>2. Shrinks
  BY <1>1, TableLemma
<1>3. Reserved(jobs') \subseteq Reserved(jobs) /\ Active(jobs') \subseteq Active(jobs)
  BY <1>2 DEF Shrinks, TableStep, TerminalKept, Active, Reserved
<1>4. StaysCancelling
  BY CancellingStays
<1>5. ASSUME NEW k \in Active(jobs'), jobs[k].state = "Cancelling"
      PROVE  jobs'[k].state = "Cancelling"
  BY <1>3, <1>4, <1>5 DEF Active, StaysCancelling, ActiveStates, TerminalStates
<1> QED
  BY <1>3, <1>5 DEF Recedes

(* A reporter, once handed out, is never forgotten.                        *)
LEMMA ReporterStep ==
    ASSUME TypeOK, [Next]_vars, NEW k \in Jobs, reporter'[k] = "none"
    PROVE  reporter[k] = "none"
<1>1. ASSUME NEW j \in Jobs, Admitted(j) PROVE reporter[k] = "none"
  BY <1>1 DEF Admitted, TypeOK
<1>2. ASSUME NEW j \in Jobs, DropReporter(j) PROVE reporter[k] = "none"
  BY <1>2 DEF DropReporter, TypeOK
<1>3. CASE UNCHANGED reporter
  BY <1>3
<1> QED
  BY <1>1, <1>2, <1>3
     DEF Next, vars, AdmitRefused, Shutdown, Prune, Tick, Cancel, InvokeCallback, Collected,
         MarkRunning, ReportProgress, Succeed, Fail, Cancelled, Reports, ReportRefused,
         ReporterUnchanged

-----------------------------------------------------------------------------
(* What the screen may claim of the jobs: beside the two properties, a     *)
(* bound job is neither cancelled nor opened yet, and whatever the screen  *)
(* has ever known was admitted.                                            *)
Claims ==
    /\ ReservedIsBoundOrCancelled
    /\ CancelledNeverOpens
    /\ job_id \cap (abandoned \cup opened) = {}
    /\ \A j \in Jobs : reporter[j] = "none" => j \notin job_id \cup abandoned \cup opened

(* The home screen's step on the claims: nothing is admitted unless no job *)
(* is bound, and a bound job is let go of only when it no longer holds a   *)
(* slot or is being cancelled.                                             *)
LEMMA ClaimsStep ==
    IInv /\ ScreenTypes /\ Waits /\ Claims /\ [ImportNext]_all_vars => Claims'
<1> SUFFICES ASSUME IInv, ScreenTypes, Waits, Claims, [ImportNext]_all_vars PROVE Claims'
  OBVIOUS
<1>i. TypeOK /\ PerJob
  BY DEF IInv
<1>b. job_id \subseteq Jobs /\ \A j \in job_id : job_id = {j}
  BY DEF ScreenTypes, Option
<1>v. [Next]_vars
  BY <1>b, StepIsRegistryStep
<1>n. \A k \in Jobs : reporter'[k] = "none" => reporter[k] = "none"
  BY <1>i, <1>v, ReporterStep
<1>r. ASSUME \A k \in Jobs : reporter'[k] = "held" => reporter[k] = "held" PROVE Recedes
  BY <1>i, <1>v, <1>r, NothingAdmitted
<1>g. ASSUME Recedes, job_id' \subseteq job_id,
             abandoned \subseteq abandoned', opened \subseteq opened',
             abandoned' \cup opened' \subseteq abandoned \cup opened \cup job_id,
             opened' \cap abandoned' = {}, job_id' \cap (abandoned' \cup opened') = {},
             \A k \in (job_id \ job_id') \cap Reserved(jobs') :
                 k \in abandoned' /\ (k \in Active(jobs') => jobs'[k].state = "Cancelling")
      PROVE  Claims'
  <2>1. ReservedIsBoundOrCancelled'
    BY <1>g DEF Recedes, Claims, ReservedIsBoundOrCancelled, Reserved, Active
  <2> QED
    BY <1>g, <1>n, <2>1 DEF Claims, CancelledNeverOpens
<1>s. ASSUME Recedes, job_id' = job_id, UNCHANGED history PROVE Claims'
  BY <1>s, <1>g DEF history, Claims, CancelledNeverOpens
<1>u. ASSUME UNCHANGED <<vars, job_id, history>> PROVE Claims'
  BY <1>u, <1>r, <1>s DEF vars
<1>1. ASSUME NEW op \in Operations, NEW j \in Jobs, ToolchainAvailable(op, j) PROVE Claims'
  <2>1. /\ op \in operation_id /\ Resolve(op) \in tasks /\ Admitted(j)
        /\ job_id' = {j} /\ UNCHANGED history
    BY <1>1 DEF ToolchainAvailable, Answered, BindJob
  <2>2. job_id = {}
    BY <2>1 DEF Waits, Asked
  <2>3. PICK p \in PruneTerminals(now, TRUE) : jobs' = Insert(p.jobs, j, NewRecord(now))
    BY <2>1 DEF Admitted
  <2>4. \A k \in DOMAIN p.jobs :
            /\ k \in DOMAIN jobs
            /\ p.jobs[k] = IF k \in TtlReached(jobs, now) THEN Expired(jobs[k]) ELSE jobs[k]
    BY <1>i, PruneLemma DEF TypeOK
  <2>5. ASSUME NEW k \in DOMAIN p.jobs
        PROVE  p.jobs[k].state = jobs[k].state /\ (p.jobs[k].result => jobs[k].result)
    BY <1>i, <2>4 DEF TypeOK, JobRecord, Expired, TtlReached
  <2>6. ASSUME NEW k \in Reserved(jobs') \ {j}
        PROVE  /\ k \in Reserved(jobs)
               /\ k \in Active(jobs') => k \in Active(jobs) /\ jobs'[k].state = jobs[k].state
    BY <2>3, <2>4, <2>5 DEF Insert, Reserved, Active
  <2>7. ReservedIsBoundOrCancelled'
    BY <2>1, <2>2, <2>6 DEF Claims, ReservedIsBoundOrCancelled, history
  <2>8. j \notin abandoned \cup opened /\ reporter'[j] = "held"
    BY <1>i, <2>1 DEF Admitted, Claims, TypeOK
  <2> QED
    BY <1>n, <2>1, <2>7, <2>8 DEF Claims, CancelledNeverOpens, history
<1>2. ASSUME NEW j \in Jobs, CancelJob(j) PROVE Claims'
  <2>1. /\ j \in job_id /\ job_id' = {} /\ abandoned' = abandoned \cup {j}
        /\ UNCHANGED <<opened, reporter>>
    BY <1>2 DEF CancelJob, FinishIdle, Cancel, vars
  <2>2. Recedes /\ job_id = {j}
    BY <1>b, <1>r, <2>1
  <2>3. j \in Active(jobs') => jobs'[j].state = "Cancelling"
    <3>1. CASE Cancel(j)
      BY <3>1, <1>i DEF Cancel, RequestCancel, Cancellable, TypeOK, JobRecord
    <3>2. CASE j \notin Cancellable /\ UNCHANGED vars
      BY <3>2 DEF Cancellable, Active, ActiveStates, vars
    <3> QED
      BY <1>2, <3>1, <3>2 DEF CancelJob
  <2> QED
    BY <1>g, <2>1, <2>2, <2>3 DEF Claims, CancelledNeverOpens
<1>3. ASSUME NEW op \in Operations, ToolchainAvailableRefused(op) PROVE Claims'
  <2>1. /\ op \in operation_id /\ Resolve(op) \in tasks
        /\ job_id' = {} /\ UNCHANGED <<history, reporter>>
    BY <1>3 DEF ToolchainAvailableRefused, Answered, FinishIdle, AdmitRefused
  <2>2. job_id = {}
    BY <2>1 DEF Waits, Asked
  <2> QED
    BY <1>r, <1>s, <2>1, <2>2
<1>4. ASSUME NEW op \in Operations, ToolchainNeedsSetup(op) PROVE Claims'
  BY <1>4, <1>u DEF ToolchainNeedsSetup, MarkSettingUp
<1>5. ASSUME NEW op \in Operations, NEW ok \in BOOLEAN, ImportSetupFinished(op, ok)
      PROVE  Claims'
  <2>1. op \in operation_id /\ Setup(op) \in tasks /\ UNCHANGED <<vars, history>>
    BY <1>5 DEF ImportSetupFinished, Answered
  <2>2. job_id = {}
    BY <2>1 DEF Waits, Asked
  <2> QED
    BY <1>5, <1>u, <2>1, <2>2 DEF ImportSetupFinished, FinishIdle, coordinator
<1>6. ASSUME \/ ImportRecording \/ ImportPickerSelected \/ ImportPickerCancelled
             \/ CancelBeforeJob
      PROVE  Claims'
  <2>1. UNCHANGED <<vars, history>>
    BY <1>6 DEF ImportRecording, ImportPickerSelected, ImportPickerCancelled, CancelBeforeJob
  <2>2. (job_id = {} /\ job_id' = {}) \/ job_id' = job_id
    BY <1>6 DEF ImportRecording, ImportPickerSelected, ImportPickerCancelled, CancelBeforeJob,
                Answered, FinishIdle, Begin, Waits
  <2> QED
    BY <1>u, <2>1, <2>2
<1>7. ASSUME NEW n, ReconcileEnded(n) PROVE Claims'
  <2>1. PICK j \in job_id : j \in DOMAIN jobs => jobs[j].state \in {"Failed", "Cancelled"}
    BY <1>7 DEF ReconcileEnded
  <2>2. job_id = {j} /\ job_id' = {} /\ UNCHANGED <<vars, history>>
    BY <1>b, <1>7 DEF ReconcileEnded, FinishIdle
  <2>3. j \notin Reserved(jobs)
    BY <1>i, <2>1 DEF Reserved, ActiveStates, PerJob, RecordsConsistent, RecordConsistent
  <2>4. Recedes
    BY <1>r, <2>2 DEF vars
  <2> QED
    BY <1>g, <2>2, <2>3, <2>4 DEF history, Claims, CancelledNeverOpens, vars
<1>8. ASSUME NEW n, ReconcileSucceeded(n) PROVE Claims'
  <2>1. PICK j \in job_id : Collected(j) /\ opened' = opened \cup {j}
    BY <1>8 DEF ReconcileSucceeded
  <2>2. job_id = {j} /\ job_id' = {} /\ UNCHANGED <<abandoned, reporter>>
    BY <1>b, <1>8, <2>1 DEF ReconcileSucceeded, FinishIdle, Collected
  <2>3. PICK p \in PruneTerminals(now, FALSE) :
            /\ j \in DOMAIN p.jobs /\ p.jobs[j].state = "Succeeded"
            /\ jobs' = [p.jobs EXCEPT ![j] = [@ EXCEPT !.result = FALSE,
                                                       !.result_collected = TRUE]]
    BY <2>1 DEF Collected
  <2>4. p.jobs[j] \in JobRecord
    <3>1. now \in Nat
      BY <1>i DEF TypeOK
    <3>2. p.jobs \in [DOMAIN p.jobs -> JobRecord]
      BY <1>i, <3>1, PruneLemma
    <3> QED
      BY <2>3, <3>2
  <2>5. j \notin Reserved(jobs')
    BY <2>3, <2>4 DEF Reserved, ActiveStates, JobRecord
  <2>6. Recedes
    BY <1>r, <2>2
  <2> QED
    BY <1>g, <2>1, <2>2, <2>5, <2>6 DEF Claims, CancelledNeverOpens
<1>9. ASSUME NEW n, ReconcileExpired(n) PROVE Claims'
  <2>1. PICK j \in job_id \cap DOMAIN jobs : jobs[j].state = "Succeeded"
    BY <1>9 DEF ReconcileExpired
  <2>2. /\ job_id = {j} /\ job_id' = {} /\ UNCHANGED <<history, reporter>>
        /\ j \in DOMAIN jobs' => ~jobs'[j].result
    BY <1>b, <1>9, <2>1 DEF ReconcileExpired, FinishIdle, Prune
  <2>3. PICK p \in PruneTerminals(now, FALSE) : jobs' = p.jobs
    BY <1>9 DEF ReconcileExpired, Prune
  <2>4. j \in DOMAIN p.jobs => p.jobs[j].state = jobs[j].state
    BY <1>i, <2>3, PruneKeeps
  <2>5. j \notin Reserved(jobs')
    BY <2>1, <2>2, <2>3, <2>4 DEF Reserved, ActiveStates
  <2>6. Recedes
    BY <1>r, <2>2
  <2> QED
    BY <1>g, <2>2, <2>5, <2>6 DEF history, Claims, CancelledNeverOpens
<1>10. ASSUME NEW j \in Jobs, WorkerEnds(j) \/ Progress(j) \/ CallbackRuns(j) PROVE Claims'
  <2>1. job_id' = job_id /\ UNCHANGED history
    BY <1>10 DEF WorkerEnds, Start, StartRefused, Report, Exit, Progress, WorkerStep,
                 CallbackRuns, import_vars, coordinator
  <2>2. \/ UNCHANGED reporter
        \/ reporter' = [reporter EXCEPT ![j] = "dropped"]
    BY <1>10 DEF WorkerEnds, Start, StartRefused, Report, Exit, Progress, CallbackRuns, vars,
                 MarkRunning, ReportProgress, Succeed, Fail, Cancelled, Reports,
                 ReporterUnchanged, DropReporter, InvokeCallback
  <2>3. Recedes
    BY <1>i, <1>r, <2>2 DEF TypeOK
  <2> QED
    BY <1>s, <2>1, <2>3
<1>11. ASSUME \/ UNCHANGED all_vars \/ OpenPicker \/ RecentSelected \/ WatchChanged
              \/ ProjectStep \/ \E t \in tasks : AnswerIgnored(t)
              \/ \E n \in Jobs \cup {"watch"} : NothingToReconcile(n) \/ NoticeIgnored(n)
       PROVE  UNCHANGED <<vars, job_id, history>>
  BY <1>11 DEF all_vars, import_vars, coordinator, OpenPicker, RecentSelected, WatchChanged,
               ProjectStep, ProjectPickerAnswered, Opened, CloseWorkspace, AnswerIgnored,
               NothingToReconcile, NoticeIgnored
<1>12. ASSUME TimePasses PROVE Claims'
  <2>1. job_id' = job_id /\ UNCHANGED <<history, reporter>>
    BY <1>12 DEF TimePasses, Tick, import_vars, coordinator
  <2> QED
    BY <1>r, <1>s, <2>1
<1> QED
  BY <1>1, <1>2, <1>3, <1>4, <1>5, <1>6, <1>7, <1>8, <1>9, <1>10, <1>11, <1>12, <1>u, Zenon
     DEF ImportNext, HomeStep, ReconcileStep

-----------------------------------------------------------------------------
(* The inductive invariant of the composition.                             *)
HomeInv == IInv /\ ScreenTypes /\ Waits /\ Claims

(* It holds in every reachable state of the product.                      *)
LEMMA HomeInvariance == ImportSpec => []HomeInv
<1>1. ImportInit => HomeInv
  <2> SUFFICES ASSUME ImportInit PROVE HomeInv
    OBVIOUS
  <2>1. IInv
    BY InitIInv DEF ImportInit
  <2>2. ScreenTypes
    BY ImportAssumption DEF ImportInit, ScreenTypes, Operations, Option
  <2>3. Waits
    BY DEF ImportInit, Waits, Asked
  <2>4. Reserved(jobs) = {}
    BY DEF ImportInit, Init, Reserved
  <2>5. Claims
    BY <2>4 DEF ImportInit, Claims, ReservedIsBoundOrCancelled, CancelledNeverOpens
  <2> QED
    BY <2>1, <2>2, <2>3, <2>5 DEF HomeInv
<1>2. HomeInv /\ [ImportNext]_all_vars => HomeInv'
  <2> SUFFICES ASSUME HomeInv, [ImportNext]_all_vars PROVE HomeInv'
    OBVIOUS
  <2>1. job_id \subseteq Jobs
    BY DEF HomeInv, ScreenTypes, Option
  <2>2. IInv'
    BY <2>1, StepIsRegistryStep, IInvStep DEF HomeInv
  <2> QED
    BY <2>2, ScreenTypesStep, WaitsStep, ClaimsStep DEF HomeInv
<1> QED
  BY <1>1, <1>2, PTL DEF ImportSpec

(* The product uses the registry as the registry is meant to be used: every *)
(* behaviour of the composition is one of the registry, so all that is     *)
(* proved of the registry holds for the product.                           *)
THEOREM ImportImplementsRegistry == ImportSpec => Spec
<1>1. ImportInit => Init
  BY DEF ImportInit
<1>2. HomeInv /\ [ImportNext]_all_vars => [Next]_vars
  <2>1. HomeInv => job_id \subseteq Jobs
    BY DEF HomeInv, ScreenTypes, Option
  <2> QED
    BY <2>1, StepIsRegistryStep
<1> QED
  BY <1>1, <1>2, HomeInvariance, PTL DEF ImportSpec, Spec

(* Every slot taken belongs to the import on the screen or to one the user *)
(* cancelled, which is on its way out, for any number of jobs, operations  *)
(* and open dialogs.                                                       *)
THEOREM NoImportBehindTheUser == ImportSpec => []ReservedIsBoundOrCancelled
<1>1. HomeInv => ReservedIsBoundOrCancelled
  BY DEF HomeInv, Claims
<1> QED
  BY <1>1, HomeInvariance, PTL

(* A cancelled import never opens as a timeline.                           *)
THEOREM CancelledImportNeverOpens == ImportSpec => []CancelledNeverOpens
<1>1. HomeInv => CancelledNeverOpens
  BY DEF HomeInv, Claims
<1> QED
  BY <1>1, HomeInvariance, PTL

-----------------------------------------------------------------------------
(* The preflight of a recording, for any number of tasks and preflights.   *)

(* The tasks in flight never exceed their bound: a finished download only  *)
(* becomes a resolution.                                                   *)
Counts ==
    /\ resolving \in Nat /\ downloading \in Nat
    /\ resolving + downloading <= MaxTasks
    /\ preflights \in 0..MaxPreflights

(* At most one preflight is open, and it is the last one opened.           *)
OneOpen == preflight = {} \/ \E p \in Preflight : preflight = {p} /\ p.id = preflights

Recorded ==
    /\ started \subseteq [preflight : Preflight, motion : BOOLEAN]
    /\ consented \subseteq 1..preflights

(* No task and no preflight past its first phase without a consent.        *)
Consented ==
    (resolving > 0 \/ downloading > 0 \/ \E p \in preflight : p.phase # "Confirm")
        => consented # {}

PreflightInv == Counts /\ OneOpen /\ Recorded /\ Consented /\ MotionFollowsConsent

(* The strengthened invariant implies the type invariant.                  *)
LEMMA PreflightInvTypes == PreflightInv => PreflightTypeOK
<1> SUFFICES ASSUME PreflightInv PROVE PreflightTypeOK
  OBVIOUS
<1>1. preflight \subseteq Preflight /\ Cardinality(preflight) <= 1
  <2>1. CASE preflight = {}
    <3>1. Cardinality(preflight) = 0
      BY <2>1, FS_EmptySet
    <3> QED BY <2>1, <3>1
  <2>2. ASSUME NEW p \in Preflight, preflight = {p} PROVE preflight \subseteq Preflight /\ Cardinality(preflight) <= 1
    <3>1. Cardinality({p}) = 1
      BY FS_Singleton
    <3> QED BY <2>2, <3>1
  <2> QED BY <2>1, <2>2 DEF PreflightInv, OneOpen
<1>2. resolving \in 0..MaxTasks /\ downloading \in 0..MaxTasks /\ preflights \in 0..MaxPreflights
  BY PreflightAssumption DEF PreflightInv, Counts
<1>3. consented \subseteq 1..MaxPreflights
  BY PreflightAssumption DEF PreflightInv, Counts, Recorded
<1> QED BY <1>1, <1>2, <1>3 DEF PreflightTypeOK, PreflightInv, Recorded

LEMMA PreflightInitInv == PreflightInit => PreflightInv
  BY PreflightAssumption
  DEF PreflightInit, PreflightInv, Counts, OneOpen, Recorded, Consented, MotionFollowsConsent

(* A recording that keeps motion starts only when a task is in flight, and *)
(* a task only after a consent, to a preflight that is not later.          *)
LEMMA StartKeeps ==
  ASSUME PreflightInv, NEW p \in preflight, NEW motion \in BOOLEAN,
         motion => consented # {},
         StartRecording(p, motion), UNCHANGED <<preflights, consented>>
  PROVE  OneOpen' /\ Recorded' /\ MotionFollowsConsent'
<1>1. p \in Preflight /\ p.id = preflights
  BY DEF PreflightInv, OneOpen
<1>2. OneOpen'
  BY DEF StartRecording, OneOpen
<1>3. Recorded'
  BY <1>1 DEF StartRecording, Recorded, PreflightInv
<1>4. \A id \in consented : id <= p.id
  BY <1>1, PreflightAssumption DEF PreflightInv, Recorded, Counts
<1>5. ASSUME motion PROVE \E id \in consented : id <= p.id
  BY <1>4, <1>5
<1>6. MotionFollowsConsent'
  BY <1>5 DEF StartRecording, MotionFollowsConsent, PreflightInv
<1> QED BY <1>2, <1>3, <1>6

(* Showing the open preflight in another phase, or with another choice.    *)
LEMMA ShowKeeps ==
  ASSUME PreflightInv, NEW p \in preflight, NEW q \in Preflight, q.id = p.id,
         Show(q), preflights' = preflights,
         consented' \subseteq 1..preflights, consented \subseteq consented'
  PROVE  OneOpen' /\ Recorded' /\ MotionFollowsConsent'
<1>1. p.id = preflights
  BY DEF PreflightInv, OneOpen
<1>2. OneOpen'
  BY <1>1 DEF Show, OneOpen
<1>3. Recorded'
  BY DEF Show, Recorded, PreflightInv
<1>4. MotionFollowsConsent'
  BY DEF Show, MotionFollowsConsent, PreflightInv
<1> QED BY <1>2, <1>3, <1>4

LEMMA PreflightNextInv == PreflightInv /\ [PreflightNext]_preflight_vars => PreflightInv'
<1> SUFFICES ASSUME PreflightInv, [PreflightNext]_preflight_vars PROVE PreflightInv'
  OBVIOUS
<1> USE PreflightAssumption
<1>0. /\ \A p \in preflight : p \in Preflight /\ p.id = preflights
      /\ resolving \in Nat /\ downloading \in Nat
      /\ resolving + downloading <= MaxTasks
      /\ preflights \in 0..MaxPreflights /\ consented \subseteq 1..preflights
  BY DEF PreflightInv, OneOpen, Counts, Recorded
<1>1. CASE RecordNew
  <2> DEFINE q == [id |-> preflights + 1, keep_motion |-> FALSE, phase |-> "Confirm"]
  <2>1. q \in Preflight /\ q.id = preflights + 1 /\ q.phase = "Confirm"
    BY <1>1, <1>0 DEF RecordNew, Preflight
  <2>2. preflight' = {q} /\ preflights' = preflights + 1 /\ started' = started
        /\ UNCHANGED <<resolving, downloading, consented>>
    BY <1>1 DEF RecordNew, Show
  <2> HIDE DEF q
  <2>3. Counts'
    BY <1>1, <1>0, <2>2 DEF Counts, RecordNew
  <2>4. OneOpen'
    BY <2>1, <2>2 DEF OneOpen
  <2>5. Recorded'
    BY <1>0, <2>2 DEF Recorded, PreflightInv
  <2>6. Consented'
    BY <2>1, <2>2 DEF Consented, PreflightInv
  <2>7. MotionFollowsConsent'
    BY <2>2 DEF MotionFollowsConsent, PreflightInv
  <2> QED BY <2>3, <2>4, <2>5, <2>6, <2>7 DEF PreflightInv
<1>2. CASE CancelRecordPreflight
  BY <1>2 DEF CancelRecordPreflight, PreflightInv, Counts, OneOpen, Recorded, Consented, MotionFollowsConsent
<1>3. CASE AnswerWithoutPreflight
  <2>1. Counts'
    BY <1>3, <1>0 DEF AnswerWithoutPreflight, Counts
  <2>2. Consented'
    BY <1>3, <1>0 DEF AnswerWithoutPreflight, Consented, PreflightInv
  <2>3. OneOpen' /\ Recorded' /\ MotionFollowsConsent'
    BY <1>3 DEF AnswerWithoutPreflight, PreflightInv, OneOpen, Recorded, MotionFollowsConsent
  <2> QED BY <2>1, <2>2, <2>3 DEF PreflightInv
<1>4. ASSUME NEW p \in preflight, ToggleMotion(p) PROVE PreflightInv'
  <2> DEFINE q == [p EXCEPT !.keep_motion = ~p.keep_motion]
  <2>1. q \in Preflight /\ q.id = p.id /\ q.phase = p.phase
    BY <1>0 DEF Preflight
  <2>2. Show(q) /\ UNCHANGED <<resolving, downloading, preflights, consented>>
    BY <1>4 DEF ToggleMotion
  <2> HIDE DEF q
  <2>3. OneOpen' /\ Recorded' /\ MotionFollowsConsent'
    BY <1>0, <2>1, <2>2, ShowKeeps
  <2>4. Counts'
    BY <2>2 DEF Counts, PreflightInv
  <2>5. Consented'
    BY <2>1, <2>2 DEF Consented, PreflightInv, Show
  <2> QED BY <2>3, <2>4, <2>5 DEF PreflightInv
<1>5. ASSUME NEW p \in preflight, ConfirmRecordPreflight(p) PROVE PreflightInv'
  <2>1. CASE p.keep_motion
    <3> DEFINE q == [p EXCEPT !.phase = "Resolving"]
    <3>1. q \in Preflight /\ q.id = p.id
      BY <1>0 DEF Preflight
    <3>2. Show(q) /\ resolving' = resolving + 1 /\ TasksInFlight < MaxTasks
          /\ consented' = consented \cup {p.id} /\ UNCHANGED <<downloading, preflights>>
      BY <1>5, <2>1 DEF ConfirmRecordPreflight
    <3> HIDE DEF q
    <3>3. p.id \in 1..preflights
      BY <1>0 DEF Preflight
    <3>4. OneOpen' /\ Recorded' /\ MotionFollowsConsent'
      BY <1>0, <3>1, <3>2, <3>3, ShowKeeps
    <3>5. Counts'
      BY <1>0, <3>2 DEF Counts, TasksInFlight
    <3>6. Consented'
      BY <3>2 DEF Consented
    <3> QED BY <3>4, <3>5, <3>6 DEF PreflightInv
  <2>2. CASE ~p.keep_motion
    <3>1. StartRecording(p, FALSE) /\ UNCHANGED <<resolving, consented, downloading, preflights>>
      BY <1>5, <2>2 DEF ConfirmRecordPreflight
    <3>2. OneOpen' /\ Recorded' /\ MotionFollowsConsent'
      BY <3>1, StartKeeps
    <3>3. Counts' /\ Consented'
      BY <3>1 DEF Counts, Consented, PreflightInv, StartRecording
    <3> QED BY <3>2, <3>3 DEF PreflightInv
  <2> QED BY <2>1, <2>2
<1>6. ASSUME NEW p \in preflight, PreflightRetrySetup(p) PROVE PreflightInv'
  <2> DEFINE q == [p EXCEPT !.phase = "Resolving"]
  <2>1. q \in Preflight /\ q.id = p.id
    BY <1>0 DEF Preflight
  <2>2. Show(q) /\ downloading' = downloading + 1 /\ TasksInFlight < MaxTasks
        /\ UNCHANGED <<resolving, preflights, consented>>
    BY <1>6 DEF PreflightRetrySetup
  <2> HIDE DEF q
  <2>3. OneOpen' /\ Recorded' /\ MotionFollowsConsent'
    BY <1>0, <2>1, <2>2, ShowKeeps
  <2>4. Counts'
    BY <1>0, <2>2 DEF Counts, TasksInFlight
  <2>5. p.phase # "Confirm"
    BY <1>6 DEF PreflightRetrySetup
  <2>6. Consented'
    BY <2>2, <2>5 DEF Consented, PreflightInv
  <2> QED BY <2>3, <2>4, <2>6 DEF PreflightInv
<1>7. ASSUME NEW p \in preflight, PreflightContinueGuideOnly(p) PROVE PreflightInv'
  <2>1. StartRecording(p, FALSE) /\ UNCHANGED <<resolving, downloading, preflights, consented>>
    BY <1>7 DEF PreflightContinueGuideOnly
  <2>2. OneOpen' /\ Recorded' /\ MotionFollowsConsent'
    BY <2>1, StartKeeps
  <2>3. Counts' /\ Consented'
    BY <2>1 DEF Counts, Consented, PreflightInv, StartRecording
  <2> QED BY <2>2, <2>3 DEF PreflightInv
<1>8. ASSUME NEW p \in preflight, NEW ok \in BOOLEAN, PreflightToolchainResolved(p, ok)
      PROVE PreflightInv'
  <2>1. resolving > 0 /\ resolving' = resolving - 1 /\ UNCHANGED <<downloading, preflights, consented>>
    BY <1>8 DEF PreflightToolchainResolved
  <2>2. consented # {}
    BY <2>1 DEF Consented, PreflightInv
  <2>3. Counts'
    BY <1>0, <2>1 DEF Counts
  <2>4. Consented'
    BY <2>1, <2>2 DEF Consented
  <2>5. CASE ok
    <3>1. StartRecording(p, TRUE)
      BY <1>8, <2>5 DEF PreflightToolchainResolved
    <3>2. OneOpen' /\ Recorded' /\ MotionFollowsConsent'
      BY <2>1, <2>2, <3>1, StartKeeps
    <3> QED BY <2>3, <2>4, <3>2 DEF PreflightInv
  <2>6. CASE ~ok
    <3> DEFINE q == [p EXCEPT !.phase = "NeedsSetup"]
    <3>1. q \in Preflight /\ q.id = p.id
      BY <1>0 DEF Preflight
    <3>2. Show(q)
      BY <1>8, <2>6 DEF PreflightToolchainResolved
    <3> HIDE DEF q
    <3>3. OneOpen' /\ Recorded' /\ MotionFollowsConsent'
      BY <1>0, <2>1, <3>1, <3>2, ShowKeeps
    <3> QED BY <2>3, <2>4, <3>3 DEF PreflightInv
  <2> QED BY <2>5, <2>6
<1>9. ASSUME NEW p \in preflight, NEW ok \in BOOLEAN, PreflightSetupFinished(p, ok)
      PROVE PreflightInv'
  <2>1. downloading > 0 /\ downloading' = downloading - 1 /\ UNCHANGED <<preflights, consented>>
    BY <1>9 DEF PreflightSetupFinished
  <2>2. consented # {}
    BY <2>1 DEF Consented, PreflightInv
  <2>3. Consented'
    BY <2>1, <2>2 DEF Consented
  <2>4. CASE ok
    <3> DEFINE q == [p EXCEPT !.phase = "Resolving"]
    <3>1. q \in Preflight /\ q.id = p.id
      BY <1>0 DEF Preflight
    <3>2. Show(q) /\ resolving' = resolving + 1
      BY <1>9, <2>4 DEF PreflightSetupFinished
    <3> HIDE DEF q
    <3>3. OneOpen' /\ Recorded' /\ MotionFollowsConsent'
      BY <1>0, <2>1, <3>1, <3>2, ShowKeeps
    <3>4. Counts'
      BY <1>0, <2>1, <3>2 DEF Counts
    <3> QED BY <2>3, <3>3, <3>4 DEF PreflightInv
  <2>5. CASE ~ok
    <3>1. UNCHANGED <<preflight, resolving, started>>
      BY <1>9, <2>5 DEF PreflightSetupFinished
    <3>2. OneOpen' /\ Recorded' /\ MotionFollowsConsent'
      BY <2>1, <3>1 DEF PreflightInv, OneOpen, Recorded, MotionFollowsConsent
    <3>3. Counts'
      BY <1>0, <2>1, <3>1 DEF Counts
    <3> QED BY <2>3, <3>2, <3>3 DEF PreflightInv
  <2> QED BY <2>4, <2>5
<1>10. CASE UNCHANGED preflight_vars
  BY <1>10 DEF preflight_vars, PreflightInv, Counts, OneOpen, Recorded, Consented, MotionFollowsConsent
<1> QED
  BY <1>1, <1>2, <1>3, <1>4, <1>5, <1>6, <1>7, <1>8, <1>9, <1>10 DEF PreflightNext

(* The strengthened invariant holds in every reachable state.              *)
THEOREM PreflightInvariant == PreflightSpec => []PreflightInv
  BY PreflightInitInv, PreflightNextInv, PTL DEF PreflightSpec

(* The type invariant, for any number of tasks and preflights.             *)
THEOREM PreflightTypeCorrect == PreflightSpec => []PreflightTypeOK
  BY PreflightInvariant, PreflightInvTypes, PTL

(* Motion is never kept before a confirmed opt-in, whatever answer of      *)
(* whichever preflight arrives late.                                       *)
THEOREM MotionAlwaysFollowsConsent == PreflightSpec => []MotionFollowsConsent
<1>1. PreflightInv => MotionFollowsConsent
  BY DEF PreflightInv
<1> QED BY <1>1, PreflightInvariant, PTL
=============================================================================
