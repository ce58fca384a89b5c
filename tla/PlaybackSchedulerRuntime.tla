---------------------- MODULE PlaybackSchedulerRuntime ----------------------
(***************************************************************************)
(* PlaybackSchedulerRuntimeBinding over PlaybackLeadScheduler               *)
(* (core/src/playback_scheduler_runtime.cpp, playback_scheduler.cpp).  The  *)
(* scheduler keeps playback ahead of the device by a number of slots and    *)
(* decides when to submit how many; the binding submits to a request pool   *)
(* what the scheduler's counters say, and one capture slot per period.      *)
(***************************************************************************)
EXTENDS UsbRequestPool

CONSTANTS
    LeadConfigs,  \* the configurations a caller may ask for
    MaxPeriods    \* bound on the periods of a session, and on those refused after it

VARIABLES
    scheduler,    \* the PlaybackLeadScheduler
    binding,      \* the rest of the PlaybackSchedulerRuntimeBinding
    heldBack      \* history: this session began below its low watermark, or had to hold a
                  \* refill back

vars == <<scheduler, binding, heldBack>>

\* PlaybackLeadSchedulerConfig: the slots to start with, the watermarks, the largest
\* submission, the pool, the periods per completion, and whether capture goes with each.
ConfigValid(c) ==
    /\ c.target > 0 /\ c.low > 0 /\ c.batch > 0 /\ c.gap > 0
    /\ c.high >= c.target /\ c.low < c.high /\ c.high <= c.slots
NoConfig == [target |-> 1, low |-> 1, high |-> 2, batch |-> 1, slots |-> 3, gap |-> 1,
             everyPeriod |-> TRUE]

NoScheduleCounts ==
    [periods |-> 0, capture |-> 0, captureGaps |-> 0, slots |-> 0, submits |-> 0,
     completed |-> 0, underflows |-> 0, poolOverflows |-> 0, batchOverflows |-> 0,
     cadence |-> 0, minLead |-> 0, maxLead |-> 0]
NewScheduler == [started |-> FALSE, config |-> NoConfig, lead |-> 0, count |-> NoScheduleCounts]
NewBinding == [started |-> FALSE, pool |-> NewPool, nextCapture |-> 0, nextPlayback |-> 0,
               slots |-> 0, captureGaps |-> 0, failures |-> 0]

Init == scheduler = NewScheduler /\ binding = NewBinding /\ heldBack = FALSE

Lesser(m, n) == IF m < n THEN m ELSE n
Larger(m, n) == IF m > n THEN m ELSE n

(***************************************************************************)
(* PlaybackLeadScheduler                                                   *)
(***************************************************************************)
\* Defect used to test the properties: the slots are counted before they are cut to the room
\* that the pool has.
SubmittedUncut(s, wanted) ==
    LET cut == Lesser(Lesser(wanted, s.config.batch), s.config.slots - s.lead) IN
    [s EXCEPT !.lead = @ + cut, !.count.slots = @ + wanted, !.count.submits = @ + 1]

\* submit_playback_slots(): at most a batch, and what the pool has room for.
SlotsSubmitted(s, wanted) ==
    LET batch == Lesser(wanted, s.config.batch)
        slots == Lesser(batch, s.config.slots - s.lead)
    IN  [s EXCEPT !.count.batchOverflows = IF wanted > s.config.batch THEN @ + 1 ELSE @,
                  !.count.poolOverflows = IF slots < batch THEN @ + 1 ELSE @,
                  !.lead = @ + slots,
                  !.count.slots = @ + slots,
                  !.count.submits = IF slots > 0 THEN @ + 1 ELSE @]

\* start()
ScheduleStarted(c) ==
    LET s == SlotsSubmitted([NewScheduler EXCEPT !.started = TRUE, !.config = c], c.target) IN
    [s EXCEPT !.count.minLead = s.lead, !.count.maxLead = s.lead]

\* consume_playback_period()
PeriodConsumed(s) ==
    IF s.lead = 0 THEN [s EXCEPT !.count.underflows = @ + 1]
    ELSE [s EXCEPT !.lead = @ - 1, !.count.completed = @ + 1]

\* maybe_refill_playback(), with the options the tools force failures with
Refilled(s, options) ==
    IF options.overflow THEN SlotsSubmitted(s, s.config.batch + 1)
    ELSE IF options.suppress \/ s.lead > s.config.low THEN s
    ELSE SlotsSubmitted(s, Lesser(s.config.high - s.lead, s.config.batch))

\* complete_period()
PeriodScheduled(s, options) ==
    LET c == s.config
        due == (s.count.periods + 1) % c.gap = 0
        capture == c.everyPeriod /\ ~options.captureGap
        counted == [s EXCEPT !.count.periods = @ + 1,
                             !.count.capture = IF capture THEN @ + 1 ELSE @,
                             !.count.captureGaps = IF capture THEN @ ELSE @ + 1,
                             !.count.cadence = IF due THEN @ ELSE @ + 1]
        r == Refilled(IF due THEN PeriodConsumed(counted) ELSE counted, options)
    IN  [r EXCEPT !.count.minLead = Lesser(@, r.lead), !.count.maxLead = Larger(@, r.lead)]

(***************************************************************************)
(* PlaybackSchedulerRuntimeBinding                                         *)
(***************************************************************************)
\* submit_runtime_descriptor(): a request is completed as soon as it is submitted.
RuntimeSubmitted(b, d, slots) ==
    LET p == PoolSubmit(b.pool, [dir |-> d, size |-> slots]) IN
    IF p.handle = NoHandle THEN [b EXCEPT !.pool = p.pool, !.failures = @ + 1]
    ELSE [b EXCEPT !.pool = PoolComplete(p.pool, p.handle),
                   !.failures = IF Accepts(p.pool, p.handle) THEN @ ELSE @ + 1]

\* submit_playback_delta(): what the scheduler has submitted since `before'.
DeltaSubmitted(b, s, before) ==
    LET delta == s.count.slots - before
        r == RuntimeSubmitted(b, "playback", delta)
    IN  IF delta = 0 THEN b
        ELSE IF r.failures > b.failures THEN r
        ELSE [r EXCEPT !.nextPlayback = @ + delta, !.slots = @ + delta]

\* stop() of the two
ScheduleStopped(s) == [s EXCEPT !.started = FALSE, !.lead = 0]
BindingStopped(b) == [b EXCEPT !.started = FALSE, !.pool = PoolStop(PoolCancelAll(@))]

\* start() replaces a binding that is running, and stops again if the first slots are refused.
Start(c, slots) ==
    LET started == ScheduleStarted(c)
        primed == DeltaSubmitted([NewBinding EXCEPT !.started = TRUE,
                                                    !.pool = PoolStart(NewPool, slots)],
                                 started, 0)
        refused == primed.failures > 0
    IN  /\ ConfigValid(c)
        /\ ValidPoolConfig(slots)
        /\ scheduler' = IF refused THEN ScheduleStopped(started) ELSE started
        /\ binding' = IF refused THEN BindingStopped(primed) ELSE primed
        /\ heldBack' = (started.lead < c.low)

CompletePeriod(options) ==
    LET captured == IF options.captureGap THEN [binding EXCEPT !.captureGaps = @ + 1]
                    ELSE [RuntimeSubmitted(binding, "capture", 1) EXCEPT !.nextCapture = @ + 1]
    IN  /\ binding.started
        /\ scheduler.count.periods < MaxPeriods
        /\ scheduler' = PeriodScheduled(scheduler, options)
        /\ binding' = DeltaSubmitted(captured, scheduler', scheduler.count.slots)
        /\ heldBack' = (heldBack \/ (options.suppress /\ ~options.overflow))

\* complete_period() of a binding that is not started counts a failure and does nothing else.
PeriodRefused ==
    /\ ~binding.started
    /\ binding.failures < MaxPeriods
    /\ binding' = [binding EXCEPT !.failures = @ + 1]
    /\ UNCHANGED <<scheduler, heldBack>>

Stop ==
    /\ binding.started
    /\ scheduler' = ScheduleStopped(scheduler)
    /\ binding' = BindingStopped(binding)
    /\ UNCHANGED heldBack

Next ==
    \/ \E c \in LeadConfigs, slots \in {0, 1} : Start(c, slots)
    \/ \E options \in [suppress : BOOLEAN, overflow : BOOLEAN, captureGap : BOOLEAN] :
          CompletePeriod(options)
    \/ PeriodRefused
    \/ Stop

Spec == Init /\ [][Next]_vars

(***************************************************************************)
(* Properties                                                              *)
(***************************************************************************)
\* runtime_accounting_matches_scheduler: the binding has submitted, and completed, exactly
\* the slots and the batches the scheduler counts, also in periods that overflow, suppress
\* or skip; what was submitted and not yet played is the lead.  No period of a session fails to
\* submit, whatever periods were refused before it or between two.
SlotsSubmittedOnce ==
    LET count == scheduler.count
        pool == binding.pool
    IN  /\ binding.started => binding.failures = 0
        /\ pool.count.live = 0
        /\ count.slots = binding.slots /\ count.slots = binding.nextPlayback
        /\ pool.bytes.submitted["playback"] = count.slots
        /\ pool.count.submits["playback"] = count.submits
        /\ pool.count.submits = pool.count.completions
        /\ pool.count.submits["capture"] = binding.nextCapture
        /\ count.periods = binding.nextCapture + binding.captureGaps
        /\ scheduler.started => count.slots - count.completed = scheduler.lead
        /\ count.maxLead <= scheduler.config.slots

\* playback_lead_safe: a session that began above its low watermark and was never made to
\* hold a refill back never sinks below it.
LeadHolds ==
    ~heldBack /\ scheduler.started =>
        scheduler.count.minLead >= scheduler.config.low /\ scheduler.count.underflows = 0
=============================================================================
