------------------------- MODULE WindowsControlPlane -------------------------
(***************************************************************************)
(* The control plane of the Windows driver (windows/driver/OpenA8DJUsb.c,   *)
(* physical build): the requests of the sequential I/O queue, the callbacks *)
(* of an ACX stream, the stream work item, the stop work item and PnP, which *)
(* share three wait locks, the words of the device context and endpoint 1.   *)
(*                                                                         *)
(* A thread is a script: the steps that it has still to do.  A step is the   *)
(* code between two points where another thread may see a difference; it     *)
(* takes a lock as it begins and gives it back as it ends.  The persistent   *)
(* engine is only stopped, running or stopping here (WindowsIsoEngine and    *)
(* WindowsAcxStreams model its transfers), and DestroyIsoTransportResources  *)
(* succeeds.                                                               *)
(***************************************************************************)
EXTENDS Naturals, Sequences

CONSTANTS
    Modes, DefaultMode,  \* the input modes, and the one of OpenA8DJ_InitializeDefaults
    Rates, DefaultRate,  \* the sample rates, and the one of OpenA8DJ_InitializeDefaults
    WriteAttempts,       \* OPENA8DJ_BULK_WRITE_RETRY_LIMIT
    ReadRounds,          \* the attempts of ReadHardwareControlState
    Budgets              \* bounds, one of them for a behaviour: the requests and which they are,
                         \* the Run callbacks, and the calls that fail, late replies and removals

VARIABLES
    task,   \* what each thread does
    ctl,    \* the words of the device context
    ep1,    \* the pending command of endpoint 1 and its reply
    hw,     \* the device: its control state, its rate, the replies not read yet
    lock,   \* the holders of IsoPurgeLock, BulkCommandLock and AudioConfigLock
    left,   \* history: what is left of the budget
    past    \* history for the properties

cvars == <<task, ctl, ep1, hw, lock, left, past>>

Actors == {"ioctl", "acx", "work", "stop", "pnp"}
Phases == {"read", "capture", "output", "streaming"}
Controls == [mode : Modes, lift : {"off", "on"}]
DefaultControl == [mode |-> DefaultMode, lift |-> "off"]
AnyControl == [mode |-> "any", lift |-> "any"]  \* of a device that nobody has asked yet
NoReply == [command |-> "none", content |-> "none", old |-> FALSE]
Resting ==
    [op |-> "none", steps |-> <<>>, sent |-> "no", rate |-> DefaultRate,
     control |-> DefaultControl, phase |-> "none", tries |-> 0, rounds |-> 0, got |-> NoReply]

Init ==
    /\ task = [a \in Actors |-> Resting]
    /\ ctl = [prepared |-> FALSE, stopRequested |-> TRUE, worker |-> FALSE, queued |-> FALSE,
              engine |-> "Stopped", stopPending |-> FALSE, stopActive |-> FALSE,
              draining |-> FALSE, healthy |-> FALSE, oneShot |-> FALSE,
              phase |-> "none", remaining |-> 0,
              streaming |-> FALSE, active |-> FALSE, acx |-> "paused",
              configured |-> FALSE, rate |-> "none", format |-> DefaultRate,
              raw |-> DefaultControl, ready |-> FALSE, mismatch |-> FALSE]
    /\ ep1 = [pending |-> "none", reply |-> NoReply]
    /\ hw = [control |-> AnyControl, rate |-> "none", replies |-> <<>>]
    /\ lock = [purge |-> "none", bulk |-> "none", config |-> "none"]
    /\ left \in Budgets
    /\ past = [stale |-> FALSE, abandoned |-> FALSE, credit |-> 0, unlike |-> FALSE]

(***************************************************************************)
(* Threads, locks and errors                                               *)
(***************************************************************************)
At(a, step) == task[a].steps # <<>> /\ Head(task[a].steps) = step
IsResting(a) == task[a].steps = <<>>
WithSteps(t, steps) == IF steps = <<>> THEN Resting ELSE [t EXCEPT !.steps = steps]
Continue(a, steps) == task' = [task EXCEPT ![a] = WithSteps(@, steps)]
Rest(a) == Tail(task[a].steps)
Advance(a) == Continue(a, Rest(a))

Free(l) == lock[l] = "none"
Take(l, a) == lock' = [lock EXCEPT ![l] = a]
Give(l) == lock' = [lock EXCEPT ![l] = "none"]

MayErr == left.troubles > 0
Spend(field, isOne) == left' = [left EXCEPT ![field] = @ - (IF isOne THEN 1 ELSE 0)]
OnlyControl == UNCHANGED <<ep1, hw, left, past>>

(***************************************************************************)
(* The scripts                                                             *)
(***************************************************************************)
Configure == <<"configure", "info", "reset", "set", "commit">>
Read == <<"auto", "read">>
Store == <<"store", "write">> \o Read \o <<"confirm">>
Purge == <<"purge", "drain">>
MarkStopped == <<"streamingOff", "invalidate", "workerOff">>
EndOneShot == Purge \o <<"endOneShot">>

Script ==
    [get |-> Read \o <<"refresh">>,
     set |-> Store,
     profile |-> Read \o <<"refresh">> \o Store,
     format |-> <<"checkFormat", "invalidate">>,
     apply |-> <<"consumeRead", "isolate">> \o Configure \o <<"unlockPurge">>,
     start |-> <<"consumeStreaming", "claim">> \o Configure \o <<"stream">>,
     stop |-> <<"halt">> \o Purge \o <<"flushWork", "stopped">>,
     arm |-> <<"checkArm", "arm">>,
     disarm |-> <<"disarm">> \o Purge \o <<"flushWork">>,
     snapshot |-> <<"beginOneShot", "checkOneShot", "capture">> \o EndOneShot,
     pulse |-> <<"beginOneShot", "checkOneShot", "capture", "output">> \o EndOneShot,
     burst |-> <<"beginOneShot", "checkOneShot", "capture", "output", "capture", "output">> \o EndOneShot,
     run |-> <<"run">> \o Configure \o <<"activate">>,
     pause |-> <<"inactive", "requestStop">>,
     free |-> <<"inactive", "requestStop", "purgeTargets", "drain", "flushWork">>,
     work |-> <<"look", "startEngine">>,
     stopWork |-> <<"stopActive", "purgeTargets", "drain", "stopEnds">>,
     release |-> <<"revoke", "stopPipes">> \o Purge
                    \o <<"flushWork", "flushStop", "forget", "invalidate", "streamingOff">>]

\* What is left to do when a step of a configuration fails.
OnFailure == [apply |-> <<"unlockPurge">>, run |-> <<"unlockPurge">>, start |-> <<"rollback">>]
StopThenMark == <<"requestStop", "purgeTargets", "drain">> \o MarkStopped

(***************************************************************************)
(* Endpoint 1: SendBulkCommand, the device, and the reader                 *)
(***************************************************************************)
Settings == {"info", "reset", "set"}
Commands == Settings \cup {"auto", "read", "write"}
Answered == Settings \cup {"read"}
Idempotent == {"info", "read", "write", "auto"}
Code(c) == IF c \in {"reset", "set"} THEN "params" ELSE c
Attempts(c) == IF c \in Idempotent THEN WriteAttempts ELSE 1

\* The device carries a command out and replies in order.  A reset leaves it without a rate.
\* A control state that is written it takes over, in part or not at all: the hardware that the
\* notes describe kept some ground lifts of its own.
ReplyTo(c, content) == [command |-> Code(c), content |-> content, old |-> FALSE]
StatesOf(device) == IF device.control = AnyControl THEN Controls ELSE {device.control}
TakenOver(asked, state) ==
    {[mode |-> m, lift |-> l] : m \in {asked.mode, state.mode}, l \in {asked.lift, state.lift}}
Carries(c, t, device, state) ==
    [control |-> IF c \in {"read", "write"} THEN state ELSE device.control,
     rate |-> CASE c = "reset" -> "none" [] c = "set" -> t.rate [] OTHER -> device.rate,
     replies |-> IF c = "read" THEN Append(device.replies, ReplyTo(c, state))
                 ELSE IF c \in Answered THEN Append(device.replies, ReplyTo(c, c))
                 ELSE device.replies]
Received(c, t, device) ==
    {Carries(c, t, device, state) :
        state \in IF c = "write" THEN UNION {TakenOver(t.control, s) : s \in StatesOf(device)}
                  ELSE StatesOf(device)}

Sending(a, sent, tries) == task' = [task EXCEPT ![a].sent = sent, ![a].tries = tries]
NextCommand(t, steps, rounds, got) ==
    WithSteps([t EXCEPT !.sent = "no", !.tries = 0, !.rounds = rounds, !.got = got], steps)

Succeeds(a, c, got) ==
    /\ task' = [task EXCEPT ![a] = NextCommand(@, Rest(a), IF c = "read" THEN 0 ELSE @.rounds, got)]
    /\ ctl' = [ctl EXCEPT !.ready = @ \/ c = "read"]
    /\ Give("bulk")
    /\ UNCHANGED past

\* A failed read starts its round again; a failed setting leaves what was configured before.
Fails(a, c) ==
    LET again == c \in {"auto", "read"} /\ task[a].rounds + 1 < ReadRounds
        after == IF c = "auto" THEN Tail(Rest(a)) ELSE Rest(a)
        op == task[a].op
    IN /\ task' = [task EXCEPT ![a] =
             NextCommand(@, IF again THEN Read \o after
                            ELSE IF c \in Settings THEN OnFailure[op] ELSE <<>>,
                         @.rounds + 1, NoReply)]
       /\ ctl' = [ctl EXCEPT !.ready = @ /\ (again \/ c \in Settings)]
       /\ lock' = [lock EXCEPT !.bulk = "none", !.config = IF c \in Settings THEN "none" ELSE @]
       /\ past' = [past EXCEPT !.abandoned = @ \/ c \in {"reset", "set"}]

GiveUp(a, c) == ep1' = [ep1 EXCEPT !.pending = "none"] /\ Fails(a, c)

\* The lock is taken and the reader started; or the device is not prepared, or the reader fails.
BulkRefused(a, c) ==
    /\ task[a].sent = "no" /\ Free("bulk")
    /\ ~ctl.prepared \/ MayErr
    /\ Spend("troubles", ctl.prepared)
    /\ Fails(a, c)
    /\ UNCHANGED <<ep1, hw>>

\* The pending command is registered, and the replies of other commands are too late.
Registered(c) ==
    IF c \in Answered THEN [pending |-> Code(c), reply |-> NoReply] ELSE ep1
Aged == [hw EXCEPT !.replies = [i \in DOMAIN @ |-> [@[i] EXCEPT !.old = TRUE]]]

\* The first write, or another one after a failure; it may fail although the device received it.
BulkWrite(a, c) ==
    LET first == task[a].sent = "no"
        device == IF first THEN Aged ELSE hw
        pending == IF first THEN Registered(c) ELSE ep1
        received == Received(c, task[a], device)
    IN /\ (first /\ Free("bulk")) \/ task[a].sent = "out"
       /\ ctl.prepared
       /\ \/ /\ hw' \in received
             /\ ep1' = pending
             /\ IF c \in Answered
                THEN Take("bulk", a) /\ Sending(a, "wait", 0) /\ UNCHANGED <<ctl, past>>
                ELSE Succeeds(a, c, NoReply)
             /\ UNCHANGED left
          \/ /\ MayErr
             /\ Spend("troubles", TRUE)
             /\ hw' \in {device} \cup received
             /\ IF task[a].tries + 1 < Attempts(c)
                THEN /\ Take("bulk", a) /\ Sending(a, "out", task[a].tries + 1)
                     /\ ep1' = pending
                     /\ UNCHANGED <<ctl, past>>
                ELSE GiveUp(a, c)

\* No other attempt is made once the device is revoked.
BulkRevoked(a, c) ==
    /\ task[a].sent = "out" /\ ~ctl.prepared
    /\ GiveUp(a, c)
    /\ UNCHANGED <<hw, left>>

\* The reply is there, or two seconds pass.  A reply of ep1 9 tells by its next byte what it
\* answers, and the two settings look at it.
BulkWait(a, c) ==
    /\ task[a].sent = "wait"
    /\ \/ /\ ep1.reply.command # "none"
          /\ ep1' = [ep1 EXCEPT !.reply = NoReply]
          /\ IF c \in {"reset", "set"} /\ ep1.reply.content # c
             THEN Fails(a, c) ELSE Succeeds(a, c, ep1.reply)
          /\ UNCHANGED <<hw, left>>
       \/ /\ ep1.reply.command = "none"
          /\ hw.replies = <<>> \/ MayErr
          /\ Spend("troubles", hw.replies # <<>>)
          /\ GiveUp(a, c)
          /\ UNCHANGED hw

\* EvtEp1ReadComplete: a reply is kept when a command with its code waits for one.
Ep1ReadComplete ==
    /\ hw.replies # <<>>
    /\ hw' = [hw EXCEPT !.replies = Tail(@)]
    /\ LET reply == Head(hw.replies)
           taken == ep1.pending = reply.command
       IN /\ ep1' = IF taken THEN [pending |-> "none", reply |-> reply] ELSE ep1
          /\ past' = [past EXCEPT !.stale = @ \/ (taken /\ reply.old)]
    /\ UNCHANGED <<task, ctl, lock, left>>

Bulk(a) ==
    \E c \in Commands : At(a, c) /\ (BulkRefused(a, c) \/ BulkWrite(a, c) \/ BulkRevoked(a, c) \/ BulkWait(a, c))

(***************************************************************************)
(* The audio parameters                                                    *)
(***************************************************************************)
\* Defect used to test the properties: a running stream does not keep its rate.
NoStreamKeepsItsRate(a) == FALSE

StreamKeepsItsRate(a) == ctl.worker /\ ctl.configured

\* ConfigureAudioParams, under AudioConfigLock until the parameters are committed.
ConfigureBegin(a) ==
    /\ At(a, "configure") /\ Free("config")
    /\ \/ /\ ctl.prepared /\ ctl.configured /\ ctl.rate = task[a].rate
          /\ ctl' = [ctl EXCEPT !.format = task[a].rate]
          /\ Continue(a, SubSeq(task[a].steps, 6, Len(task[a].steps)))
          /\ UNCHANGED lock
       \/ /\ ctl.prepared /\ ~(ctl.configured /\ ctl.rate = task[a].rate)
          /\ ~StreamKeepsItsRate(a)
          /\ Take("config", a)
          /\ Advance(a)
          /\ UNCHANGED ctl
       \/ /\ \/ ~ctl.prepared
             \/ StreamKeepsItsRate(a) /\ ctl.rate # task[a].rate
          /\ Continue(a, OnFailure[task[a].op])
          /\ UNCHANGED <<ctl, lock>>
    /\ OnlyControl

Commit(a) ==
    /\ At(a, "commit")
    /\ Give("config")
    /\ IF ctl.prepared
       THEN /\ ctl' = [ctl EXCEPT !.rate = task[a].rate, !.configured = TRUE,
                                  !.format = task[a].rate]
            /\ past' = [past EXCEPT !.abandoned = FALSE]
            /\ Advance(a)
       ELSE Continue(a, OnFailure[task[a].op]) /\ UNCHANGED <<ctl, past>>
    /\ UNCHANGED <<ep1, hw, left>>

\* InvalidateAudioParamsConfiguration
Invalidate(a) ==
    /\ At(a, "invalidate") /\ Free("config")
    /\ ctl' = [ctl EXCEPT !.configured = FALSE, !.rate = "none"]
    /\ Advance(a)
    /\ UNCHANGED lock /\ OnlyControl

Parameters(a) == ConfigureBegin(a) \/ Commit(a) \/ Invalidate(a)

(***************************************************************************)
(* The purge, the engine and the two work items                            *)
(***************************************************************************)
\* TrySignalPersistentIsoDrained, by a caller that leaves the words w.
Signalled(w) ==
    IF w.engine = "Stopped" /\ ~w.stopPending /\ ~w.stopActive /\ ~w.draining
    THEN [w EXCEPT !.streaming = FALSE, !.configured = FALSE, !.worker = FALSE]
    ELSE w

\* PurgeIsoTargetsLocked in two steps; the process work item is flushed between them.
PurgeBegins(a) ==
    /\ At(a, "purge")
    /\ ctl' = [ctl EXCEPT !.engine = "Stopping", !.draining = TRUE, !.healthy = FALSE]
    /\ Advance(a)
    /\ UNCHANGED lock /\ OnlyControl

\* PurgeIsoTargets does nothing to a device that is not prepared.
PurgeTargets(a) ==
    /\ At(a, "purgeTargets") /\ Free("purge")
    /\ IF ctl.prepared
       THEN /\ Take("purge", a)
            /\ ctl' = [ctl EXCEPT !.engine = "Stopping", !.draining = TRUE, !.healthy = FALSE]
            /\ Advance(a)
       ELSE /\ ctl' = [ctl EXCEPT !.healthy = FALSE]
            /\ Continue(a, Tail(Rest(a)))
            /\ UNCHANGED lock
    /\ OnlyControl

\* The targets are restarted unless the device goes; a one-shot goes on under the lock.
Drain(a) ==
    /\ At(a, "drain")
    /\ \E restarted \in {ctl.prepared} \cup (IF MayErr THEN {FALSE} ELSE {}) :
          /\ Spend("troubles", restarted # ctl.prepared)
          /\ ctl' = Signalled([ctl EXCEPT !.engine = "Stopped", !.draining = FALSE,
                                          !.healthy = restarted])
    /\ IF ctl.oneShot THEN UNCHANGED lock ELSE Give("purge")
    /\ Advance(a)
    /\ UNCHANGED <<ep1, hw, past>>

FatalStop(w) ==
    [w EXCEPT !.stopRequested = TRUE, !.engine = "Stopping", !.stopPending = TRUE]

\* The process work item stops an engine that has no rate, or whose transfers fail.
EngineFails ==
    /\ ctl.engine = "Running" /\ (ctl.rate = "none" \/ MayErr)
    /\ ctl' = FatalStop(ctl)
    /\ Spend("troubles", ctl.rate # "none")
    /\ UNCHANGED <<task, ep1, hw, lock, past>>

WorkBegins ==
    /\ ctl.queued /\ IsResting("work")
    /\ task' = [task EXCEPT !["work"].op = "work", !["work"].steps = Script.work]
    /\ ctl' = [ctl EXCEPT !.queued = FALSE]
    /\ UNCHANGED lock /\ OnlyControl

\* EvtStreamWorkItem
Look(a) ==
    /\ At(a, "look")
    /\ IF ctl.prepared /\ ctl.configured /\ ctl.rate # "none"
       THEN ctl' = [ctl EXCEPT !.streaming = TRUE] /\ Advance(a)
       ELSE Continue(a, MarkStopped) /\ UNCHANGED ctl
    /\ UNCHANGED lock /\ OnlyControl

CanStart ==
    /\ ctl.healthy /\ ctl.engine = "Stopped" /\ ~ctl.oneShot
    /\ ~ctl.stopPending /\ ~ctl.stopActive

\* StartPersistentIsoEngine: it is refused, the frame query fails, or the first submission finds
\* a stop requested.
StartEngine(a) ==
    /\ At(a, "startEngine")
    /\ \/ /\ CanStart /\ ~ctl.stopRequested
          /\ ctl' = [ctl EXCEPT !.engine = "Running"]
          /\ Advance(a)
          /\ UNCHANGED left
       \/ /\ CanStart /\ ctl.stopRequested
          /\ ctl' = FatalStop(ctl)
          /\ Continue(a, StopThenMark)
          /\ UNCHANGED left
       \/ /\ ~CanStart \/ MayErr
          /\ Spend("troubles", CanStart)
          /\ Continue(a, StopThenMark)
          /\ UNCHANGED ctl
    /\ UNCHANGED <<ep1, hw, lock, past>>

\* MarkStreamWorkerStopped, around its Invalidate; and single words of other threads.
Sets(a, step, w) ==
    /\ At(a, step)
    /\ ctl' = w
    /\ Advance(a)
    /\ UNCHANGED lock /\ OnlyControl

StopBegins ==
    /\ ctl.stopPending /\ IsResting("stop")
    /\ task' = [task EXCEPT !["stop"].op = "stopWork", !["stop"].steps = Script.stopWork]
    /\ UNCHANGED <<ctl, lock>> /\ OnlyControl

\* The stop work item looks for a drained engine after it gave IsoPurgeLock back: a request that
\* claimed the worker in the meantime loses it.
StopEnds(a) ==
    /\ At(a, "stopEnds")
    /\ ctl' = Signalled([ctl EXCEPT !.stopPending = FALSE, !.stopActive = FALSE])
    /\ Advance(a)
    /\ UNCHANGED lock /\ OnlyControl

Engine(a) ==
    \/ PurgeBegins(a) \/ PurgeTargets(a) \/ Drain(a)
    \/ Look(a) \/ StartEngine(a) \/ StopEnds(a)
    \/ Sets(a, "streamingOff", [ctl EXCEPT !.streaming = FALSE])
    \/ Sets(a, "workerOff", [ctl EXCEPT !.worker = FALSE])
    \/ Sets(a, "requestStop", [ctl EXCEPT !.stopRequested = TRUE])
    \/ Sets(a, "stopActive", [ctl EXCEPT !.stopActive = TRUE])

\* WdfWorkItemFlush
Flush(a) ==
    /\ \/ At(a, "flushWork") /\ ~ctl.queued /\ IsResting("work")
       \/ At(a, "flushStop") /\ ~ctl.stopPending /\ IsResting("stop")
    /\ Advance(a)
    /\ UNCHANGED <<ctl, lock>> /\ OnlyControl

(***************************************************************************)
(* The canary and the one-shot transfers                                   *)
(***************************************************************************)
\* ConsumeCanaryAuthorization: a phase is armed for one operation.
Authorised(phase) == ctl.phase = phase /\ ctl.remaining > 0
Consumed(w) == [w EXCEPT !.remaining = @ - 1, !.phase = IF w.remaining = 1 THEN "none" ELSE @]

Consume(a, step, phase) ==
    /\ At(a, step)
    /\ IF Authorised(phase)
       THEN /\ ctl' = Consumed(ctl) /\ past' = [past EXCEPT !.credit = @ - 1] /\ Advance(a)
       ELSE Continue(a, <<>>) /\ UNCHANGED <<ctl, past>>
    /\ UNCHANGED <<ep1, hw, lock, left>>

\* ARM looks at the device and then arms the phase, without a lock.
CheckArm(a) ==
    /\ At(a, "checkArm")
    /\ Continue(a, IF ctl.prepared /\ ~ctl.worker /\ ~ctl.oneShot /\ ctl.engine = "Stopped"
                   THEN Rest(a) ELSE <<>>)
    /\ UNCHANGED <<ctl, lock>> /\ OnlyControl

Arm(a) ==
    /\ At(a, "arm")
    /\ ctl' = [ctl EXCEPT !.remaining = 1, !.phase = task[a].phase]
    /\ past' = [past EXCEPT !.credit = @ + 1]
    /\ Advance(a)
    /\ UNCHANGED <<ep1, hw, lock, left>>

Disarm(a) ==
    /\ At(a, "disarm") /\ Free("purge")
    /\ Take("purge", a)
    /\ ctl' = [ctl EXCEPT !.phase = "none", !.remaining = 0, !.stopRequested = TRUE]
    /\ Advance(a)
    /\ OnlyControl

\* Defect used to test the properties: without an active stream the engine counts as stopped.
NoStreamIsActive == ctl.prepared /\ ctl.healthy /\ ~ctl.active

TransportIsIdle ==
    /\ ctl.prepared /\ ~ctl.draining /\ ctl.healthy /\ ctl.engine = "Stopped"
    /\ ~ctl.worker /\ ~ctl.active /\ ~ctl.stopPending /\ ~ctl.stopActive

\* BeginIsoOneShot publishes IsoOneShotActive and then looks at the transport: a stream that starts
\* its engine in between is refused, also when the one-shot is.  IsoPurgeLock is held until
\* EndIsoOneShot.
BeginOneShot(a) ==
    /\ At(a, "beginOneShot") /\ Free("purge")
    /\ Take("purge", a)
    /\ ctl' = [ctl EXCEPT !.oneShot = TRUE]
    /\ Advance(a)
    /\ OnlyControl

CheckOneShot(a) ==
    /\ At(a, "checkOneShot")
    /\ IF TransportIsIdle /\ Authorised(task[a].phase)
       THEN /\ ctl' = Consumed(ctl)
            /\ past' = [past EXCEPT !.credit = @ - 1]
            /\ Advance(a)
            /\ UNCHANGED lock
       ELSE /\ ctl' = [ctl EXCEPT !.oneShot = FALSE]
            /\ Give("purge")
            /\ Continue(a, <<>>)
            /\ UNCHANGED past
    /\ UNCHANGED <<ep1, hw, left>>

\* A one-shot transfer is on the bus until this step.
Transfer(a, step) ==
    /\ At(a, step)
    /\ \/ ctl.prepared /\ Advance(a) /\ UNCHANGED left
       \/ /\ ~ctl.prepared \/ MayErr
          /\ Spend("troubles", ctl.prepared)
          /\ Continue(a, EndOneShot)
    /\ UNCHANGED <<ctl, ep1, hw, lock, past>>

CaptureIsoSnapshot(a) == Transfer(a, "capture")
SendIsoOutputBuffer(a) == Transfer(a, "output")

EndsOneShot(a) ==
    /\ At(a, "endOneShot")
    /\ ctl' = [ctl EXCEPT !.oneShot = FALSE]
    /\ Give("purge")
    /\ Advance(a)
    /\ OnlyControl

Canary(a) ==
    \/ Consume(a, "consumeRead", "read") \/ Consume(a, "consumeStreaming", "streaming")
    \/ CheckArm(a) \/ Arm(a) \/ Disarm(a)
    \/ BeginOneShot(a) \/ CheckOneShot(a) \/ EndsOneShot(a)
    \/ CaptureIsoSnapshot(a) \/ SendIsoOutputBuffer(a)

(***************************************************************************)
(* The requests                                                            *)
(***************************************************************************)
\* StoreControlState.  The ground lifts cannot be changed, and a request that would counts as a
\* mismatch; a write begins without one.
StoreControlState(a) ==
    LET lifts == task[a].control.lift # ctl.raw.lift
    IN /\ At(a, "store")
       /\ IF ctl.worker \/ ctl.streaming
          THEN Continue(a, <<>>) /\ UNCHANGED ctl
          ELSE /\ Continue(a, IF lifts THEN <<>> ELSE Rest(a))
               /\ ctl' = [ctl EXCEPT !.mismatch = lifts]
       /\ UNCHANGED lock /\ OnlyControl

\* RefreshHardwareControlState, after which APPLY_PROFILE changes the mode of what was read.
Refresh(a) ==
    /\ At(a, "refresh")
    /\ ctl' = [ctl EXCEPT !.raw = task[a].got.content]
    /\ task' = [task EXCEPT ![a] =
          WithSteps([@ EXCEPT !.control.lift = task[a].got.content.lift, !.got = NoReply], Rest(a))]
    /\ past' = [past EXCEPT !.unlike = FALSE]
    /\ UNCHANGED <<ep1, hw, lock, left>>

\* Defect used to test the properties: what was written counts, whatever was read back.
BelievesItsWrite(a) ==
    /\ At(a, "confirm")
    /\ ctl' = [ctl EXCEPT !.raw = task[a].control]
    /\ Advance(a)
    /\ UNCHANGED lock /\ OnlyControl

\* The end of WriteHardwareControlState: what was written is kept if it is what was read back.
\* If not, the request fails, and the state of before is still the one that counts.
Confirm(a) ==
    LET alike == task[a].got.content = task[a].control
    IN /\ At(a, "confirm")
       /\ ctl' = IF alike THEN [ctl EXCEPT !.raw = task[a].control]
                 ELSE [ctl EXCEPT !.mismatch = TRUE]
       /\ past' = [past EXCEPT !.unlike = ~alike]
       /\ Advance(a)
       /\ UNCHANGED <<ep1, hw, lock, left>>

\* SET_AUDIO_FORMAT looks for a stream without a lock, then invalidates the parameters.
CheckFormat(a) ==
    /\ At(a, "checkFormat")
    /\ IF ctl.worker \/ ctl.streaming
       THEN Continue(a, <<>>) /\ UNCHANGED ctl
       ELSE Advance(a) /\ ctl' = [ctl EXCEPT !.format = task[a].rate]
    /\ UNCHANGED lock /\ OnlyControl

\* ConfigureAudioParamsIsolated holds IsoPurgeLock.
Isolate(a) ==
    /\ At(a, "isolate") /\ Free("purge")
    /\ IF /\ ctl.prepared /\ ~ctl.oneShot /\ ctl.engine = "Stopped"
          /\ ~ctl.worker /\ ~ctl.active
       THEN /\ Take("purge", a)
            /\ task' = [task EXCEPT ![a].steps = Rest(a), ![a].rate = ctl.format]
       ELSE Continue(a, <<>>) /\ UNCHANGED lock
    /\ UNCHANGED ctl /\ OnlyControl

\* START_STREAMING holds IsoPurgeLock from its claim to its answer.
Claim(a) ==
    /\ At(a, "claim") /\ Free("purge")
    /\ IF ~ctl.oneShot /\ ctl.prepared /\ ~ctl.worker
       THEN /\ Take("purge", a)
            /\ ctl' = [ctl EXCEPT !.worker = TRUE, !.stopRequested = FALSE]
            /\ task' = [task EXCEPT ![a].steps = Rest(a), ![a].rate = ctl.format]
       ELSE /\ ctl' = [ctl EXCEPT !.streaming = ~ctl.oneShot /\ ctl.prepared /\ ~ctl.stopRequested]
            /\ Continue(a, <<>>)
            /\ UNCHANGED lock
    /\ OnlyControl

\* The last step of a request or callback that holds IsoPurgeLock.
Last(a, step, w) ==
    /\ At(a, step)
    /\ ctl' = w
    /\ Give("purge")
    /\ Advance(a)
    /\ OnlyControl

\* Defect used to test the properties: the work item is flushed under IsoPurgeLock.
HaltAndFlush(a) ==
    /\ At(a, "halt") /\ Free("purge")
    /\ Take("purge", a)
    /\ ctl' = [ctl EXCEPT !.stopRequested = TRUE]
    /\ Continue(a, <<"flushWork">> \o Purge \o <<"stopped">>)
    /\ OnlyControl

\* STOP_STREAMING
Halt(a) ==
    /\ At(a, "halt") /\ Free("purge")
    /\ Take("purge", a)
    /\ ctl' = [ctl EXCEPT !.stopRequested = TRUE]
    /\ Advance(a)
    /\ OnlyControl

Request(a) ==
    \/ StoreControlState(a) \/ Refresh(a) \/ Confirm(a) \/ CheckFormat(a) \/ Isolate(a)
    \/ Claim(a) \/ Halt(a)
    \/ Last(a, "unlockPurge", ctl)
    \/ Last(a, "stream", [ctl EXCEPT !.streaming = TRUE, !.stopRequested = FALSE, !.queued = TRUE])
    \/ Last(a, "rollback",
            [ctl EXCEPT !.streaming = FALSE, !.stopRequested = TRUE, !.worker = FALSE])
    \/ Sets(a, "stopped", [ctl EXCEPT !.streaming = FALSE,
                                      !.stopRequested = @ /\ ctl.worker])

Begins(a, op, t) ==
    /\ IsResting(a)
    /\ task' = [task EXCEPT ![a] = [t EXCEPT !.op = op, !.steps = Script[op]]]

\* EvtIoDeviceControl; the queue is sequential.
RequestArrives ==
    /\ ctl.prepared /\ left.requests > 0
    /\ \/ \E op \in {"get", "apply", "start", "stop", "disarm"} : Begins("ioctl", op, Resting)
       \/ \E c \in Controls : Begins("ioctl", "set", [Resting EXCEPT !.control = c])
       \/ \E m \in Modes : Begins("ioctl", "profile", [Resting EXCEPT !.control.mode = m])
       \/ \E r \in Rates : Begins("ioctl", "format", [Resting EXCEPT !.rate = r])
       \/ \E p \in Phases : Begins("ioctl", "arm", [Resting EXCEPT !.phase = p])
       \/ Begins("ioctl", "snapshot", [Resting EXCEPT !.phase = "capture"])
       \/ \E op \in {"pulse", "burst"} : Begins("ioctl", op, [Resting EXCEPT !.phase = "output"])
    /\ task'["ioctl"].op \in left.ops
    /\ Spend("requests", TRUE)
    /\ UNCHANGED <<ctl, ep1, hw, lock, past>>

(***************************************************************************)
(* ACX and PnP                                                             *)
(***************************************************************************)
\* The callbacks of a stream, which ACX serialises: Run; Pause; FreeRtPackets.
CallbackArrives ==
    /\ \/ /\ ctl.acx \in {"free", "paused"} /\ ctl.prepared /\ left.callbacks > 0
          /\ \E r \in Rates : Begins("acx", "run", [Resting EXCEPT !.rate = r])
          /\ Spend("callbacks", TRUE)
          /\ UNCHANGED ctl
       \/ /\ ctl.acx = "running"
          /\ Begins("acx", "pause", Resting)
          /\ ctl' = [ctl EXCEPT !.acx = "paused"]
          /\ UNCHANGED left
       \/ /\ ctl.acx = "paused"
          /\ Begins("acx", "free", Resting)
          /\ ctl' = [ctl EXCEPT !.acx = "free"]
          /\ UNCHANGED left
    /\ UNCHANGED <<ep1, hw, lock, past>>

Run(a) ==
    /\ At(a, "run") /\ Free("purge")
    /\ IF ~ctl.oneShot /\ ctl.prepared
       THEN Take("purge", a) /\ Advance(a)
       ELSE Continue(a, <<>>) /\ UNCHANGED lock
    /\ UNCHANGED ctl /\ OnlyControl

Activated ==
    IF ctl.prepared /\ ~ctl.oneShot
    THEN [ctl EXCEPT !.active = TRUE, !.acx = "running", !.stopRequested = FALSE,
                     !.worker = TRUE, !.queued = @ \/ ~ctl.worker]
    ELSE ctl

\* ReleaseHardware takes IsoPurgeLock before it revokes the device.
Revoke(a) ==
    /\ At(a, "revoke") /\ Free("purge")
    /\ Take("purge", a)
    /\ ctl' = [ctl EXCEPT !.prepared = FALSE, !.stopRequested = TRUE,
                          !.phase = "none", !.remaining = 0]
    /\ Advance(a)
    /\ OnlyControl

StopPipes(a) ==
    /\ At(a, "stopPipes") /\ Free("bulk")
    /\ hw' = [hw EXCEPT !.replies = <<>>]
    /\ Advance(a)
    /\ UNCHANGED <<ctl, ep1, lock, left, past>>

Callback(a) ==
    \/ Run(a) \/ Revoke(a) \/ StopPipes(a)
    \/ Last(a, "activate", Activated)
    \/ Sets(a, "inactive", [ctl EXCEPT !.active = FALSE])
    \/ Sets(a, "forget", [ctl EXCEPT !.active = FALSE])

\* Defect used to test the properties: the authorisation survives a removal.
PreparedAsItWas == [ctl EXCEPT !.prepared = TRUE, !.healthy = TRUE, !.ready = FALSE]

Prepared ==
    [ctl EXCEPT !.prepared = TRUE, !.healthy = TRUE, !.ready = FALSE,
                !.phase = "none", !.remaining = 0]

\* A device arrives, in any state of its controls; it is not shown to clients before.
PrepareHardware ==
    /\ ~ctl.prepared /\ ctl.acx # "running"
    /\ IsResting("pnp") /\ IsResting("ioctl") /\ IsResting("acx") /\ IsResting("work")
    /\ ctl' = Prepared
    /\ hw' = [control |-> AnyControl, rate |-> "none", replies |-> <<>>]
    /\ past' = [past EXCEPT !.credit = 0]
    /\ UNCHANGED <<task, ep1, lock, left>>

ReleaseHardware ==
    /\ ctl.prepared /\ MayErr
    /\ Begins("pnp", "release", Resting)
    /\ Spend("troubles", TRUE)
    /\ UNCHANGED <<ctl, ep1, hw, lock, past>>

(***************************************************************************)
(* The specification                                                       *)
(***************************************************************************)
Step(a) ==
    Bulk(a) \/ Parameters(a) \/ Engine(a) \/ Flush(a) \/ Canary(a) \/ Request(a) \/ Callback(a)

Progress == (\E a \in Actors : Step(a)) \/ Ep1ReadComplete \/ WorkBegins \/ StopBegins

Next ==
    \/ Progress \/ EngineFails
    \/ RequestArrives \/ CallbackArrives \/ PrepareHardware \/ ReleaseHardware

Spec == Init /\ [][Next]_cvars

(***************************************************************************)
(* Properties                                                              *)
(***************************************************************************)
\* While the parameters count as configured the device has their rate, and the claim of a stream
\* keeps it so while another configuration is tried: a request, a callback or a format change in
\* any order, with any command failing, does not move one without the other.  A configuration
\* that failed half way leaves the parameters of before, and they are not true any more.
RateTrue ==
    ctl.configured /\ (lock.config = "none" \/ ctl.worker) /\ ~past.abandoned
        => hw.rate = ctl.rate

\* When no request is reading or writing it, a control state that counts as known is the
\* device's, whatever the device takes over of a write, whatever writes failed and whatever came
\* back.  Where the last write was read back unlike what was written, the state of before still
\* counts until the next successful read or write; then the diagnostics say so, and no request
\* that is refused in between takes it back.  And a late reply of an earlier command may have
\* been taken for a later one.
ControlOps == {"get", "set", "profile"}
NotTakenOver == past.unlike /\ ctl.mismatch
ControlStateTrue ==
    ctl.ready /\ ~past.stale /\ task["ioctl"].op \notin ControlOps =>
        ctl.raw = hw.control \/ NotTakenOver

\* While a one-shot transfer is on the bus, no engine runs and no stream is active; and since
\* the device was prepared, no more operations were authorised than were armed.
OneShotsAlone ==
    /\ At("ioctl", "capture") \/ At("ioctl", "output") =>
          ctl.engine = "Stopped" /\ ~ctl.active /\ lock.purge = "ioctl"
    /\ past.credit >= 0

\* No deadlock: while a request, callback, work item or removal is not at its end, one of them can
\* go on, although they wait for each other's locks, flush each other and wait for replies that
\* may not come.  A script is finite, so each comes to its end.
SomeoneGoesOn == (\E a \in Actors : ~IsResting(a)) => ENABLED Progress

=============================================================================
