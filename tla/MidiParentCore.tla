--------------------------- MODULE MidiParentCore ---------------------------
(***************************************************************************)
(* The portable MIDI core of the Windows parent driver                      *)
(* (windows/midi/parent/OpenA8DJMidiParentCore.c) and the platform that     *)
(* calls it: threads that demultiplex EP1 packets and dispatch receive      *)
(* notifications, clients that open and close the two slots, and the PnP    *)
(* state machine.  Every call holds the caller's lock and is one step; a    *)
(* notification callback runs between two of them, without the lock.        *)
(*                                                                         *)
(* A call that the core refuses changes nothing but its statistics and is   *)
(* not a step.  A MIDI byte is abstracted to the run (the period between    *)
(* two resets of the rings) in which it was queued.                         *)
(***************************************************************************)
EXTENDS Integers, FiniteSets, Sequences

CONSTANTS
    Threads,        \* the threads that dispatch notifications
    RingCapacity,   \* OPENA8DJ_MIDI_RING_CAPACITY (4096 bytes)
    MaxFrame,       \* OPENA8DJ_MIDI_MAX_PAYLOAD_BYTES (61)
    MaxEpoch,       \* the largest notifyEpoch, 2^64 - 1
    MaxClients,     \* bound on the receive clients of a behaviour
    MaxRuns         \* bound on the resets of the rings

ASSUME ParentConstants ==
    /\ IsFiniteSet(Threads)
    /\ RingCapacity \in Nat \ {0} /\ MaxFrame \in Nat \ {0}
    /\ MaxEpoch \in Nat \ {0}
    /\ MaxClients \in Nat /\ MaxRuns \in Nat
    /\ 2 * (MaxClients + MaxRuns) <= MaxEpoch   \* the epoch does not wrap: see README

VARIABLES
    core,       \* OPENA8DJ_MIDI_PARENT_CORE with its two rings
    events,     \* the rundown events that the last call reported
    tokens,     \* the notify snapshots that no thread has acquired yet
    running,    \* the callbacks that threads are running
    clients,    \* history: the number of receive clients so far
    runs,       \* history: the number of resets so far
    waiting     \* the clients whose close is deferred until a drain is reported

vars == <<core, events, tokens, running, clients, runs, waiting>>

States == {"OFFLINE", "READY", "ACCEPTING_IO", "STOPPING", "REMOVED"}
RundownEvents == {"NOTIFY_DRAINED", "TEARDOWN_READY"}
ClientIds == 1 .. MaxClients
NoClient == 0

Init ==
    /\ core = [state |-> "OFFLINE", rxClient |-> NoClient, txOpen |-> FALSE, epoch |-> 0,
               inFlight |-> 0, txFaulted |-> FALSE, rx |-> <<>>, tx |-> <<>>]
    /\ events = {}
    /\ tokens = {}
    /\ running = {}
    /\ clients = 0
    /\ runs = 0
    /\ waiting = {}

\* rxOpen, rxNotify and rxNotifyContext change together: rxClient is the context of the
\* open client.
RxOpen(c) == c.rxClient # NoClient

\* Defect used to test the properties: callbacks in flight do not hold up the teardown.
SlotsClosed(c) == ~RxOpen(c) /\ ~c.txOpen

TeardownReady(c) == ~RxOpen(c) /\ ~c.txOpen /\ c.inFlight = 0
TeardownEvent(c) ==
    IF c.state = "STOPPING" /\ TeardownReady(c) THEN {"TEARDOWN_READY"} ELSE {}

\* notifyEpoch++, which skips zero when it wraps.
NextEpoch(e) == IF e = MaxEpoch THEN 1 ELSE e + 1

\* A drain that is reported releases the clients that wait for it.
Report(reported) ==
    /\ events' = reported
    /\ waiting' = IF reported \cap RundownEvents = {} THEN waiting ELSE {}

(***************************************************************************)
(* Prepare and SetState                                                    *)
(***************************************************************************)
\* Defect used to test the properties: the rings keep their bytes.
ResetEpochOnly(c) == [c EXCEPT !.txFaulted = FALSE, !.epoch = NextEpoch(@)]

ResetTransport(c) ==
    [c EXCEPT !.rx = <<>>, !.tx = <<>>, !.txFaulted = FALSE, !.epoch = NextEpoch(@)]

Prepare ==
    /\ runs < MaxRuns
    /\ core.state = "OFFLINE"
    /\ TeardownReady(core)
    /\ core' = [ResetTransport(core) EXCEPT !.state = "READY"]
    /\ runs' = runs + 1
    /\ Report({})
    /\ UNCHANGED <<tokens, running, clients>>

\* SetState(ACCEPTING_IO), the first time and again after a stop; the restart waits for
\* the callbacks that are running.
AcceptIo ==
    /\ core.state = "READY"
    /\ core' = [core EXCEPT !.state = "ACCEPTING_IO"]
    /\ Report({})
    /\ UNCHANGED <<tokens, running, clients, runs>>

CanRestart(c) == c.inFlight = 0
RestartIo ==
    /\ runs < MaxRuns
    /\ core.state = "STOPPING"
    /\ CanRestart(core)
    /\ core' = [ResetTransport(core) EXCEPT !.state = "ACCEPTING_IO"]
    /\ runs' = runs + 1
    /\ Report({})
    /\ UNCHANGED <<tokens, running, clients>>

\* SetState(STOPPING) invalidates the snapshots and says whether anything is left to wait for.
StopIo ==
    /\ core.state \in {"READY", "ACCEPTING_IO"}
    /\ core' = [core EXCEPT !.state = "STOPPING", !.epoch = NextEpoch(@)]
    /\ Report(TeardownEvent([core EXCEPT !.state = "STOPPING"]))
    /\ UNCHANGED <<tokens, running, clients, runs>>

\* SetState(OFFLINE) and SetState(REMOVED) wait for the rundown.
GoOffline ==
    /\ core.state = "STOPPING"
    /\ TeardownReady(core)
    /\ core' = [core EXCEPT !.state = "OFFLINE"]
    /\ Report({"TEARDOWN_READY"})
    /\ UNCHANGED <<tokens, running, clients, runs>>
Remove ==
    /\ core.state = "OFFLINE"
    /\ TeardownReady(core)
    /\ core' = [core EXCEPT !.state = "REMOVED"]
    /\ Report({"TEARDOWN_READY"})
    /\ UNCHANGED <<tokens, running, clients, runs>>

(***************************************************************************)
(* Open and Close                                                          *)
(***************************************************************************)
CanOpen(c) == c.state \in {"READY", "ACCEPTING_IO"}
OpenRx ==
    /\ clients < MaxClients
    /\ CanOpen(core)
    /\ ~RxOpen(core)
    /\ core' = [core EXCEPT !.rxClient = clients + 1, !.epoch = NextEpoch(@)]
    /\ clients' = clients + 1
    /\ Report({})
    /\ UNCHANGED <<tokens, running, runs>>
OpenTx ==
    /\ CanOpen(core)
    /\ ~core.txOpen
    /\ core' = [core EXCEPT !.txOpen = TRUE]
    /\ Report({})
    /\ UNCHANGED <<tokens, running, clients, runs>>

\* Close of the receive slot: a callback in flight defers it, and then no event is reported.
ClosedRx(c) == [c EXCEPT !.rxClient = NoClient, !.epoch = NextEpoch(@)]
CloseRx ==
    /\ RxOpen(core)
    /\ core' = ClosedRx(core)
    /\ IF core.inFlight # 0
       THEN /\ events' = {}
            /\ waiting' = waiting \cup {core.rxClient}
       ELSE Report({"NOTIFY_DRAINED"} \cup TeardownEvent(ClosedRx(core)))
    /\ UNCHANGED <<tokens, running, clients, runs>>
CloseTx ==
    /\ core.txOpen
    /\ core' = [core EXCEPT !.txOpen = FALSE]
    /\ Report(TeardownEvent(core'))
    /\ UNCHANGED <<tokens, running, clients, runs>>

(***************************************************************************)
(* The rings: Read, Write, TakeTxFrame, FaultTx                            *)
(***************************************************************************)
Run(n) == [i \in 1 .. n |-> runs]
Drop(ring, n) == SubSeq(ring, n + 1, Len(ring))

\* There is room for n bytes.
Fits(ring, n) == n <= RingCapacity - Len(ring)

Read(n) ==
    /\ core.state = "ACCEPTING_IO"
    /\ RxOpen(core)
    /\ n \in 1 .. Len(core.rx)
    /\ core' = [core EXCEPT !.rx = Drop(@, n)]
    /\ UNCHANGED <<events, tokens, running, clients, runs, waiting>>

\* Write takes all the bytes or none.
CanSend(c) == c.state = "ACCEPTING_IO" /\ c.txOpen /\ ~c.txFaulted
Write(n) ==
    /\ CanSend(core)
    /\ Fits(core.tx, n)
    /\ core' = [core EXCEPT !.tx = @ \o Run(n)]
    /\ Report({})
    /\ UNCHANGED <<tokens, running, clients, runs>>

FrameLength(ring) == IF Len(ring) < MaxFrame THEN Len(ring) ELSE MaxFrame
TakeTxFrame ==
    /\ CanSend(core)
    /\ core.tx # <<>>
    /\ core' = [core EXCEPT !.tx = Drop(@, FrameLength(@))]
    /\ UNCHANGED <<events, tokens, running, clients, runs, waiting>>

FaultTx ==
    /\ core.state \in {"READY", "ACCEPTING_IO", "STOPPING"}
    /\ core' = [core EXCEPT !.txFaulted = TRUE]
    /\ Report({})
    /\ UNCHANGED <<tokens, running, clients, runs>>

(***************************************************************************)
(* DemuxEp1, AcquireNotify, CompleteNotify                                 *)
(***************************************************************************)
\* A MIDI frame of n bytes that fits.  Only the step from empty to non-empty asks for a
\* notification, with a snapshot of the epoch.
DemuxMidi(n) ==
    /\ core.state = "ACCEPTING_IO"
    /\ Fits(core.rx, n)
    /\ core' = [core EXCEPT !.rx = @ \o Run(n)]
    /\ tokens' = IF core.rx = <<>> /\ RxOpen(core)
                 THEN tokens \cup {[epoch |-> core.epoch, client |-> core.rxClient]}
                 ELSE tokens
    /\ Report({})
    /\ UNCHANGED <<running, clients, runs>>

TokenValid(c, token) ==
    c.state = "ACCEPTING_IO" /\ RxOpen(c) /\ token.epoch = c.epoch

\* A thread turns a valid snapshot into a call of the client's callback.  The snapshot
\* carries no pointer: the callback and its context are read from the core, now.
Idle(thread) == \A r \in running : r.thread # thread
AcquireNotify(thread, token) ==
    /\ Idle(thread)
    /\ TokenValid(core, token)
    /\ core' = [core EXCEPT !.inFlight = @ + 1]
    /\ running' = running \cup {[thread |-> thread, client |-> core.rxClient]}
    /\ tokens' = tokens \ {token}
    /\ UNCHANGED <<events, clients, runs, waiting>>
DiscardNotify(token) ==
    /\ ~TokenValid(core, token)
    /\ tokens' = tokens \ {token}
    /\ UNCHANGED <<core, events, running, clients, runs, waiting>>

\* Defect used to test the properties: the drain is reported while other callbacks run.
DrainedAtClose(c) == IF ~RxOpen(c) THEN {"NOTIFY_DRAINED"} ELSE {}

DrainedEvent(c) == IF c.inFlight = 0 /\ ~RxOpen(c) THEN {"NOTIFY_DRAINED"} ELSE {}

\* Defect used to test the properties: the returned callback is still counted.
CompletedUncounted(c) == c

\* CompleteNotify, after the callback has returned.
Completed(c) == [c EXCEPT !.inFlight = @ - 1]
CompleteNotify(callback) ==
    /\ core' = Completed(core)
    /\ running' = running \ {callback}
    /\ Report(DrainedEvent(Completed(core)) \cup TeardownEvent(Completed(core)))
    /\ UNCHANGED <<tokens, clients, runs>>

Next ==
    \/ Prepare \/ AcceptIo \/ RestartIo \/ StopIo \/ GoOffline \/ Remove
    \/ OpenRx \/ OpenTx \/ CloseRx \/ CloseTx
    \/ \E n \in 1 .. RingCapacity : Read(n) \/ Write(n) \/ DemuxMidi(n)
    \/ TakeTxFrame
    \/ FaultTx
    \/ \E token \in tokens : \/ \E thread \in Threads : AcquireNotify(thread, token)
                             \/ DiscardNotify(token)
    \/ \E callback \in running : CompleteNotify(callback)

Spec == Init /\ [][Next]_vars

(***************************************************************************)
(* Properties                                                              *)
(***************************************************************************)
TypeOK ==
    /\ core \in [state : States, rxClient : ClientIds \cup {NoClient}, txOpen : BOOLEAN,
                 epoch : 0 .. MaxEpoch, inFlight : Nat, txFaulted : BOOLEAN,
                 rx : Seq(1 .. MaxRuns), tx : Seq(1 .. MaxRuns)]
    /\ Len(core.rx) <= RingCapacity /\ Len(core.tx) <= RingCapacity
    /\ events \subseteq RundownEvents
    /\ tokens \subseteq [epoch : 0 .. MaxEpoch, client : ClientIds]
    /\ running \subseteq [thread : Threads, client : ClientIds]
    /\ clients \in 0 .. MaxClients
    /\ runs \in 0 .. MaxRuns
    /\ waiting \subseteq ClientIds

\* notifyInFlight is the number of callbacks that are running, each on a thread of its own;
\* and each runs for the open client or for one whose close is still deferred: once a close
\* has returned, or its drain was reported, the client's context is never used.
CallbacksHaveOwners ==
    /\ TypeOK
    /\ core.inFlight = Cardinality(running)
    /\ \A r, s \in running : r.thread = s.thread => r = s
    /\ \A r \in running : r.client = core.rxClient \/ r.client \in waiting

\* Rundown: when the core is offline or removed, or has just reported TEARDOWN_READY, no
\* slot is open and no callback is running, so the parent may free its storage.
TeardownIsQuiet ==
    core.state \in {"OFFLINE", "REMOVED"} \/ "TEARDOWN_READY" \in events =>
        ~RxOpen(core) /\ ~core.txOpen /\ running = {}

\* No byte crosses from one run into the next: while I/O is accepted, both rings hold only
\* bytes queued since the last reset.
NoStaleBytes ==
    core.state = "ACCEPTING_IO" =>
        /\ \A i \in DOMAIN core.rx : core.rx[i] = runs
        /\ \A i \in DOMAIN core.tx : core.tx[i] = runs

\* Clients close their slots when the device stops, callbacks return, and the controller
\* asks again for OFFLINE after the rundown event.
Fairness ==
    /\ WF_vars(core.state = "STOPPING" /\ (CloseRx \/ CloseTx))
    /\ WF_vars(\E callback \in running : CompleteNotify(callback))
    /\ WF_vars(GoOffline)
FairSpec == Spec /\ Fairness

\* A stop runs down: the device does not stay STOPPING for ever.
StopRunsDown == core.state = "STOPPING" ~> core.state # "STOPPING"
=============================================================================
