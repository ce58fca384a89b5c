-------------------------- MODULE MidiCaptureStream -------------------------
(***************************************************************************)
(* The capture stream of the Windows MIDI miniport                          *)
(* (windows/midi/driver/OpenA8DJMidiMiniport.cpp) on top of the parent's    *)
(* MIDI core.  The core notifies only when its receive ring stops being     *)
(* empty, and the stream passes a notification on to PortCls only while it  *)
(* is in RUN; so SetState(RUN) forces one more, after it has published RUN. *)
(*                                                                         *)
(* PortCls is outside the repository: it answers a notification by reading  *)
(* until the stream has nothing more to give.                               *)
(***************************************************************************)
EXTENDS MidiParentCore

VARIABLES
    streamState,   \* m_State of each client's stream
    changing,      \* how far SetState(RUN) of the open stream has come
    port,          \* PortCls: a notification is pending, a read loop is running
    called         \* the running callbacks whose body has been executed

streamVars == <<streamState, changing, port, called>>
allVars == <<vars, streamVars>>

StreamInit ==
    /\ Init
    /\ streamState = [c \in ClientIds |-> "STOP"]
    /\ changing = "no"
    /\ port = [pending |-> FALSE, reading |-> FALSE]
    /\ called = {}

Notified(p) == [p EXCEPT !.pending = TRUE]

(***************************************************************************)
(* The stream                                                              *)
(***************************************************************************)
\* NewStream, and the destructor; CloseStream waits for the callbacks (MidiParentCore).
NewStream == OpenRx /\ UNCHANGED streamVars
DeleteStream ==
    /\ changing = "no"
    /\ CloseRx
    /\ UNCHANGED streamVars

\* SetState(RUN): the parent is told, RUN is published, and PortCls is notified.
BusRun ==
    /\ RxOpen(core)
    /\ changing = "no"
    /\ streamState[core.rxClient] = "STOP"
    /\ changing' = "told"
    /\ UNCHANGED <<vars, streamState, port, called>>
PublishRun ==
    /\ changing = "told"
    /\ streamState' = [streamState EXCEPT ![core.rxClient] = "RUN"]
    /\ changing' = "published"
    /\ UNCHANGED <<vars, port, called>>

\* Defect used to test the properties: no notification follows the change to RUN.
NotNotified(p) == p

\* The notification that closes the edge.
ForcedNotify(p) == Notified(p)
NotifyRun ==
    /\ changing = "published"
    /\ port' = ForcedNotify(port)
    /\ changing' = "no"
    /\ UNCHANGED <<vars, streamState, called>>
SetStop ==
    /\ RxOpen(core)
    /\ changing = "no"
    /\ streamState[core.rxClient] = "RUN"
    /\ streamState' = [streamState EXCEPT ![core.rxClient] = "STOP"]
    /\ UNCHANGED <<vars, changing, port, called>>

\* BusNotify: the body of the callback, which only passes the notification on in RUN.
BusNotify(callback) ==
    /\ callback \in running \ called
    /\ called' = called \cup {callback}
    /\ port' = IF streamState[callback.client] = "RUN" THEN Notified(port) ELSE port
    /\ UNCHANGED <<vars, streamState, changing>>
ReturnNotify(callback) ==
    /\ callback \in called
    /\ CompleteNotify(callback)
    /\ called' = called \ {callback}
    /\ UNCHANGED <<streamState, changing, port>>

(***************************************************************************)
(* PortCls                                                                 *)
(***************************************************************************)
Readable == /\ RxOpen(core)
            /\ streamState[core.rxClient] = "RUN"
            /\ core.state = "ACCEPTING_IO"
            /\ core.rx # <<>>
PortWake ==
    /\ port.pending
    /\ port' = [pending |-> FALSE, reading |-> TRUE]
    /\ UNCHANGED <<vars, streamState, changing, called>>
PortRead(n) ==
    /\ port.reading
    /\ Readable
    /\ Read(n)
    /\ UNCHANGED streamVars
PortSleep ==
    /\ port.reading
    /\ ~Readable
    /\ port' = [port EXCEPT !.reading = FALSE]
    /\ UNCHANGED <<vars, streamState, changing, called>>

(***************************************************************************)
(* The parent's other calls                                                *)
(***************************************************************************)
ControllerStep == Prepare \/ AcceptIo \/ RestartIo \/ StopIo \/ GoOffline \/ Remove
DispatchStep ==
    \/ \E n \in 1 .. RingCapacity : DemuxMidi(n)
    \/ \E token \in tokens : \/ \E thread \in Threads : AcquireNotify(thread, token)
                             \/ DiscardNotify(token)

StreamNext ==
    \/ NewStream \/ DeleteStream
    \/ BusRun \/ PublishRun \/ NotifyRun \/ SetStop
    \/ \E callback \in running : BusNotify(callback) \/ ReturnNotify(callback)
    \/ PortWake \/ PortSleep \/ \E n \in 1 .. RingCapacity : PortRead(n)
    \/ (ControllerStep /\ UNCHANGED streamVars)
    \/ (DispatchStep /\ UNCHANGED streamVars)

\* Threads that are ready run, the dispatcher uses or drops every snapshot, and PortCls
\* serves every notification; nobody has to send, stop, open or close anything.
StreamFairness ==
    /\ WF_allVars(PublishRun) /\ WF_allVars(NotifyRun)
    /\ WF_allVars(\E callback \in running : BusNotify(callback) \/ ReturnNotify(callback))
    /\ WF_allVars(PortWake) /\ WF_allVars(PortSleep)
    /\ WF_allVars(\E n \in 1 .. RingCapacity : PortRead(n))
    /\ WF_allVars((\E token \in tokens : \/ \E thread \in Threads : AcquireNotify(thread, token)
                                         \/ DiscardNotify(token)) /\ UNCHANGED streamVars)

StreamSpec == StreamInit /\ [][StreamNext]_allVars /\ StreamFairness

(***************************************************************************)
(* Properties                                                              *)
(***************************************************************************)
StreamTypeOK ==
    /\ streamState \in [ClientIds -> {"STOP", "RUN"}]
    /\ changing \in {"no", "told", "published"}
    /\ changing # "no" => RxOpen(core)
    /\ port \in [pending : BOOLEAN, reading : BOOLEAN]
    /\ called \subseteq running

\* A wakeup is on its way: a valid snapshot, a callback that has not run, or a pending
\* notification, read loop or change to RUN.
WakeupComing ==
    \/ \E token \in tokens : TokenValid(core, token)
    \/ \E callback \in running \ called : callback.client = core.rxClient
    \/ port.pending \/ port.reading
    \/ changing # "no"

\* No lost wakeup: whenever a running stream has received bytes, something is on its way
\* that makes PortCls read them, although the ring reports only its first byte.
NoLostWakeup == StreamTypeOK /\ (Readable => WakeupComing)

\* Received bytes get a read loop started, unless the stream or the device stops first.
BytesAreRead == Readable ~> port.reading \/ ~Readable
=============================================================================
