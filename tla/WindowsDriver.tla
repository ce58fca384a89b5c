---------------------------- MODULE WindowsDriver ----------------------------
(***************************************************************************)
(* Two views of one Windows device (windows/driver/OpenA8DJUsb.c), which one *)
(* run checks: the packets and transfers of its ACX streams                  *)
(* (WindowsAcxStreams), and the requests, the locks and endpoint 1           *)
(* (WindowsControlPlane).  A behaviour follows one of the two from the start: *)
(* each abstracts from what the other is about.                              *)
(***************************************************************************)
EXTENDS WindowsAcxStreams

CONSTANTS Modes, DefaultMode, Rates, DefaultRate, WriteAttempts, ReadRounds, Budgets

VARIABLES task, ctl, ep1, hw, lock, left, past

C == INSTANCE WindowsControlPlane

(***************************************************************************)
(* Bounds: what happens in a behaviour of the control plane                 *)
(***************************************************************************)
Budget(ops, requests, callbacks, troubles) ==
    [ops |-> ops, requests |-> requests, callbacks |-> callbacks, troubles |-> troubles]

Nothing == Budget({"none"}, 0, 0, 0)  \* the streams go, and the control plane rests
DriverBudgets ==
    {Nothing,
     Budget({"get", "set"}, 2, 0, 2),                     \* a control write that fails for good
     Budget({"profile"}, 1, 0, 1),
     Budget({"arm", "apply", "format"}, 3, 0, 1),         \* rates without a stream
     Budget({"format", "stop"}, 1, 1, 1),                 \* and against a stream that fails
     Budget({}, 0, 2, 0),                                 \* a stream that runs again
     Budget({"arm", "disarm", "start", "stop"}, 3, 0, 1),
     Budget({"arm", "snapshot", "burst"}, 2, 1, 0),       \* one-shots against a stream
     Budget({"arm", "pulse"}, 2, 0, 1)}                   \* and against a removal

(***************************************************************************)
(* The specification                                                       *)
(***************************************************************************)
controlVars == <<task, ctl, ep1, hw, lock, left, past>>

DriverInit == Init /\ C!Init

HasStreams == left = Nothing /\ Next /\ UNCHANGED controlVars
HasRequests == left # Nothing /\ C!Next /\ UNCHANGED vars

DriverNext == HasStreams \/ HasRequests
DriverSpec == DriverInit /\ [][DriverNext]_<<vars, controlVars>>

(***************************************************************************)
(* Properties                                                              *)
(***************************************************************************)
\* What the driver believes of the device is so: parameters that count as configured are the
\* device's, whichever request or callback configured them, and stay so while a stream claims the
\* worker; and a control state that counts as known is the device's, unless the diagnostics say
\* that the device did not take over the last write.
DeviceAsBelieved == C!RateTrue /\ C!ControlStateTrue

\* A one-shot transfer has the bus for itself, and no operation runs that was not armed.
OneShotsAlone == C!OneShotsAlone

\* No deadlock between requests, callbacks, work items and removals.
SomeoneGoesOn == C!SomeoneGoesOn
=============================================================================
