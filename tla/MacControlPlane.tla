--------------------------- MODULE MacControlPlane ---------------------------
(***************************************************************************)
(* The control channel of OpenA8DJUSBEngine (hal/OpenA8DJUSB.m) under its   *)
(* IPC server.  Commands go out on one bulk pipe, replies come back on the  *)
(* other and carry the code of their command and nothing else.  sendCommand *)
(* is called under gEngineMutex, by openUSB and start, so one command waits *)
(* for a reply at a time; the handlers of the IPC server write the control  *)
(* state without a reply, and any number of them may do so at once.  The    *)
(* reader on `_ep1Queue' hands each reply to the command that waits.        *)
(*                                                                         *)
(* The device (external) takes commands in order; it, or the bus, may lose  *)
(* a reply or hold it back.  Configuring the device again empties its pipes.*)
(***************************************************************************)
EXTENDS MacIpcServer, Sequences

CONSTANTS
    Codes,          \* the command codes that have a reply
    States,         \* control states a peer asks for
    FirstState,     \* the control state openUSB leaves
    MaxCommands,    \* bound on the commands with a reply
    MaxWrites,      \* bound on the writes of the control state
    HalfSent        \* a send that fails may have reached the device all the same

ASSUME ControlConstants ==
    /\ FirstState \in States /\ HalfSent \in BOOLEAN
    /\ {MaxCommands, MaxWrites} \subseteq Nat

VARIABLES
    chan,       \* _ep1ChannelInvalid, _pendingActive, _pendingCommand, _pendingReply
    caller,     \* where the caller of sendCommand is
    reader,     \* ep1ReadLoop
    control,    \* _controlState, and what the device has applied
    writers,    \* the handlers in the middle of a ControlSet
    toDevice,   \* the commands on their way
    fromDevice, \* the replies on their way
    sent,       \* how many commands and writes there were
    answers     \* for each command that returned YES, whether the reply was its own

controlVars == <<chan, caller, reader, control, writers, toDevice, fromDevice, sent, answers>>
planeVars == <<ipcVars, controlVars>>

Nothing == 0
ASSUME CodeNames == Codes \cap {Nothing, "write"} = {}
NoPending == [code |-> Nothing, id |-> Nothing, reply |-> Nothing]
IdleCaller == [pc |-> "idle", code |-> Nothing, id |-> Nothing]

PlaneInit ==
    /\ IpcInit
    /\ chan = [invalid |-> FALSE, pending |-> NoPending]
    /\ caller = IdleCaller
    /\ reader = "gone"
    /\ control = [host |-> FirstState, device |-> FirstState]
    /\ writers = {}
    /\ toDevice = <<>>
    /\ fromDevice = <<>>
    /\ sent = [commands |-> 0, writes |-> 0]
    /\ answers = {}

(***************************************************************************)
(* openUSB, from the caller's ensureOpen.  It runs again, without a close   *)
(* before it, when the reader has cleared _running.                         *)
(***************************************************************************)
OpenUSB ==
    /\ ~session.running /\ ~session.unsafe /\ closer = "none" /\ caller.pc = "idle"
    /\ session.opens < MaxOpens
    /\ session' = [session EXCEPT !.running = TRUE, !.open = TRUE, !.opens = @ + 1]
    /\ StartServer
    /\ chan' = [invalid |-> FALSE, pending |-> NoPending]
    /\ reader = "gone" /\ reader' = "reading"
    /\ control' = [host |-> FirstState, device |-> FirstState]
    /\ toDevice' = <<>> /\ fromDevice' = <<>>
    /\ UNCHANGED <<fdTable, slots, handlers, active, shut, arrived, closer, misclosed,
                   caller, writers, sent, answers>>

(***************************************************************************)
(* sendCommand                                                             *)
(***************************************************************************)
\* A channel whose reply did not come is not used again: its late reply would complete
\* another command.
Claim(code) ==
    /\ caller.pc = "idle" /\ session.running /\ closer = "none" /\ ~chan.invalid
    /\ sent.commands < MaxCommands
    /\ sent' = [sent EXCEPT !.commands = @ + 1]
    /\ caller' = [pc |-> "sending", code |-> code, id |-> sent.commands + 1]
    /\ chan' = [chan EXCEPT !.pending = [code |-> code, id |-> sent.commands + 1, reply |-> Nothing]]
    /\ UNCHANGED <<ipcVars, reader, control, writers, toDevice, fromDevice, answers>>

Message == [code |-> caller.code, id |-> caller.id]

SendOk ==
    /\ caller.pc = "sending" /\ session.open
    /\ toDevice' = Append(toDevice, Message)
    /\ caller' = [caller EXCEPT !.pc = "waiting"]
    /\ UNCHANGED <<ipcVars, chan, reader, control, writers, fromDevice, sent, answers>>

\* The bulk OUT request fails or times out: the command is given up, the channel stays.
SendFails ==
    /\ caller.pc = "sending"
    /\ \/ toDevice' = toDevice
       \/ HalfSent /\ toDevice' = Append(toDevice, Message)
    /\ chan' = IF chan.pending.code = caller.code THEN [chan EXCEPT !.pending = NoPending] ELSE chan
    /\ caller' = IdleCaller
    /\ UNCHANGED <<ipcVars, reader, control, writers, fromDevice, sent, answers>>

ReplyReady == chan.pending.reply # Nothing

ReplyTaken ==
    /\ caller.pc = "waiting" /\ ReplyReady
    /\ answers' = answers \cup {chan.pending.reply = caller.id}
    /\ chan' = [chan EXCEPT !.pending = NoPending]
    /\ caller' = IdleCaller
    /\ UNCHANGED <<ipcVars, reader, control, writers, toDevice, fromDevice, sent>>

\* Defect used to test the properties: the channel stays in use after a timeout.
RetiredChannelReused == [invalid |-> FALSE, pending |-> NoPending]

RetiredChannel == [invalid |-> TRUE, pending |-> NoPending]

\* The deadline, or the reader gave the pending command up.  The next attempt of the loop
\* finds the channel invalid and returns NO.
ReplyTimesOut ==
    /\ caller.pc = "waiting" /\ ~ReplyReady
    /\ chan' = RetiredChannel
    /\ caller' = IdleCaller
    /\ UNCHANGED <<ipcVars, reader, control, writers, toDevice, fromDevice, sent, answers>>

(***************************************************************************)
(* The reader, and the device.                                              *)
(***************************************************************************)
Matches(r) == chan.pending.code = r.code

\* handleEP1Bytes
ReadReply ==
    /\ reader = "reading" /\ session.open /\ fromDevice # <<>>
    /\ chan' = IF Matches(Head(fromDevice))
               THEN [chan EXCEPT !.pending.reply = Head(fromDevice).id] ELSE chan
    /\ fromDevice' = Tail(fromDevice)
    /\ UNCHANGED <<ipcVars, caller, reader, control, writers, toDevice, sent, answers>>

\* The completion of the read does not come within two seconds.
ReadDeadline ==
    /\ reader = "reading"
    /\ chan' = RetiredChannel
    /\ session' = [session EXCEPT !.running = FALSE]
    /\ reader' = "gone"
    /\ UNCHANGED <<listening, fdTable, slots, acceptor, handlers, active, shut, arrived, closer,
                   misclosed, caller, control, writers, toDevice, fromDevice, sent, answers>>

ReaderEnds ==
    /\ reader = "reading" /\ ~session.running
    /\ reader' = "gone"
    /\ UNCHANGED <<ipcVars, chan, caller, control, writers, toDevice, fromDevice, sent, answers>>

DeviceTakes ==
    /\ toDevice # <<>>
    /\ toDevice' = Tail(toDevice)
    /\ LET m == Head(toDevice)
       IN IF m.code \in Codes
          THEN /\ \E reply \in {<<>>, <<m>>} : fromDevice' = fromDevice \o reply
               /\ control' = control
          ELSE /\ control' = [control EXCEPT !.device = m.id]
               /\ fromDevice' = fromDevice
    /\ UNCHANGED <<ipcVars, chan, caller, reader, writers, sent, answers>>

(***************************************************************************)
(* ControlSet on a handler: the state is stored under _ep1Mutex, copied     *)
(* under it, and sent under _bulkOutMutex.  What the handler then reports   *)
(* is the stored state.                                                     *)
(***************************************************************************)
Writing(h) == \E w \in writers : w.at = h.at

StoreControl(h) ==
    /\ h \in handlers /\ h.pc = "reading" /\ ~Writing(h) /\ h.at.conn \notin shut
    /\ session.running /\ sent.writes < MaxWrites
    /\ \E state \in States : control' = [control EXCEPT !.host = state]
    /\ writers' = writers \cup {[at |-> h.at, copy |-> Nothing]}
    /\ sent' = [sent EXCEPT !.writes = @ + 1]
    /\ UNCHANGED <<ipcVars, chan, caller, reader, toDevice, fromDevice, answers>>

CopyControl(w) ==
    /\ w \in writers /\ w.copy = Nothing
    /\ writers' = (writers \ {w}) \cup {[w EXCEPT !.copy = control.host]}
    /\ UNCHANGED <<ipcVars, chan, caller, reader, control, toDevice, fromDevice, sent, answers>>

\* The 0.2 s send; its result is not looked at.  A send without USB objects fails.
SendControl(w) ==
    /\ w \in writers /\ w.copy # Nothing
    /\ toDevice' = IF session.open THEN Append(toDevice, [code |-> "write", id |-> w.copy]) ELSE toDevice
    /\ writers' = writers \ {w}
    /\ UNCHANGED <<ipcVars, chan, caller, reader, control, fromDevice, sent, answers>>

(***************************************************************************)
(* The two together.                                                        *)
(***************************************************************************)
\* A handler that is writing finishes the message before it reads on.
HandlerSteps == \E h \in handlers : ~Writing(h) /\ Handler(h)

\* close is called under gEngineMutex, as the caller of sendCommand is.
CloseSteps ==
    \/ caller.pc = "idle" /\ CloseBegins
    \/ StopServer
    \/ WaitForQueues(reader = "gone")
    \/ CloseUSB
    \/ CloseTimesOut(reader = "gone")

ServerSteps == (AcceptLoop \/ HandlerSteps \/ Outside \/ CloseSteps) /\ UNCHANGED controlVars

CommandSteps ==
    \/ \E code \in Codes : Claim(code)
    \/ SendOk \/ SendFails \/ ReplyTaken \/ ReplyTimesOut

ReaderSteps == ReadReply \/ ReadDeadline \/ ReaderEnds

WriterSteps ==
    \/ \E h \in handlers : StoreControl(h)
    \/ \E w \in writers : CopyControl(w) \/ SendControl(w)

PlaneNext == OpenUSB \/ ServerSteps \/ CommandSteps \/ ReaderSteps \/ DeviceTakes \/ WriterSteps

PlaneSpec == PlaneInit /\ [][PlaneNext]_planeVars

(***************************************************************************)
(* Properties                                                              *)
(***************************************************************************)
PlaneTypeOK ==
    /\ IpcTypeOK
    /\ caller.pc \in {"idle", "sending", "waiting"}
    /\ reader \in {"gone", "reading"}
    /\ control \in [host : States, device : States]
    /\ answers \subseteq BOOLEAN

\* When close has destroyed the USB objects nobody is left who would use them: no handler
\* (dispatched or running), no write in progress, no reader and no accept loop that could
\* dispatch one, for every order of the last accept against close.
ClosedIsQuiet ==
    /\ PlaneTypeOK
    /\ ~session.open => /\ handlers = {} /\ writers = {} /\ reader = "gone"
                        /\ acceptor.pc = "gone" /\ active = 0

\* Each descriptor is closed once, by its owner: a late handler never closes a number that
\* the process has given to another file or to a later connection.
ClosesItsOwnDescriptor == ~misclosed

\* A close ends every user of the engine, and their descriptors are closed once and by them.
CloseIsClean == ClosedIsQuiet /\ ClosesItsOwnDescriptor

\* sendCommand returns YES only with the reply to its own transmission, although replies
\* carry no transaction number: the reply of a command that timed out is never taken for
\* that of a later command with the same code.
ReplyAnswersItsCommand == FALSE \notin answers

=============================================================================
