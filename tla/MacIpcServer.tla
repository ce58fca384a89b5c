----------------------------- MODULE MacIpcServer -----------------------------
(***************************************************************************)
(* The local IPC server of OpenA8DJUSBEngine (hal/OpenA8DJUSB.m): an accept *)
(* loop on `_ipcQueue', one handler per connection on the global queue, and *)
(* close, which has to wait for all of them before it destroys the USB      *)
(* objects they use.  Descriptor numbers are reused by the process as soon  *)
(* as they are closed, so who closes a number matters.                      *)
(***************************************************************************)
EXTENDS Integers, FiniteSets

CONSTANTS
    Conns,      \* the connections peers make
    Fds,        \* the descriptor numbers
    Capacity,   \* the slots of _ipcClients
    MaxOpens    \* bound on the calls of openUSB

ASSUME IpcConstants ==
    IsFiniteSet(Conns) /\ IsFiniteSet(Fds) /\ {Capacity, MaxOpens} \subseteq Nat \ {0}

VARIABLES
    session,    \* _running, whether the USB objects exist, _retirementUnsafe; opens so far
    listening,  \* _ipcListenFd names the listening socket
    fdTable,    \* what each descriptor number names in the process
    slots,      \* _ipcClients and _ipcClientGenerations
    acceptor,   \* the accept loop: where it is, with which connection
    handlers,   \* the handler blocks, dispatched or running
    active,     \* _ipcActiveHandlers
    shut,       \* the connections that can no longer be read
    arrived,    \* the connections made so far
    closer,     \* where close() is
    misclosed   \* TRUE once a close() hit a number that named something else

ipcVars == <<session, listening, fdTable, slots, acceptor, handlers, active, shut, arrived,
             closer, misclosed>>

Free == "free"
Other == "other file"
ASSUME IpcNames == Conns \cap {Free, Other} = {}
EmptySlot == [fd |-> Free, conn |-> Free]
NoConn == [conn |-> Free, fd |-> Free]
Acceptor(pc) == [pc |-> pc, at |-> NoConn]

IpcInit ==
    /\ session = [running |-> FALSE, open |-> FALSE, unsafe |-> FALSE, opens |-> 0]
    /\ listening = FALSE
    /\ fdTable = [f \in Fds |-> Free]
    /\ slots = [i \in 1 .. Capacity |-> EmptySlot]
    /\ acceptor = Acceptor("gone")
    /\ handlers = {}
    /\ active = 0
    /\ shut = {}
    /\ arrived = {}
    /\ closer = "none"
    /\ misclosed = FALSE

Registered == {slots[i].conn : i \in 1 .. Capacity} \ {Free}

\* close(fd) by whoever believes the number still names the connection c.
CloseFd(f, c) ==
    /\ fdTable' = [fdTable EXCEPT ![f] = Free]
    /\ misclosed' = (misclosed \/ fdTable[f] # c)

\* startIPCServer: nothing to do while an old listening socket is still there.
StartServer ==
    IF listening THEN UNCHANGED <<listening, acceptor>>
    ELSE listening' = TRUE /\ acceptor' = Acceptor("accepting")

(***************************************************************************)
(* The accept loop.  _running is tested before each accept; registering     *)
(* tests it again under the mutex under which close clears it.              *)
(***************************************************************************)
Accept(c) ==
    /\ acceptor.pc = "accepting" /\ session.running /\ listening
    /\ c \notin arrived
    /\ \E f \in Fds :
           /\ fdTable[f] = Free
           /\ fdTable' = [fdTable EXCEPT ![f] = c]
           /\ acceptor' = [pc |-> "registering", at |-> [conn |-> c, fd |-> f]]
    /\ arrived' = arrived \cup {c}
    /\ UNCHANGED <<session, listening, slots, handlers, active, shut, closer, misclosed>>

\* A loop that waits in accept ends with the listening socket, or with the next connection
\* it cannot keep.
AcceptEnds ==
    /\ acceptor.pc = "accepting" /\ (~listening \/ ~session.running)
    /\ acceptor' = Acceptor("gone")
    /\ UNCHANGED <<session, listening, fdTable, slots, handlers, active, shut, arrived, closer, misclosed>>

Admits == session.running /\ \E i \in 1 .. Capacity : slots[i] = EmptySlot

Register ==
    /\ acceptor.pc = "registering"
    /\ IF Admits
       THEN /\ LET i == CHOOSE j \in 1 .. Capacity :
                            slots[j] = EmptySlot /\ \A k \in 1 .. j - 1 : slots[k] # EmptySlot
               IN slots' = [slots EXCEPT ![i] = [fd |-> acceptor.at.fd, conn |-> acceptor.at.conn]]
            /\ acceptor' = [acceptor EXCEPT !.pc = "dispatching"]
            /\ UNCHANGED <<fdTable, misclosed>>
       ELSE /\ CloseFd(acceptor.at.fd, acceptor.at.conn)
            /\ acceptor' = Acceptor("accepting")
            /\ UNCHANGED slots
    /\ UNCHANGED <<session, listening, handlers, active, shut, arrived, closer>>

\* The control state is sent (a peer that cannot take it is shut down), the handler counted
\* and dispatched.
Dispatch ==
    /\ acceptor.pc = "dispatching"
    /\ \E slow \in {{}, {acceptor.at.conn}} : shut' = shut \cup slow
    /\ active' = active + 1
    /\ handlers' = handlers \cup {[at |-> acceptor.at, pc |-> "reading"]}
    /\ acceptor' = Acceptor("accepting")
    /\ UNCHANGED <<session, listening, fdTable, slots, arrived, closer, misclosed>>

(***************************************************************************)
(* A handler reads until its connection ends or the engine closes, takes    *)
(* its connection out of the table, closes the descriptor if it was the one *)
(* to take it out, and is uncounted.                                        *)
(***************************************************************************)
Moved(h, pc) == handlers' = (handlers \ {h}) \cup {[h EXCEPT !.pc = pc]}

HandlerLeaves(h) ==
    /\ h \in handlers /\ h.pc = "reading"
    /\ h.at.conn \in shut \/ ~session.running
    /\ Moved(h, "removing")
    /\ UNCHANGED <<session, listening, fdTable, slots, acceptor, active, shut, arrived, closer, misclosed>>

WasRegistered(h) == \E i \in 1 .. Capacity : slots[i] = [fd |-> h.at.fd, conn |-> h.at.conn]

Remove(h) ==
    /\ h \in handlers /\ h.pc = "removing"
    /\ slots' = [i \in 1 .. Capacity |->
                    IF slots[i] = [fd |-> h.at.fd, conn |-> h.at.conn] THEN EmptySlot ELSE slots[i]]
    /\ Moved(h, IF WasRegistered(h) THEN "closing" ELSE "leaving")
    /\ UNCHANGED <<session, listening, fdTable, acceptor, active, shut, arrived, closer, misclosed>>

HandlerCloses(h) ==
    /\ h \in handlers /\ h.pc = "closing"
    /\ CloseFd(h.at.fd, h.at.conn)
    /\ Moved(h, "leaving")
    /\ UNCHANGED <<session, listening, slots, acceptor, active, shut, arrived, closer>>

HandlerEnds(h) ==
    /\ h \in handlers /\ h.pc = "leaving"
    /\ handlers' = handlers \ {h}
    /\ active' = active - 1
    /\ UNCHANGED <<session, listening, fdTable, slots, acceptor, shut, arrived, closer, misclosed>>

(***************************************************************************)
(* Peers, and the rest of the process.                                      *)
(***************************************************************************)
\* A peer hangs up, or is too slow for a broadcast or a reply and is shut down.
PeerEnds(c) ==
    /\ c \in Registered \ shut
    /\ shut' = shut \cup {c}
    /\ UNCHANGED <<session, listening, fdTable, slots, acceptor, handlers, active, arrived, closer, misclosed>>

OtherOpens(f) ==
    /\ fdTable[f] = Free
    /\ fdTable' = [fdTable EXCEPT ![f] = Other]
    /\ UNCHANGED <<session, listening, slots, acceptor, handlers, active, shut, arrived, closer, misclosed>>

(***************************************************************************)
(* close(), after stop() has said yes.  Each wait ends by its deadline too; *)
(* then nothing is destroyed and the engine does not open again.            *)
(***************************************************************************)
CloseBegins ==
    /\ closer = "none" /\ session.open /\ ~session.unsafe
    /\ session' = [session EXCEPT !.running = FALSE]
    /\ closer' = "ipc"
    /\ UNCHANGED <<listening, fdTable, slots, acceptor, handlers, active, shut, arrived, misclosed>>

\* Defect used to test the properties: the server closes the numbers its handlers own.
StopServerClosing ==
    /\ closer = "ipc"
    /\ listening' = FALSE
    /\ shut' = shut \cup Registered
    /\ fdTable' = [f \in Fds |-> IF \E i \in 1 .. Capacity : slots[i].fd = f THEN Free ELSE fdTable[f]]
    /\ closer' = "queues"
    /\ UNCHANGED <<session, slots, acceptor, handlers, active, arrived, misclosed>>

\* stopIPCServer shuts the registered connections down and leaves their numbers open.
StopServer ==
    /\ closer = "ipc"
    /\ listening' = FALSE
    /\ shut' = shut \cup Registered
    /\ closer' = "queues"
    /\ UNCHANGED <<session, fdTable, slots, acceptor, handlers, active, arrived, misclosed>>

\* Defect used to test the properties: close does not wait for the accept loop.
QueuesRetiredEarly(readerGone) == readerGone

QueuesRetired(readerGone) == readerGone /\ acceptor.pc = "gone"

WaitForQueues(readerGone) ==
    /\ closer = "queues" /\ QueuesRetired(readerGone)
    /\ closer' = "handlers"
    /\ UNCHANGED <<session, listening, fdTable, slots, acceptor, handlers, active, shut, arrived, misclosed>>

CloseUSB ==
    /\ closer = "handlers" /\ active = 0
    /\ session' = [session EXCEPT !.open = FALSE]
    /\ closer' = "none"
    /\ UNCHANGED <<listening, fdTable, slots, acceptor, handlers, active, shut, arrived, misclosed>>

CloseTimesOut(readerGone) ==
    /\ \/ closer = "queues" /\ ~QueuesRetired(readerGone)
       \/ closer = "handlers" /\ active # 0
    /\ session' = [session EXCEPT !.unsafe = TRUE]
    /\ closer' = "none"
    /\ UNCHANGED <<listening, fdTable, slots, acceptor, handlers, active, shut, arrived, misclosed>>

AcceptLoop == (\E c \in Conns : Accept(c)) \/ AcceptEnds \/ Register \/ Dispatch
Handler(h) == HandlerLeaves(h) \/ Remove(h) \/ HandlerCloses(h) \/ HandlerEnds(h)
Outside == (\E c \in Conns : PeerEnds(c)) \/ \E f \in Fds : OtherOpens(f)

IpcTypeOK ==
    /\ session \in [running : BOOLEAN, open : BOOLEAN, unsafe : BOOLEAN, opens : 0 .. MaxOpens]
    /\ fdTable \in [Fds -> Conns \cup {Free, Other}]
    /\ acceptor.pc \in {"gone", "accepting", "registering", "dispatching"}
    /\ active \in Nat
    /\ shut \subseteq arrived /\ arrived \subseteq Conns
    /\ closer \in {"none", "ipc", "queues", "handlers"}

=============================================================================
