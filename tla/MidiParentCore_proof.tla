------------------------ MODULE MidiParentCore_proof ------------------------
(***************************************************************************)
(* Proofs about MidiParentCore, and about MidiCaptureStream, which composes *)
(* it with the capture stream, for every set of threads and clients, every  *)
(* size of the rings and every bound.                                       *)
(***************************************************************************)
EXTENDS MidiCaptureStream, FiniteSetTheorems, SequenceTheorems, TLAPS

(***************************************************************************)
(* The inductive invariant.  What is added to the properties: a reset comes *)
(* before all else, the rings hold bytes of the present run in every state, *)
(* and the callbacks are finitely many, so that their count is a number.    *)
(***************************************************************************)
\* The parent has been prepared at least once when its state says so.
RunsBegun == core.state \in {"READY", "ACCEPTING_IO", "STOPPING"} => runs >= 1

OfRun(ring, r) == \A i \in 1 .. Len(ring) : ring[i] = r
RingsOfThisRun == OfRun(core.rx, runs) /\ OfRun(core.tx, runs)

InFlightExact == IsFiniteSet(running) /\ core.inFlight = Cardinality(running)
ThreadsDistinct == \A r, s \in running : r.thread = s.thread => r = s
OwnersKnown == \A r \in running : r.client = core.rxClient \/ r.client \in waiting

IInv ==
    /\ TypeOK
    /\ RunsBegun
    /\ RingsOfThisRun
    /\ InFlightExact
    /\ ThreadsDistinct
    /\ OwnersKnown
    /\ TeardownIsQuiet

(***************************************************************************)
(* The rings                                                               *)
(***************************************************************************)
Ring == {q \in Seq(1 .. MaxRuns) : Len(q) <= RingCapacity}

\* Bytes that are queued belong to the present run.
LEMMA QueuedBytes ==
    ASSUME NEW q \in Ring, OfRun(q, runs), runs \in 1 .. MaxRuns,
           NEW n \in 1 .. RingCapacity, Fits(q, n)
    PROVE  q \o Run(n) \in Ring /\ OfRun(q \o Run(n), runs)
  <1>1. n \in Nat /\ q \in Seq(1 .. MaxRuns)
    BY ParentConstants DEF Ring
  <1>2. /\ Run(n) \in Seq(1 .. MaxRuns)
        /\ Len(Run(n)) = n
        /\ \A i \in 1 .. n : Run(n)[i] = runs
    BY <1>1 DEF Run
  <1>3. /\ q \o Run(n) \in Seq(1 .. MaxRuns)
        /\ Len(q \o Run(n)) = Len(q) + n
        /\ \A i \in 1 .. Len(q) + n :
              (q \o Run(n))[i] = IF i <= Len(q) THEN q[i] ELSE Run(n)[i - Len(q)]
    BY <1>1, <1>2, ConcatProperties
  <1>4. Len(q) + n <= RingCapacity
    BY <1>1, ParentConstants DEF Fits
  <1>5. Len(q) \in Nat
    BY <1>1
  <1>6. \A i \in 1 .. Len(q) + n : (q \o Run(n))[i] = runs
    BY <1>1, <1>2, <1>3, <1>5 DEF OfRun
  <1> QED BY <1>3, <1>4, <1>6 DEF Ring, OfRun

\* Bytes that are taken leave the rest as it was.
LEMMA TakenBytes ==
    ASSUME NEW q \in Ring, OfRun(q, runs), NEW n \in 0 .. Len(q)
    PROVE  Drop(q, n) \in Ring /\ OfRun(Drop(q, n), runs)
  <1>1. q \in Seq(1 .. MaxRuns) /\ Len(q) \in Nat /\ Len(q) <= RingCapacity
    BY DEF Ring
  <1>2. \A i \in n + 1 .. Len(q) : q[i] \in 1 .. MaxRuns
    <2>1. \A i \in 1 .. Len(q) : q[i] \in 1 .. MaxRuns
      BY <1>1, ElementOfSeq
    <2>2. n + 1 .. Len(q) \subseteq 1 .. Len(q)
      BY <1>1
    <2> QED BY <2>1, <2>2
  <1>3. /\ Drop(q, n) \in Seq(1 .. MaxRuns)
        /\ Len(Drop(q, n)) = IF n + 1 <= Len(q) THEN Len(q) - (n + 1) + 1 ELSE 0
        /\ \A i \in 1 .. Len(q) - (n + 1) + 1 : Drop(q, n)[i] = q[n + 1 + i - 1]
    BY <1>1, <1>2, SubSeqProperties DEF Drop
  <1>4. Len(Drop(q, n)) = Len(q) - n
    BY <1>1, <1>3
  <1>5. \A i \in 1 .. Len(q) - n : Drop(q, n)[i] = q[n + i]
    BY <1>1, <1>3
  <1> QED BY <1>1, <1>3, <1>4, <1>5, ParentConstants DEF Ring, OfRun

(***************************************************************************)
(* Types, and the bytes in the rings                                       *)
(***************************************************************************)
\* The core structure, as TypeOK has it.
CoreType ==
    [state : States, rxClient : ClientIds \cup {NoClient}, txOpen : BOOLEAN,
     epoch : 0 .. MaxEpoch, inFlight : Nat, txFaulted : BOOLEAN,
     rx : Ring, tx : Ring]

\* TypeOK, with the bound on the rings inside the type of the core.
LEMMA TypeOfCore ==
    TypeOK <=> /\ core \in CoreType
               /\ events \subseteq RundownEvents
               /\ tokens \subseteq [epoch : 0 .. MaxEpoch, client : ClientIds]
               /\ running \subseteq [thread : Threads, client : ClientIds]
               /\ clients \in 0 .. MaxClients
               /\ runs \in 0 .. MaxRuns
               /\ waiting \subseteq ClientIds
  BY DEF TypeOK, CoreType, Ring

\* The empty ring, the next epoch, and the set of waiting clients have their types.
LEMMA EmptyRing == <<>> \in Ring /\ \A r : OfRun(<<>>, r)
  BY ParentConstants DEF Ring, OfRun

LEMMA EpochType == ASSUME NEW e \in 0 .. MaxEpoch PROVE NextEpoch(e) \in 0 .. MaxEpoch
  BY ParentConstants DEF NextEpoch

LEMMA ReportType ==
    ASSUME NEW reported, reported \subseteq RundownEvents, waiting \subseteq ClientIds,
           Report(reported)
    PROVE  events' \subseteq RundownEvents /\ waiting' \subseteq ClientIds
  BY DEF Report

LEMMA TeardownEventType == \A c : TeardownEvent(c) \subseteq RundownEvents
  BY DEF TeardownEvent, RundownEvents

\* A step keeps the types, the bytes and the state of the rings.
LEMMA StepTypes ==
    ASSUME IInv, Next
    PROVE  TypeOK' /\ RunsBegun' /\ RingsOfThisRun'
  <1> DEFINE Rest == /\ events' \subseteq RundownEvents
                     /\ tokens' \subseteq [epoch : 0 .. MaxEpoch, client : ClientIds]
                     /\ running' \subseteq [thread : Threads, client : ClientIds]
                     /\ clients' \in 0 .. MaxClients
                     /\ runs' \in 0 .. MaxRuns
                     /\ waiting' \subseteq ClientIds
  <1> SUFFICES core' \in CoreType /\ Rest /\ RunsBegun' /\ RingsOfThisRun'
    BY DEF TypeOK, CoreType, Ring
  <1>0. /\ core \in CoreType
        /\ events \subseteq RundownEvents
        /\ tokens \subseteq [epoch : 0 .. MaxEpoch, client : ClientIds]
        /\ running \subseteq [thread : Threads, client : ClientIds]
        /\ clients \in 0 .. MaxClients
        /\ runs \in 0 .. MaxRuns
        /\ waiting \subseteq ClientIds
        /\ RunsBegun
        /\ RingsOfThisRun
    BY TypeOfCore DEF IInv
  <1>e. NextEpoch(core.epoch) \in 0 .. MaxEpoch
    BY <1>0, EpochType DEF CoreType
  <1>1. CASE Prepare
    <2>1. core' \in CoreType /\ core'.rx = <<>> /\ core'.tx = <<>>
      BY <1>0, <1>1, <1>e, EmptyRing DEF Prepare, ResetTransport, CoreType, States
    <2>2. Rest
      BY <1>0, <1>1, ParentConstants DEF Prepare, Report
    <2> QED BY <1>0, <1>1, <2>1, <2>2, EmptyRing DEF Prepare, RunsBegun, RingsOfThisRun
  <1>2. CASE AcceptIo
    <2>1. /\ core' \in CoreType /\ core'.rx = core.rx /\ core'.tx = core.tx
          /\ core.state = "READY" /\ runs' = runs
      BY <1>0, <1>2 DEF AcceptIo, CoreType, States
    <2>2. Rest
      BY <1>0, <1>2 DEF AcceptIo, Report
    <2> QED BY <1>0, <2>1, <2>2 DEF RunsBegun, RingsOfThisRun
  <1>3. CASE RestartIo
    <2>1. core' \in CoreType /\ core'.rx = <<>> /\ core'.tx = <<>>
      BY <1>0, <1>3, <1>e, EmptyRing DEF RestartIo, ResetTransport, CoreType, States
    <2>2. Rest
      BY <1>0, <1>3, ParentConstants DEF RestartIo, Report
    <2> QED BY <1>0, <1>3, <2>1, <2>2, EmptyRing DEF RestartIo, RunsBegun, RingsOfThisRun
  <1>4. CASE StopIo
    <2>1. /\ core' \in CoreType /\ core'.rx = core.rx /\ core'.tx = core.tx
          /\ core.state \in {"READY", "ACCEPTING_IO"} /\ runs' = runs
      BY <1>0, <1>4, <1>e DEF StopIo, CoreType, States
    <2>2. Rest
      BY <1>0, <1>4, ReportType, TeardownEventType DEF StopIo
    <2> QED BY <1>0, <2>1, <2>2 DEF RunsBegun, RingsOfThisRun
  <1>5. CASE GoOffline
    <2>1. /\ core' \in CoreType /\ core'.rx = core.rx /\ core'.tx = core.tx
          /\ core'.state = "OFFLINE" /\ runs' = runs
      BY <1>0, <1>5 DEF GoOffline, CoreType, States
    <2>2. Rest
      BY <1>0, <1>5 DEF GoOffline, Report, RundownEvents
    <2> QED BY <1>0, <2>1, <2>2 DEF RunsBegun, RingsOfThisRun
  <1>6. CASE Remove
    <2>1. /\ core' \in CoreType /\ core'.rx = core.rx /\ core'.tx = core.tx
          /\ core'.state = "REMOVED" /\ runs' = runs
      BY <1>0, <1>6 DEF Remove, CoreType, States
    <2>2. Rest
      BY <1>0, <1>6 DEF Remove, Report, RundownEvents
    <2> QED BY <1>0, <2>1, <2>2 DEF RunsBegun, RingsOfThisRun
  <1>7. CASE OpenRx
    <2>1. /\ core' \in CoreType /\ core'.rx = core.rx /\ core'.tx = core.tx
          /\ core'.state = core.state /\ runs' = runs
      <3>1. clients + 1 \in ClientIds
        BY <1>0, <1>7, ParentConstants DEF OpenRx, ClientIds
      <3> QED BY <1>0, <1>7, <1>e, <3>1 DEF OpenRx, CoreType
    <2>2. Rest
      BY <1>0, <1>7, ParentConstants DEF OpenRx, Report
    <2> QED BY <1>0, <2>1, <2>2 DEF RunsBegun, RingsOfThisRun
  <1>8. CASE OpenTx
    <2>1. /\ core' \in CoreType /\ core'.rx = core.rx /\ core'.tx = core.tx
          /\ core'.state = core.state /\ runs' = runs
      BY <1>0, <1>8 DEF OpenTx, CoreType
    <2>2. Rest
      BY <1>0, <1>8 DEF OpenTx, Report
    <2> QED BY <1>0, <2>1, <2>2 DEF RunsBegun, RingsOfThisRun
  <1>9. CASE CloseRx
    <2>1. /\ core' \in CoreType /\ core'.rx = core.rx /\ core'.tx = core.tx
          /\ core'.state = core.state /\ runs' = runs
      BY <1>0, <1>9, <1>e DEF CloseRx, ClosedRx, CoreType
    <2>2. events' \subseteq RundownEvents /\ waiting' \subseteq ClientIds
      <3>1. CASE core.inFlight # 0
        <4>1. core.rxClient \in ClientIds
          BY <1>0, <1>9 DEF CloseRx, RxOpen, CoreType
        <4> QED BY <1>0, <1>9, <3>1, <4>1 DEF CloseRx
      <3>2. CASE core.inFlight = 0
        <4>1. Report({"NOTIFY_DRAINED"} \cup TeardownEvent(ClosedRx(core)))
          BY <1>9, <3>2 DEF CloseRx
        <4>2. {"NOTIFY_DRAINED"} \cup TeardownEvent(ClosedRx(core)) \subseteq RundownEvents
          BY TeardownEventType DEF RundownEvents
        <4> QED BY <1>0, <4>1, <4>2, ReportType
      <3> QED BY <3>1, <3>2
    <2> QED BY <1>0, <1>9, <2>1, <2>2 DEF CloseRx, RunsBegun, RingsOfThisRun
  <1>10. CASE CloseTx
    <2>1. /\ core' \in CoreType /\ core'.rx = core.rx /\ core'.tx = core.tx
          /\ core'.state = core.state /\ runs' = runs
      BY <1>0, <1>10 DEF CloseTx, CoreType
    <2>2. Rest
      <3>1. Report(TeardownEvent(core')) /\ TeardownEvent(core') \subseteq RundownEvents
        BY <1>10, TeardownEventType DEF CloseTx
      <3> QED BY <1>0, <1>10, <3>1, ReportType DEF CloseTx
    <2> QED BY <1>0, <2>1, <2>2 DEF RunsBegun, RingsOfThisRun
  <1>11. ASSUME NEW n \in 1 .. RingCapacity, Read(n) PROVE Rest /\ core' \in CoreType /\ RunsBegun' /\ RingsOfThisRun'
    <2>1. /\ Drop(core.rx, n) \in Ring /\ OfRun(Drop(core.rx, n), runs)
      <3>1. core.rx \in Ring /\ OfRun(core.rx, runs) /\ n \in 0 .. Len(core.rx)
        BY <1>0, <1>11 DEF Read, CoreType, RingsOfThisRun
      <3> QED BY <3>1, TakenBytes
    <2>2. /\ core' \in CoreType /\ core'.rx = Drop(core.rx, n) /\ core'.tx = core.tx
          /\ core'.state = core.state
      BY <1>0, <1>11, <2>1 DEF Read, CoreType
    <2> QED BY <1>0, <1>11, <2>1, <2>2 DEF Read, RunsBegun, RingsOfThisRun
  <1>12. ASSUME NEW n \in 1 .. RingCapacity, Write(n) PROVE Rest /\ core' \in CoreType /\ RunsBegun' /\ RingsOfThisRun'
    <2>1. core.tx \o Run(n) \in Ring /\ OfRun(core.tx \o Run(n), runs)
      <3>1. core.tx \in Ring /\ OfRun(core.tx, runs) /\ Fits(core.tx, n) /\ runs \in 1 .. MaxRuns
        BY <1>0, <1>12 DEF Write, CanSend, CoreType, RingsOfThisRun, RunsBegun
      <3> QED BY <3>1, QueuedBytes
    <2>2. /\ core' \in CoreType /\ core'.tx = core.tx \o Run(n) /\ core'.rx = core.rx
          /\ core'.state = core.state
      BY <1>0, <1>12, <2>1 DEF Write, CoreType
    <2>3. Rest
      BY <1>0, <1>12 DEF Write, Report
    <2> QED BY <1>0, <1>12, <2>1, <2>2, <2>3 DEF Write, RunsBegun, RingsOfThisRun
  <1>13. ASSUME NEW n \in 1 .. RingCapacity, DemuxMidi(n) PROVE Rest /\ core' \in CoreType /\ RunsBegun' /\ RingsOfThisRun'
    <2>1. core.rx \o Run(n) \in Ring /\ OfRun(core.rx \o Run(n), runs)
      <3>1. core.rx \in Ring /\ OfRun(core.rx, runs) /\ Fits(core.rx, n) /\ runs \in 1 .. MaxRuns
        BY <1>0, <1>13 DEF DemuxMidi, CoreType, RingsOfThisRun, RunsBegun
      <3> QED BY <3>1, QueuedBytes
    <2>2. /\ core' \in CoreType /\ core'.rx = core.rx \o Run(n) /\ core'.tx = core.tx
          /\ core'.state = core.state
      BY <1>0, <1>13, <2>1 DEF DemuxMidi, CoreType
    <2>3. tokens' \subseteq [epoch : 0 .. MaxEpoch, client : ClientIds]
      <3>1. RxOpen(core) => [epoch |-> core.epoch, client |-> core.rxClient]
                            \in [epoch : 0 .. MaxEpoch, client : ClientIds]
        BY <1>0 DEF RxOpen, CoreType
      <3> QED BY <1>0, <1>13, <3>1 DEF DemuxMidi
    <2>4. Rest
      BY <1>0, <1>13, <2>3 DEF DemuxMidi, Report
    <2> QED BY <1>0, <1>13, <2>1, <2>2, <2>4 DEF DemuxMidi, RunsBegun, RingsOfThisRun
  <1>14. CASE TakeTxFrame
    <2>1. /\ Drop(core.tx, FrameLength(core.tx)) \in Ring
          /\ OfRun(Drop(core.tx, FrameLength(core.tx)), runs)
      <3>1. core.tx \in Ring /\ OfRun(core.tx, runs) /\ FrameLength(core.tx) \in 0 .. Len(core.tx)
        BY <1>0, ParentConstants DEF CoreType, RingsOfThisRun, FrameLength, Ring
      <3> QED BY <3>1, TakenBytes
    <2>2. /\ core' \in CoreType /\ core'.tx = Drop(core.tx, FrameLength(core.tx))
          /\ core'.rx = core.rx /\ core'.state = core.state
      BY <1>0, <1>14, <2>1 DEF TakeTxFrame, CoreType
    <2> QED BY <1>0, <1>14, <2>1, <2>2 DEF TakeTxFrame, RunsBegun, RingsOfThisRun
  <1>15. CASE FaultTx
    <2>1. /\ core' \in CoreType /\ core'.rx = core.rx /\ core'.tx = core.tx
          /\ core'.state = core.state /\ runs' = runs
      BY <1>0, <1>15 DEF FaultTx, CoreType
    <2>2. Rest
      BY <1>0, <1>15 DEF FaultTx, Report
    <2> QED BY <1>0, <2>1, <2>2 DEF RunsBegun, RingsOfThisRun
  <1>16. ASSUME NEW thread \in Threads, NEW token \in tokens, AcquireNotify(thread, token)
         PROVE  Rest /\ core' \in CoreType /\ RunsBegun' /\ RingsOfThisRun'
    <2>1. /\ core' \in CoreType /\ core'.rx = core.rx /\ core'.tx = core.tx
          /\ core'.state = core.state /\ runs' = runs
      BY <1>0, <1>16 DEF AcquireNotify, CoreType
    <2>2. [thread |-> thread, client |-> core.rxClient] \in [thread : Threads, client : ClientIds]
      BY <1>0, <1>16 DEF AcquireNotify, TokenValid, RxOpen, CoreType
    <2>3. Rest
      BY <1>0, <1>16, <2>2 DEF AcquireNotify
    <2> QED BY <1>0, <2>1, <2>3 DEF RunsBegun, RingsOfThisRun
  <1>17. ASSUME NEW token \in tokens, DiscardNotify(token)
         PROVE  Rest /\ core' \in CoreType /\ RunsBegun' /\ RingsOfThisRun'
    BY <1>0, <1>17 DEF DiscardNotify, RunsBegun, RingsOfThisRun
  <1>18. ASSUME NEW callback \in running, CompleteNotify(callback)
         PROVE  Rest /\ core' \in CoreType /\ RunsBegun' /\ RingsOfThisRun'
    <2>1. core.inFlight \in Nat \ {0}
      BY <1>0, FS_EmptySet DEF IInv, InFlightExact, CoreType
    <2>2. /\ core' \in CoreType /\ core'.rx = core.rx /\ core'.tx = core.tx
          /\ core'.state = core.state /\ runs' = runs
      BY <1>0, <1>18, <2>1 DEF CompleteNotify, Completed, CoreType
    <2>3. DrainedEvent(Completed(core)) \cup TeardownEvent(Completed(core)) \subseteq RundownEvents
      BY TeardownEventType DEF DrainedEvent, RundownEvents
    <2>4. Rest
      BY <1>0, <1>18, <2>3, ReportType DEF CompleteNotify
    <2> QED BY <1>0, <2>2, <2>4 DEF RunsBegun, RingsOfThisRun
  <1> QED BY <1>1, <1>2, <1>3, <1>4, <1>5, <1>6, <1>7, <1>8, <1>9, <1>10, <1>11, <1>12, <1>13,
             <1>14, <1>15, <1>16, <1>17, <1>18 DEF Next

(***************************************************************************)
(* The callbacks, their owners, and the rundown                            *)
(***************************************************************************)
\* Only a callback that begins or returns changes the count and the set of callbacks.
LEMMA CallbacksKept ==
    ASSUME core \in CoreType,
           \/ Prepare \/ AcceptIo \/ RestartIo \/ StopIo \/ GoOffline \/ Remove
           \/ OpenRx \/ OpenTx \/ CloseRx \/ CloseTx \/ TakeTxFrame \/ FaultTx
           \/ \E n \in 1 .. RingCapacity : Read(n) \/ Write(n) \/ DemuxMidi(n)
           \/ \E token \in tokens : DiscardNotify(token)
    PROVE  core'.inFlight = core.inFlight /\ running' = running
  BY DEF CoreType, Prepare, AcceptIo, RestartIo, StopIo, GoOffline, Remove, OpenRx, OpenTx,
         CloseRx, ClosedRx, CloseTx, TakeTxFrame, FaultTx, Read, Write, DemuxMidi,
         DiscardNotify, ResetTransport

\* A step keeps the count of the callbacks, and one callback to a thread.
LEMMA StepCounts ==
    ASSUME IInv, Next
    PROVE  InFlightExact' /\ ThreadsDistinct'
  <1>0. /\ core \in CoreType
        /\ IsFiniteSet(running) /\ core.inFlight = Cardinality(running)
        /\ ThreadsDistinct
    BY TypeOfCore DEF IInv, InFlightExact
  <1>1. ASSUME core'.inFlight = core.inFlight, running' = running
        PROVE  InFlightExact' /\ ThreadsDistinct'
    BY <1>0, <1>1 DEF InFlightExact, ThreadsDistinct
  <1>2. ASSUME NEW thread \in Threads, NEW token \in tokens, AcquireNotify(thread, token)
        PROVE  InFlightExact' /\ ThreadsDistinct'
    <2> DEFINE new == [thread |-> thread, client |-> core.rxClient]
    <2>1. core'.inFlight = core.inFlight + 1 /\ running' = running \cup {new}
      BY <1>0, <1>2 DEF AcquireNotify, CoreType
    <2>2. \A r \in running : r.thread # new.thread
      BY <1>2 DEF AcquireNotify, Idle
    <2>3. new \notin running
      BY <2>2
    <2>4. IsFiniteSet(running') /\ Cardinality(running') = Cardinality(running) + 1
      BY <1>0, <2>1, <2>3, FS_AddElement
    <2>5. ThreadsDistinct'
      BY <1>0, <2>1, <2>2 DEF ThreadsDistinct
    <2> QED BY <1>0, <2>1, <2>4, <2>5 DEF InFlightExact
  <1>3. ASSUME NEW callback \in running, CompleteNotify(callback)
        PROVE  InFlightExact' /\ ThreadsDistinct'
    <2>1. core'.inFlight = core.inFlight - 1 /\ running' = running \ {callback}
      BY <1>0, <1>3 DEF CompleteNotify, Completed, CoreType
    <2>2. IsFiniteSet(running') /\ Cardinality(running') = Cardinality(running) - 1
      BY <1>0, <2>1, FS_RemoveElement
    <2>3. ThreadsDistinct'
      BY <1>0, <2>1 DEF ThreadsDistinct
    <2> QED BY <1>0, <2>1, <2>2, <2>3 DEF InFlightExact
  <1> QED BY <1>0, <1>1, <1>2, <1>3, CallbacksKept DEF Next

\* A step leaves every callback with the open client or with one that waits: the waiting
\* clients are released only by a report that comes when no callback is left.
LEMMA StepOwners ==
    ASSUME IInv, Next
    PROVE  OwnersKnown'
  <1>0. core \in CoreType /\ OwnersKnown /\ InFlightExact
    BY TypeOfCore DEF IInv
  <1>n. InFlightExact'
    BY StepCounts
  \* A step that keeps the client and the callbacks, and releases nobody.
  <1>k. ASSUME core'.rxClient = core.rxClient, running' \subseteq running,
               waiting' = waiting
        PROVE  OwnersKnown'
    BY <1>0, <1>k DEF OwnersKnown
  \* A step after which none is running.
  <1>z. ASSUME core'.inFlight = 0 PROVE OwnersKnown'
    <2>1. running' = {}
      BY <1>n, <1>z, FS_EmptySet DEF InFlightExact
    <2> QED BY <2>1 DEF OwnersKnown
  \* A rundown event is reported only when none is running.
  <1>t. ASSUME NEW c \in CoreType, TeardownEvent(c) # {} PROVE c.inFlight = 0
    BY <1>t DEF TeardownEvent, TeardownReady
  <1>1. CASE Prepare \/ AcceptIo \/ RestartIo \/ OpenTx \/ FaultTx
    <2>1. core'.rxClient = core.rxClient /\ running' = running /\ waiting' = waiting
      BY <1>0, <1>1 DEF Prepare, AcceptIo, RestartIo, OpenTx, FaultTx, ResetTransport,
                        Report, CoreType
    <2> QED BY <2>1, <1>k
  <1>2. CASE StopIo
    <2> DEFINE stopping == [core EXCEPT !.state = "STOPPING"]
    <2>1. /\ core'.rxClient = core.rxClient /\ running' = running
          /\ core'.inFlight = core.inFlight
          /\ stopping \in CoreType /\ stopping.inFlight = core.inFlight
          /\ Report(TeardownEvent(stopping))
      BY <1>0, <1>2 DEF StopIo, CoreType, States
    <2>2. CASE TeardownEvent(stopping) = {}
      <3>1. waiting' = waiting
        BY <2>1, <2>2 DEF Report
      <3> QED BY <2>1, <3>1, <1>k
    <2>3. CASE TeardownEvent(stopping) # {}
      <3>1. stopping.inFlight = 0
        BY <2>1, <2>3, <1>t
      <3> QED BY <2>1, <3>1, <1>z
    <2> QED BY <2>2, <2>3
  <1>3. CASE GoOffline \/ Remove
    <2>1. core'.inFlight = 0
      BY <1>0, <1>3 DEF GoOffline, Remove, TeardownReady, CoreType
    <2> QED BY <2>1, <1>z
  <1>4. CASE OpenRx
    <2>1. running' = running /\ waiting' = waiting /\ core.rxClient = NoClient
      BY <1>4 DEF OpenRx, Report, RxOpen
    <2>2. \A r \in running : r.client \in ClientIds
      BY TypeOfCore DEF IInv
    <2>3. NoClient \notin ClientIds
      BY ParentConstants DEF NoClient, ClientIds
    <2> QED BY <1>0, <2>1, <2>2, <2>3 DEF OwnersKnown
  <1>5. CASE CloseRx
    <2>1. running' = running /\ core'.inFlight = core.inFlight
      BY <1>0, <1>5 DEF CloseRx, ClosedRx, CoreType
    <2>2. CASE core.inFlight # 0
      <3>1. waiting' = waiting \cup {core.rxClient}
        BY <1>5, <2>2 DEF CloseRx
      <3> QED BY <1>0, <2>1, <3>1 DEF OwnersKnown
    <2>3. CASE core.inFlight = 0
      BY <2>1, <2>3, <1>z
    <2> QED BY <2>2, <2>3
  <1>6. CASE CloseTx
    <2>1. /\ core'.rxClient = core.rxClient /\ running' = running /\ core' \in CoreType
          /\ Report(TeardownEvent(core'))
      BY <1>0, <1>6 DEF CloseTx, CoreType
    <2>2. CASE TeardownEvent(core') = {}
      <3>1. waiting' = waiting
        BY <2>1, <2>2 DEF Report
      <3> QED BY <2>1, <3>1, <1>k
    <2>3. CASE TeardownEvent(core') # {}
      BY <2>1, <2>3, <1>t, <1>z
    <2> QED BY <2>2, <2>3
  <1>7. CASE \E n \in 1 .. RingCapacity : Read(n) \/ Write(n) \/ DemuxMidi(n)
    <2>1. core'.rxClient = core.rxClient /\ running' = running /\ waiting' = waiting
      BY <1>0, <1>7 DEF Read, Write, DemuxMidi, Report, CoreType
    <2> QED BY <2>1, <1>k
  <1>8. CASE TakeTxFrame \/ \E token \in tokens : DiscardNotify(token)
    <2>1. core'.rxClient = core.rxClient /\ running' = running /\ waiting' = waiting
      BY <1>0, <1>8 DEF TakeTxFrame, DiscardNotify, CoreType
    <2> QED BY <2>1, <1>k
  <1>9. ASSUME NEW thread \in Threads, NEW token \in tokens, AcquireNotify(thread, token)
        PROVE  OwnersKnown'
    <2>1. /\ core'.rxClient = core.rxClient /\ waiting' = waiting
          /\ running' = running \cup {[thread |-> thread, client |-> core.rxClient]}
      BY <1>0, <1>9 DEF AcquireNotify, CoreType
    <2> QED BY <1>0, <2>1 DEF OwnersKnown
  <1>10. ASSUME NEW callback \in running, CompleteNotify(callback)
         PROVE  OwnersKnown'
    <2> DEFINE after == Completed(core)
    <2>1. core' = after /\ core'.rxClient = core.rxClient /\ running' \subseteq running
      BY <1>0, <1>10 DEF CompleteNotify, Completed, CoreType
    <2>2. CASE core'.inFlight = 0
      BY <2>2, <1>z
    <2>3. CASE core'.inFlight # 0
      <3>1. DrainedEvent(after) = {} /\ TeardownEvent(after) = {}
        BY <2>1, <2>3 DEF DrainedEvent, TeardownEvent, TeardownReady
      <3>2. Report(DrainedEvent(after) \cup TeardownEvent(after))
        BY <1>10 DEF CompleteNotify
      <3>3. waiting' = waiting
        BY <3>1, <3>2 DEF Report
      <3> QED BY <2>1, <3>3, <1>k
    <2> QED BY <2>2, <2>3
  <1> QED BY <1>1, <1>2, <1>3, <1>4, <1>5, <1>6, <1>7, <1>8, <1>9, <1>10 DEF Next

\* The state that the rundown promises.
QuietCore(c) == ~RxOpen(c) /\ ~c.txOpen /\ c.inFlight = 0

\* A step that ends offline or removed, or reports TEARDOWN_READY, leaves nothing open and
\* no callback running.
LEMMA StepTeardown ==
    ASSUME IInv, Next
    PROVE  TeardownIsQuiet'
  <1>0. core \in CoreType /\ TeardownIsQuiet /\ InFlightExact
    BY TypeOfCore DEF IInv
  <1>q. QuietCore(core)' => TeardownIsQuiet'
    <2>1. InFlightExact'
      BY StepCounts
    <2>2. ASSUME QuietCore(core)' PROVE running' = {}
      BY <2>1, <2>2, FS_EmptySet DEF InFlightExact, QuietCore
    <2> QED BY <2>2 DEF QuietCore, TeardownIsQuiet
  <1>k. ASSUME core'.state \notin {"OFFLINE", "REMOVED"}, "TEARDOWN_READY" \notin events'
        PROVE  TeardownIsQuiet'
    BY <1>k DEF TeardownIsQuiet
  <1>e. ASSUME NEW c, "TEARDOWN_READY" \in TeardownEvent(c) PROVE QuietCore(c)
    BY <1>e DEF TeardownEvent, TeardownReady, QuietCore
  <1>1. CASE Prepare \/ AcceptIo \/ RestartIo \/ OpenRx \/ OpenTx \/ FaultTx
             \/ \E n \in 1 .. RingCapacity : Write(n) \/ DemuxMidi(n)
    <2>1. /\ core'.state \notin {"OFFLINE", "REMOVED"}
          /\ events' = {}
      BY <1>0, <1>1 DEF Prepare, AcceptIo, RestartIo, OpenRx, OpenTx, FaultTx, Write, DemuxMidi,
                        ResetTransport, CanOpen, CanSend, Report, CoreType
    <2> QED BY <2>1, <1>k
  <1>2. CASE StopIo
    <2> DEFINE stopping == [core EXCEPT !.state = "STOPPING"]
    <2>1. /\ core'.state = "STOPPING" /\ events' = TeardownEvent(stopping)
          /\ core'.rxClient = stopping.rxClient /\ core'.txOpen = stopping.txOpen
          /\ core'.inFlight = stopping.inFlight
      BY <1>0, <1>2 DEF StopIo, Report, CoreType
    <2>2. CASE "TEARDOWN_READY" \in events'
      <3>1. QuietCore(stopping)
        BY <2>1, <2>2, <1>e
      <3> HIDE DEF stopping
      <3> QED BY <2>1, <3>1, <1>q DEF QuietCore, RxOpen
    <2>3. CASE "TEARDOWN_READY" \notin events'
      BY <2>1, <2>3, <1>k
    <2> QED BY <2>2, <2>3
  <1>3. CASE GoOffline \/ Remove
    <2>1. QuietCore(core)'
      BY <1>0, <1>3 DEF GoOffline, Remove, TeardownReady, QuietCore, RxOpen, CoreType
    <2> QED BY <2>1, <1>q
  <1>4. CASE CloseRx
    <2>1. /\ core' = ClosedRx(core) /\ core'.state = core.state
          /\ core'.rxClient = NoClient /\ core'.txOpen = core.txOpen
          /\ core'.inFlight = core.inFlight
      BY <1>0, <1>4 DEF CloseRx, ClosedRx, CoreType
    <2>2. core.state \notin {"OFFLINE", "REMOVED"}
      BY <1>0, <1>4 DEF CloseRx, TeardownIsQuiet
    <2>3. CASE "TEARDOWN_READY" \in events'
      <3>1. "TEARDOWN_READY" \in TeardownEvent(core')
        BY <1>4, <2>1, <2>3 DEF CloseRx, Report
      <3>2. QuietCore(core')
        BY <3>1, <1>e
      <3> QED BY <3>2, <1>q DEF QuietCore, RxOpen
    <2>4. CASE "TEARDOWN_READY" \notin events'
      BY <2>1, <2>2, <2>4, <1>k
    <2> QED BY <2>3, <2>4
  <1>5. CASE CloseTx
    <2>1. core'.state = core.state /\ events' = TeardownEvent(core')
      BY <1>0, <1>5 DEF CloseTx, Report, CoreType
    <2>2. core.state \notin {"OFFLINE", "REMOVED"}
      BY <1>0, <1>5 DEF CloseTx, TeardownIsQuiet
    <2>3. CASE "TEARDOWN_READY" \in events'
      <3>1. QuietCore(core')
        BY <2>1, <2>3, <1>e
      <3> QED BY <3>1, <1>q DEF QuietCore, RxOpen
    <2>4. CASE "TEARDOWN_READY" \notin events'
      BY <2>1, <2>2, <2>4, <1>k
    <2> QED BY <2>3, <2>4
  <1>6. CASE TakeTxFrame \/ (\E n \in 1 .. RingCapacity : Read(n))
             \/ (\E token \in tokens : DiscardNotify(token))
    <2>1. /\ core'.state = core.state /\ core'.rxClient = core.rxClient
          /\ core'.txOpen = core.txOpen
          /\ events' = events /\ running' = running
      BY <1>0, <1>6 DEF TakeTxFrame, Read, DiscardNotify, CoreType
    <2> QED BY <1>0, <2>1 DEF TeardownIsQuiet, RxOpen
  <1>7. ASSUME NEW thread \in Threads, NEW token \in tokens, AcquireNotify(thread, token)
        PROVE  TeardownIsQuiet'
    <2>1. core'.state = core.state /\ events' = events /\ RxOpen(core)
      BY <1>0, <1>7 DEF AcquireNotify, TokenValid, CoreType
    <2>2. core.state \notin {"OFFLINE", "REMOVED"} /\ "TEARDOWN_READY" \notin events
      BY <1>0, <2>1 DEF TeardownIsQuiet
    <2> QED BY <2>1, <2>2, <1>k
  <1>8. ASSUME NEW callback \in running, CompleteNotify(callback)
        PROVE  TeardownIsQuiet'
    <2>1. /\ core' = Completed(core) /\ core'.state = core.state
          /\ events' = DrainedEvent(core') \cup TeardownEvent(core')
      BY <1>0, <1>8 DEF CompleteNotify, Completed, Report, CoreType
    <2>2. core.state \notin {"OFFLINE", "REMOVED"}
      BY <1>0 DEF TeardownIsQuiet
    <2>3. CASE "TEARDOWN_READY" \in events'
      <3>1. "TEARDOWN_READY" \in TeardownEvent(core')
        BY <2>1, <2>3 DEF DrainedEvent
      <3>2. QuietCore(core')
        BY <3>1, <1>e
      <3> QED BY <3>2, <1>q DEF QuietCore, RxOpen
    <2>4. CASE "TEARDOWN_READY" \notin events'
      BY <2>1, <2>2, <2>4, <1>k
    <2> QED BY <2>3, <2>4
  <1> QED BY <1>1, <1>2, <1>3, <1>4, <1>5, <1>6, <1>7, <1>8 DEF Next

(***************************************************************************)
(* The theorems                                                            *)
(***************************************************************************)
\* The invariant holds at first.
LEMMA InitIInv == Init => IInv
  <1> SUFFICES ASSUME Init PROVE IInv
    OBVIOUS
  <1>1. core \in CoreType
    BY ParentConstants, EmptyRing DEF Init, CoreType, States
  <1>2. TypeOK
    BY <1>1, TypeOfCore, ParentConstants DEF Init
  <1>3. RunsBegun
    BY DEF Init, RunsBegun
  <1>4. RingsOfThisRun
    BY EmptyRing DEF Init, RingsOfThisRun
  <1>5. InFlightExact
    BY FS_EmptySet DEF Init, InFlightExact
  <1>6. ThreadsDistinct /\ OwnersKnown
    BY DEF Init, ThreadsDistinct, OwnersKnown
  <1>7. TeardownIsQuiet
    BY DEF Init, TeardownIsQuiet, RxOpen
  <1> QED BY <1>2, <1>3, <1>4, <1>5, <1>6, <1>7 DEF IInv

\* Every step keeps the invariant.
LEMMA NextIInv == IInv /\ [Next]_vars => IInv'
  <1>1. ASSUME IInv, Next PROVE IInv'
    BY <1>1, StepTypes, StepCounts, StepOwners, StepTeardown DEF IInv
  <1>2. ASSUME IInv, UNCHANGED vars PROVE IInv'
    BY <1>2 DEF vars, IInv, TypeOK, RunsBegun, RingsOfThisRun, OfRun, InFlightExact,
                ThreadsDistinct, OwnersKnown, TeardownIsQuiet, RxOpen
  <1> QED BY <1>1, <1>2

\* The strengthened invariant of the MIDI parent core.
THEOREM ParentInvariant == Spec => []IInv
  BY InitIInv, NextIInv, PTL DEF Spec

\* OpenA8DJMidiParentCoreAcquireNotify, CompleteNotify and Close: notifyInFlight counts the
\* callbacks that run, and none of them runs for a client whose close has completed.
THEOREM CallbacksOwned == Spec => []CallbacksHaveOwners
  <1>1. IInv => CallbacksHaveOwners
    BY DEF IInv, InFlightExact, ThreadsDistinct, OwnersKnown, CallbacksHaveOwners
  <1> QED BY <1>1, ParentInvariant, PTL

\* The rundown of the MIDI parent: OFFLINE, REMOVED and TEARDOWN_READY mean that no slot is
\* open and no callback is running.
THEOREM TeardownQuiet == Spec => []TeardownIsQuiet
  <1>1. IInv => TeardownIsQuiet
    BY DEF IInv
  <1> QED BY <1>1, ParentInvariant, PTL

\* The receive and transmit rings of the MIDI parent never carry a byte of an earlier run.
THEOREM NoByteCrossesRuns == Spec => []NoStaleBytes
  <1>1. ASSUME IInv PROVE NoStaleBytes
    <2>1. core.rx \in Seq(1 .. MaxRuns) /\ core.tx \in Seq(1 .. MaxRuns)
      BY <1>1 DEF IInv, TypeOK
    <2>2. DOMAIN core.rx = 1 .. Len(core.rx) /\ DOMAIN core.tx = 1 .. Len(core.tx)
      BY <2>1, LenProperties
    <2> QED BY <1>1, <2>2 DEF IInv, RingsOfThisRun, OfRun, NoStaleBytes
  <1> QED BY <1>1, ParentInvariant, PTL

(***************************************************************************)
(* No wakeup is lost between the MIDI core, the capture stream and PortCls, *)
(* for every size of the ring and every number of clients and resets.       *)
(***************************************************************************)
(***************************************************************************)
(* The inductive invariant.  NoLostWakeup needs two facts about the moments *)
(* at which received bytes could become readable without a DemuxEp1: a new  *)
(* client's stream has never been in RUN, and I/O is first accepted on an   *)
(* empty ring.  The invariant of the parent is used as it stands.           *)
(***************************************************************************)
ClientIssued == core.rxClient <= clients
FreshStreamsStopped == \A c \in ClientIds : c > clients => streamState[c] = "STOP"
ReadyRingEmpty == core.state = "READY" => core.rx = <<>>

WakeupInv ==
    /\ IInv
    /\ StreamTypeOK
    /\ ClientIssued
    /\ FreshStreamsStopped
    /\ ReadyRingEmpty
    /\ Readable => WakeupComing

\* A step of the stream is a step of the parent's core, or none of its business.
LEMMA StreamStepsAreParentSteps == [StreamNext]_allVars => [Next]_vars
  <1> SUFFICES ASSUME [StreamNext]_allVars PROVE Next \/ UNCHANGED vars
    OBVIOUS
  <1>1. CASE NewStream \/ DeleteStream
    BY <1>1 DEF NewStream, DeleteStream, Next
  <1>2. CASE BusRun \/ PublishRun \/ NotifyRun \/ SetStop \/ PortWake \/ PortSleep
    BY <1>2 DEF BusRun, PublishRun, NotifyRun, SetStop, PortWake, PortSleep
  <1>3. ASSUME NEW callback \in running, BusNotify(callback) PROVE UNCHANGED vars
    BY <1>3 DEF BusNotify
  <1>4. ASSUME NEW callback \in running, ReturnNotify(callback) PROVE Next
    BY <1>4 DEF ReturnNotify, Next
  <1>5. ASSUME NEW n \in 1 .. RingCapacity, PortRead(n) PROVE Next
    BY <1>5 DEF PortRead, Next
  <1>6. CASE ControllerStep
    BY <1>6 DEF ControllerStep, Next
  <1>7. CASE DispatchStep
    BY <1>7 DEF DispatchStep, Next
  <1>8. CASE UNCHANGED allVars
    BY <1>8 DEF allVars
  <1> QED BY <1>1, <1>2, <1>3, <1>4, <1>5, <1>6, <1>7, <1>8 DEF StreamNext

\* It holds at first.
LEMMA InitWakeup == StreamInit => WakeupInv
  <1> SUFFICES ASSUME StreamInit PROVE WakeupInv
    OBVIOUS
  <1>1. IInv
    BY InitIInv DEF StreamInit
  <1>2. StreamTypeOK
    BY DEF StreamInit, StreamTypeOK
  <1>3. ClientIssued /\ ReadyRingEmpty /\ ~Readable
    BY DEF StreamInit, Init, ClientIssued, ReadyRingEmpty, Readable, RxOpen, NoClient
  <1>4. FreshStreamsStopped
    BY DEF StreamInit, FreshStreamsStopped
  <1> QED BY <1>1, <1>2, <1>3, <1>4 DEF WakeupInv

(***************************************************************************)
(* Steps that leave the parent's core alone.                                *)
(***************************************************************************)
\* SetState and PortCls: a wakeup is passed from hand to hand.
LEMMA PortStepWakeup ==
    ASSUME WakeupInv, BusRun \/ PublishRun \/ NotifyRun \/ SetStop \/ PortWake \/ PortSleep
    PROVE  WakeupInv'
  <1> USE DEF WakeupInv
  <1>1. UNCHANGED vars /\ called' = called
    BY DEF BusRun, PublishRun, NotifyRun, SetStop, PortWake, PortSleep
  <1>2. /\ core' = core /\ tokens' = tokens /\ running' = running /\ clients' = clients
        /\ core.rxClient \in ClientIds \cup {NoClient} /\ clients \in Nat
        /\ streamState \in [ClientIds -> {"STOP", "RUN"}]
        /\ changing \in {"no", "told", "published"}
        /\ changing # "no" => RxOpen(core)
        /\ port \in [pending : BOOLEAN, reading : BOOLEAN]
        /\ called \subseteq running
    BY <1>1 DEF vars, IInv, TypeOK, StreamTypeOK
  <1>3. IInv'
    BY <1>1, NextIInv
  <1>4. ClientIssued' /\ ReadyRingEmpty'
    BY <1>2 DEF ClientIssued, ReadyRingEmpty
  <1>5. StreamTypeOK'
    <2>1. streamState' \in [ClientIds -> {"STOP", "RUN"}]
      BY <1>2 DEF BusRun, PublishRun, NotifyRun, SetStop, PortWake, PortSleep
    <2>2. port' \in [pending : BOOLEAN, reading : BOOLEAN]
      <3>1. CASE BusRun \/ PublishRun \/ SetStop
        BY <1>2, <3>1 DEF BusRun, PublishRun, SetStop
      <3>2. CASE NotifyRun
        BY <1>2, <3>2 DEF NotifyRun, ForcedNotify, Notified
      <3>3. CASE PortWake
        BY <1>2, <3>3 DEF PortWake
      <3>4. CASE PortSleep
        BY <1>2, <3>4 DEF PortSleep
      <3> QED BY <3>1, <3>2, <3>3, <3>4
    <2>3. /\ changing' \in {"no", "told", "published"}
          /\ changing' # "no" => RxOpen(core)
      BY <1>2 DEF BusRun, PublishRun, NotifyRun, SetStop, PortWake, PortSleep
    <2> QED BY <1>1, <1>2, <2>1, <2>2, <2>3 DEF StreamTypeOK, RxOpen
  <1>6. FreshStreamsStopped'
    <2>1. CASE PublishRun
      <3>1. streamState' = [streamState EXCEPT ![core.rxClient] = "RUN"]
        BY <2>1 DEF PublishRun
      <3>2. core.rxClient \in ClientIds /\ core.rxClient <= clients
        BY <1>2, <2>1 DEF PublishRun, RxOpen, ClientIssued
      <3> QED BY <1>2, <3>1, <3>2, ParentConstants DEF FreshStreamsStopped, ClientIds
    <2>2. CASE SetStop
      BY <1>2, <2>2 DEF SetStop, FreshStreamsStopped
    <2>3. CASE BusRun \/ NotifyRun \/ PortWake \/ PortSleep
      BY <1>2, <2>3 DEF FreshStreamsStopped, BusRun, NotifyRun, PortWake, PortSleep
    <2> QED BY <2>1, <2>2, <2>3
  <1>7. CASE SetStop
    BY <1>2, <1>3, <1>4, <1>5, <1>6, <1>7 DEF SetStop, Readable, RxOpen
  <1>8. CASE PortSleep
    BY <1>2, <1>3, <1>4, <1>5, <1>6, <1>8 DEF PortSleep, Readable
  <1>9. CASE BusRun \/ PublishRun
    BY <1>3, <1>4, <1>5, <1>6, <1>9 DEF BusRun, PublishRun, WakeupComing
  <1>10. CASE NotifyRun \/ PortWake
    BY <1>2, <1>3, <1>4, <1>5, <1>6, <1>10 DEF NotifyRun, PortWake, ForcedNotify, Notified,
                                               WakeupComing
  <1> QED BY <1>7, <1>8, <1>9, <1>10

\* BusNotify: a callback of the open client finds its stream in RUN and passes the wakeup
\* on; a callback of a closed one carries none.
LEMMA BusNotifyWakeup ==
    ASSUME WakeupInv, NEW callback \in running, BusNotify(callback)
    PROVE  WakeupInv'
  <1> USE DEF WakeupInv
  <1>1. UNCHANGED vars /\ streamState' = streamState /\ changing' = changing
    BY DEF BusNotify
  <1>2. /\ core' = core /\ tokens' = tokens /\ running' = running /\ clients' = clients
        /\ port \in [pending : BOOLEAN, reading : BOOLEAN]
        /\ called \subseteq running
    BY <1>1 DEF vars, StreamTypeOK
  <1>3. IInv'
    BY <1>1, NextIInv
  <1>4. ClientIssued' /\ ReadyRingEmpty' /\ FreshStreamsStopped'
    BY <1>1, <1>2 DEF ClientIssued, ReadyRingEmpty, FreshStreamsStopped
  <1>5. /\ called' = called \cup {callback}
        /\ port' = IF streamState[callback.client] = "RUN" THEN Notified(port) ELSE port
    BY DEF BusNotify
  <1>6. /\ port' \in [pending : BOOLEAN, reading : BOOLEAN]
        /\ port.pending => port'.pending
        /\ port'.reading = port.reading
        /\ streamState[callback.client] = "RUN" => port'.pending
    BY <1>2, <1>5 DEF Notified
  <1>7. StreamTypeOK'
    BY <1>1, <1>2, <1>5, <1>6 DEF StreamTypeOK, RxOpen
  <1>8. ASSUME Readable' PROVE WakeupComing'
    <2>1. Readable /\ WakeupComing
      BY <1>1, <1>2, <1>8 DEF Readable, RxOpen
    <2>2. CASE callback.client = core.rxClient
      BY <1>6, <2>1, <2>2 DEF Readable, WakeupComing
    <2>3. CASE callback.client # core.rxClient
      <3>1. ASSUME NEW c \in running \ called, c.client = core.rxClient
            PROVE  c \in running' \ called'
        BY <1>2, <1>5, <2>3, <3>1
      <3>2. (\E token \in tokens : TokenValid(core, token))
              => (\E token \in tokens' : TokenValid(core', token))
        BY <1>2
      <3> QED BY <1>1, <1>2, <1>6, <2>1, <3>1, <3>2 DEF WakeupComing
    <2> QED BY <2>2, <2>3
  <1> QED BY <1>3, <1>4, <1>7, <1>8

(***************************************************************************)
(* Steps of the parent's core.                                              *)
(***************************************************************************)
\* A step that keeps the client, its ring and the validity of every snapshot.
LEMMA SameEdgeWakeup ==
    ASSUME WakeupInv, Next, UNCHANGED streamVars,
           core'.rxClient = core.rxClient, core'.state = core.state,
           core'.rx # <<>> => core.rx # <<>>, core'.epoch = core.epoch,
           clients' = clients, running' = running, tokens \subseteq tokens'
    PROVE  WakeupInv'
  <1> USE DEF WakeupInv
  <1>1. IInv'
    BY NextIInv
  <1>2. StreamTypeOK'
    BY DEF StreamTypeOK, streamVars, RxOpen
  <1>3. ClientIssued' /\ FreshStreamsStopped' /\ ReadyRingEmpty'
    BY DEF ClientIssued, FreshStreamsStopped, ReadyRingEmpty, streamVars
  <1>4. \A token \in tokens : TokenValid(core, token) => TokenValid(core', token)
    BY DEF TokenValid, RxOpen
  <1>5. Readable' => Readable
    BY DEF Readable, RxOpen, streamVars
  <1>6. WakeupComing => WakeupComing'
    BY <1>4 DEF WakeupComing, streamVars
  <1> QED BY <1>1, <1>2, <1>3, <1>5, <1>6

\* A step after which nothing is readable.
LEMMA UnreadableWakeup ==
    ASSUME WakeupInv, Next, UNCHANGED streamVars, called \subseteq running',
           changing # "no" => RxOpen(core'),
           ClientIssued', FreshStreamsStopped', ReadyRingEmpty', ~Readable'
    PROVE  WakeupInv'
  <1>1. IInv'
    BY NextIInv DEF WakeupInv
  <1>2. StreamTypeOK'
    BY DEF WakeupInv, StreamTypeOK, streamVars
  <1> QED BY <1>1, <1>2 DEF WakeupInv

\* The client opens and closes: a new stream is stopped, and a closed one reads nothing.
LEMMA OpenCloseWakeup ==
    ASSUME WakeupInv, NewStream \/ DeleteStream
    PROVE  WakeupInv'
  <1> USE DEF WakeupInv
  <1>0. core \in CoreType /\ clients \in Nat /\ Next /\ UNCHANGED streamVars
        /\ running' = running
    BY TypeOfCore DEF IInv, NewStream, DeleteStream, OpenRx, CloseRx, Next
  <1>1. CASE NewStream
    <2>1. /\ core'.rxClient = clients + 1 /\ clients' = clients + 1
          /\ core'.state = core.state /\ core'.rx = core.rx
          /\ clients + 1 \in ClientIds
      BY <1>0, <1>1, ParentConstants DEF NewStream, OpenRx, CoreType, ClientIds
    <2>2. ~Readable'
      BY <1>0, <2>1 DEF Readable, FreshStreamsStopped, streamVars
    <2>3. ClientIssued' /\ ReadyRingEmpty' /\ RxOpen(core')
      BY <1>0, <2>1 DEF ClientIssued, ReadyRingEmpty, RxOpen, NoClient
    <2>4. FreshStreamsStopped'
      BY <1>0, <2>1, ParentConstants DEF FreshStreamsStopped, ClientIds, streamVars
    <2> QED BY <1>0, <2>2, <2>3, <2>4, UnreadableWakeup DEF StreamTypeOK
  <1>2. CASE DeleteStream
    <2>1. /\ core'.rxClient = NoClient /\ clients' = clients /\ changing = "no"
          /\ core'.state = core.state /\ core'.rx = core.rx
      BY <1>0, <1>2 DEF DeleteStream, CloseRx, ClosedRx, CoreType
    <2>2. ~Readable'
      BY <2>1 DEF Readable, RxOpen
    <2>3. ClientIssued' /\ ReadyRingEmpty' /\ FreshStreamsStopped'
      BY <1>0, <2>1 DEF ClientIssued, ReadyRingEmpty, FreshStreamsStopped, NoClient, streamVars
    <2> QED BY <1>0, <2>1, <2>2, <2>3, UnreadableWakeup DEF StreamTypeOK
  <1> QED BY <1>1, <1>2

\* The controller: a reset empties the ring, and I/O starts only after one.
LEMMA ControllerWakeup ==
    ASSUME WakeupInv, ControllerStep, UNCHANGED streamVars
    PROVE  WakeupInv'
  <1> USE DEF WakeupInv
  <1>0. core \in CoreType /\ Next
    BY TypeOfCore DEF IInv, ControllerStep, Next
  <1>1. /\ core'.rxClient = core.rxClient /\ clients' = clients /\ running' = running
    BY <1>0 DEF ControllerStep, Prepare, AcceptIo, RestartIo, StopIo, GoOffline, Remove,
                ResetTransport, CoreType
  <1>2. ClientIssued' /\ FreshStreamsStopped'
    BY <1>1 DEF ClientIssued, FreshStreamsStopped, streamVars
  <1>3. \/ core'.rx = <<>>
        \/ core'.state \notin {"READY", "ACCEPTING_IO"}
    <2>1. CASE Prepare \/ RestartIo
      BY <1>0, <2>1 DEF Prepare, RestartIo, ResetTransport, CoreType
    <2>2. CASE AcceptIo
      BY <1>0, <2>2 DEF AcceptIo, ReadyRingEmpty, CoreType
    <2>3. CASE StopIo \/ GoOffline \/ Remove
      BY <1>0, <2>3 DEF StopIo, GoOffline, Remove, CoreType
    <2> QED BY <2>1, <2>2, <2>3 DEF ControllerStep
  <1>4. ReadyRingEmpty' /\ ~Readable'
    BY <1>3 DEF ReadyRingEmpty, Readable
  <1>5. called \subseteq running' /\ (changing # "no" => RxOpen(core'))
    BY <1>1 DEF StreamTypeOK, RxOpen
  <1> QED BY <1>0, <1>2, <1>4, <1>5, UnreadableWakeup

\* DemuxEp1: the first byte of the ring takes a snapshot that is valid.
LEMMA DemuxWakeup ==
    ASSUME WakeupInv, NEW n \in 1 .. RingCapacity, DemuxMidi(n), UNCHANGED streamVars
    PROVE  WakeupInv'
  <1> USE DEF WakeupInv
  <1>0. core \in CoreType /\ Next
    BY TypeOfCore DEF IInv, Next
  <1>1. /\ core'.rxClient = core.rxClient /\ core'.state = core.state
        /\ core'.epoch = core.epoch /\ core.state = "ACCEPTING_IO"
        /\ clients' = clients /\ running' = running /\ tokens \subseteq tokens'
    BY <1>0 DEF DemuxMidi, CoreType
  <1>2. CASE core.rx = <<>> /\ RxOpen(core)
    <2> DEFINE new == [epoch |-> core.epoch, client |-> core.rxClient]
    <2>1. new \in tokens' /\ new.epoch = core.epoch
      BY <1>2 DEF DemuxMidi
    <2>2. TokenValid(core', new)
      BY <1>1, <1>2, <2>1 DEF TokenValid, RxOpen
    <2>3. WakeupComing'
      BY <2>1, <2>2 DEF WakeupComing
    <2>4. IInv'
      BY <1>0, NextIInv
    <2>5. StreamTypeOK'
      BY <1>1 DEF StreamTypeOK, streamVars, RxOpen
    <2>6. ClientIssued' /\ FreshStreamsStopped' /\ ReadyRingEmpty'
      BY <1>1 DEF ClientIssued, FreshStreamsStopped, ReadyRingEmpty, streamVars
    <2> QED BY <2>3, <2>4, <2>5, <2>6
  <1>3. CASE core.rx # <<>>
    BY <1>0, <1>1, <1>3, SameEdgeWakeup
  <1>4. CASE ~RxOpen(core)
    <2>1. ~Readable'
      BY <1>1, <1>4 DEF Readable, RxOpen
    <2>2. ClientIssued' /\ FreshStreamsStopped' /\ ReadyRingEmpty'
      BY <1>1 DEF ClientIssued, FreshStreamsStopped, ReadyRingEmpty, streamVars
    <2> QED BY <1>0, <1>1, <2>1, <2>2, UnreadableWakeup DEF StreamTypeOK, RxOpen
  <1> QED BY <1>2, <1>3, <1>4

\* AcquireNotify: the snapshot becomes a callback of the open client, which has not run.
LEMMA AcquireWakeup ==
    ASSUME WakeupInv, NEW thread \in Threads, NEW token \in tokens,
           AcquireNotify(thread, token), UNCHANGED streamVars
    PROVE  WakeupInv'
  <1> USE DEF WakeupInv
  <1> DEFINE new == [thread |-> thread, client |-> core.rxClient]
  <1>0. core \in CoreType /\ Next
    BY TypeOfCore DEF IInv, Next
  <1>1. /\ core'.rxClient = core.rxClient /\ core'.state = core.state /\ core'.rx = core.rx
        /\ clients' = clients /\ running' = running \cup {new}
    BY <1>0 DEF AcquireNotify, CoreType
  <1>2. new \notin running
    BY DEF AcquireNotify, Idle
  <1>3. new \in running' \ called /\ called' = called
    BY <1>1, <1>2 DEF StreamTypeOK, streamVars
  <1>4. new.client = core'.rxClient
    BY <1>1
  <1>5. WakeupComing'
    BY <1>3, <1>4 DEF WakeupComing
  <1>6. IInv'
    BY <1>0, NextIInv
  <1>7. StreamTypeOK'
    BY <1>1 DEF StreamTypeOK, streamVars, RxOpen
  <1>8. ClientIssued' /\ FreshStreamsStopped' /\ ReadyRingEmpty'
    BY <1>1 DEF ClientIssued, FreshStreamsStopped, ReadyRingEmpty, streamVars
  <1> QED BY <1>5, <1>6, <1>7, <1>8

\* A snapshot that is dropped was not valid: it stood for no wakeup.
LEMMA DiscardWakeup ==
    ASSUME WakeupInv, NEW token \in tokens, DiscardNotify(token), UNCHANGED streamVars
    PROVE  WakeupInv'
  <1> USE DEF WakeupInv
  <1>1. /\ core' = core /\ clients' = clients /\ running' = running
        /\ tokens' = tokens \ {token} /\ ~TokenValid(core, token) /\ Next
    BY DEF DiscardNotify, Next
  <1>2. IInv'
    BY <1>1, NextIInv
  <1>3. StreamTypeOK'
    BY <1>1 DEF StreamTypeOK, streamVars, RxOpen
  <1>4. ClientIssued' /\ FreshStreamsStopped' /\ ReadyRingEmpty'
    BY <1>1 DEF ClientIssued, FreshStreamsStopped, ReadyRingEmpty, streamVars
  <1>5. Readable' => Readable
    BY <1>1 DEF Readable, streamVars
  <1>6. WakeupComing => WakeupComing'
    BY <1>1 DEF WakeupComing, streamVars
  <1> QED BY <1>2, <1>3, <1>4, <1>5, <1>6

\* CompleteNotify: the callback that returns has run, and its wakeup has been passed on.
LEMMA ReturnWakeup ==
    ASSUME WakeupInv, NEW callback \in running, ReturnNotify(callback)
    PROVE  WakeupInv'
  <1> USE DEF WakeupInv
  <1>0. core \in CoreType /\ Next
    BY TypeOfCore DEF IInv, ReturnNotify, Next
  <1>1. /\ core'.rxClient = core.rxClient /\ core'.state = core.state /\ core'.rx = core.rx
        /\ core'.epoch = core.epoch /\ clients' = clients /\ tokens' = tokens
        /\ running' = running \ {callback}
    BY <1>0 DEF ReturnNotify, CompleteNotify, Completed, CoreType
  <1>2. /\ callback \in called /\ called' = called \ {callback}
        /\ UNCHANGED <<streamState, changing, port>>
    BY DEF ReturnNotify
  <1>3. running' \ called' = running \ called
    BY <1>1, <1>2
  <1>4. \A token \in tokens : TokenValid(core, token) => TokenValid(core', token)
    BY <1>1 DEF TokenValid, RxOpen
  <1>5. WakeupComing => WakeupComing'
    BY <1>1, <1>2, <1>3, <1>4 DEF WakeupComing
  <1>6. Readable' => Readable
    BY <1>1, <1>2 DEF Readable, RxOpen
  <1>7. IInv'
    BY <1>0, NextIInv
  <1>8. StreamTypeOK'
    BY <1>1, <1>2 DEF StreamTypeOK, RxOpen
  <1>9. ClientIssued' /\ FreshStreamsStopped' /\ ReadyRingEmpty'
    BY <1>1, <1>2 DEF ClientIssued, FreshStreamsStopped, ReadyRingEmpty
  <1> QED BY <1>5, <1>6, <1>7, <1>8, <1>9

\* Read: the loop that reads goes on.
LEMMA ReadWakeup ==
    ASSUME WakeupInv, NEW n \in 1 .. RingCapacity, PortRead(n)
    PROVE  WakeupInv'
  <1>1. core \in CoreType /\ Next /\ UNCHANGED streamVars
    BY TypeOfCore DEF WakeupInv, IInv, PortRead, Next
  <1>2. /\ core'.rxClient = core.rxClient /\ core'.state = core.state
        /\ core'.epoch = core.epoch /\ core.rx # <<>>
        /\ clients' = clients /\ running' = running /\ tokens' = tokens
    BY <1>1 DEF PortRead, Readable, Read, CoreType
  <1> QED BY <1>1, <1>2, SameEdgeWakeup

\* Every step keeps the invariant.
LEMMA NextWakeup == WakeupInv /\ [StreamNext]_allVars => WakeupInv'
  <1> SUFFICES ASSUME WakeupInv, [StreamNext]_allVars PROVE WakeupInv'
    OBVIOUS
  <1>1. CASE NewStream \/ DeleteStream
    BY <1>1, OpenCloseWakeup
  <1>2. CASE BusRun \/ PublishRun \/ NotifyRun \/ SetStop \/ PortWake \/ PortSleep
    BY <1>2, PortStepWakeup
  <1>3. ASSUME NEW callback \in running, BusNotify(callback) PROVE WakeupInv'
    BY <1>3, BusNotifyWakeup
  <1>4. ASSUME NEW callback \in running, ReturnNotify(callback) PROVE WakeupInv'
    BY <1>4, ReturnWakeup
  <1>5. ASSUME NEW n \in 1 .. RingCapacity, PortRead(n) PROVE WakeupInv'
    BY <1>5, ReadWakeup
  <1>6. CASE ControllerStep /\ UNCHANGED streamVars
    BY <1>6, ControllerWakeup
  <1>7. CASE DispatchStep /\ UNCHANGED streamVars
    BY <1>7, DemuxWakeup, AcquireWakeup, DiscardWakeup DEF DispatchStep
  <1>8. CASE UNCHANGED allVars
    <2>1. UNCHANGED vars /\ UNCHANGED streamVars
      BY <1>8 DEF allVars
    <2>2. IInv'
      BY <2>1, NextIInv DEF WakeupInv
    <2> QED BY <2>1, <2>2 DEF WakeupInv, vars, streamVars, StreamTypeOK, ClientIssued,
                              FreshStreamsStopped, ReadyRingEmpty, Readable, WakeupComing
  <1> QED BY <1>1, <1>2, <1>3, <1>4, <1>5, <1>6, <1>7, <1>8 DEF StreamNext

(***************************************************************************)
(* The theorems                                                            *)
(***************************************************************************)
\* The invariant of the stream, whatever the scheduling: no fairness is used.
THEOREM StreamInvariant == StreamSpec => []WakeupInv
  BY InitWakeup, NextWakeup, PTL DEF StreamSpec

\* The edge-triggered notification of the MIDI core and the forced one of SetState(RUN)
\* lose no wakeup: bytes that a running stream may read always have a snapshot, a callback,
\* a notification, a read loop or a change to RUN that will see them.
THEOREM NoWakeupLost == StreamSpec => []NoLostWakeup
  <1>1. WakeupInv => NoLostWakeup
    BY DEF WakeupInv, NoLostWakeup
  <1> QED BY <1>1, StreamInvariant, PTL
=============================================================================
