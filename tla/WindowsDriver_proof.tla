------------------------- MODULE WindowsDriver_proof -------------------------
(***************************************************************************)
(* Theorems about the Windows driver, for any bounds.  Of                   *)
(* WindowsAcxStreams, with any number of streams and slots: packets are     *)
(* held while anyone may touch them, references are given back, and epochs  *)
(* do not mix.  Of WindowsControlPlane, with any modes and rates: a         *)
(* one-shot transfer has the bus, and the device is as the driver believes. *)
(***************************************************************************)
EXTENDS WindowsDriver, Integers, FiniteSetTheorems, SequenceTheorems, TLAPS

(***************************************************************************)
(* The inductive invariant                                                 *)
(***************************************************************************)
Holds == [stream : Streams, epoch : Nat]
Context == [epoch : Nat, live : BOOLEAN, packets : BOOLEAN, refs : Int, position : Nat,
            current : Nat, progress : 0 .. (PacketFrames - 1),
            pending : SUBSET [packet : Nat, epoch : Nat], loaded : Nat]
Device == [engine : {"Stopped", "Running", "Stopping"}, stopRequested : BOOLEAN,
           workerActive : BOOLEAN, configured : BOOLEAN, draining : BOOLEAN,
           stopPending : BOOLEAN, stopActive : BOOLEAN]
CaptureStates == {"idle", "bus", "data", "empty", "failed"}
OutputStates == {"idle", "bus", "done", "failed"}
HostStates == {"created", "allocated", "prepared", "running"}
PauseCalls == {"pauseRequest", "pauseWait"}
FreeCalls == {"freeRequest", "freePurge", "freePurging", "freeFlush", "freeWait"}
Places == {"idle", "output", "capture", "deliver", "fill", "submit", "resubmit", "notify"}

Types ==
    /\ dev \in Device
    /\ xfer \in [capture : [Slots -> CaptureStates], output : [Slots -> OutputStates],
                 refs : [Slots -> SUBSET Holds]]
    /\ active \subseteq Streams
    /\ stream \in [Streams -> Context]
    /\ host \in [Streams -> [state : HostStates,
                             call : {"none", "claim"} \cup PauseCalls \cup FreeCalls]]
    /\ proc \in [pc : Places, slot : Slots, hand : SUBSET Holds,
                 notes : SUBSET [stream : Streams, packet : Nat, epoch : Nat]]
    /\ purge \in [by : Streams \cup {"none", "stop", "work"},
                  step : {"none", "run", "enter", "flush"}]

\* Each callback that a stream can be in belongs to one state of the stream.
CallStates ==
    \A s \in Streams :
        /\ host[s].call = "claim" => host[s].state = "prepared"
        /\ host[s].call \in PauseCalls => host[s].state = "running"
        /\ host[s].call \in FreeCalls => host[s].state = "allocated"

\* Only a stream whose Run has returned, and whose Pause has not begun, is active.
ActiveRuns == \A s \in active : Ready(s, "running")

\* From its state ACX knows that a stream has packets, and that its epoch is live.
ContextOfState ==
    \A s \in Streams :
        /\ host[s].state # "created" => stream[s].packets
        /\ host[s].state \in {"prepared", "running"} => stream[s].live

HostInv == CallStates /\ ActiveRuns /\ ContextOfState

\* The work item holds streams where it touches their packets and nowhere else.
HandByPlace ==
    /\ proc.pc \notin {"deliver", "submit", "notify"} => proc.hand = {}
    /\ proc.pc # "notify" => proc.notes = {}

\* While a capture is delivered and answered its output slot waits for the answer.
SlotWaits == proc.pc \in {"deliver", "fill", "submit"} => xfer.output[proc.slot] = "idle"

\* Pause waits for the work item, so a stream in its hand is as it was when it was acquired.
HandsCurrent == \A h \in proc.hand : h = Hold(h.stream) /\ host[h.stream].state = "running"

HandInv == HandByPlace /\ SlotWaits /\ HandsCurrent

\* A reference in a slot may be of an earlier epoch; the packets are there all the same.
SlotsHold ==
    \A i \in Slots : \A h \in xfer.refs[i] :
        h.epoch <= stream[h.stream].epoch /\ stream[h.stream].packets

HoldersOf(s) == {i \in Slots : s \in Held(xfer.refs[i])}
InHand(s) == IF s \in Held(proc.hand) THEN 1 ELSE 0
RefsCounted == \A s \in Streams : stream[s].refs = Cardinality(HoldersOf(s)) + InHand(s)
IdleHoldsNothing == \A i \in Slots : xfer.output[i] = "idle" => xfer.refs[i] = {}

CountInv == RefsCounted /\ IdleHoldsNothing

\* The frames of a stream that were loaded or written in its present epoch, and that have
\* not moved its position yet: one for each reference taken in that epoch.
FreshHolders(s) == {i \in Slots : Hold(s) \in xfer.refs[i]}
Loading(s) == IF s \in Held(proc.hand) /\ proc.pc # "notify" THEN 1 ELSE 0
LoadsCover ==
    \A s \in Streams :
        stream[s].position + Cardinality(FreshHolders(s)) + Loading(s) <= stream[s].loaded

\* A packet to be notified was completed before the one that is being filled.
PendingBefore ==
    \A s \in Streams : \A n \in stream[s].pending : n.packet < stream[s].current
NotesTrue ==
    \A n \in proc.notes :
        /\ n.stream \in Held(proc.hand)
        /\ n.epoch = stream[n.stream].epoch
        /\ n.packet < stream[n.stream].current

EpochInv == LoadsCover /\ PendingBefore /\ NotesTrue

IInv == Types /\ HostInv /\ HandInv /\ SlotsHold /\ CountInv /\ EpochInv

(***************************************************************************)
(* Counting slots                                                          *)
(***************************************************************************)
\* One slot more, one slot less.
LEMMA OneMore ==
    ASSUME NEW T, T \subseteq Slots, NEW i \in Slots, i \notin T
    PROVE  /\ Cardinality(T) \in Nat
           /\ Cardinality(T \cup {i}) = Cardinality(T) + 1
  <1>1. IsFiniteSet(T)
    BY StreamConstants, FS_Subset
  <1> QED BY <1>1, FS_AddElement, FS_CardinalityType

LEMMA OneLess ==
    ASSUME NEW T, T \subseteq Slots, NEW i \in T
    PROVE  /\ Cardinality(T) \in Nat
           /\ Cardinality(T \ {i}) = Cardinality(T) - 1
  <1>1. IsFiniteSet(T)
    BY StreamConstants, FS_Subset
  <1> QED BY <1>1, FS_RemoveElement, FS_CardinalityType

LEMMA Counts ==
    ASSUME NEW T, T \subseteq Slots
    PROVE  /\ Cardinality(T) \in Nat
           /\ Cardinality(T) = 0 => T = {}
  <1>1. IsFiniteSet(T)
    BY StreamConstants, FS_Subset
  <1> QED BY <1>1, FS_EmptySet, FS_CardinalityType

\* The streams that a set of references holds.
LEMMA HeldMembers ==
    ASSUME NEW hand
    PROVE  /\ \A h \in hand : h.stream \in Held(hand)
           /\ \A s \in Held(hand) : \E h \in hand : h.stream = s
  BY DEF Held

LEMMA HeldEmpty == Held({}) = {}
  BY DEF Held

\* The references to a set of streams hold these streams.
LEMMA HeldOf ==
    ASSUME NEW set
    PROVE  Held({Hold(s) : s \in set}) = set
  <1>1. \A s \in set : Hold(s).stream = s
    BY DEF Hold
  <1> QED BY <1>1 DEF Held

\* A reference is typed when its stream is.
LEMMA HoldTyped ==
    ASSUME Types, NEW s \in Streams
    PROVE  Hold(s) \in Holds /\ Hold(s).stream = s /\ Hold(s).epoch = stream[s].epoch
  BY DEF Types, Hold, Holds, Context

(***************************************************************************)
(* The operators on a stream context                                       *)
(***************************************************************************)
\* A frame more fills a packet when it was the last one of it.
LEMMA FrameArithmetic ==
    ASSUME NEW t \in 0 .. PacketFrames
    PROVE  /\ t % PacketFrames \in 0 .. (PacketFrames - 1)
           /\ t \div PacketFrames \in Nat
           /\ t >= PacketFrames => t \div PacketFrames = 1
  <1> USE StreamConstants
  <1>1. CASE t = PacketFrames
    <2>1. PacketFrames % PacketFrames = 0
      BY StreamConstants
    <2>2. PacketFrames \div PacketFrames = 1
      BY StreamConstants
    <2> QED BY <1>1, <2>1, <2>2
  <1>2. CASE t < PacketFrames
    <2>1. t % PacketFrames = t
      BY <1>2, StreamConstants
    <2>2. t \div PacketFrames = 0
      BY <1>2, StreamConstants
    <2> QED BY <1>2, <2>1, <2>2
  <1> QED BY <1>1, <1>2

\* AdvanceRtFrames counts a frame of the present epoch and leaves the rest of the context.
LEMMA AdvancedContext ==
    ASSUME NEW r \in Context, NEW e
    PROVE  LET n == Advanced(r, e)
           IN /\ n \in Context
              /\ n.epoch = r.epoch /\ n.live = r.live /\ n.packets = r.packets
              /\ n.refs = r.refs /\ n.loaded = r.loaded
              /\ n.position \in {r.position, r.position + 1}
              /\ e # r.epoch => n.position = r.position
              /\ n.current >= r.current
              /\ (\A p \in r.pending : p.packet < r.current)
                    => \A p \in n.pending : p.packet < n.current
  <1> DEFINE total == r.progress + 1
             note == [packet |-> r.current, epoch |-> e]
  <1>1. CASE ~r.live \/ r.epoch # e
    BY <1>1 DEF Advanced, Context
  <1>2. CASE ~(~r.live \/ r.epoch # e)
    <2>1. /\ total % PacketFrames \in 0 .. (PacketFrames - 1)
          /\ total \div PacketFrames \in Nat
          /\ total >= PacketFrames => total \div PacketFrames = 1
      <3>1. total \in 0 .. PacketFrames
        BY StreamConstants DEF Context
      <3> QED BY <3>1, FrameArithmetic
    <2>2. total \in Nat
      BY DEF Context
    <2> HIDE DEF total
    <2>3. Advanced(r, e) =
            [r EXCEPT !.position = @ + 1, !.progress = total % PacketFrames,
                      !.current = @ + total \div PacketFrames,
                      !.pending = IF total < PacketFrames THEN @ ELSE {note}]
      BY <1>2 DEF Advanced, total
    <2>4. note \in [packet : Nat, epoch : Nat]
      BY <1>2 DEF Context
    <2> DEFINE filled == total \div PacketFrames
               rest == total % PacketFrames
               coming == IF total < PacketFrames THEN r.pending ELSE {note}
               n == Advanced(r, e)
    <2>5. n = [r EXCEPT !.position = r.position + 1, !.progress = rest,
                        !.current = r.current + filled, !.pending = coming]
      BY <2>3
    <2>6. rest \in 0 .. (PacketFrames - 1) /\ filled \in Nat
      BY <2>1
    <2>7. coming \in SUBSET [packet : Nat, epoch : Nat]
      BY <2>4 DEF Context
    <2>8. (\A p \in r.pending : p.packet < r.current)
             => \A p \in coming : p.packet < r.current + filled
      <3>1. CASE total < PacketFrames
        BY <3>1, <2>6 DEF Context
      <3>2. CASE ~(total < PacketFrames)
        <4>1. filled = 1
          BY <3>2, <2>1, <2>2, StreamConstants
        <4>2. note.packet = r.current /\ coming = {note}
          BY <3>2
        <4> QED BY <4>1, <4>2 DEF Context
      <3> QED BY <3>1, <3>2
    <2>9. e = r.epoch
      BY <1>2
    <2> HIDE DEF filled, rest, coming, n, note
    <2>10. n \in Context
      <3>1. r.position + 1 \in Nat /\ r.current + filled \in Nat
        BY <2>6 DEF Context
      <3>2. r \in Context
        OBVIOUS
      <3> QED BY <2>5, <2>6, <2>7, <3>1, <3>2, Zenon DEF Context
    <2>11. /\ n.epoch = r.epoch /\ n.live = r.live /\ n.packets = r.packets
           /\ n.refs = r.refs /\ n.loaded = r.loaded
           /\ n.position = r.position + 1
           /\ n.current = r.current + filled /\ n.pending = coming
      BY <2>5 DEF Context
    <2>12. n.current >= r.current
      BY <2>6, <2>11 DEF Context
    <2> QED BY <2>8, <2>9, <2>10, <2>11, <2>12 DEF n
  <1> QED BY <1>1, <1>2

\* The epoch of a held stream is that of one of its references.
LEMMA EpochOfHeld ==
    ASSUME NEW hand, NEW s \in Held(hand)
    PROVE  \E h \in hand : h.stream = s /\ EpochIn(hand, s) = h.epoch
  <1>1. \E h \in hand : h.stream = s
    BY HeldMembers
  <1> QED BY <1>1 DEF EpochIn

\* Giving references back takes one from each held stream; only a reference of the present
\* epoch moves the position, and only when the frame was sent.
LEMMA ReleasedContext ==
    ASSUME Types, NEW hand \in SUBSET Holds, NEW ok \in BOOLEAN, NEW s \in Streams
    PROVE  LET r == stream[s]
               n == Released(hand, ok)[s]
           IN /\ n \in Context
              /\ n.epoch = r.epoch /\ n.live = r.live /\ n.packets = r.packets
              /\ n.loaded = r.loaded
              /\ n.refs = r.refs - (IF s \in Held(hand) THEN 1 ELSE 0)
              /\ n.position \in {r.position, r.position + 1}
              /\ Hold(s) \notin hand => n.position = r.position
              /\ ~ok => n.position = r.position
              /\ n.current >= r.current
              /\ (\A p \in r.pending : p.packet < r.current)
                    => \A p \in n.pending : p.packet < n.current
  <1> DEFINE r == stream[s]
             n == Released(hand, ok)[s]
             a == IF ok THEN Advanced(r, EpochIn(hand, s)) ELSE r
  <1>1. r \in Context
    BY DEF Types
  <1>2. CASE s \notin Held(hand)
    <2>1. n = r
      BY <1>2 DEF Released
    <2> HIDE DEF n, r
    <2>2. r.refs = r.refs - 0 /\ r.current >= r.current
      BY <1>1 DEF Context
    <2> QED BY <1>1, <1>2, <2>1, <2>2 DEF n, r
  <1>3. CASE s \in Held(hand)
    <2>1. n = [a EXCEPT !.refs = @ - 1]
      BY <1>3 DEF Released
    <2>2. Hold(s) \notin hand => EpochIn(hand, s) # r.epoch
      <3>1. PICK h \in hand : h.stream = s /\ EpochIn(hand, s) = h.epoch
        BY <1>3, EpochOfHeld
      <3>2. h.epoch = r.epoch => h = Hold(s)
        BY <3>1 DEF Hold, Holds
      <3> QED BY <3>1, <3>2
    <2> HIDE DEF r
    <2>3. /\ a \in Context
          /\ a.epoch = r.epoch /\ a.live = r.live /\ a.packets = r.packets
          /\ a.refs = r.refs /\ a.loaded = r.loaded
          /\ a.position \in {r.position, r.position + 1}
          /\ ~ok \/ Hold(s) \notin hand => a.position = r.position
          /\ a.current >= r.current
          /\ (\A p \in r.pending : p.packet < r.current)
                => \A p \in a.pending : p.packet < a.current
      <3>1. CASE ok
        BY <3>1, <1>1, <2>2, AdvancedContext
      <3>2. CASE ~ok
        <4>1. a = r /\ r.current >= r.current
          BY <3>2, <1>1 DEF Context
        <4> QED BY <3>2, <4>1, <1>1
      <3> QED BY <3>1, <3>2
    <2> HIDE DEF a, n
    <2>4. a.refs - 1 \in Int
      BY <2>3 DEF Context
    <2>5. n \in Context
      BY <2>1, <2>3, <2>4, Zenon DEF Context
    <2>6. /\ n.epoch = a.epoch /\ n.live = a.live /\ n.packets = a.packets
          /\ n.refs = a.refs - 1 /\ n.loaded = a.loaded /\ n.position = a.position
          /\ n.current = a.current /\ n.pending = a.pending
      BY <2>1, <2>3 DEF Context
    <2> QED BY <1>3, <2>3, <2>5, <2>6 DEF n, r
  <1> QED BY <1>2, <1>3

LEMMA ReleasedType ==
    ASSUME Types, NEW hand \in SUBSET Holds, NEW ok \in BOOLEAN
    PROVE  Released(hand, ok) \in [Streams -> Context]
  <1>1. \A s \in Streams : Released(hand, ok)[s] \in Context
    BY ReleasedContext
  <1>2. Released(hand, ok) = [s \in Streams |-> Released(hand, ok)[s]]
    BY DEF Released
  <1> QED BY <1>1, <1>2

\* Acquiring and loading counts a reference and a frame of each stream.
LEMMA AcquiredContext ==
    ASSUME Types, NEW set \in SUBSET Streams, NEW s \in Streams
    PROVE  LET r == stream[s]
               n == Acquired(set)[s]
               one == IF s \in set THEN 1 ELSE 0
           IN /\ n \in Context
              /\ n.epoch = r.epoch /\ n.live = r.live /\ n.packets = r.packets
              /\ n.position = r.position /\ n.current = r.current /\ n.pending = r.pending
              /\ n.refs = r.refs + one
              /\ n.loaded = r.loaded + one
  <1> DEFINE r == stream[s]
             n == Acquired(set)[s]
  <1>1. r \in Context
    BY DEF Types
  <1>2. CASE s \notin set
    <2>1. n = r
      BY <1>2 DEF Acquired
    <2> HIDE DEF n, r
    <2>2. r.refs = r.refs + 0 /\ r.loaded = r.loaded + 0
      BY <1>1 DEF Context
    <2> QED BY <1>1, <1>2, <2>1, <2>2 DEF n, r
  <1>3. CASE s \in set
    <2>1. n = [r EXCEPT !.refs = @ + 1, !.loaded = @ + 1]
      BY <1>3 DEF Acquired
    <2> HIDE DEF n, r
    <2>2. r.refs + 1 \in Int /\ r.loaded + 1 \in Nat
      BY <1>1 DEF Context
    <2>3. n \in Context
      BY <1>1, <2>1, <2>2, Zenon DEF Context
    <2>4. /\ n.epoch = r.epoch /\ n.live = r.live /\ n.packets = r.packets
          /\ n.position = r.position /\ n.current = r.current /\ n.pending = r.pending
          /\ n.refs = r.refs + 1 /\ n.loaded = r.loaded + 1
      BY <1>1, <2>1 DEF Context
    <2> QED BY <1>3, <2>3, <2>4 DEF n, r
  <1> QED BY <1>2, <1>3

LEMMA AcquiredType ==
    ASSUME Types, NEW set \in SUBSET Streams
    PROVE  Acquired(set) \in [Streams -> Context]
  <1>1. \A s \in Streams : Acquired(set)[s] \in Context
    BY AcquiredContext
  <1>2. Acquired(set) = [s \in Streams |-> Acquired(set)[s]]
    BY DEF Acquired
  <1> QED BY <1>1, <1>2

\* A reset starts the positions again in a new epoch and keeps the packets and references.
LEMMA ResetContext ==
    ASSUME NEW r \in Context, NEW live \in BOOLEAN
    PROVE  LET n == ResetEpoch(r, live)
           IN /\ n \in Context
              /\ n.epoch = r.epoch + 1 /\ n.live = live /\ n.packets = r.packets
              /\ n.refs = r.refs /\ n.position = 0 /\ n.loaded = 0
              /\ n.current = 0 /\ n.pending = {}
  <1>1. r.epoch + 1 \in Nat /\ 0 \in 0 .. (PacketFrames - 1)
    BY StreamConstants DEF Context
  <1> QED BY <1>1 DEF ResetEpoch, FreshStream, Context

(***************************************************************************)
(* The types                                                               *)
(***************************************************************************)
LEMMA IdleTyped == Idle \in [pc : Places, slot : Slots, hand : SUBSET Holds,
                             notes : SUBSET [stream : Streams, packet : Nat, epoch : Nat]]
  <1>1. (CHOOSE i \in Slots : TRUE) \in Slots
    BY StreamConstants
  <1> QED BY <1>1 DEF Idle, Places

LEMMA DeviceTyped ==
    ASSUME NEW d \in Device, NEW x
    PROVE  FatalStop(d) \in Device /\ MarkStopped(d) \in Device
             /\ TrySignalDrained(d, x) \in Device
  BY DEF Device, FatalStop, MarkStopped, TrySignalDrained

\* The callbacks of a stream.
LEMMA CallbackTypes ==
    ASSUME Types, NEW s \in Streams, Callback(s)
    PROVE  Types'
  <1> DEFINE Rec == [state : HostStates, call : {"none", "claim"} \cup PauseCalls \cup FreeCalls]
             Locks == [by : Streams \cup {"none", "stop", "work"},
                       step : {"none", "run", "enter", "flush"}]
  <1>0. /\ dev \in Device /\ stream \in [Streams -> Context] /\ host \in [Streams -> Rec]
        /\ active \subseteq Streams /\ stream[s] \in Context /\ host[s] \in Rec
        /\ purge \in Locks
    BY DEF Types
  <1>1. ASSUME NEW st \in HostStates, Return(s, st) PROVE host' \in [Streams -> Rec]
    <2>1. [state |-> st, call |-> "none"] \in Rec
      OBVIOUS
    <2> QED BY <1>0, <1>1, <2>1 DEF Return
  <1>2. ASSUME NEW c \in {"claim"} \cup PauseCalls \cup FreeCalls, Call(s, c)
        PROVE  host' \in [Streams -> Rec]
    <2>1. [host[s] EXCEPT !.call = c] \in Rec
      BY <1>0, <1>2
    <2>2. host' = [host EXCEPT ![s] = [host[s] EXCEPT !.call = c]]
      BY <1>2 DEF Call
    <2> QED BY <1>0, <2>1, <2>2
  <1>3. ASSUME NEW r \in Context, NEW live \in BOOLEAN,
               stream' = [stream EXCEPT ![s] = ResetEpoch(r, live)]
        PROVE  stream' \in [Streams -> Context]
    <2>1. ResetEpoch(r, live) \in Context
      BY ResetContext
    <2> QED BY <1>0, <1>3, <2>1
  <1>4. ASSUME OnlyHost, dev' \in Device, active' \subseteq Streams,
               stream' \in [Streams -> Context], host' \in [Streams -> Rec], purge' \in Locks
        PROVE  Types'
    BY <1>4 DEF Types, OnlyHost
  <1> HIDE DEF Rec, Locks
  <1>5. CASE AllocateRtPackets(s)
    <2>1. [stream[s] EXCEPT !.packets = TRUE] \in Context
      BY <1>0, Zenon DEF Context
    <2>2. stream' \in [Streams -> Context]
      BY <1>3, <1>5, <2>1 DEF AllocateRtPackets
    <2>3. host' \in [Streams -> Rec]
      BY <1>1, <1>5 DEF AllocateRtPackets, HostStates
    <2> QED BY <1>0, <1>4, <1>5, <2>2, <2>3 DEF AllocateRtPackets
  <1>6. CASE PrepareHardware(s)
    <2>1. stream' \in [Streams -> Context]
      BY <1>0, <1>3, <1>6 DEF PrepareHardware
    <2>2. host' \in [Streams -> Rec]
      BY <1>1, <1>6 DEF PrepareHardware, HostStates
    <2> QED BY <1>0, <1>4, <1>6, <2>1, <2>2 DEF PrepareHardware
  <1>7. CASE ReleaseHardware(s)
    <2>1. stream' \in [Streams -> Context]
      BY <1>0, <1>3, <1>7 DEF ReleaseHardware
    <2>2. host' \in [Streams -> Rec]
      BY <1>1, <1>7 DEF ReleaseHardware, HostStates
    <2> QED BY <1>0, <1>4, <1>7, <2>1, <2>2 DEF ReleaseHardware
  <1>8. CASE RunConfigure(s)
    <2>1. dev' \in Device
      BY <1>0, <1>8 DEF RunConfigure, Device
    <2>2. host' \in [Streams -> Rec]
      BY <1>2, <1>8 DEF RunConfigure
    <2>3. purge' \in Locks
      BY <1>8 DEF RunConfigure, Locks
    <2> QED BY <1>0, <1>4, <1>8, <2>1, <2>2, <2>3 DEF RunConfigure
  <1>9. CASE RunFails(s)
    BY <1>0, <1>4, <1>9 DEF RunFails
  <1>10. CASE RunClaim(s)
    <2>1. dev' \in Device
      BY <1>0, <1>10 DEF RunClaim, Device
    <2>2. host' \in [Streams -> Rec]
      BY <1>1, <1>10 DEF RunClaim, HostStates
    <2>3. purge' \in Locks
      BY <1>10 DEF RunClaim, NoPurge, Locks
    <2>4. active' \subseteq Streams
      BY <1>0, <1>10 DEF RunClaim
    <2>5. UNCHANGED <<xfer, stream, proc>>
      BY <1>10 DEF RunClaim
    <2> QED BY <2>1, <2>2, <2>3, <2>4, <2>5 DEF Types, Rec, Locks
  <1>11. ASSUME NEW from, NEW ifNone \in PauseCalls \cup FreeCalls,
                NEW ifSome \in PauseCalls \cup FreeCalls, Leave(s, from, ifNone, ifSome)
         PROVE  Types'
    <2>1. host' \in [Streams -> Rec]
      BY <1>2, <1>11 DEF Leave
    <2> QED BY <1>0, <1>4, <1>11, <2>1 DEF Leave
  <1>12. ASSUME NEW from, NEW to \in PauseCalls \cup FreeCalls, RequestStop(s, from, to)
         PROVE  Types'
    <2>1. host' \in [Streams -> Rec]
      BY <1>2, <1>12 DEF RequestStop
    <2>2. dev' \in Device
      BY <1>0, <1>12 DEF RequestStop, Device
    <2> QED BY <1>0, <1>4, <1>12, <2>1, <2>2 DEF RequestStop
  <1>13. CASE Pause(s)
    <2>1. CASE PauseReturns(s)
      <3>1. host' \in [Streams -> Rec]
        BY <1>1, <2>1 DEF PauseReturns, HostStates
      <3> QED BY <1>0, <1>4, <2>1, <3>1 DEF PauseReturns
    <2>2. CASE PauseTimesOut(s)
      <3>1. host' \in [Streams -> Rec]
        BY <1>1, <2>2 DEF PauseTimesOut, HostStates
      <3> QED BY <1>0, <1>4, <2>2, <3>1 DEF PauseTimesOut
    <2> QED BY <1>11, <1>12, <1>13, <2>1, <2>2 DEF Pause, PauseCalls
  <1>14. CASE FreeRtPackets(s)
    <2>1. CASE FreePurge(s)
      <3>1. host' \in [Streams -> Rec]
        BY <1>2, <2>1 DEF FreePurge, FreeCalls
      <3>2. purge' \in Locks
        BY <2>1 DEF FreePurge, Locks
      <3> QED BY <1>0, <1>4, <2>1, <3>1, <3>2 DEF FreePurge
    <2>2. CASE FreeFlush(s)
      <3>1. host' \in [Streams -> Rec]
        BY <1>2, <2>2 DEF FreeFlush, FreeCalls
      <3> QED BY <1>0, <1>4, <2>2, <3>1 DEF FreeFlush
    <2>3. CASE FreePackets(s)
      <3>1. host' \in [Streams -> Rec]
        BY <1>1, <2>3 DEF FreePackets, HostStates
      <3>2. [stream[s] EXCEPT !.packets = FALSE] \in Context
        BY <1>0, Zenon DEF Context
      <3>3. stream' = [stream EXCEPT ![s] = [stream[s] EXCEPT !.packets = FALSE]]
        BY <2>3 DEF FreePackets
      <3>4. stream' \in [Streams -> Context]
        BY <1>0, <3>2, <3>3
      <3> QED BY <1>0, <1>4, <2>3, <3>1, <3>4 DEF FreePackets
    <2> QED BY <1>11, <1>12, <1>14, <2>1, <2>2, <2>3 DEF FreeRtPackets, FreeCalls
  <1> QED BY <1>5, <1>6, <1>7, <1>8, <1>9, <1>10, <1>13, <1>14 DEF Callback

\* The purge, the two work items that ask for it, and the bus.
LEMMA DeviceTypes ==
    ASSUME Types, PurgeStep \/ StopPurge \/ StopEnds \/ WorkStep \/ BusStep
    PROVE  Types'
  <1> DEFINE Rec == [state : HostStates, call : {"none", "claim"} \cup PauseCalls \cup FreeCalls]
             Locks == [by : Streams \cup {"none", "stop", "work"},
                       step : {"none", "run", "enter", "flush"}]
             Transfers == [capture : [Slots -> CaptureStates], output : [Slots -> OutputStates],
                           refs : [Slots -> SUBSET Holds]]
  <1>0. /\ dev \in Device /\ xfer \in Transfers /\ host \in [Streams -> Rec] /\ purge \in Locks
    BY DEF Types
  <1>1. ASSUME UNCHANGED <<active, stream, proc>>, dev' \in Device, xfer' \in Transfers,
               host' \in [Streams -> Rec], purge' \in Locks
        PROVE  Types'
    BY <1>1 DEF Types
  <1> HIDE DEF Rec, Locks, Transfers
  <1>2. CASE PurgeTargets
    <2>1. dev' \in Device
      BY <1>0, <1>2 DEF PurgeTargets, Device
    <2>2. xfer' \in Transfers
      BY <1>0, <1>2 DEF PurgeTargets, Transfers, CaptureStates, OutputStates
    <2>3. purge' \in Locks
      BY <1>0, <1>2 DEF PurgeTargets, Locks
    <2> QED BY <1>0, <1>1, <1>2, <2>1, <2>2, <2>3 DEF PurgeTargets, OnlyDevice
  <1>3. CASE PurgePublish
    <2>1. dev' \in Device
      <3>1. [dev EXCEPT !.engine = "Stopped", !.draining = FALSE] \in Device
        BY <1>0 DEF Device
      <3> QED BY <1>3, <3>1, DeviceTyped DEF PurgePublish
    <2>2. host' \in [Streams -> Rec]
      <3>1. \A s \in Streams : [host[s] EXCEPT !.call = "freeFlush"] \in Rec
        BY <1>0 DEF Rec, FreeCalls
      <3> QED BY <1>0, <1>3, <3>1 DEF PurgePublish
    <2>3. purge' \in Locks
      BY <1>3 DEF PurgePublish, NoPurge, Locks
    <2> QED BY <1>0, <1>1, <1>3, <2>1, <2>2, <2>3 DEF PurgePublish, OnlyDevice
  <1>4. CASE StopPurge
    <2>1. dev' \in Device
      BY <1>0, <1>4 DEF StopPurge, Device
    <2>2. purge' \in Locks
      BY <1>4 DEF StopPurge, Locks
    <2> QED BY <1>0, <1>1, <1>4, <2>1, <2>2 DEF StopPurge, OnlyDevice
  <1>5. CASE StopEnds
    <2>1. dev' \in Device
      <3>1. [dev EXCEPT !.stopPending = FALSE, !.stopActive = FALSE] \in Device
        BY <1>0 DEF Device
      <3> QED BY <1>5, <3>1, DeviceTyped DEF StopEnds
    <2> QED BY <1>0, <1>1, <1>5, <2>1 DEF StopEnds, OnlyDevice
  <1>6. CASE WorkStep
    <2>1. CASE StreamWork
      <3>1. dev' \in Device
        BY <1>0, <2>1, DeviceTyped DEF StreamWork
      <3> QED BY <1>0, <1>1, <2>1, <3>1 DEF StreamWork, OnlyDevice
    <2>2. CASE StartEngine
      <3>1. dev' \in Device
        <4>1. [dev EXCEPT !.engine = "Running"] \in Device
          BY <1>0 DEF Device
        <4> QED BY <1>0, <2>2, <4>1, DeviceTyped DEF StartEngine
      <3>2. xfer' \in Transfers
        <4>1. [xfer EXCEPT !.capture = [i \in Slots |-> "bus"]] \in Transfers
          BY <1>0 DEF Transfers, CaptureStates
        <4> QED BY <1>0, <2>2, <4>1 DEF StartEngine
      <3> QED BY <1>0, <1>1, <2>2, <3>1, <3>2 DEF StartEngine
    <2>3. CASE WorkRequestsStop
      <3>1. dev' \in Device
        BY <1>0, <2>3 DEF WorkRequestsStop, Device
      <3> QED BY <1>0, <1>1, <2>3, <3>1 DEF WorkRequestsStop, OnlyDevice
    <2>4. CASE WorkPurges
      <3>1. purge' \in Locks
        BY <2>4 DEF WorkPurges, Locks
      <3> QED BY <1>0, <1>1, <2>4, <3>1 DEF WorkPurges, OnlyDevice
    <2>5. CASE WorkMarks
      <3>1. dev' \in Device
        BY <1>0, <2>5, DeviceTyped DEF WorkMarks
      <3> QED BY <1>0, <1>1, <2>5, <3>1 DEF WorkMarks, OnlyDevice
    <2> QED BY <1>6, <2>1, <2>2, <2>3, <2>4, <2>5 DEF WorkStep
  <1>7. CASE BusStep
    <2>1. PICK i \in Slots : CaptureCompletes(i) \/ OutputCompletes(i)
      BY <1>7 DEF BusStep
    <2>2. \A c \in CaptureStates : [xfer EXCEPT !.capture[i] = c] \in Transfers
      BY <1>0 DEF Transfers
    <2>3. \A o \in OutputStates : [xfer EXCEPT !.output[i] = o] \in Transfers
      BY <1>0 DEF Transfers
    <2>4. CASE CaptureCompletes(i)
      <3>1. xfer' \in Transfers
        BY <2>2, <2>4 DEF CaptureCompletes, CaptureStates
      <3> QED BY <1>0, <1>1, <2>4, <3>1 DEF CaptureCompletes, OnlyProc
    <2>5. CASE OutputCompletes(i)
      <3>1. xfer' \in Transfers
        BY <2>3, <2>5 DEF OutputCompletes, OutputStates
      <3> QED BY <1>0, <1>1, <2>5, <3>1 DEF OutputCompletes, OnlyProc
    <2> QED BY <2>1, <2>4, <2>5
  <1> QED BY <1>2, <1>3, <1>4, <1>5, <1>6, <1>7 DEF PurgeStep

\* The steps of the process work item.
LEMMA ProcessTypes ==
    ASSUME Types, ProcessStep
    PROVE  Types'
  <1> DEFINE Work == [pc : Places, slot : Slots, hand : SUBSET Holds,
                      notes : SUBSET [stream : Streams, packet : Nat, epoch : Nat]]
             Transfers == [capture : [Slots -> CaptureStates], output : [Slots -> OutputStates],
                           refs : [Slots -> SUBSET Holds]]
  <1>0. /\ dev \in Device /\ xfer \in Transfers /\ proc \in Work /\ proc.slot \in Slots
        /\ stream \in [Streams -> Context] /\ active \subseteq Streams
        /\ proc.hand \in SUBSET Holds /\ Held(proc.hand) \subseteq Streams
    BY DEF Types, Held, Holds
  <1>1. ASSUME OnlyProc, dev' \in Device, xfer' \in Transfers, stream' \in [Streams -> Context],
               proc' \in Work
        PROVE  Types'
    BY <1>1 DEF Types, OnlyProc
  <1>2. ASSUME NEW p \in Places, Goto(p) PROVE proc' \in Work
    BY <1>2, IdleTyped DEF Goto
  <1>3. ASSUME NEW c \in CaptureStates, NEW i \in Slots
        PROVE  [xfer EXCEPT !.capture[i] = c] \in Transfers
    BY <1>0
  <1>4. ASSUME NEW b \in BOOLEAN, NEW d \in Judged(b) PROVE d \in Device
    BY <1>0, <1>4, DeviceTyped DEF Judged
  <1>5. ASSUME NEW set \in SUBSET Streams PROVE {Hold(s) : s \in set} \in SUBSET Holds
    BY HoldTyped
  <1>6. ASSUME NEW i \in Slots, NEW d, xfer' = Resubmitted(i, d) PROVE xfer' \in Transfers
    <2>1. (IF MaySubmit(d) THEN "bus" ELSE "idle") \in CaptureStates
      BY DEF CaptureStates
    <2> QED BY <1>3, <1>6, <2>1 DEF Resubmitted
  <1>7. ASSUME NEW p \in Places, NEW i \in Slots, NEW hand \in SUBSET Holds
        PROVE  [Idle EXCEPT !.pc = p, !.slot = i, !.hand = hand] \in Work
    BY IdleTyped
  <1> HIDE DEF Work, Transfers
  <1>8. ASSUME NEW i \in Slots, ProcessOutput(i) PROVE Types'
    <2>1. dev' \in Device
      BY <1>4, <1>8 DEF ProcessOutput
    <2>2. stream' \in [Streams -> Context]
      <3>1. xfer.refs[i] \in SUBSET Holds
        BY <1>0 DEF Transfers
      <3>2. (xfer.output[i] = "done") \in BOOLEAN
        OBVIOUS
      <3> QED BY <1>8, <3>1, <3>2, ReleasedType DEF ProcessOutput
    <2>3. xfer' \in Transfers
      BY <1>0, <1>8 DEF ProcessOutput, Transfers, OutputStates
    <2>4. proc' \in Work
      BY <1>2, <1>8 DEF ProcessOutput, Places
    <2> QED BY <1>1, <1>8, <2>1, <2>2, <2>3, <2>4 DEF ProcessOutput
  <1>9. ASSUME NEW i \in Slots, ProcessCapture(i) PROVE Types'
    <2>1. CASE xfer.capture[i] = "data"
      <3> DEFINE set == active \cap CaptureStreams
      <3>1. set \in SUBSET Streams
        BY <1>0
      <3>2. stream' \in [Streams -> Context]
        BY <1>9, <2>1, <3>1, AcquiredType DEF ProcessCapture
      <3>3. {Hold(s) : s \in set} \in SUBSET Holds
        BY <1>5, <3>1
      <3>4. proc' = [Idle EXCEPT !.pc = "deliver", !.slot = i, !.hand = {Hold(s) : s \in set}]
        BY <1>9, <2>1 DEF ProcessCapture
      <3>5. UNCHANGED <<dev, xfer>> /\ OnlyProc
        BY <1>9, <2>1 DEF ProcessCapture
      <3> HIDE DEF set
      <3>6. proc' \in Work
        BY <1>7, <3>3, <3>4 DEF Places
      <3> QED BY <1>0, <1>1, <3>2, <3>5, <3>6
    <2>2. CASE xfer.capture[i] # "data"
      <3>1. /\ dev' \in Judged(xfer.capture[i] = "failed") /\ xfer' = Resubmitted(i, dev')
            /\ Goto("capture") /\ UNCHANGED stream /\ OnlyProc
        BY <1>9, <2>2 DEF ProcessCapture
      <3>2. dev' \in Device
        BY <1>4, <3>1
      <3>3. xfer' \in Transfers
        BY <1>6, <3>1
      <3>4. proc' \in Work
        BY <1>2, <3>1 DEF Places
      <3> QED BY <1>0, <1>1, <3>1, <3>2, <3>3, <3>4
    <2> QED BY <2>1, <2>2
  <1>10. CASE Deliver
    <2>1. stream' \in [Streams -> Context]
      BY <1>0, <1>10, ReleasedType DEF Deliver
    <2>2. xfer' \in Transfers
      BY <1>0, <1>3, <1>10 DEF Deliver, CaptureStates
    <2>3. proc' \in Work
      <3>1. CASE MaySubmit(dev)
        <4>1. [proc EXCEPT !.pc = "fill", !.hand = {}] \in Work
          BY <1>0 DEF Work, Places
        <4> QED BY <1>10, <3>1, <4>1 DEF Deliver
      <3>2. CASE ~MaySubmit(dev)
        BY <1>2, <1>10, <3>2 DEF Deliver, Places
      <3> QED BY <3>1, <3>2
    <2> QED BY <1>0, <1>1, <1>10, <2>1, <2>2, <2>3 DEF Deliver
  <1>11. CASE Fill
    <2> DEFINE set == active \cap RenderStreams
    <2>1. set \in SUBSET Streams
      BY <1>0
    <2>2. stream' \in [Streams -> Context]
      BY <1>11, <2>1, AcquiredType DEF Fill
    <2>3. {Hold(s) : s \in set} \in SUBSET Holds
      BY <1>5, <2>1
    <2>4. proc' = [proc EXCEPT !.pc = "submit", !.hand = {Hold(s) : s \in set}]
      BY <1>11 DEF Fill
    <2> HIDE DEF set
    <2>5. proc' \in Work
      BY <1>0, <2>3, <2>4 DEF Work, Places
    <2> QED BY <1>0, <1>1, <1>11, <2>2, <2>5 DEF Fill
  <1>12. CASE SubmitOutput
    <2> DEFINE refs == {Hold(s) : s \in Held(proc.hand)}
    <2>1. refs \in SUBSET Holds
      BY <1>0, <1>5
    <2>2. \/ /\ xfer' = [xfer EXCEPT !.output[proc.slot] = "bus", !.refs[proc.slot] = refs]
             /\ proc' = [proc EXCEPT !.pc = "resubmit", !.hand = {}]
             /\ UNCHANGED <<dev, stream>>
          \/ /\ stream' = Released(refs, FALSE)
             /\ dev' = FatalStop(dev)
             /\ xfer' = [xfer EXCEPT !.capture[proc.slot] = "idle"]
             /\ Goto("capture")
      BY <1>12 DEF SubmitOutput
    <2>3. OnlyProc
      BY <1>12 DEF SubmitOutput
    <2> HIDE DEF refs
    <2>4. CASE /\ xfer' = [xfer EXCEPT !.output[proc.slot] = "bus", !.refs[proc.slot] = refs]
               /\ proc' = [proc EXCEPT !.pc = "resubmit", !.hand = {}]
               /\ UNCHANGED <<dev, stream>>
      <3>1. xfer' \in Transfers
        BY <1>0, <2>1, <2>4 DEF Transfers, OutputStates
      <3>2. proc' \in Work
        BY <1>0, <2>4 DEF Work, Places
      <3> QED BY <1>0, <1>1, <2>3, <2>4, <3>1, <3>2
    <2>5. CASE /\ stream' = Released(refs, FALSE)
               /\ dev' = FatalStop(dev)
               /\ xfer' = [xfer EXCEPT !.capture[proc.slot] = "idle"]
               /\ Goto("capture")
      <3>1. xfer' \in Transfers
        BY <1>0, <1>3, <2>5 DEF CaptureStates
      <3>2. proc' \in Work
        BY <1>2, <2>5 DEF Places
      <3>3. stream' \in [Streams -> Context] /\ dev' \in Device
        BY <1>0, <2>1, <2>5, ReleasedType, DeviceTyped
      <3> QED BY <1>1, <2>3, <3>1, <3>2, <3>3
    <2> QED BY <2>2, <2>4, <2>5
  <1>13. CASE ResubmitCapture
    <2>1. xfer' \in Transfers
      BY <1>0, <1>6, <1>13 DEF ResubmitCapture
    <2>2. proc' \in Work
      BY <1>2, <1>13 DEF ResubmitCapture, Places
    <2> QED BY <1>0, <1>1, <1>13, <2>1, <2>2 DEF ResubmitCapture
  <1>14. CASE Flush
    <2>1. stream' \in [Streams -> Context]
      <3>1. ASSUME NEW s \in Streams
            PROVE  [stream[s] EXCEPT !.refs = @ + 1, !.pending = {}] \in Context
        <4>1. stream[s] \in Context /\ stream[s].refs + 1 \in Int
          BY <1>0 DEF Context
        <4> QED BY <4>1, Zenon DEF Context
      <3> QED BY <1>0, <1>14, <3>1 DEF Flush
    <2>2. proc' \in Work
      <3> DEFINE hand == {Hold(s) : s \in active}
                 told(s) == {[stream |-> s, packet |-> n.packet, epoch |-> n.epoch] : n \in Takes(s)}
                 notes == UNION {told(s) : s \in active}
      <3>1. hand \in SUBSET Holds
        BY <1>0, <1>5
      <3>2. ASSUME NEW s \in active
            PROVE  told(s) \in SUBSET [stream : Streams, packet : Nat, epoch : Nat]
        <4>1. stream[s].pending \in SUBSET [packet : Nat, epoch : Nat] /\ s \in Streams
          BY <1>0 DEF Context
        <4> QED BY <4>1 DEF Takes
      <3>3. notes \in SUBSET [stream : Streams, packet : Nat, epoch : Nat]
        BY <3>2
      <3>4. proc' = [Idle EXCEPT !.pc = "notify", !.hand = hand, !.notes = notes]
        BY <1>14 DEF Flush
      <3> HIDE DEF hand, notes
      <3> QED BY <3>1, <3>3, <3>4, IdleTyped DEF Work, Places
    <2> QED BY <1>0, <1>1, <1>14, <2>1, <2>2 DEF Flush
  <1>15. ASSUME NEW s \in Streams, Notify(s) PROVE Types'
    <2>1. stream' \in [Streams -> Context]
      <3>1. stream[s] \in Context /\ stream[s].refs - 1 \in Int
        BY <1>0 DEF Context
      <3>2. [stream[s] EXCEPT !.refs = stream[s].refs - 1] \in Context
        BY <3>1, Zenon DEF Context
      <3>3. stream' = [stream EXCEPT ![s] = [stream[s] EXCEPT !.refs = stream[s].refs - 1]]
        BY <1>15 DEF Notify
      <3> QED BY <1>0, <3>2, <3>3
    <2>2. proc' \in Work
      BY <1>0, <1>15 DEF Notify, Work
    <2> QED BY <1>0, <1>1, <1>15, <2>1, <2>2 DEF Notify
  <1>16. CASE ProcessFinishes
    <2>1. dev' \in Device
      BY <1>0, <1>16, DeviceTyped DEF ProcessFinishes
    <2>2. proc' \in Work
      BY <1>16, IdleTyped DEF ProcessFinishes, Work
    <2> QED BY <1>0, <1>1, <1>16, <2>1, <2>2 DEF ProcessFinishes
  <1> QED BY <1>8, <1>9, <1>10, <1>11, <1>12, <1>13, <1>14, <1>15, <1>16 DEF ProcessStep

LEMMA StepTypes == Types /\ [Next]_vars => Types'
  <1>1. Types /\ UNCHANGED vars => Types'
    BY DEF Types, vars
  <1>2. Types /\ Next => Types'
    BY CallbackTypes, DeviceTypes, ProcessTypes DEF Next
  <1> QED BY <1>1, <1>2

(***************************************************************************)
(* The callbacks, the purge and the bus                                    *)
(***************************************************************************)
\* What holds of a reference's stream.
LEMMA HandStreams ==
    ASSUME Types, HandsCurrent, NEW s \in Held(proc.hand)
    PROVE  s \in Streams /\ host[s].state = "running" /\ Hold(s) \in proc.hand
  <1>1. PICK h \in proc.hand : h.stream = s
    BY HeldMembers
  <1>2. h \in Holds
    BY DEF Types
  <1> QED BY <1>1, <1>2 DEF HandsCurrent, Holds

\* Callbacks that leave the contexts alone: a stream in hand stays in its state, and no
\* stream gets a state that its context does not bear out.
LEMMA HostMoves ==
    ASSUME IInv, UNCHANGED <<xfer, stream, proc>>, CallStates', ActiveRuns',
           \A t \in Streams :
               /\ host'[t].state # "created" => host[t].state # "created"
               /\ host'[t].state \in {"prepared", "running"}
                     => host[t].state \in {"prepared", "running"}
               /\ t \in Held(proc.hand) => host'[t].state = "running"
    PROVE  HostInv' /\ HandInv' /\ SlotsHold' /\ CountInv' /\ EpochInv'
  <1> USE DEF IInv
  <1>1. ContextOfState'
    BY DEF HostInv, ContextOfState
  <1>2. HandInv'
    <2>1. HandByPlace' /\ SlotWaits'
      BY DEF HandInv, HandByPlace, SlotWaits
    <2>2. HandsCurrent'
      <3> SUFFICES ASSUME NEW h \in proc.hand
                   PROVE  h = Hold(h.stream) /\ host'[h.stream].state = "running"
        BY DEF HandsCurrent, Hold
      <3>1. h.stream \in Held(proc.hand)
        BY HeldMembers
      <3>2. h.stream \in Streams
        BY <3>1, HandStreams DEF HandInv
      <3> QED BY <3>1, <3>2 DEF HandInv, HandsCurrent
    <2> QED BY <2>1, <2>2 DEF HandInv
  <1>3. SlotsHold'
    BY DEF SlotsHold
  <1>4. CountInv'
    BY DEF CountInv, RefsCounted, IdleHoldsNothing, HoldersOf, InHand
  <1>5. EpochInv'
    BY DEF EpochInv, LoadsCover, PendingBefore, NotesTrue, FreshHolders, Loading, Hold
  <1> QED BY <1>1, <1>2, <1>3, <1>4, <1>5 DEF HostInv

LEMMA OneMoves ==
    ASSUME IInv, UNCHANGED <<xfer, stream, proc>>, NEW s \in Streams,
           NEW st \in HostStates, NEW call, host' = [host EXCEPT ![s] = [state |-> st, call |-> call]],
           st = "prepared" \/ st = "running" => host[s].state \in {"prepared", "running"},
           st = "created" \/ st = "allocated" => host[s].state = st,
           s \in Held(proc.hand) => st = "running",
           call = "claim" => st = "prepared",
           call \in PauseCalls => st = "running",
           call \in FreeCalls => st = "allocated",
           active' \subseteq active \cup {s},
           s \in active' => st = "running" /\ call = "none"
    PROVE  HostInv' /\ HandInv' /\ SlotsHold' /\ CountInv' /\ EpochInv'
  <1>1. host'[s] = [state |-> st, call |-> call] /\ \A t \in Streams \ {s} : host'[t] = host[t]
    BY DEF IInv, Types
  <1>2. CallStates'
    BY <1>1 DEF IInv, HostInv, CallStates
  <1>3. ActiveRuns'
    <2> SUFFICES ASSUME NEW t \in active' PROVE host'[t] = [state |-> "running", call |-> "none"]
      BY DEF ActiveRuns, Ready
    <2>1. CASE t = s
      BY <1>1, <2>1
    <2>2. CASE t # s
      BY <1>1, <2>2 DEF IInv, Types, HostInv, ActiveRuns, Ready
    <2> QED BY <2>1, <2>2
  <1>4. ASSUME NEW t \in Streams
        PROVE  /\ host'[t].state # "created" => host[t].state # "created"
               /\ host'[t].state \in {"prepared", "running"}
                     => host[t].state \in {"prepared", "running"}
               /\ t \in Held(proc.hand) => host'[t].state = "running"
    <2>1. CASE t = s
      BY <1>1, <2>1 DEF HostStates
    <2>2. CASE t # s
      BY <1>1, <2>2, HandStreams DEF IInv, HandInv
    <2> QED BY <2>1, <2>2
  <1> QED BY <1>2, <1>3, <1>4, HostMoves

\* A stream that does not run has its context reset, or its packets freed when no slot
\* refers to it.
LEMMA ContextChanges ==
    ASSUME IInv, UNCHANGED <<xfer, proc, active>>, NEW s \in Streams,
           host[s].state # "running", NEW st \in HostStates, st # "running",
           host' = [host EXCEPT ![s] = [state |-> st, call |-> "none"]],
           NEW n \in Context, stream' = [stream EXCEPT ![s] = n],
           n.refs = stream[s].refs,
           st # "created" => n.packets,
           st = "prepared" => n.live,
           \A i \in Slots : s \in Held(xfer.refs[i]) => n.packets,
           \A p \in n.pending : p.packet < n.current,
           \/ /\ n.epoch = stream[s].epoch /\ n.position = stream[s].position
              /\ n.loaded = stream[s].loaded
           \/ n.epoch = stream[s].epoch + 1 /\ n.position = 0
    PROVE  HostInv' /\ HandInv' /\ SlotsHold' /\ CountInv' /\ EpochInv'
  <1>0. Types /\ HostInv /\ HandInv /\ SlotsHold /\ CountInv /\ EpochInv
    BY DEF IInv
  <1>1. /\ host'[s] = [state |-> st, call |-> "none"] /\ stream'[s] = n
        /\ \A t \in Streams \ {s} : host'[t] = host[t] /\ stream'[t] = stream[t]
        /\ stream[s] \in Context
    BY <1>0 DEF Types
  <1>2. s \notin active
    BY <1>0 DEF HostInv, ActiveRuns, Ready
  <1>3. s \notin Held(proc.hand)
    BY <1>0, HandStreams DEF HandInv
  <1>4. HostInv'
    <2>1. CallStates'
      BY <1>0, <1>1 DEF HostInv, CallStates, PauseCalls, FreeCalls
    <2>2. ActiveRuns'
      BY <1>0, <1>1, <1>2 DEF Types, HostInv, ActiveRuns, Ready
    <2>3. ContextOfState'
      <3> SUFFICES ASSUME NEW t \in Streams
                   PROVE  /\ host'[t].state # "created" => stream'[t].packets
                          /\ host'[t].state \in {"prepared", "running"} => stream'[t].live
        BY DEF ContextOfState
      <3>1. CASE t = s
        BY <1>1, <3>1
      <3>2. CASE t # s
        BY <1>0, <1>1, <3>2 DEF HostInv, ContextOfState
      <3> QED BY <3>1, <3>2
    <2> QED BY <2>1, <2>2, <2>3 DEF HostInv
  <1>5. HandInv'
    <2>1. HandByPlace' /\ SlotWaits'
      BY <1>0 DEF HandInv, HandByPlace, SlotWaits
    <2>2. HandsCurrent'
      <3> SUFFICES ASSUME NEW h \in proc.hand
                   PROVE  h = Hold(h.stream)' /\ host'[h.stream].state = "running"
        BY DEF HandsCurrent
      <3>1. h.stream \in Held(proc.hand)
        BY HeldMembers
      <3>2. h.stream \in Streams \ {s}
        BY <1>0, <1>3, <3>1, HandStreams DEF HandInv
      <3>3. h = Hold(h.stream) /\ host[h.stream].state = "running"
        BY <1>0 DEF HandInv, HandsCurrent
      <3> QED BY <1>1, <3>2, <3>3 DEF Hold
    <2> QED BY <2>1, <2>2 DEF HandInv
  <1>6. SlotsHold'
    <2> SUFFICES ASSUME NEW i \in Slots, NEW h \in xfer.refs[i]
                 PROVE  h.epoch <= stream'[h.stream].epoch /\ stream'[h.stream].packets
      BY DEF SlotsHold
    <2>1. h \in Holds
      BY <1>0 DEF Types
    <2>2. h.epoch <= stream[h.stream].epoch /\ stream[h.stream].packets
      BY <1>0 DEF SlotsHold
    <2>3. CASE h.stream = s
      <3>1. s \in Held(xfer.refs[i])
        BY <2>3, HeldMembers
      <3>2. stream[s].epoch <= n.epoch
        BY <1>1 DEF Context
      <3> QED BY <1>1, <2>1, <2>2, <2>3, <3>1, <3>2 DEF Holds, Context
    <2>4. CASE h.stream # s
      BY <1>1, <2>1, <2>2, <2>4 DEF Holds
    <2> QED BY <2>3, <2>4
  <1>7. CountInv'
    <2>1. \A t \in Streams : stream'[t].refs = stream[t].refs
      BY <1>1
    <2> QED BY <1>0, <2>1 DEF CountInv, RefsCounted, IdleHoldsNothing, HoldersOf, InHand
  <1>8. LoadsCover'
    <2> SUFFICES ASSUME NEW t \in Streams
                 PROVE  stream'[t].position + Cardinality(FreshHolders(t)') + Loading(t)'
                          <= stream'[t].loaded
      BY DEF LoadsCover
    <2>1. Loading(t)' = Loading(t)
      BY DEF Loading
    <2>2. stream[t].position + Cardinality(FreshHolders(t)) + Loading(t) <= stream[t].loaded
      BY <1>0 DEF EpochInv, LoadsCover
    <2>3. CASE Hold(t)' = Hold(t) /\ stream'[t].position = stream[t].position
                 /\ stream'[t].loaded = stream[t].loaded
      <3>1. FreshHolders(t)' = FreshHolders(t)
        BY <2>3 DEF FreshHolders
      <3> QED BY <2>1, <2>2, <2>3, <3>1
    <2>4. CASE t = s /\ n.epoch = stream[s].epoch + 1 /\ n.position = 0
      <3>1. FreshHolders(t)' = {}
        <4> SUFFICES ASSUME NEW i \in Slots, Hold(t)' \in xfer.refs[i] PROVE FALSE
          BY DEF FreshHolders
        <4>1. Hold(t)'.stream = s /\ Hold(t)'.epoch = stream[s].epoch + 1
          BY <1>1, <2>4 DEF Hold
        <4>2. stream[s].epoch + 1 <= stream[s].epoch
          BY <1>0, <4>1 DEF SlotsHold
        <4> QED BY <1>1, <4>2 DEF Context
      <3>2. Loading(t) = 0
        BY <1>3, <2>4 DEF Loading
      <3> QED BY <1>1, <2>1, <2>4, <3>1, <3>2, FS_EmptySet DEF Context
    <2>5. CASE t # s
      BY <1>1, <2>3, <2>5 DEF Hold
    <2>6. CASE t = s /\ n.epoch = stream[s].epoch /\ n.position = stream[s].position
                 /\ n.loaded = stream[s].loaded
      BY <1>1, <2>3, <2>6 DEF Hold
    <2> QED BY <2>4, <2>5, <2>6
  <1>9. PendingBefore'
    BY <1>0, <1>1 DEF EpochInv, PendingBefore
  <1>10. NotesTrue'
    <2> SUFFICES ASSUME NEW m \in proc.notes
                 PROVE  /\ m.stream \in Held(proc.hand)
                        /\ m.epoch = stream'[m.stream].epoch
                        /\ m.packet < stream'[m.stream].current
      BY DEF NotesTrue, Held
    <2>1. /\ m.stream \in Held(proc.hand) /\ m.epoch = stream[m.stream].epoch
          /\ m.packet < stream[m.stream].current
      BY <1>0 DEF EpochInv, NotesTrue
    <2>2. m.stream \in Streams \ {s}
      BY <1>0, <1>3, <2>1, HandStreams DEF HandInv
    <2> QED BY <1>1, <2>1, <2>2
  <1> QED BY <1>4, <1>5, <1>6, <1>7, <1>8, <1>9, <1>10 DEF EpochInv

LEMMA CallbackHolds ==
    ASSUME IInv, NEW s \in Streams, Callback(s)
    PROVE  HostInv' /\ HandInv' /\ SlotsHold' /\ CountInv' /\ EpochInv'
  <1> DEFINE Goal == HostInv' /\ HandInv' /\ SlotsHold' /\ CountInv' /\ EpochInv'
  <1>0. /\ Types /\ HostInv /\ HandInv
        /\ stream[s] \in Context
        /\ host[s] \in [state : HostStates, call : {"none", "claim"} \cup PauseCalls \cup FreeCalls]
    BY DEF IInv, Types
  <1>1. s \in Held(proc.hand) => host[s].state = "running"
    BY <1>0, HandStreams DEF HandInv
  <1>2. s \in active => host[s] = [state |-> "running", call |-> "none"]
    BY <1>0 DEF HostInv, ActiveRuns, Ready
  <1>3. /\ host[s].call = "claim" => host[s].state = "prepared"
        /\ host[s].call \in PauseCalls => host[s].state = "running"
        /\ host[s].call \in FreeCalls => host[s].state = "allocated"
    BY <1>0 DEF HostInv, CallStates
  <1>4. ASSUME NEW c, Call(s, c) PROVE host' = [host EXCEPT ![s] = [state |-> host[s].state, call |-> c]]
    <2>1. [host[s] EXCEPT !.call = c] = [state |-> host[s].state, call |-> c]
      BY <1>0
    <2> QED BY <1>4, <2>1 DEF Call
  \* A callback that goes on in its state.
  <1>5. ASSUME NEW c, Call(s, c), UNCHANGED <<xfer, stream, proc>>, active' \subseteq active \ {s},
               c = "claim" => host[s].state = "prepared",
               c \in PauseCalls => host[s].state = "running",
               c \in FreeCalls => host[s].state = "allocated"
        PROVE  Goal
    <2> DEFINE st == host[s].state
    <2>1. host' = [host EXCEPT ![s] = [state |-> st, call |-> c]] /\ st \in HostStates
      BY <1>0, <1>4, <1>5
    <2>2. /\ s \in Held(proc.hand) => st = "running"
          /\ c = "claim" => st = "prepared"
          /\ c \in PauseCalls => st = "running"
          /\ c \in FreeCalls => st = "allocated"
          /\ st = "prepared" \/ st = "running" => host[s].state \in {"prepared", "running"}
          /\ st = "created" \/ st = "allocated" => host[s].state = st
      BY <1>1, <1>5
    <2>3. active' \subseteq active \cup {s} /\ s \notin active'
      BY <1>5
    <2> HIDE DEF st
    <2> QED BY <1>5, <2>1, <2>2, <2>3, OneMoves
  \* A callback that returns between "prepared" and "running".
  <1>6. ASSUME NEW st \in {"prepared", "running"}, Return(s, st), UNCHANGED <<xfer, stream, proc>>,
               host[s].state \in {"prepared", "running"},
               s \in Held(proc.hand) => st = "running",
               active' \subseteq active \cup {s}, s \in active' => st = "running"
        PROVE  Goal
    <2>1. host' = [host EXCEPT ![s] = [state |-> st, call |-> "none"]] /\ st \in HostStates
      BY <1>6 DEF Return, HostStates
    <2>2. "none" \notin PauseCalls /\ "none" \notin FreeCalls
      BY DEF PauseCalls, FreeCalls
    <2> QED BY <1>6, <2>1, <2>2, OneMoves
  <1>7. CASE RunFails(s)
    <2>1. UNCHANGED <<xfer, stream, proc, host, active>>
      BY <1>7 DEF RunFails, OnlyHost
    <2>2. CallStates' /\ ActiveRuns'
      BY <1>0, <2>1 DEF HostInv, CallStates, ActiveRuns, Ready
    <2>3. \A t \in Held(proc.hand) : host[t].state = "running"
      BY <1>0, HandStreams DEF HandInv
    <2> QED BY <2>1, <2>2, <2>3, HostMoves
  <1>8. CASE RunConfigure(s)
    <2>1. /\ Call(s, "claim") /\ UNCHANGED <<xfer, stream, proc, active>>
          /\ host[s].state = "prepared"
      BY <1>8 DEF RunConfigure, OnlyHost, Ready
    <2>2. "claim" \notin PauseCalls /\ "claim" \notin FreeCalls
      BY DEF PauseCalls, FreeCalls
    <2> QED BY <1>2, <1>5, <2>1, <2>2
  <1>9. CASE RunClaim(s)
    <2>1. /\ Return(s, "running") /\ UNCHANGED <<xfer, stream, proc>> /\ active' = active \cup {s}
          /\ host[s].call = "claim"
      BY <1>9 DEF RunClaim, At
    <2> QED BY <1>3, <1>6, <2>1
  <1>10. ASSUME NEW from, NEW to, RequestStop(s, from, to),
                NEW calls \in {PauseCalls, FreeCalls}, from \in calls, to \in calls
         PROVE  Goal
    <2>1. /\ Call(s, to) /\ UNCHANGED <<xfer, stream, proc, active>> /\ host[s].call = from
      BY <1>10 DEF RequestStop, OnlyHost, At
    <2>2. to # "claim" /\ from # "none" /\ ~(to \in PauseCalls /\ to \in FreeCalls)
      BY <1>10 DEF PauseCalls, FreeCalls
    <2> QED BY <1>2, <1>3, <1>5, <1>10, <2>1, <2>2
  <1>11. ASSUME NEW st, NEW ifNone, NEW ifSome, Leave(s, st, ifNone, ifSome),
                (st = "running" /\ {ifNone, ifSome} \subseteq PauseCalls)
                  \/ (st = "allocated" /\ {ifNone, ifSome} \subseteq FreeCalls)
         PROVE  Goal
    <2> DEFINE c == IF active \ {s} = {} THEN ifNone ELSE ifSome
    <2>1. /\ Call(s, c) /\ UNCHANGED <<xfer, stream, proc>> /\ host[s].state = st
          /\ active' = active \ {s}
      BY <1>11 DEF Leave, OnlyHost, Ready
    <2>2. \/ st = "running" /\ c \in PauseCalls /\ c \notin FreeCalls /\ c # "claim"
          \/ st = "allocated" /\ c \in FreeCalls /\ c \notin PauseCalls /\ c # "claim"
      BY <1>11 DEF PauseCalls, FreeCalls
    <2> HIDE DEF c
    <2> QED BY <1>5, <2>1, <2>2
  <1>12. CASE Pause(s)
    <2>1. CASE PauseReturns(s)
      <3>1. /\ Return(s, "prepared") /\ UNCHANGED <<xfer, stream, proc, active>>
            /\ host[s].call = "pauseWait" /\ stream[s].refs = 0
        BY <2>1 DEF PauseReturns, OnlyHost, At, WorkerIdle
      <3>2. s \notin Held(proc.hand)
        <4>1. 0 = Cardinality(HoldersOf(s)) + InHand(s) /\ Cardinality(HoldersOf(s)) \in Nat
          BY <3>1, Counts DEF IInv, CountInv, RefsCounted, HoldersOf
        <4> QED BY <4>1 DEF InHand
      <3>3. s \notin active /\ host[s].state = "running"
        BY <1>2, <1>3, <3>1 DEF PauseCalls
      <3> QED BY <1>6, <3>1, <3>2, <3>3
    <2>2. CASE PauseTimesOut(s)
      <3>1. /\ Return(s, "prepared") /\ UNCHANGED <<xfer, stream, proc, active>>
            /\ host[s].call = "pauseWait" /\ s \notin Held(proc.hand)
        BY <2>2 DEF PauseTimesOut, OnlyHost, At
      <3>2. s \notin active /\ host[s].state = "running"
        BY <1>2, <1>3, <3>1 DEF PauseCalls
      <3> QED BY <1>6, <3>1, <3>2
    <2>3. CASE Leave(s, "running", "pauseRequest", "pauseWait")
      <3>1. {"pauseRequest", "pauseWait"} \subseteq PauseCalls
        BY DEF PauseCalls
      <3> QED BY <1>11, <2>3, <3>1
    <2>4. CASE RequestStop(s, "pauseRequest", "pauseWait")
      <3>1. "pauseRequest" \in PauseCalls /\ "pauseWait" \in PauseCalls
        BY DEF PauseCalls
      <3> QED BY <1>10, <2>4, <3>1
    <2> QED BY <1>12, <2>1, <2>2, <2>3, <2>4 DEF Pause
  <1>13. CASE FreePurge(s)
    <2>1. /\ Call(s, "freePurging") /\ UNCHANGED <<xfer, stream, proc, active>>
          /\ host[s].call = "freePurge"
      BY <1>13 DEF FreePurge, OnlyHost, At
    <2> QED BY <1>2, <1>3, <1>5, <2>1 DEF FreeCalls, PauseCalls
  <1>14. CASE FreeFlush(s)
    <2>1. /\ Call(s, "freeWait") /\ UNCHANGED <<xfer, stream, proc, active>>
          /\ host[s].call = "freeFlush"
      BY <1>14 DEF FreeFlush, OnlyHost, At
    <2> QED BY <1>2, <1>3, <1>5, <2>1 DEF FreeCalls, PauseCalls
  <1>15. ASSUME NEW st \in HostStates, st # "running", Return(s, st),
                UNCHANGED <<xfer, proc, active>>, host[s].state # "running",
                NEW n \in Context, stream' = [stream EXCEPT ![s] = n],
                n.refs = stream[s].refs, st # "created" => n.packets, st = "prepared" => n.live,
                \A i \in Slots : s \in Held(xfer.refs[i]) => n.packets,
                \A p \in n.pending : p.packet < n.current,
                \/ /\ n.epoch = stream[s].epoch /\ n.position = stream[s].position
                   /\ n.loaded = stream[s].loaded
                \/ n.epoch = stream[s].epoch + 1 /\ n.position = 0
         PROVE  Goal
    <2>1. host' = [host EXCEPT ![s] = [state |-> st, call |-> "none"]]
      BY <1>15 DEF Return
    <2> QED BY <1>15, <2>1, ContextChanges
  <1>16. ASSUME NEW st \in {"allocated", "prepared"}, Return(s, st),
                UNCHANGED <<xfer, proc, active>>, host[s].state # "running",
                NEW n \in Context, stream' = [stream EXCEPT ![s] = n],
                n.epoch = stream[s].epoch + 1, n.refs = stream[s].refs, n.packets,
                n.position = 0, n.pending = {}, st = "prepared" => n.live
         PROVE  Goal
    <2>1. st \in HostStates /\ st # "running"
      BY DEF HostStates
    <2>2. \A p \in n.pending : p.packet < n.current
      BY <1>16
    <2> QED BY <1>15, <1>16, <2>1, <2>2
  <1>17. CASE AllocateRtPackets(s)
    <2> DEFINE r == [stream[s] EXCEPT !.packets = TRUE]
               n == ResetEpoch(r, TRUE)
    <2>1. r \in Context
      BY <1>0, Zenon DEF Context
    <2>2. r.epoch = stream[s].epoch /\ r.refs = stream[s].refs /\ r.packets
      BY <1>0 DEF Context
    <2>3. stream' = [stream EXCEPT ![s] = n]
      BY <1>17 DEF AllocateRtPackets
    <2> HIDE DEF r
    <2>4. /\ n \in Context /\ n.epoch = r.epoch + 1 /\ n.packets = r.packets
          /\ n.refs = r.refs /\ n.position = 0 /\ n.pending = {}
      BY <2>1, ResetContext
    <2> HIDE DEF n
    <2>5. /\ Return(s, "allocated") /\ UNCHANGED <<xfer, proc, active>>
          /\ host[s].state # "running"
      BY <1>17 DEF AllocateRtPackets, OnlyHost, Ready
    <2> QED BY <1>16, <2>2, <2>3, <2>4, <2>5
  <1>18. ASSUME NEW st \in {"allocated", "prepared"}, NEW live \in BOOLEAN, Return(s, st),
                UNCHANGED <<xfer, proc, active>>, host[s].state \in {"allocated", "prepared"},
                stream' = [stream EXCEPT ![s] = ResetEpoch(stream[s], live)],
                st = "prepared" => live
         PROVE  Goal
    <2> DEFINE n == ResetEpoch(stream[s], live)
    <2>1. /\ n \in Context /\ n.epoch = stream[s].epoch + 1 /\ n.packets = stream[s].packets
          /\ n.refs = stream[s].refs /\ n.position = 0 /\ n.pending = {} /\ n.live = live
      BY <1>0, ResetContext
    <2>2. stream' = [stream EXCEPT ![s] = n]
      BY <1>18
    <2> HIDE DEF n
    <2>3. n.packets
      BY <1>0, <1>18, <2>1 DEF HostInv, ContextOfState
    <2>4. st = "prepared" => n.live
      BY <1>18, <2>1
    <2> QED BY <1>16, <1>18, <2>1, <2>2, <2>3, <2>4
  <1>19. CASE PrepareHardware(s) \/ ReleaseHardware(s)
    <2>1. CASE PrepareHardware(s)
      <3>1. /\ Return(s, "prepared") /\ UNCHANGED <<xfer, proc, active>>
            /\ host[s].state = "allocated"
            /\ stream' = [stream EXCEPT ![s] = ResetEpoch(stream[s], TRUE)]
        BY <2>1 DEF PrepareHardware, OnlyHost, Ready
      <3> DEFINE live == TRUE
      <3>2. live \in BOOLEAN /\ live /\ stream' = [stream EXCEPT ![s] = ResetEpoch(stream[s], live)]
        BY <3>1
      <3> HIDE DEF live
      <3> QED BY <1>18, <3>1, <3>2
    <2>2. CASE ReleaseHardware(s)
      <3>1. /\ Return(s, "allocated") /\ UNCHANGED <<xfer, proc, active>>
            /\ host[s].state = "prepared"
            /\ stream' = [stream EXCEPT ![s] = ResetEpoch(stream[s], FALSE)]
        BY <2>2 DEF ReleaseHardware, OnlyHost, Ready
      <3> DEFINE live == FALSE
      <3>2. live \in BOOLEAN /\ stream' = [stream EXCEPT ![s] = ResetEpoch(stream[s], live)]
        BY <3>1
      <3> HIDE DEF live
      <3> QED BY <1>18, <3>1, <3>2
    <2> QED BY <1>19, <2>1, <2>2
  <1>20. CASE FreePackets(s)
    <2> DEFINE n == [stream[s] EXCEPT !.packets = FALSE]
    <2>1. n \in Context
      BY <1>0, Zenon DEF Context
    <2>2. /\ n.epoch = stream[s].epoch /\ n.refs = stream[s].refs /\ n.live = stream[s].live
          /\ n.position = stream[s].position /\ n.loaded = stream[s].loaded
          /\ n.pending = stream[s].pending /\ n.current = stream[s].current
      BY <1>0 DEF Context
    <2>3. stream' = [stream EXCEPT ![s] = n]
      BY <1>20 DEF FreePackets
    <2> HIDE DEF n
    <2>4. /\ Return(s, "created") /\ UNCHANGED <<xfer, proc, active>>
          /\ host[s].call = "freeWait" /\ stream[s].refs = 0
      BY <1>20 DEF FreePackets, OnlyHost, At, RundownComplete
    <2>5. host[s].state # "running"
      BY <1>3, <2>4 DEF FreeCalls
    <2>6. \A i \in Slots : s \notin Held(xfer.refs[i])
      <3>1. 0 = Cardinality(HoldersOf(s)) + InHand(s) /\ Cardinality(HoldersOf(s)) \in Nat
        BY <2>4, Counts DEF IInv, CountInv, RefsCounted, HoldersOf
      <3>2. Cardinality(HoldersOf(s)) = 0
        BY <3>1 DEF InHand
      <3>3. HoldersOf(s) = {}
        BY <3>2, Counts DEF HoldersOf
      <3> QED BY <3>3 DEF HoldersOf
    <2>7. \A p \in n.pending : p.packet < n.current
      BY <2>2 DEF IInv, EpochInv, PendingBefore
    <2>8. "created" \in HostStates
      BY DEF HostStates
    <2>9. \A i \in Slots : s \in Held(xfer.refs[i]) => n.packets
      BY <2>6
    <2> QED BY <1>15, <2>1, <2>2, <2>3, <2>4, <2>5, <2>7, <2>8, <2>9
  <1>21. CASE FreeRtPackets(s)
    <2>1. CASE Leave(s, "allocated", "freeRequest", "freeWait")
      <3>1. {"freeRequest", "freeWait"} \subseteq FreeCalls
        BY DEF FreeCalls
      <3> QED BY <1>11, <2>1, <3>1
    <2>2. CASE RequestStop(s, "freeRequest", "freePurge")
      <3>1. "freeRequest" \in FreeCalls /\ "freePurge" \in FreeCalls
        BY DEF FreeCalls
      <3> QED BY <1>10, <2>2, <3>1
    <2> QED BY <1>13, <1>14, <1>20, <1>21, <2>1, <2>2 DEF FreeRtPackets
  <1> QED BY <1>7, <1>8, <1>9, <1>12, <1>17, <1>19, <1>21 DEF Callback, Goal

\* Steps that change neither the contexts nor what is held: an output slot stays idle, or busy.
LEMMA QuietFrame ==
    ASSUME IInv, UNCHANGED <<active, host, stream, proc>>, xfer'.refs = xfer.refs,
           \A i \in Slots : xfer'.output[i] = "idle" <=> xfer.output[i] = "idle"
    PROVE  HostInv' /\ HandInv' /\ SlotsHold' /\ CountInv' /\ EpochInv'
  <1> USE DEF IInv
  <1>1. HostInv'
    BY DEF HostInv, CallStates, ActiveRuns, ContextOfState, Ready
  <1>2. HandInv'
    <2>1. proc.slot \in Slots
      BY DEF Types
    <2>2. HandByPlace' /\ SlotWaits'
      BY <2>1 DEF HandInv, HandByPlace, SlotWaits
    <2>3. HandsCurrent'
      BY DEF HandInv, HandsCurrent, Hold
    <2> QED BY <2>2, <2>3 DEF HandInv
  <1>3. SlotsHold'
    BY DEF SlotsHold
  <1>4. CountInv'
    BY DEF CountInv, RefsCounted, IdleHoldsNothing, HoldersOf, InHand
  <1>5. EpochInv'
    BY DEF EpochInv, LoadsCover, PendingBefore, NotesTrue, FreshHolders, Loading, Hold
  <1> QED BY <1>1, <1>2, <1>3, <1>4, <1>5

LEMMA DeviceHolds ==
    ASSUME IInv, PurgeStep \/ StopPurge \/ StopEnds \/ WorkStep \/ BusStep
    PROVE  HostInv' /\ HandInv' /\ SlotsHold' /\ CountInv' /\ EpochInv'
  <1> DEFINE Transfers == [capture : [Slots -> CaptureStates], output : [Slots -> OutputStates],
                           refs : [Slots -> SUBSET Holds]]
  <1>0. Types /\ xfer \in Transfers
    BY DEF IInv, Types
  <1>1. CASE PurgeTargets
    <2>1. xfer'.refs = xfer.refs
      BY <1>0, <1>1 DEF PurgeTargets
    <2>2. \A i \in Slots : xfer'.output[i] = "idle" <=> xfer.output[i] = "idle"
      BY <1>0, <1>1 DEF PurgeTargets
    <2> QED BY <1>1, <2>1, <2>2, QuietFrame DEF PurgeTargets, OnlyDevice
  <1>2. CASE PurgePublish
    <2>1. UNCHANGED <<xfer, stream, proc, active>>
      BY <1>2 DEF PurgePublish, OnlyDevice
    <2>2. \A t \in Streams : /\ host'[t].state = host[t].state
                             /\ \/ host'[t] = host[t]
                                \/ host[t].call = "freePurging" /\ host'[t].call = "freeFlush"
      BY <1>0, <1>2 DEF PurgePublish, At, Types
    <2>3. CallStates'
      BY <2>2 DEF IInv, HostInv, CallStates, FreeCalls, PauseCalls
    <2>4. ActiveRuns'
      BY <1>0, <2>1, <2>2 DEF IInv, Types, HostInv, ActiveRuns, Ready
    <2>5. \A t \in Held(proc.hand) : host[t].state = "running"
      BY <1>0, HandStreams DEF IInv, HandInv
    <2> QED BY <2>1, <2>2, <2>3, <2>4, <2>5, HostMoves
  <1>3. CASE StopPurge \/ StopEnds
    BY <1>3, QuietFrame DEF StopPurge, StopEnds, OnlyDevice
  <1>4. CASE WorkStep
    <2>1. CASE StartEngine
      <3>1. xfer' = xfer \/ xfer' = [xfer EXCEPT !.capture = [i \in Slots |-> "bus"]]
        BY <2>1 DEF StartEngine
      <3>2. xfer'.refs = xfer.refs /\ xfer'.output = xfer.output
        BY <1>0, <3>1
      <3> QED BY <2>1, <3>2, QuietFrame DEF StartEngine
    <2>2. CASE StreamWork \/ WorkRequestsStop \/ WorkPurges \/ WorkMarks
      BY <2>2, QuietFrame DEF StreamWork, WorkRequestsStop, WorkPurges, WorkMarks, OnlyDevice
    <2> QED BY <1>4, <2>1, <2>2 DEF WorkStep
  <1>5. CASE BusStep
    <2>1. PICK i \in Slots : CaptureCompletes(i) \/ OutputCompletes(i)
      BY <1>5 DEF BusStep
    <2>2. CASE CaptureCompletes(i)
      <3>1. xfer'.refs = xfer.refs /\ xfer'.output = xfer.output
        BY <1>0, <2>2 DEF CaptureCompletes
      <3> QED BY <2>2, <3>1, QuietFrame DEF CaptureCompletes, OnlyProc
    <2>3. CASE OutputCompletes(i)
      <3>1. xfer.output[i] = "bus"
        BY <2>3 DEF OutputCompletes
      <3>2. \/ xfer' = [xfer EXCEPT !.output[i] = "done"]
            \/ xfer' = [xfer EXCEPT !.output[i] = "failed"]
        BY <2>3 DEF OutputCompletes
      <3>3. xfer'.refs = xfer.refs
            /\ \A j \in Slots : xfer'.output[j] = "idle" <=> xfer.output[j] = "idle"
        BY <1>0, <3>1, <3>2
      <3> QED BY <2>3, <3>3, QuietFrame DEF OutputCompletes, OnlyProc
    <2> QED BY <2>1, <2>2, <2>3
  <1> QED BY <1>1, <1>2, <1>3, <1>4, <1>5 DEF PurgeStep

(***************************************************************************)
(* The process work item                                                   *)
(***************************************************************************)
\* A step that leaves the callbacks, the epochs and the packets alone.
LEMMA EpochFrame ==
    ASSUME IInv, UNCHANGED <<active, host>>,
           \A s \in Streams : /\ stream'[s].epoch = stream[s].epoch
                              /\ stream'[s].live = stream[s].live
                              /\ stream'[s].packets = stream[s].packets
    PROVE  /\ HostInv'
           /\ \A s \in Streams : Hold(s)' = Hold(s)
           /\ xfer'.refs = xfer.refs =>
                 /\ SlotsHold'
                 /\ \A s \in Streams :
                       FreshHolders(s)' = FreshHolders(s) /\ HoldersOf(s)' = HoldersOf(s)
  <1>1. HostInv'
    BY DEF IInv, HostInv, CallStates, ActiveRuns, ContextOfState, Ready
  <1>2. \A s \in Streams : Hold(s)' = Hold(s)
    BY DEF Hold
  <1>3. ASSUME xfer'.refs = xfer.refs
        PROVE  SlotsHold' /\ (\A s \in Streams :
                 FreshHolders(s)' = FreshHolders(s) /\ HoldersOf(s)' = HoldersOf(s))
    <2>1. SlotsHold'
      <3> SUFFICES ASSUME NEW i \in Slots, NEW h \in xfer.refs[i]
                   PROVE  h.epoch <= stream'[h.stream].epoch /\ stream'[h.stream].packets
        BY <1>3 DEF SlotsHold
      <3>1. h.stream \in Streams
        BY DEF IInv, Types, Holds
      <3> QED BY <3>1 DEF IInv, SlotsHold
    <2>2. ASSUME NEW s \in Streams
          PROVE  FreshHolders(s)' = FreshHolders(s) /\ HoldersOf(s)' = HoldersOf(s)
      BY <1>2, <1>3 DEF FreshHolders, HoldersOf
    <2> QED BY <2>1, <2>2
  <1> QED BY <1>1, <1>2, <1>3

\* The work item goes on without a stream in hand.
LEMMA EmptyHand ==
    ASSUME NEW p, p \notin {"deliver", "fill", "submit", "notify"}, Goto(p)
    PROVE  /\ proc'.hand = {} /\ proc'.notes = {} /\ HandInv' /\ NotesTrue'
           /\ \A s \in Streams : InHand(s)' = 0 /\ Loading(s)' = 0
  <1>1. proc'.pc = p /\ proc'.hand = {} /\ proc'.notes = {}
    BY DEF Goto, Idle
  <1>2. HandInv'
    BY <1>1 DEF HandInv, HandByPlace, SlotWaits, HandsCurrent
  <1>3. NotesTrue'
    BY <1>1 DEF NotesTrue
  <1> QED BY <1>1, <1>2, <1>3, HeldEmpty DEF InHand, Loading

\* Before it takes a stream the work item has none.
LEMMA NothingInHand ==
    ASSUME IInv, proc.pc \notin {"deliver", "submit", "notify"}
    PROVE  /\ proc.hand = {} /\ proc.notes = {}
           /\ \A s \in Streams : InHand(s) = 0 /\ Loading(s) = 0
  BY HeldEmpty DEF IInv, HandInv, HandByPlace, InHand, Loading

LEMMA OutputHolds ==
    ASSUME IInv, NEW i \in Slots, ProcessOutput(i)
    PROVE  HostInv' /\ HandInv' /\ SlotsHold' /\ CountInv' /\ EpochInv'
  <1> DEFINE refs == xfer.refs[i]
             ok == xfer.output[i] = "done"
  <1>0. Types /\ refs \in SUBSET Holds
    BY DEF IInv, Types
  <1>1. /\ stream' = Released(refs, ok) /\ Goto("output") /\ UNCHANGED <<active, host>>
        /\ xfer' = [xfer EXCEPT !.output[i] = "idle", !.refs[i] = {}]
        /\ proc.pc \in {"idle", "output"}
    BY DEF ProcessOutput, OnlyProc
  <1>2. /\ xfer'.refs[i] = {} /\ xfer'.output[i] = "idle"
        /\ \A j \in Slots \ {i} : xfer'.refs[j] = xfer.refs[j] /\ xfer'.output[j] = xfer.output[j]
    BY <1>0, <1>1 DEF Types
  <1> HIDE DEF refs
  <1>3. ASSUME NEW s \in Streams
        PROVE  /\ stream'[s].epoch = stream[s].epoch /\ stream'[s].live = stream[s].live
               /\ stream'[s].packets = stream[s].packets /\ stream'[s].loaded = stream[s].loaded
               /\ stream'[s].refs = stream[s].refs - (IF s \in Held(refs) THEN 1 ELSE 0)
               /\ stream'[s].position \in {stream[s].position, stream[s].position + 1}
               /\ Hold(s) \notin refs => stream'[s].position = stream[s].position
               /\ (\A p \in stream[s].pending : p.packet < stream[s].current)
                     => \A p \in stream'[s].pending : p.packet < stream'[s].current
    <2>1. PICK b \in BOOLEAN : stream' = Released(refs, b)
      BY <1>1, Zenon
    <2> QED BY <1>0, <2>1, ReleasedContext
  <1>4. HostInv' /\ \A s \in Streams : Hold(s)' = Hold(s)
    BY <1>1, <1>3, EpochFrame
  <1>5. HandInv' /\ NotesTrue' /\ \A s \in Streams : InHand(s)' = 0 /\ Loading(s)' = 0
    BY <1>1, EmptyHand
  <1>6. \A s \in Streams : InHand(s) = 0 /\ Loading(s) = 0
    BY <1>1, NothingInHand
  <1>7. SlotsHold'
    <2> SUFFICES ASSUME NEW j \in Slots, NEW h \in xfer'.refs[j]
                 PROVE  h.epoch <= stream'[h.stream].epoch /\ stream'[h.stream].packets
      BY DEF SlotsHold
    <2>1. h \in xfer.refs[j]
      BY <1>2
    <2>2. h.stream \in Streams
      BY <1>0, <2>1 DEF Types, Holds
    <2> QED BY <1>3, <2>1, <2>2 DEF IInv, SlotsHold
  <1>8. CountInv'
    <2>1. IdleHoldsNothing'
      BY <1>2 DEF IInv, CountInv, IdleHoldsNothing
    <2>2. ASSUME NEW s \in Streams
          PROVE  stream'[s].refs = Cardinality(HoldersOf(s)') + InHand(s)'
      <3>1. stream[s].refs = Cardinality(HoldersOf(s)) /\ Cardinality(HoldersOf(s)) \in Nat
        BY <1>6, Counts DEF IInv, CountInv, RefsCounted, HoldersOf
      <3>2. HoldersOf(s)' = HoldersOf(s) \ {i}
        BY <1>2, HeldEmpty DEF HoldersOf
      <3>3. CASE s \in Held(refs)
        <4>1. i \in HoldersOf(s)
          BY <3>3 DEF HoldersOf, refs
        <4>2. Cardinality(HoldersOf(s) \ {i}) = Cardinality(HoldersOf(s)) - 1
          BY <4>1, OneLess DEF HoldersOf
        <4> QED BY <1>3, <1>5, <3>1, <3>2, <3>3, <4>2
      <3>4. CASE s \notin Held(refs)
        <4>1. HoldersOf(s)' = HoldersOf(s)
          BY <3>2, <3>4 DEF HoldersOf, refs
        <4> QED BY <1>3, <1>5, <3>1, <3>4, <4>1
      <3> QED BY <3>3, <3>4
    <2> QED BY <2>1, <2>2 DEF CountInv, RefsCounted
  <1>9. LoadsCover'
    <2> SUFFICES ASSUME NEW s \in Streams
                 PROVE  stream'[s].position + Cardinality(FreshHolders(s)') + Loading(s)'
                          <= stream'[s].loaded
      BY DEF LoadsCover
    <2>1. /\ stream[s].position + Cardinality(FreshHolders(s)) + Loading(s) <= stream[s].loaded
          /\ Cardinality(FreshHolders(s)) \in Nat
          /\ stream[s].position \in Nat /\ stream[s].loaded \in Nat
      BY <1>0, Counts DEF IInv, EpochInv, LoadsCover, FreshHolders, Types, Context
    <2>2. FreshHolders(s)' = FreshHolders(s) \ {i}
      BY <1>2, <1>4 DEF FreshHolders
    <2>3. CASE Hold(s) \in refs
      <3>1. i \in FreshHolders(s)
        BY <2>3 DEF FreshHolders, refs
      <3>2. Cardinality(FreshHolders(s) \ {i}) = Cardinality(FreshHolders(s)) - 1
        BY <3>1, OneLess DEF FreshHolders
      <3> QED BY <1>3, <1>5, <1>6, <2>1, <2>2, <3>2
    <2>4. CASE Hold(s) \notin refs
      <3>1. FreshHolders(s)' = FreshHolders(s)
        BY <2>2, <2>4 DEF FreshHolders, refs
      <3> QED BY <1>3, <1>5, <1>6, <2>1, <2>4, <3>1
    <2> QED BY <2>3, <2>4
  <1>10. PendingBefore'
    BY <1>3 DEF IInv, EpochInv, PendingBefore
  <1> QED BY <1>4, <1>5, <1>7, <1>8, <1>9, <1>10 DEF EpochInv

\* The work item acquires the active streams of a circuit, where it had none in hand.
LEMMA AcquireHolds ==
    ASSUME IInv, NEW set \in SUBSET active, UNCHANGED <<active, host, xfer>>,
           proc.pc \notin {"deliver", "submit", "notify"},
           stream' = Acquired(set), proc'.hand = {Hold(s) : s \in set}, proc'.notes = {},
           proc'.pc \in {"deliver", "submit"}, xfer.output[proc'.slot] = "idle"
    PROVE  HostInv' /\ HandInv' /\ SlotsHold' /\ CountInv' /\ EpochInv'
  <1>0. Types /\ set \in SUBSET Streams
    BY DEF IInv, Types
  <1>1. \A s \in Streams :
          LET r == stream[s]
              n == stream'[s]
              one == IF s \in set THEN 1 ELSE 0
          IN /\ n.epoch = r.epoch /\ n.live = r.live /\ n.packets = r.packets
             /\ n.position = r.position /\ n.current = r.current /\ n.pending = r.pending
             /\ n.refs = r.refs + one /\ n.loaded = r.loaded + one
    BY <1>0, AcquiredContext
  <1>2. /\ HostInv' /\ SlotsHold'
        /\ \A s \in Streams : /\ Hold(s)' = Hold(s) /\ FreshHolders(s)' = FreshHolders(s)
                              /\ HoldersOf(s)' = HoldersOf(s)
    BY <1>1, EpochFrame
  <1>3. Held(proc'.hand) = set
    BY HeldOf
  <1>4. \A s \in Streams : InHand(s) = 0 /\ Loading(s) = 0
    BY NothingInHand
  <1>5. \A s \in Streams : InHand(s)' = (IF s \in set THEN 1 ELSE 0)
                           /\ Loading(s)' = (IF s \in set THEN 1 ELSE 0)
    BY <1>3 DEF InHand, Loading
  <1>6. HandInv'
    <2>1. HandByPlace' /\ SlotWaits'
      BY DEF HandByPlace, SlotWaits
    <2>2. HandsCurrent'
      <3> SUFFICES ASSUME NEW h \in proc'.hand
                   PROVE  h = Hold(h.stream)' /\ host'[h.stream].state = "running"
        BY DEF HandsCurrent
      <3>1. PICK s \in set : h = Hold(s)
        OBVIOUS
      <3>2. h.stream = s /\ s \in Streams
        BY <1>0, <3>1, HoldTyped
      <3>3. host[s].state = "running"
        BY <3>1 DEF IInv, HostInv, ActiveRuns, Ready
      <3> QED BY <1>2, <3>1, <3>2, <3>3
    <2> QED BY <2>1, <2>2 DEF HandInv
  <1>7. CountInv'
    <2>1. IdleHoldsNothing'
      BY DEF IInv, CountInv, IdleHoldsNothing
    <2>2. ASSUME NEW s \in Streams
          PROVE  stream'[s].refs = Cardinality(HoldersOf(s)') + InHand(s)'
      <3>1. stream[s].refs = Cardinality(HoldersOf(s)) /\ Cardinality(HoldersOf(s)) \in Nat
        BY <1>4, Counts DEF IInv, CountInv, RefsCounted, HoldersOf
      <3> QED BY <1>1, <1>2, <1>5, <3>1
    <2> QED BY <2>1, <2>2 DEF CountInv, RefsCounted
  <1>8. LoadsCover'
    <2> SUFFICES ASSUME NEW s \in Streams
                 PROVE  stream'[s].position + Cardinality(FreshHolders(s)') + Loading(s)'
                          <= stream'[s].loaded
      BY DEF LoadsCover
    <2>1. /\ stream[s].position + Cardinality(FreshHolders(s)) + Loading(s) <= stream[s].loaded
          /\ Cardinality(FreshHolders(s)) \in Nat
          /\ stream[s].position \in Nat /\ stream[s].loaded \in Nat
      BY <1>0, Counts DEF IInv, EpochInv, LoadsCover, FreshHolders, Types, Context
    <2> QED BY <1>1, <1>2, <1>4, <1>5, <2>1
  <1>9. PendingBefore' /\ NotesTrue'
    BY <1>1 DEF IInv, EpochInv, PendingBefore, NotesTrue
  <1> QED BY <1>2, <1>6, <1>7, <1>8, <1>9 DEF EpochInv

\* The work item gives back what it has in hand, and goes on without.
LEMMA ReleaseHolds ==
    ASSUME IInv, UNCHANGED <<active, host>>, NEW ok \in BOOLEAN,
           proc.pc \in {"deliver", "submit"}, stream' = Released(proc.hand, ok),
           proc'.hand = {}, proc'.notes = {}, proc'.pc \in {"fill", "capture"},
           proc'.pc = "fill" => proc'.slot = proc.slot,
           xfer'.refs = xfer.refs, xfer'.output = xfer.output
    PROVE  HostInv' /\ HandInv' /\ SlotsHold' /\ CountInv' /\ EpochInv'
  <1>0. Types /\ proc.hand \in SUBSET Holds
    BY DEF IInv, Types
  <1>1. \A s \in Streams :
          LET r == stream[s]
              n == stream'[s]
          IN /\ n.epoch = r.epoch /\ n.live = r.live /\ n.packets = r.packets
             /\ n.loaded = r.loaded
             /\ n.refs = r.refs - (IF s \in Held(proc.hand) THEN 1 ELSE 0)
             /\ n.position \in {r.position, r.position + 1}
             /\ Hold(s) \notin proc.hand => n.position = r.position
             /\ ((\A p \in r.pending : p.packet < r.current)
                   => \A p \in n.pending : p.packet < n.current)
    BY <1>0, ReleasedContext
  <1>2. /\ HostInv' /\ SlotsHold'
        /\ \A s \in Streams : /\ Hold(s)' = Hold(s) /\ FreshHolders(s)' = FreshHolders(s)
                              /\ HoldersOf(s)' = HoldersOf(s)
    BY <1>1, EpochFrame
  <1>3. \A s \in Streams : InHand(s)' = 0 /\ Loading(s)' = 0
    BY HeldEmpty DEF InHand, Loading
  <1>4. \A s \in Streams : InHand(s) = (IF s \in Held(proc.hand) THEN 1 ELSE 0)
                           /\ Loading(s) = (IF s \in Held(proc.hand) THEN 1 ELSE 0)
    BY DEF InHand, Loading
  <1>5. HandInv'
    <2>1. HandByPlace' /\ HandsCurrent'
      BY DEF HandByPlace, HandsCurrent
    <2>2. SlotWaits'
      BY DEF IInv, HandInv, SlotWaits
    <2> QED BY <2>1, <2>2 DEF HandInv
  <1>6. CountInv'
    <2>1. IdleHoldsNothing'
      BY DEF IInv, CountInv, IdleHoldsNothing
    <2>2. ASSUME NEW s \in Streams
          PROVE  stream'[s].refs = Cardinality(HoldersOf(s)') + InHand(s)'
      <3>1. stream[s].refs = Cardinality(HoldersOf(s)) + InHand(s)
            /\ Cardinality(HoldersOf(s)) \in Nat
        BY Counts DEF IInv, CountInv, RefsCounted, HoldersOf
      <3> QED BY <1>1, <1>2, <1>3, <1>4, <3>1
    <2> QED BY <2>1, <2>2 DEF CountInv, RefsCounted
  <1>7. LoadsCover'
    <2> SUFFICES ASSUME NEW s \in Streams
                 PROVE  stream'[s].position + Cardinality(FreshHolders(s)') + Loading(s)'
                          <= stream'[s].loaded
      BY DEF LoadsCover
    <2>1. /\ stream[s].position + Cardinality(FreshHolders(s)) + Loading(s) <= stream[s].loaded
          /\ Cardinality(FreshHolders(s)) \in Nat
          /\ stream[s].position \in Nat /\ stream[s].loaded \in Nat
      BY <1>0, Counts DEF IInv, EpochInv, LoadsCover, FreshHolders, Types, Context
    <2>2. Hold(s) \in proc.hand => s \in Held(proc.hand)
      BY <1>0, HeldMembers, HoldTyped
    <2> QED BY <1>1, <1>2, <1>3, <1>4, <2>1, <2>2
  <1>8. PendingBefore' /\ NotesTrue'
    BY <1>1 DEF IInv, EpochInv, PendingBefore, NotesTrue
  <1> QED BY <1>2, <1>5, <1>6, <1>7, <1>8 DEF EpochInv

\* The work item goes on between two streams: it had none in hand and takes none.
LEMMA GoesOn ==
    ASSUME IInv, UNCHANGED <<active, host, stream>>, proc.hand = {},
           NEW p, p \notin {"deliver", "fill", "submit", "notify"}, Goto(p),
           xfer'.refs = xfer.refs, xfer'.output = xfer.output
    PROVE  HostInv' /\ HandInv' /\ SlotsHold' /\ CountInv' /\ EpochInv'
  <1>1. /\ HostInv' /\ SlotsHold'
        /\ \A s \in Streams : /\ Hold(s)' = Hold(s) /\ FreshHolders(s)' = FreshHolders(s)
                              /\ HoldersOf(s)' = HoldersOf(s)
    BY EpochFrame
  <1>2. HandInv' /\ NotesTrue' /\ \A s \in Streams : InHand(s)' = 0 /\ Loading(s)' = 0
    BY EmptyHand
  <1>3. \A s \in Streams : InHand(s) = 0 /\ Loading(s) = 0
    BY HeldEmpty DEF InHand, Loading
  <1>4. CountInv'
    BY <1>1, <1>2, <1>3 DEF IInv, CountInv, RefsCounted, IdleHoldsNothing
  <1>5. LoadsCover' /\ PendingBefore'
    BY <1>1, <1>2, <1>3 DEF IInv, EpochInv, LoadsCover, PendingBefore
  <1> QED BY <1>1, <1>2, <1>4, <1>5 DEF EpochInv

LEMMA CaptureHolds ==
    ASSUME IInv, NEW i \in Slots, ProcessCapture(i)
    PROVE  HostInv' /\ HandInv' /\ SlotsHold' /\ CountInv' /\ EpochInv'
  <1>0. Types
    BY DEF IInv
  <1>1. /\ proc.pc \notin {"deliver", "submit", "notify"} /\ UNCHANGED <<active, host>>
        /\ xfer.output[i] = "idle"
    BY DEF ProcessCapture, AtCaptures, OnlyProc
  <1>2. CASE xfer.capture[i] = "data"
    <2> DEFINE set == active \cap CaptureStreams
    <2>1. /\ stream' = Acquired(set) /\ UNCHANGED xfer
          /\ proc' = [Idle EXCEPT !.pc = "deliver", !.slot = i, !.hand = {Hold(s) : s \in set}]
      BY <1>2 DEF ProcessCapture
    <2>2. set \in SUBSET active
      OBVIOUS
    <2> HIDE DEF set
    <2>3. /\ proc'.pc = "deliver" /\ proc'.slot = i /\ proc'.hand = {Hold(s) : s \in set}
          /\ proc'.notes = {}
      BY <2>1 DEF Idle
    <2> QED BY <1>1, <2>1, <2>2, <2>3, AcquireHolds
  <1>3. CASE xfer.capture[i] # "data"
    <2>1. xfer' = Resubmitted(i, dev') /\ Goto("capture") /\ UNCHANGED stream
      BY <1>3 DEF ProcessCapture
    <2>2. xfer'.refs = xfer.refs /\ xfer'.output = xfer.output
      BY <1>0, <2>1 DEF Resubmitted, Types
    <2>3. proc.hand = {}
      BY <1>1, NothingInHand
    <2> QED BY <1>1, <2>1, <2>2, <2>3, GoesOn
  <1> QED BY <1>2, <1>3

LEMMA DeliverHolds ==
    ASSUME IInv, Deliver
    PROVE  HostInv' /\ HandInv' /\ SlotsHold' /\ CountInv' /\ EpochInv'
  <1>1. /\ proc.pc = "deliver" /\ UNCHANGED <<active, host>> /\ stream' = Released(proc.hand, TRUE)
    BY DEF Deliver, OnlyProc
  <1>2. CASE MaySubmit(dev)
    <2>1. /\ proc'.hand = {} /\ proc'.notes = {} /\ proc'.pc = "fill" /\ proc'.slot = proc.slot
          /\ UNCHANGED xfer
      BY <1>1, <1>2 DEF Deliver, IInv, Types, HandInv, HandByPlace
    <2>2. PICK ok \in BOOLEAN : stream' = Released(proc.hand, ok)
      BY <1>1, Zenon
    <2> QED BY <1>1, <2>1, <2>2, ReleaseHolds
  <1>3. CASE ~MaySubmit(dev)
    <2>1. proc'.hand = {} /\ proc'.notes = {} /\ proc'.pc = "capture"
      BY <1>3 DEF Deliver, Goto, Idle
    <2>2. xfer'.refs = xfer.refs /\ xfer'.output = xfer.output
      BY <1>3 DEF Deliver, IInv, Types
    <2>3. PICK ok \in BOOLEAN : stream' = Released(proc.hand, ok)
      BY <1>1, Zenon
    <2> QED BY <1>1, <2>1, <2>2, <2>3, ReleaseHolds
  <1> QED BY <1>2, <1>3

LEMMA FillHolds ==
    ASSUME IInv, Fill
    PROVE  HostInv' /\ HandInv' /\ SlotsHold' /\ CountInv' /\ EpochInv'
  <1> DEFINE set == active \cap RenderStreams
  <1>1. /\ proc.pc = "fill" /\ UNCHANGED <<active, host, xfer>> /\ stream' = Acquired(set)
        /\ proc' = [proc EXCEPT !.pc = "submit", !.hand = {Hold(s) : s \in set}]
    BY DEF Fill, OnlyProc
  <1>2. set \in SUBSET active
    OBVIOUS
  <1>3. proc.notes = {} /\ xfer.output[proc.slot] = "idle"
    BY <1>1 DEF IInv, HandInv, HandByPlace, SlotWaits
  <1> HIDE DEF set
  <1>4. /\ proc'.pc = "submit" /\ proc'.slot = proc.slot /\ proc'.hand = {Hold(s) : s \in set}
        /\ proc'.notes = {}
    BY <1>1, <1>3 DEF IInv, Types
  <1> QED BY <1>1, <1>2, <1>3, <1>4, AcquireHolds

\* The references go from the hand of the work item to the output slot.
LEMMA HandOver ==
    ASSUME IInv, UNCHANGED <<active, host, stream>>, proc.pc = "submit",
           xfer' = [xfer EXCEPT !.output[proc.slot] = "bus",
                                !.refs[proc.slot] = {Hold(s) : s \in Held(proc.hand)}],
           proc' = [proc EXCEPT !.pc = "resubmit", !.hand = {}]
    PROVE  HostInv' /\ HandInv' /\ SlotsHold' /\ CountInv' /\ EpochInv'
  <1> DEFINE i == proc.slot
             set == Held(proc.hand)
  <1>0. Types /\ i \in Slots /\ set \subseteq Streams
    BY DEF IInv, Types, Held, Holds
  <1>1. xfer.output[i] = "idle" /\ xfer.refs[i] = {} /\ proc.notes = {}
    BY <1>0 DEF IInv, HandInv, SlotWaits, HandByPlace, CountInv, IdleHoldsNothing
  <1>2. /\ xfer'.refs[i] = {Hold(s) : s \in set} /\ xfer'.output[i] = "bus"
        /\ \A j \in Slots \ {i} : xfer'.refs[j] = xfer.refs[j] /\ xfer'.output[j] = xfer.output[j]
        /\ proc'.pc = "resubmit" /\ proc'.hand = {} /\ proc'.notes = {}
    BY <1>0, <1>1 DEF Types
  <1> HIDE DEF i
  <1>3. HostInv' /\ \A s \in Streams : Hold(s)' = Hold(s)
    BY EpochFrame
  <1>4. HandInv' /\ NotesTrue'
    BY <1>2 DEF HandInv, HandByPlace, SlotWaits, HandsCurrent, NotesTrue
  <1>5. \A s \in Streams : /\ InHand(s)' = 0 /\ Loading(s)' = 0
                           /\ InHand(s) = (IF s \in set THEN 1 ELSE 0)
                           /\ Loading(s) = (IF s \in set THEN 1 ELSE 0)
    BY <1>2, HeldEmpty DEF InHand, Loading
  <1>6. SlotsHold'
    <2> SUFFICES ASSUME NEW j \in Slots, NEW h \in xfer'.refs[j]
                 PROVE  h.epoch <= stream[h.stream].epoch /\ stream[h.stream].packets
      BY DEF SlotsHold
    <2>1. CASE j = i
      <3>1. PICK s \in set : h = Hold(s)
        BY <1>2, <2>1
      <3>2. s \in Streams /\ host[s].state = "running"
        BY <1>0, <3>1, HandStreams DEF IInv, HandInv
      <3>3. h.stream = s /\ h.epoch = stream[s].epoch /\ stream[s].epoch \in Nat
        BY <1>0, <3>1, <3>2, HoldTyped DEF Types, Context
      <3>4. stream[s].packets
        BY <3>2 DEF IInv, HostInv, ContextOfState
      <3> QED BY <3>3, <3>4
    <2>2. CASE j # i
      BY <1>2, <2>2 DEF IInv, SlotsHold
    <2> QED BY <2>1, <2>2
  <1>7. Held(xfer'.refs[i]) = set /\ Held(xfer.refs[i]) = {}
    BY <1>1, <1>2, HeldOf, HeldEmpty
  <1>8. CountInv'
    <2>1. IdleHoldsNothing'
      BY <1>2 DEF IInv, CountInv, IdleHoldsNothing
    <2>2. ASSUME NEW s \in Streams
          PROVE  stream'[s].refs = Cardinality(HoldersOf(s)') + InHand(s)'
      <3>1. /\ stream[s].refs = Cardinality(HoldersOf(s)) + InHand(s)
            /\ Cardinality(HoldersOf(s)) \in Nat
        BY Counts DEF IInv, CountInv, RefsCounted, HoldersOf
      <3>2. i \notin HoldersOf(s)
        BY <1>7 DEF HoldersOf
      <3>3. CASE s \in set
        <4>1. HoldersOf(s)' = HoldersOf(s) \cup {i}
          BY <1>0, <1>2, <1>7, <3>3 DEF HoldersOf
        <4>2. Cardinality(HoldersOf(s) \cup {i}) = Cardinality(HoldersOf(s)) + 1
          BY <1>0, <3>2, OneMore DEF HoldersOf
        <4> QED BY <1>5, <3>1, <3>3, <4>1, <4>2
      <3>4. CASE s \notin set
        <4>1. HoldersOf(s)' = HoldersOf(s)
          BY <1>0, <1>2, <1>7, <3>4 DEF HoldersOf
        <4> QED BY <1>5, <3>1, <3>4, <4>1
      <3> QED BY <3>3, <3>4
    <2> QED BY <2>1, <2>2 DEF CountInv, RefsCounted
  <1>9. LoadsCover'
    <2> SUFFICES ASSUME NEW s \in Streams
                 PROVE  stream[s].position + Cardinality(FreshHolders(s)') + Loading(s)'
                          <= stream[s].loaded
      BY DEF LoadsCover
    <2>1. /\ stream[s].position + Cardinality(FreshHolders(s)) + Loading(s) <= stream[s].loaded
          /\ Cardinality(FreshHolders(s)) \in Nat
          /\ stream[s].position \in Nat /\ stream[s].loaded \in Nat
      BY <1>0, Counts DEF IInv, EpochInv, LoadsCover, FreshHolders, Types, Context
    <2>2. i \notin FreshHolders(s)
      BY <1>1 DEF FreshHolders
    <2>3. Hold(s) \in xfer'.refs[i] <=> s \in set
      <3>1. ASSUME NEW t \in set, Hold(s) = Hold(t) PROVE s = t
        BY <1>0, <3>1, HoldTyped
      <3> QED BY <1>2, <3>1
    <2>4. CASE s \in set
      <3>1. FreshHolders(s)' = FreshHolders(s) \cup {i}
        BY <1>0, <1>2, <1>3, <2>3, <2>4 DEF FreshHolders
      <3>2. Cardinality(FreshHolders(s) \cup {i}) = Cardinality(FreshHolders(s)) + 1
        BY <1>0, <2>2, OneMore DEF FreshHolders
      <3> QED BY <1>5, <2>1, <2>4, <3>1, <3>2
    <2>5. CASE s \notin set
      <3>1. FreshHolders(s)' = FreshHolders(s)
        BY <1>0, <1>1, <1>2, <1>3, <2>3, <2>5 DEF FreshHolders
      <3> QED BY <1>5, <2>1, <2>5, <3>1
    <2> QED BY <2>4, <2>5
  <1>10. PendingBefore'
    BY DEF IInv, EpochInv, PendingBefore
  <1> QED BY <1>3, <1>4, <1>6, <1>8, <1>9, <1>10 DEF EpochInv

LEMMA SubmitHolds ==
    ASSUME IInv, SubmitOutput
    PROVE  HostInv' /\ HandInv' /\ SlotsHold' /\ CountInv' /\ EpochInv'
  <1> DEFINE refs == {Hold(s) : s \in Held(proc.hand)}
  <1>1. /\ proc.pc = "submit" /\ UNCHANGED <<active, host>>
        /\ \/ /\ xfer' = [xfer EXCEPT !.output[proc.slot] = "bus", !.refs[proc.slot] = refs]
              /\ proc' = [proc EXCEPT !.pc = "resubmit", !.hand = {}]
              /\ UNCHANGED stream
           \/ /\ stream' = Released(refs, FALSE)
              /\ xfer' = [xfer EXCEPT !.capture[proc.slot] = "idle"]
              /\ Goto("capture")
    BY DEF SubmitOutput, OnlyProc
  <1>2. CASE /\ xfer' = [xfer EXCEPT !.output[proc.slot] = "bus", !.refs[proc.slot] = refs]
             /\ proc' = [proc EXCEPT !.pc = "resubmit", !.hand = {}]
             /\ UNCHANGED stream
    BY <1>1, <1>2, HandOver
  <1>3. CASE /\ stream' = Released(refs, FALSE)
             /\ xfer' = [xfer EXCEPT !.capture[proc.slot] = "idle"]
             /\ Goto("capture")
    <2>1. refs = proc.hand
      <3>1. \A h \in proc.hand : h = Hold(h.stream) /\ h.stream \in Held(proc.hand)
        BY HeldMembers DEF IInv, HandInv, HandsCurrent
      <3>2. \A s \in Held(proc.hand) : Hold(s) \in proc.hand
        BY HandStreams DEF IInv, HandInv
      <3> QED BY <3>1, <3>2
    <2> HIDE DEF refs
    <2>2. PICK ok \in BOOLEAN : stream' = Released(proc.hand, ok)
      BY <1>3, <2>1, Zenon
    <2>3. proc'.hand = {} /\ proc'.notes = {} /\ proc'.pc = "capture"
      BY <1>3 DEF Goto, Idle
    <2>4. xfer'.refs = xfer.refs /\ xfer'.output = xfer.output
      BY <1>3 DEF IInv, Types
    <2> QED BY <1>1, <2>2, <2>3, <2>4, ReleaseHolds
  <1> QED BY <1>1, <1>2, <1>3

\* The active streams are held for their notifications, which are of the present epoch.
LEMMA FlushHolds ==
    ASSUME IInv, Flush
    PROVE  HostInv' /\ HandInv' /\ SlotsHold' /\ CountInv' /\ EpochInv'
  <1> DEFINE told(s) == {[stream |-> s, packet |-> n.packet, epoch |-> n.epoch] : n \in Takes(s)}
             notes == UNION {told(s) : s \in active}
  <1>0. Types /\ active \subseteq Streams
    BY DEF IInv, Types
  <1>1. /\ proc.pc \notin {"deliver", "submit", "notify"} /\ UNCHANGED <<active, host, xfer>>
        /\ stream' = [s \in Streams |-> IF s \in active
                        THEN [stream[s] EXCEPT !.refs = @ + 1, !.pending = {}] ELSE stream[s]]
        /\ proc' = [Idle EXCEPT !.pc = "notify", !.hand = {Hold(s) : s \in active},
                                !.notes = notes]
    BY DEF Flush, AtCaptures, OnlyProc
  <1>2. ASSUME NEW s \in Streams
        PROVE  /\ stream'[s].epoch = stream[s].epoch /\ stream'[s].live = stream[s].live
               /\ stream'[s].packets = stream[s].packets /\ stream'[s].loaded = stream[s].loaded
               /\ stream'[s].position = stream[s].position
               /\ stream'[s].current = stream[s].current
               /\ stream'[s].refs = stream[s].refs + (IF s \in active THEN 1 ELSE 0)
               /\ stream'[s].pending \subseteq stream[s].pending
    <2>1. stream[s] \in Context
      BY <1>0 DEF Types
    <2>2. CASE s \in active
      <3>1. stream'[s] = [stream[s] EXCEPT !.refs = @ + 1, !.pending = {}]
        BY <1>1, <2>2
      <3> QED BY <2>1, <2>2, <3>1 DEF Context
    <2>3. CASE s \notin active
      <3>1. stream'[s] = stream[s]
        BY <1>1, <2>3
      <3> QED BY <2>1, <2>3, <3>1 DEF Context
    <2> QED BY <2>2, <2>3
  <1> HIDE DEF notes
  <1>3. /\ proc'.pc = "notify" /\ proc'.hand = {Hold(s) : s \in active} /\ proc'.notes = notes
    BY <1>1 DEF Idle
  <1>4. /\ HostInv' /\ SlotsHold'
        /\ \A s \in Streams : /\ Hold(s)' = Hold(s) /\ FreshHolders(s)' = FreshHolders(s)
                              /\ HoldersOf(s)' = HoldersOf(s)
    BY <1>1, <1>2, EpochFrame
  <1>5. Held(proc'.hand) = active
    BY <1>3, HeldOf
  <1>6. \A s \in Streams : InHand(s) = 0 /\ Loading(s) = 0
    BY <1>1, NothingInHand
  <1>7. \A s \in Streams : InHand(s)' = (IF s \in active THEN 1 ELSE 0) /\ Loading(s)' = 0
    BY <1>3, <1>5 DEF InHand, Loading
  <1>8. HandInv'
    <2>1. HandByPlace' /\ SlotWaits'
      BY <1>3 DEF HandByPlace, SlotWaits
    <2>2. HandsCurrent'
      <3> SUFFICES ASSUME NEW h \in proc'.hand
                   PROVE  h = Hold(h.stream)' /\ host'[h.stream].state = "running"
        BY DEF HandsCurrent
      <3>1. PICK s \in active : h = Hold(s)
        BY <1>3
      <3>2. h.stream = s /\ s \in Streams
        BY <1>0, <3>1, HoldTyped
      <3>3. host[s].state = "running"
        BY <3>1 DEF IInv, HostInv, ActiveRuns, Ready
      <3> QED BY <1>1, <1>4, <3>1, <3>2, <3>3
    <2> QED BY <2>1, <2>2 DEF HandInv
  <1>9. CountInv'
    <2>1. IdleHoldsNothing'
      BY <1>1 DEF IInv, CountInv, IdleHoldsNothing
    <2>2. ASSUME NEW s \in Streams
          PROVE  stream'[s].refs = Cardinality(HoldersOf(s)') + InHand(s)'
      <3>1. stream[s].refs = Cardinality(HoldersOf(s)) /\ Cardinality(HoldersOf(s)) \in Nat
        BY <1>6, Counts DEF IInv, CountInv, RefsCounted, HoldersOf
      <3> QED BY <1>2, <1>4, <1>7, <3>1
    <2> QED BY <2>1, <2>2 DEF CountInv, RefsCounted
  <1>10. LoadsCover' /\ PendingBefore'
    <2>1. LoadsCover'
      BY <1>2, <1>4, <1>6, <1>7 DEF IInv, EpochInv, LoadsCover
    <2>2. PendingBefore'
      BY <1>2 DEF IInv, EpochInv, PendingBefore
    <2> QED BY <2>1, <2>2
  <1>11. NotesTrue'
    <2> SUFFICES ASSUME NEW m \in notes
                 PROVE  /\ m.stream \in active /\ m.epoch = stream'[m.stream].epoch
                        /\ m.packet < stream'[m.stream].current
      BY <1>3, <1>5 DEF NotesTrue
    <2>1. PICK s \in active : m \in told(s)
      BY DEF notes
    <2>2. PICK n \in Takes(s) : m = [stream |-> s, packet |-> n.packet, epoch |-> n.epoch]
      BY <2>1
    <2>3. n \in stream[s].pending /\ n.epoch = stream[s].epoch
      BY DEF Takes
    <2>4. s \in Streams
      BY <1>0
    <2>5. n.packet < stream[s].current
      BY <2>3, <2>4 DEF IInv, EpochInv, PendingBefore
    <2> QED BY <1>2, <2>2, <2>3, <2>4, <2>5
  <1> QED BY <1>4, <1>8, <1>9, <1>10, <1>11 DEF EpochInv

LEMMA NotifyHolds ==
    ASSUME IInv, NEW s \in Streams, Notify(s)
    PROVE  HostInv' /\ HandInv' /\ SlotsHold' /\ CountInv' /\ EpochInv'
  <1>0. Types
    BY DEF IInv
  <1>1. /\ proc.pc = "notify" /\ s \in Held(proc.hand) /\ UNCHANGED <<active, host, xfer>>
        /\ stream' = [stream EXCEPT ![s].refs = @ - 1]
        /\ proc'.pc = "notify" /\ proc'.hand = {h \in proc.hand : h.stream # s}
        /\ proc'.notes = {n \in proc.notes : n.stream # s}
    BY <1>0 DEF Notify, OnlyProc, Types
  <1>2. ASSUME NEW t \in Streams
        PROVE  /\ stream'[t].epoch = stream[t].epoch /\ stream'[t].live = stream[t].live
               /\ stream'[t].packets = stream[t].packets /\ stream'[t].loaded = stream[t].loaded
               /\ stream'[t].position = stream[t].position
               /\ stream'[t].current = stream[t].current
               /\ stream'[t].pending = stream[t].pending
               /\ stream'[t].refs = stream[t].refs - (IF t = s THEN 1 ELSE 0)
    <2>1. stream[t] \in Context
      BY <1>0 DEF Types
    <2>2. CASE t = s
      <3>1. stream'[t] = [stream[t] EXCEPT !.refs = @ - 1]
        BY <1>0, <1>1, <2>2 DEF Types
      <3> QED BY <2>1, <2>2, <3>1 DEF Context
    <2>3. CASE t # s
      <3>1. stream'[t] = stream[t]
        BY <1>0, <1>1, <2>3 DEF Types
      <3> QED BY <2>1, <2>3, <3>1 DEF Context
    <2> QED BY <2>2, <2>3
  <1>3. /\ HostInv' /\ SlotsHold'
        /\ \A t \in Streams : /\ Hold(t)' = Hold(t) /\ FreshHolders(t)' = FreshHolders(t)
                              /\ HoldersOf(t)' = HoldersOf(t)
    BY <1>1, <1>2, EpochFrame
  <1>4. Held(proc'.hand) = Held(proc.hand) \ {s}
    BY <1>1 DEF Held
  <1>5. \A t \in Streams : InHand(t)' = InHand(t) - (IF t = s THEN 1 ELSE 0)
                           /\ Loading(t)' = 0 /\ Loading(t) = 0 /\ InHand(t) \in {0, 1}
    BY <1>1, <1>4 DEF InHand, Loading
  <1>6. HandInv'
    <2>1. HandByPlace' /\ SlotWaits'
      BY <1>1 DEF HandByPlace, SlotWaits
    <2>2. HandsCurrent'
      <3> SUFFICES ASSUME NEW h \in proc.hand
                   PROVE  h = Hold(h.stream)' /\ host[h.stream].state = "running"
        BY <1>1 DEF HandsCurrent
      <3>1. h.stream \in Streams
        BY <1>0 DEF Types, Holds
      <3> QED BY <1>3, <3>1 DEF IInv, HandInv, HandsCurrent
    <2> QED BY <2>1, <2>2 DEF HandInv
  <1>7. CountInv'
    <2>1. IdleHoldsNothing'
      BY <1>1 DEF IInv, CountInv, IdleHoldsNothing
    <2>2. ASSUME NEW t \in Streams
          PROVE  stream'[t].refs = Cardinality(HoldersOf(t)') + InHand(t)'
      <3>1. /\ stream[t].refs = Cardinality(HoldersOf(t)) + InHand(t)
            /\ Cardinality(HoldersOf(t)) \in Nat
        BY Counts DEF IInv, CountInv, RefsCounted, HoldersOf
      <3> QED BY <1>2, <1>3, <1>5, <3>1
    <2> QED BY <2>1, <2>2 DEF CountInv, RefsCounted
  <1>8. LoadsCover' /\ PendingBefore'
    BY <1>2, <1>3, <1>5 DEF IInv, EpochInv, LoadsCover, PendingBefore
  <1>9. NotesTrue'
    <2> SUFFICES ASSUME NEW m \in proc.notes, m.stream # s
                 PROVE  /\ m.stream \in Held(proc.hand) \ {s}
                        /\ m.epoch = stream'[m.stream].epoch
                        /\ m.packet < stream'[m.stream].current
      BY <1>1, <1>4 DEF NotesTrue
    <2>1. /\ m.stream \in Held(proc.hand) /\ m.epoch = stream[m.stream].epoch
          /\ m.packet < stream[m.stream].current
      BY DEF IInv, EpochInv, NotesTrue
    <2>2. m.stream \in Streams
      BY <1>0 DEF Types
    <2> QED BY <1>2, <2>1, <2>2
  <1> QED BY <1>3, <1>6, <1>7, <1>8, <1>9 DEF EpochInv

LEMMA ProcessHolds ==
    ASSUME IInv, ProcessStep
    PROVE  HostInv' /\ HandInv' /\ SlotsHold' /\ CountInv' /\ EpochInv'
  <1>1. CASE ResubmitCapture
    <2>1. /\ proc.pc = "resubmit" /\ xfer' = Resubmitted(proc.slot, dev) /\ Goto("capture")
          /\ UNCHANGED <<active, host, stream>>
      BY <1>1 DEF ResubmitCapture, OnlyProc
    <2>2. xfer'.refs = xfer.refs /\ xfer'.output = xfer.output
      BY <2>1 DEF Resubmitted, IInv, Types
    <2>3. proc.hand = {}
      BY <2>1, NothingInHand
    <2> QED BY <2>1, <2>2, <2>3, GoesOn
  <1>2. CASE ProcessFinishes
    <2>1. proc.hand = {} /\ UNCHANGED <<active, host, stream, xfer>> /\ proc' = Idle
      BY <1>2 DEF ProcessFinishes, OnlyProc
    <2>2. Goto("idle")
      BY <2>1 DEF Goto, Idle
    <2> QED BY <2>1, <2>2, GoesOn
  <1> QED BY <1>1, <1>2, OutputHolds, CaptureHolds, DeliverHolds, FillHolds, SubmitHolds,
             FlushHolds, NotifyHolds DEF ProcessStep

(***************************************************************************)
(* The theorems                                                            *)
(***************************************************************************)
LEMMA InitHolds == Init => IInv
  <1> SUFFICES ASSUME Init PROVE IInv
    OBVIOUS
  <1> USE DEF Init
  <1>1. FreshStream \in Context
    BY StreamConstants DEF FreshStream, Context
  <1>2. Types
    <2>1. dev \in Device
      BY DEF Device
    <2>2. xfer \in [capture : [Slots -> CaptureStates], output : [Slots -> OutputStates],
                    refs : [Slots -> SUBSET Holds]]
      BY DEF CaptureStates, OutputStates
    <2>3. stream \in [Streams -> Context]
      BY <1>1
    <2>4. host \in [Streams -> [state : HostStates,
                                call : {"none", "claim"} \cup PauseCalls \cup FreeCalls]]
      BY DEF HostStates
    <2>5. purge \in [by : Streams \cup {"none", "stop", "work"},
                     step : {"none", "run", "enter", "flush"}]
      BY DEF NoPurge
    <2> QED BY <2>1, <2>2, <2>3, <2>4, <2>5, IdleTyped DEF Types
  <1>3. HostInv
    BY DEF HostInv, CallStates, ActiveRuns, ContextOfState, PauseCalls, FreeCalls
  <1>4. HandInv
    BY DEF HandInv, HandByPlace, SlotWaits, HandsCurrent, Idle
  <1>5. SlotsHold
    BY DEF SlotsHold
  <1>6. \A s \in Streams : /\ HoldersOf(s) = {} /\ FreshHolders(s) = {}
                           /\ InHand(s) = 0 /\ Loading(s) = 0
    BY HeldEmpty DEF HoldersOf, FreshHolders, InHand, Loading, Idle
  <1>7. Cardinality({}) = 0
    BY FS_EmptySet
  <1>8. \A s \in Streams : /\ stream[s].refs = 0 /\ stream[s].position = 0
                           /\ stream[s].loaded = 0 /\ stream[s].pending = {}
    BY DEF FreshStream
  <1>9. CountInv
    <2>1. RefsCounted
      <3> SUFFICES ASSUME NEW s \in Streams
                   PROVE  stream[s].refs = Cardinality(HoldersOf(s)) + InHand(s)
        BY DEF RefsCounted
      <3>1. stream[s].refs = 0 /\ InHand(s) = 0 /\ HoldersOf(s) = {}
        BY <1>6, <1>8
      <3>2. Cardinality(HoldersOf(s)) = 0
        BY <1>7, <3>1
      <3> HIDE DEF Init
      <3> QED BY <3>1, <3>2
    <2> QED BY <2>1 DEF CountInv, IdleHoldsNothing
  <1>10. EpochInv
    <2>1. LoadsCover
      <3> SUFFICES ASSUME NEW s \in Streams
                   PROVE  stream[s].position + Cardinality(FreshHolders(s)) + Loading(s)
                            <= stream[s].loaded
        BY DEF LoadsCover
      <3>1. /\ stream[s].position = 0 /\ stream[s].loaded = 0
            /\ Loading(s) = 0 /\ FreshHolders(s) = {}
        BY <1>6, <1>8
      <3>2. Cardinality(FreshHolders(s)) = 0
        BY <1>7, <3>1
      <3> HIDE DEF Init
      <3> QED BY <3>1, <3>2
    <2>2. PendingBefore /\ NotesTrue
      BY <1>8 DEF PendingBefore, NotesTrue, Idle
    <2> QED BY <2>1, <2>2 DEF EpochInv
  <1> QED BY <1>2, <1>3, <1>4, <1>5, <1>9, <1>10 DEF IInv

LEMMA StepHolds == IInv /\ [Next]_vars => IInv'
  <1> SUFFICES ASSUME IInv, [Next]_vars PROVE IInv'
    OBVIOUS
  <1>1. Types'
    BY StepTypes DEF IInv
  <1>2. CASE UNCHANGED vars
    <2>1. HostInv' /\ HandInv' /\ SlotsHold' /\ CountInv' /\ EpochInv'
      BY <1>2, QuietFrame DEF vars
    <2> QED BY <1>1, <2>1 DEF IInv
  <1>3. CASE Next
    <2>1. HostInv' /\ HandInv' /\ SlotsHold' /\ CountInv' /\ EpochInv'
      BY <1>3, CallbackHolds, ProcessHolds, DeviceHolds DEF Next
    <2> QED BY <1>1, <2>1 DEF IInv
  <1> QED BY <1>2, <1>3

\* The invariant holds in every state, for any number of streams and slots.
THEOREM StreamsInvariant == Spec => []IInv
  BY InitHolds, StepHolds, PTL DEF Spec

\* Every reference to a stream is in the hand of the work item or in an output slot that is
\* in use (AcquireActiveStream, ReleaseActiveStream), so that the rundown of FreeRtPackets ends
\* with the transfers.
THEOREM ReferencesReturn == Spec => []ReferencesAccounted
  <1>1. IInv => ReferencesAccounted
    BY DEF IInv, CountInv, RefsCounted, IdleHoldsNothing, ReferencesAccounted, HoldersOf, InHand
  <1> QED BY <1>1, StreamsInvariant, PTL

\* FreeRtPackets takes no packet from an active stream, from the work item or from an output
\* slot, whatever Pause gave up waiting for.
THEOREM PacketsStayHeld == Spec => []PacketsHeld
  <1>1. IInv => PacketsHeld
    <2> SUFFICES ASSUME IInv PROVE PacketsHeld
      OBVIOUS
    <2>1. TypeOK
      <3>1. \A s \in Streams : stream[s].refs \in Nat /\ stream[s].current \in Nat
        <4> SUFFICES ASSUME NEW s \in Streams
                     PROVE  stream[s].refs \in Nat /\ stream[s].current \in Nat
          OBVIOUS
        <4>1. Cardinality(HoldersOf(s)) \in Nat /\ InHand(s) \in Nat
          BY Counts DEF HoldersOf, InHand
        <4> QED BY <4>1 DEF IInv, CountInv, RefsCounted, Types, Context
      <3> QED BY <3>1 DEF TypeOK, IInv, Types, Device, Holds
    <2>2. \A s \in active : s \in Streams /\ host[s].state = "running"
      BY DEF IInv, Types, HostInv, ActiveRuns, Ready
    <2>3. \A s \in Held(proc.hand) : s \in Streams /\ host[s].state = "running"
      BY HandStreams DEF IInv, HandInv
    <2>4. \A s \in active \cup Held(proc.hand) : stream[s].packets
      BY <2>2, <2>3 DEF IInv, HostInv, ContextOfState
    <2>5. \A i \in Slots : \A s \in Held(xfer.refs[i]) : stream[s].packets
      BY HeldMembers DEF IInv, SlotsHold
    <2> QED BY <2>1, <2>4, <2>5 DEF PacketsHeld
  <1> QED BY <1>1, StreamsInvariant, PTL

\* A transfer or a notification of an earlier epoch moves no later position and tells of no
\* later packet (ResetRtPacketEpoch, AdvanceRtFrames, FlushRtPacketNotification).
THEOREM EpochsDoNotMix == Spec => []EpochsKeptApart
  <1>1. IInv => EpochsKeptApart
    <2> SUFFICES ASSUME IInv PROVE EpochsKeptApart
      OBVIOUS
    <2>1. ASSUME NEW s \in Streams PROVE stream[s].position <= stream[s].loaded
      <3>1. /\ stream[s].position + Cardinality(FreshHolders(s)) + Loading(s) <= stream[s].loaded
            /\ Cardinality(FreshHolders(s)) \in Nat /\ Loading(s) \in Nat
            /\ stream[s].position \in Nat /\ stream[s].loaded \in Nat
        BY Counts DEF IInv, EpochInv, LoadsCover, FreshHolders, Loading, Types, Context
      <3> QED BY <3>1
    <2>2. ASSUME NEW n \in proc.notes
          PROVE  /\ stream[n.stream].live /\ n.epoch = stream[n.stream].epoch
                 /\ n.packet < stream[n.stream].current
      <3>1. /\ n.stream \in Held(proc.hand) /\ n.epoch = stream[n.stream].epoch
            /\ n.packet < stream[n.stream].current
        BY DEF IInv, EpochInv, NotesTrue
      <3>2. n.stream \in Streams /\ host[n.stream].state = "running"
        BY <3>1, HandStreams DEF IInv, HandInv
      <3> QED BY <3>1, <3>2 DEF IInv, HostInv, ContextOfState
    <2> QED BY <2>1, <2>2 DEF EpochsKeptApart
  <1> QED BY <1>1, StreamsInvariant, PTL
(***************************************************************************)
(* The control plane.  A script says by its next step whether its thread    *)
(* holds IsoPurgeLock: some steps take it, some give it back, and the steps *)
(* in between keep it.                                                     *)
(***************************************************************************)
Keeping == {"checkOneShot", "capture", "output", "purge", "configure", "info", "reset", "set",
            "commit", "stopPipes"}
Giving == {"endOneShot", "unlockPurge", "stream", "rollback", "activate"}
Taking == {"beginOneShot", "isolate", "claim", "halt", "disarm", "revoke", "run", "purgeTargets"}
Others == {"auto", "read", "refresh", "store", "write", "confirm", "checkFormat", "invalidate",
           "consumeRead", "consumeStreaming", "flushWork", "stopped", "checkArm", "arm",
           "inactive", "requestStop", "look", "startEngine", "stopActive", "stopEnds",
           "flushStop", "forget", "streamingOff", "workerOff"}
Holding == Keeping \cup Giving \cup {"drain"}
Steps == Holding \cup Taking \cup Others

\* The steps that read and write the control state, those under AudioConfigLock, and the steps
\* that do not end a script.
ControlSteps == {"auto", "read", "refresh", "store", "write", "confirm"}
ConfigHeld == {"info", "reset", "set", "commit"}
Unfinished == Keeping \cup Taking \cup {"auto", "read", "store", "write"}

\* The steps of a one-shot operation after its first.
OneShotSteps == {"checkOneShot", "capture", "output", "purge", "drain", "endOneShot"}

\* Which step may come after which.
Joined(x, y) ==
    /\ x \in Keeping \cup Taking => y \in Holding
    /\ x \in Giving \cup Others => y \notin Holding
    /\ x = "drain" => y \notin Holding \/ y = "endOneShot"
    /\ x # "endOneShot" /\ y # "beginOneShot"
    /\ x = "auto" => y = "read"
    /\ x = "configure" => y = "info"
    /\ x = "info" => y = "reset"
    /\ x = "reset" => y = "set"
    /\ x = "set" => y = "commit"
    /\ x = "purgeTargets" => y = "drain"
    /\ x = "beginOneShot" <=> y = "checkOneShot"
    /\ y \in ConfigHeld => x \in {"configure", "info", "reset", "set"}
    /\ x \in ControlSteps <=> y \in ControlSteps
    /\ x = "read" => y \in {"refresh", "confirm"}
    /\ x = "refresh" => y = "store"
    /\ x = "store" => y = "write"
    /\ x = "write" => y = "auto"
    /\ x # "confirm" /\ y # "revoke"
    /\ y \in {"capture", "output"} => x \in {"checkOneShot", "capture", "output"}

\* The rest of a script.
EndsAlone(s) == s # <<>> /\ s[Len(s)] = "endOneShot"
IsScript(s) ==
    /\ s \in Seq(Steps)
    /\ \A i \in 1 .. Len(s) - 1 : Joined(s[i], s[i + 1])
    /\ s # <<>> => s[Len(s)] \notin Unfinished
    /\ EndsAlone(s) => \A i \in 1 .. Len(s) : s[i] \in OneShotSteps \cup {"beginOneShot"}
    /\ \A i \in 1 .. Len(s) : s[i] \in {"beginOneShot", "checkOneShot", "capture", "output"} => EndsAlone(s)

TaskFields == {"op", "steps", "sent", "rate", "control", "phase", "tries", "rounds", "got"}
Configuring == {"configure", "info", "reset", "set", "commit"}
Configures(s) == \E i \in 1 .. Len(s) : s[i] \in Configuring
IsTask(t) ==
    /\ DOMAIN t = TaskFields
    /\ IsScript(t.steps)
    /\ Configures(t.steps) => t.op \in {"apply", "run", "start"}

CtlFields ==
    {"prepared", "stopRequested", "worker", "queued", "engine", "stopPending", "stopActive",
     "draining", "healthy", "oneShot", "phase", "remaining", "streaming", "active", "acx",
     "configured", "rate", "format", "raw", "ready", "mismatch"}
ScriptHolds(s) == s # <<>> /\ Head(s) \in Holding
ScriptAlone(s) == EndsAlone(s) /\ Head(s) # "beginOneShot"
ScriptTransfers(s) == s # <<>> /\ Head(s) \in {"capture", "output"}

\* Every thread follows a script; only requests do one-shot operations.
ScriptsFollowed ==
    /\ DOMAIN task = C!Actors
    /\ \A a \in C!Actors : IsTask(task[a]) /\ (EndsAlone(task[a].steps) => a = "ioctl")

\* The lock is with the thread whose script says so, and a one-shot is announced while it lasts.
PurgeHeld ==
    /\ DOMAIN ctl = CtlFields /\ DOMAIN past = {"stale", "abandoned", "credit", "unlike"}
    /\ DOMAIN lock = {"purge", "bulk", "config"} /\ lock.purge \in C!Actors \cup {"none"}
    /\ \A a \in C!Actors : lock.purge = a <=> ScriptHolds(task[a].steps)
    /\ ctl.oneShot <=> ScriptAlone(task["ioctl"].steps)

\* A transfer found the engine stopped; what is armed was paid for.
OneShotStands ==
    /\ ScriptTransfers(task["ioctl"].steps) => ctl.engine = "Stopped" /\ ~ctl.active
    /\ ctl.remaining \in Nat /\ past.credit \in Int /\ past.credit >= ctl.remaining

AloneInv == ScriptsFollowed /\ PurgeHeld /\ OneShotStands
(***************************************************************************)
(* Facts about scripts                                                     *)
(***************************************************************************)
\* The rest of a script.
LEMMA TailOf ==
    ASSUME NEW S, NEW s \in Seq(S), s # <<>>
    PROVE  /\ Tail(s) \in Seq(S) /\ Head(s) = s[1] /\ Len(s) \in Nat /\ Len(s) >= 1
           /\ Len(Tail(s)) = Len(s) - 1
           /\ \A i \in 1 .. Len(Tail(s)) : Tail(s)[i] = s[i + 1]
           /\ (Tail(s) = <<>> <=> Len(s) = 1)
  <1>1. Tail(s) \in Seq(S) /\ Head(s) = s[1] /\ Len(s) \in Nat /\ Len(s) >= 1
    OBVIOUS
  <1>2. Len(Tail(s)) = Len(s) - 1
    OBVIOUS
  <1>3. \A i \in 1 .. Len(Tail(s)) : Tail(s)[i] = s[i + 1]
    OBVIOUS
  <1>4. Tail(s) = <<>> <=> Len(Tail(s)) = 0
    BY <1>1, EmptySeq
  <1> QED BY <1>1, <1>2, <1>3, <1>4

\* One sequence after another.
LEMMA Joins ==
    ASSUME NEW S, NEW s \in Seq(S), NEW t \in Seq(S)
    PROVE  /\ s \o t \in Seq(S) /\ Len(s) \in Nat /\ Len(t) \in Nat
           /\ Len(s \o t) = Len(s) + Len(t)
           /\ \A i \in 1 .. Len(s) : (s \o t)[i] = s[i]
           /\ \A i \in 1 .. Len(s) + Len(t) : i > Len(s) => (s \o t)[i] = t[i - Len(s)]
  <1>1. s \o t \in Seq(S) /\ Len(s) \in Nat /\ Len(t) \in Nat
    OBVIOUS
  <1>2. Len(s \o t) = Len(s) + Len(t)
    OBVIOUS
  <1>3. \A i \in 1 .. Len(s) : (s \o t)[i] = s[i]
    OBVIOUS
  <1>4. \A i \in 1 .. Len(s) + Len(t) : i > Len(s) => (s \o t)[i] = t[i - Len(s)]
    OBVIOUS
  <1> QED BY <1>1, <1>2, <1>3, <1>4

\* The plain steps, and those of a one-shot operation.
Alone == OneShotSteps \cup {"beginOneShot"}
Plain == Steps \ {"beginOneShot", "checkOneShot", "capture", "output", "endOneShot"}
Unconfigured == Plain \ Configuring
Chain(s, A) ==
    /\ s \in Seq(A) /\ s # <<>>
    /\ \A i \in 1 .. Len(s) - 1 : Joined(s[i], s[i + 1])
Ends(s) == s[Len(s)]
First(s) == s[1]

LEMMA ChainJoins ==
    ASSUME NEW A, NEW s, NEW t, Chain(s, A), Chain(t, A), Joined(Ends(s), First(t))
    PROVE  Chain(s \o t, A) /\ Ends(s \o t) = Ends(t) /\ First(s \o t) = First(s)
  <1> DEFINE u == s \o t
  <1>1. /\ u \in Seq(A) /\ Len(s) \in Nat /\ Len(t) \in Nat /\ Len(u) = Len(s) + Len(t)
        /\ \A i \in 1 .. Len(s) : u[i] = s[i]
        /\ \A i \in 1 .. Len(s) + Len(t) : i > Len(s) => u[i] = t[i - Len(s)]
    BY Joins DEF Chain
  <1> HIDE DEF u
  <1>2. Len(s) >= 1 /\ Len(t) >= 1
    BY DEF Chain
  <1>3. ASSUME NEW i \in 1 .. Len(u) - 1
        PROVE  Joined(u[i], u[i + 1])
    <2>1. CASE i < Len(s)
      <3>1. u[i] = s[i] /\ u[i + 1] = s[i + 1] /\ i \in 1 .. Len(s) - 1
        BY <1>1, <1>2, <2>1
      <3> QED BY <3>1 DEF Chain
    <2>2. CASE i = Len(s)
      <3>1. u[i] = Ends(s) /\ u[i + 1] = First(t)
        BY <1>1, <1>2, <2>2 DEF Ends, First
      <3> QED BY <3>1
    <2>3. CASE i > Len(s)
      <3> DEFINE j == i - Len(s)
      <3>1. j \in 1 .. Len(t) - 1 /\ u[i] = t[j] /\ u[i + 1] = t[j + 1]
        BY <1>1, <1>2, <2>3
      <3> HIDE DEF j
      <3> QED BY <3>1 DEF Chain
    <2> QED BY <1>1, <2>1, <2>2, <2>3
  <1>4. u # <<>> /\ Ends(u) = Ends(t) /\ First(u) = First(s)
    BY <1>1, <1>2 DEF Ends, First
  <1> QED BY <1>1, <1>3, <1>4 DEF Chain, u

LEMMA PlainScript ==
    ASSUME NEW s, Chain(s, Plain), Ends(s) \notin Unfinished
    PROVE  IsScript(s) /\ ~EndsAlone(s)
  <1>1. s \in Seq(Steps) /\ s # <<>> /\ Len(s) \in Nat /\ Len(s) >= 1
    BY DEF Chain, Plain
  <1>2. \A i \in 1 .. Len(s) : s[i] \in Plain
    BY DEF Chain
  <1>3. ~EndsAlone(s)
    BY <1>1, <1>2 DEF EndsAlone, Plain
  <1>4. \A i \in 1 .. Len(s) : s[i] \notin {"beginOneShot", "checkOneShot", "capture", "output"}
    BY <1>2 DEF Plain
  <1> QED BY <1>1, <1>3, <1>4 DEF IsScript, Chain, Ends

LEMMA AloneScript ==
    ASSUME NEW s, Chain(s, Alone), Ends(s) = "endOneShot"
    PROVE  IsScript(s) /\ EndsAlone(s)
  <1>1. s \in Seq(Steps) /\ s # <<>> /\ Len(s) \in Nat /\ Len(s) >= 1
    BY DEF Chain, Alone, OneShotSteps, Steps, Holding, Keeping, Giving, Taking
  <1>2. \A i \in 1 .. Len(s) : s[i] \in Alone
    BY DEF Chain
  <1>3. EndsAlone(s)
    BY <1>1 DEF EndsAlone, Ends
  <1>4. "endOneShot" \notin Unfinished
    BY DEF Unfinished, Keeping, Taking
  <1> QED BY <1>1, <1>2, <1>3, <1>4 DEF IsScript, Chain, Ends, Alone

\* A chain from its first step x to its last step y.
Spans(s, A, x, y) == Chain(s, A) /\ First(s) = x /\ Ends(s) = y

LEMMA SpansJoin ==
    ASSUME NEW A, NEW s, NEW t, NEW x, NEW y, NEW v, NEW w,
           Spans(s, A, x, y), Spans(t, A, v, w), Joined(y, v)
    PROVE  Spans(s \o t, A, x, w)
  BY ChainJoins DEF Spans
\* Each script of a request, a callback or a work item is one.

LEMMA ReadChain ==
    Spans(C!Read, Plain, "auto", "read")
  BY DEF Spans, Chain, Ends, First, Plain, Joined, Steps, Holding, Keeping, Giving, Taking,
         Others, ControlSteps, ConfigHeld, C!Read

LEMMA ConfigureChain ==
    Spans(C!Configure, Plain, "configure", "commit")
  BY DEF Spans, Chain, Ends, First, Plain, Joined, Steps, Holding, Keeping, Giving, Taking,
         Others, ControlSteps, ConfigHeld, C!Configure

LEMMA ReadUnconfigured ==
    Spans(C!Read, Unconfigured, "auto", "read")
  BY DEF Spans, Chain, Ends, First, Unconfigured, Configuring, Plain, Joined, Steps, Holding,
         Keeping, Giving, Taking, Others, ControlSteps, ConfigHeld, C!Read

LEMMA PurgeUnconfigured ==
    Spans(C!Purge, Unconfigured, "purge", "drain")
  BY DEF Spans, Chain, Ends, First, Unconfigured, Configuring, Plain, Joined, Steps, Holding,
         Keeping, Giving, Taking, Others, ControlSteps, ConfigHeld, C!Purge

LEMMA MarkStoppedUnconfigured ==
    Spans(C!MarkStopped, Unconfigured, "streamingOff", "workerOff")
  BY DEF Spans, Chain, Ends, First, Unconfigured, Configuring, Plain, Joined, Steps, Holding,
         Keeping, Giving, Taking, Others, ControlSteps, ConfigHeld, C!MarkStopped

LEMMA PurgeAlone ==
    Spans(C!Purge, Alone, "purge", "drain")
  BY DEF Spans, Chain, Ends, First, Alone, OneShotSteps, Joined, Holding, Keeping, Giving,
         Taking, Others, ControlSteps, ConfigHeld, C!Purge

LEMMA StoreUnconfigured ==
    Spans(C!Store, Unconfigured, "store", "confirm")
  <1>1. Spans(<<"store", "write">>, Unconfigured, "store", "write")
    BY DEF Spans, Chain, Ends, First, Unconfigured, Configuring, Plain, Joined, Steps,
           Holding, Keeping, Giving, Taking, Others, ControlSteps, ConfigHeld
  <1>2. Spans(<<"confirm">>, Unconfigured, "confirm", "confirm")
    BY DEF Spans, Chain, Ends, First, Unconfigured, Configuring, Plain, Joined, Steps,
           Holding, Keeping, Giving, Taking, Others, ControlSteps, ConfigHeld
  <1>3. Joined("write", "auto")
    BY DEF Joined, Holding, Keeping, Giving, Taking, Others, ControlSteps, ConfigHeld
  <1>4. Spans(<<"store", "write">> \o C!Read, Unconfigured, "store", "read")
    BY <1>1, ReadUnconfigured, <1>3, SpansJoin
  <1>5. Joined("read", "confirm")
    BY DEF Joined, Holding, Keeping, Giving, Taking, Others, ControlSteps, ConfigHeld
  <1>6. Spans(<<"store", "write">> \o C!Read \o <<"confirm">>, Unconfigured, "store", "confirm")
    BY <1>4, <1>2, <1>5, SpansJoin
  <1> QED BY <1>6 DEF C!Store

PlainOne(s) == IsScript(s) /\ ~EndsAlone(s)
AloneOne(s) == IsScript(s) /\ EndsAlone(s)

\* Which chains are scripts: those that end like this,
LEMMA PlainEnds ==
    \A s : /\ Chain(s, Plain)
           /\ Ends(s) \in {"refresh", "confirm", "invalidate", "unlockPurge", "stream", "stopped",
                           "arm", "flushWork", "activate", "requestStop", "startEngine",
                           "stopEnds", "streamingOff", "workerOff", "rollback"}
           => PlainOne(s)
  BY PlainScript DEF PlainOne, Unfinished, Keeping, Taking

\* and those of scripts that do not configure or are one-shots.
LEMMA UnconfiguredEnds ==
    \A s : /\ Chain(s, Unconfigured)
           /\ Ends(s) \in {"refresh", "confirm", "invalidate", "stopped", "arm", "flushWork",
                           "requestStop", "startEngine", "stopEnds", "streamingOff", "workerOff"}
           => PlainOne(s) /\ ~Configures(s)
  <1>1. \A s : Chain(s, Unconfigured) => Chain(s, Plain) /\ ~Configures(s)
    BY DEF Chain, Unconfigured, Configures
  <1> QED BY <1>1, PlainEnds

LEMMA AloneEnds ==
    \A s : Chain(s, Alone) /\ Ends(s) = "endOneShot" => AloneOne(s)
  BY AloneScript DEF AloneOne

LEMMA ScriptGet ==
    PlainOne(C!Script.get) /\ ~Configures(C!Script.get) /\ First(C!Script.get) = "auto"
  <1>1. Spans(<<"refresh">>, Unconfigured, "refresh", "refresh")
    BY DEF Spans, Chain, Ends, First, Unconfigured, Configuring, Plain, Joined, Steps,
           Holding, Keeping, Giving, Taking, Others, ControlSteps, ConfigHeld
  <1>2. Joined("read", "refresh")
    BY DEF Joined, Holding, Keeping, Giving, Taking, Others, ControlSteps, ConfigHeld
  <1>3. Spans(C!Read \o <<"refresh">>, Unconfigured, "auto", "refresh")
    BY ReadUnconfigured, <1>1, <1>2, SpansJoin
  <1> QED BY <1>3, UnconfiguredEnds DEF C!Script, Spans

LEMMA ScriptSet ==
    PlainOne(C!Script.set) /\ ~Configures(C!Script.set) /\ First(C!Script.set) = "store"
  <1> QED BY StoreUnconfigured, UnconfiguredEnds DEF C!Script, Spans

LEMMA ScriptProfile ==
    PlainOne(C!Script.profile) /\ ~Configures(C!Script.profile) /\ First(C!Script.profile) = "auto"
  <1>1. Spans(<<"refresh">>, Unconfigured, "refresh", "refresh")
    BY DEF Spans, Chain, Ends, First, Unconfigured, Configuring, Plain, Joined, Steps,
           Holding, Keeping, Giving, Taking, Others, ControlSteps, ConfigHeld
  <1>2. Joined("read", "refresh")
    BY DEF Joined, Holding, Keeping, Giving, Taking, Others, ControlSteps, ConfigHeld
  <1>3. Spans(C!Read \o <<"refresh">>, Unconfigured, "auto", "refresh")
    BY ReadUnconfigured, <1>1, <1>2, SpansJoin
  <1>4. Joined("refresh", "store")
    BY DEF Joined, Holding, Keeping, Giving, Taking, Others, ControlSteps, ConfigHeld
  <1>5. Spans(C!Read \o <<"refresh">> \o C!Store, Unconfigured, "auto", "confirm")
    BY <1>3, StoreUnconfigured, <1>4, SpansJoin
  <1> QED BY <1>5, UnconfiguredEnds DEF C!Script, Spans

LEMMA ScriptFormat ==
    PlainOne(C!Script.format) /\ ~Configures(C!Script.format) /\ First(C!Script.format) = "checkFormat"
  <1>1. Spans(<<"checkFormat", "invalidate">>, Unconfigured, "checkFormat", "invalidate")
    BY DEF Spans, Chain, Ends, First, Unconfigured, Configuring, Plain, Joined, Steps,
           Holding, Keeping, Giving, Taking, Others, ControlSteps, ConfigHeld
  <1> QED BY <1>1, UnconfiguredEnds DEF C!Script, Spans

LEMMA ScriptApply ==
    PlainOne(C!Script.apply) /\ First(C!Script.apply) = "consumeRead"
  <1>1. Spans(<<"consumeRead", "isolate">>, Plain, "consumeRead", "isolate")
    BY DEF Spans, Chain, Ends, First, Plain, Joined, Steps, Holding, Keeping, Giving, Taking,
           Others, ControlSteps, ConfigHeld
  <1>2. Spans(<<"unlockPurge">>, Plain, "unlockPurge", "unlockPurge")
    BY DEF Spans, Chain, Ends, First, Plain, Joined, Steps, Holding, Keeping, Giving, Taking,
           Others, ControlSteps, ConfigHeld
  <1>3. Joined("isolate", "configure")
    BY DEF Joined, Holding, Keeping, Giving, Taking, Others, ControlSteps, ConfigHeld
  <1>4. Spans(<<"consumeRead", "isolate">> \o C!Configure, Plain, "consumeRead", "commit")
    BY <1>1, ConfigureChain, <1>3, SpansJoin
  <1>5. Joined("commit", "unlockPurge")
    BY DEF Joined, Holding, Keeping, Giving, Taking, Others, ControlSteps, ConfigHeld
  <1>6. Spans(<<"consumeRead", "isolate">> \o C!Configure \o <<"unlockPurge">>,
              Plain, "consumeRead", "unlockPurge")
    BY <1>4, <1>2, <1>5, SpansJoin
  <1> QED BY <1>6, PlainEnds DEF C!Script, Spans

LEMMA ScriptStart ==
    PlainOne(C!Script.start) /\ First(C!Script.start) = "consumeStreaming"
  <1>1. Spans(<<"consumeStreaming", "claim">>, Plain, "consumeStreaming", "claim")
    BY DEF Spans, Chain, Ends, First, Plain, Joined, Steps, Holding, Keeping, Giving, Taking,
           Others, ControlSteps, ConfigHeld
  <1>2. Spans(<<"stream">>, Plain, "stream", "stream")
    BY DEF Spans, Chain, Ends, First, Plain, Joined, Steps, Holding, Keeping, Giving, Taking,
           Others, ControlSteps, ConfigHeld
  <1>3. Joined("claim", "configure")
    BY DEF Joined, Holding, Keeping, Giving, Taking, Others, ControlSteps, ConfigHeld
  <1>4. Spans(<<"consumeStreaming", "claim">> \o C!Configure, Plain, "consumeStreaming", "commit")
    BY <1>1, ConfigureChain, <1>3, SpansJoin
  <1>5. Joined("commit", "stream")
    BY DEF Joined, Holding, Keeping, Giving, Taking, Others, ControlSteps, ConfigHeld
  <1>6. Spans(<<"consumeStreaming", "claim">> \o C!Configure \o <<"stream">>,
              Plain, "consumeStreaming", "stream")
    BY <1>4, <1>2, <1>5, SpansJoin
  <1> QED BY <1>6, PlainEnds DEF C!Script, Spans

LEMMA ScriptStop ==
    PlainOne(C!Script.stop) /\ ~Configures(C!Script.stop) /\ First(C!Script.stop) = "halt"
  <1>1. Spans(<<"halt">>, Unconfigured, "halt", "halt")
    BY DEF Spans, Chain, Ends, First, Unconfigured, Configuring, Plain, Joined, Steps,
           Holding, Keeping, Giving, Taking, Others, ControlSteps, ConfigHeld
  <1>2. Spans(<<"flushWork", "stopped">>, Unconfigured, "flushWork", "stopped")
    BY DEF Spans, Chain, Ends, First, Unconfigured, Configuring, Plain, Joined, Steps,
           Holding, Keeping, Giving, Taking, Others, ControlSteps, ConfigHeld
  <1>3. Joined("halt", "purge")
    BY DEF Joined, Holding, Keeping, Giving, Taking, Others, ControlSteps, ConfigHeld
  <1>4. Spans(<<"halt">> \o C!Purge, Unconfigured, "halt", "drain")
    BY <1>1, PurgeUnconfigured, <1>3, SpansJoin
  <1>5. Joined("drain", "flushWork")
    BY DEF Joined, Holding, Keeping, Giving, Taking, Others, ControlSteps, ConfigHeld
  <1>6. Spans(<<"halt">> \o C!Purge \o <<"flushWork", "stopped">>,
              Unconfigured, "halt", "stopped")
    BY <1>4, <1>2, <1>5, SpansJoin
  <1> QED BY <1>6, UnconfiguredEnds DEF C!Script, Spans

LEMMA ScriptArm ==
    PlainOne(C!Script.arm) /\ ~Configures(C!Script.arm) /\ First(C!Script.arm) = "checkArm"
  <1>1. Spans(<<"checkArm", "arm">>, Unconfigured, "checkArm", "arm")
    BY DEF Spans, Chain, Ends, First, Unconfigured, Configuring, Plain, Joined, Steps,
           Holding, Keeping, Giving, Taking, Others, ControlSteps, ConfigHeld
  <1> QED BY <1>1, UnconfiguredEnds DEF C!Script, Spans

LEMMA ScriptDisarm ==
    PlainOne(C!Script.disarm) /\ ~Configures(C!Script.disarm) /\ First(C!Script.disarm) = "disarm"
  <1>1. Spans(<<"disarm">>, Unconfigured, "disarm", "disarm")
    BY DEF Spans, Chain, Ends, First, Unconfigured, Configuring, Plain, Joined, Steps,
           Holding, Keeping, Giving, Taking, Others, ControlSteps, ConfigHeld
  <1>2. Spans(<<"flushWork">>, Unconfigured, "flushWork", "flushWork")
    BY DEF Spans, Chain, Ends, First, Unconfigured, Configuring, Plain, Joined, Steps,
           Holding, Keeping, Giving, Taking, Others, ControlSteps, ConfigHeld
  <1>3. Joined("disarm", "purge")
    BY DEF Joined, Holding, Keeping, Giving, Taking, Others, ControlSteps, ConfigHeld
  <1>4. Spans(<<"disarm">> \o C!Purge, Unconfigured, "disarm", "drain")
    BY <1>1, PurgeUnconfigured, <1>3, SpansJoin
  <1>5. Joined("drain", "flushWork")
    BY DEF Joined, Holding, Keeping, Giving, Taking, Others, ControlSteps, ConfigHeld
  <1>6. Spans(<<"disarm">> \o C!Purge \o <<"flushWork">>, Unconfigured, "disarm", "flushWork")
    BY <1>4, <1>2, <1>5, SpansJoin
  <1> QED BY <1>6, UnconfiguredEnds DEF C!Script, Spans

LEMMA ScriptRun ==
    PlainOne(C!Script.run) /\ First(C!Script.run) = "run"
  <1>1. Spans(<<"run">>, Plain, "run", "run")
    BY DEF Spans, Chain, Ends, First, Plain, Joined, Steps, Holding, Keeping, Giving, Taking,
           Others, ControlSteps, ConfigHeld
  <1>2. Spans(<<"activate">>, Plain, "activate", "activate")
    BY DEF Spans, Chain, Ends, First, Plain, Joined, Steps, Holding, Keeping, Giving, Taking,
           Others, ControlSteps, ConfigHeld
  <1>3. Joined("run", "configure")
    BY DEF Joined, Holding, Keeping, Giving, Taking, Others, ControlSteps, ConfigHeld
  <1>4. Spans(<<"run">> \o C!Configure, Plain, "run", "commit")
    BY <1>1, ConfigureChain, <1>3, SpansJoin
  <1>5. Joined("commit", "activate")
    BY DEF Joined, Holding, Keeping, Giving, Taking, Others, ControlSteps, ConfigHeld
  <1>6. Spans(<<"run">> \o C!Configure \o <<"activate">>, Plain, "run", "activate")
    BY <1>4, <1>2, <1>5, SpansJoin
  <1> QED BY <1>6, PlainEnds DEF C!Script, Spans

LEMMA ScriptPause ==
    PlainOne(C!Script.pause) /\ ~Configures(C!Script.pause) /\ First(C!Script.pause) = "inactive"
  <1>1. Spans(<<"inactive", "requestStop">>, Unconfigured, "inactive", "requestStop")
    BY DEF Spans, Chain, Ends, First, Unconfigured, Configuring, Plain, Joined, Steps,
           Holding, Keeping, Giving, Taking, Others, ControlSteps, ConfigHeld
  <1> QED BY <1>1, UnconfiguredEnds DEF C!Script, Spans

LEMMA ScriptFree ==
    PlainOne(C!Script.free) /\ ~Configures(C!Script.free) /\ First(C!Script.free) = "inactive"
  <1>1. Spans(<<"inactive", "requestStop", "purgeTargets", "drain", "flushWork">>,
              Unconfigured, "inactive", "flushWork")
    BY DEF Spans, Chain, Ends, First, Unconfigured, Configuring, Plain, Joined, Steps,
           Holding, Keeping, Giving, Taking, Others, ControlSteps, ConfigHeld
  <1> QED BY <1>1, UnconfiguredEnds DEF C!Script, Spans

LEMMA ScriptWork ==
    PlainOne(C!Script.work) /\ ~Configures(C!Script.work) /\ First(C!Script.work) = "look"
  <1>1. Spans(<<"look", "startEngine">>, Unconfigured, "look", "startEngine")
    BY DEF Spans, Chain, Ends, First, Unconfigured, Configuring, Plain, Joined, Steps,
           Holding, Keeping, Giving, Taking, Others, ControlSteps, ConfigHeld
  <1> QED BY <1>1, UnconfiguredEnds DEF C!Script, Spans

LEMMA ScriptStopWork ==
    PlainOne(C!Script.stopWork) /\ ~Configures(C!Script.stopWork) /\ First(C!Script.stopWork) = "stopActive"
  <1>1. Spans(<<"stopActive", "purgeTargets", "drain", "stopEnds">>,
              Unconfigured, "stopActive", "stopEnds")
    BY DEF Spans, Chain, Ends, First, Unconfigured, Configuring, Plain, Joined, Steps,
           Holding, Keeping, Giving, Taking, Others, ControlSteps, ConfigHeld
  <1> QED BY <1>1, UnconfiguredEnds DEF C!Script, Spans

LEMMA ScriptRelease ==
    PlainOne(C!Script.release) /\ ~Configures(C!Script.release) /\ First(C!Script.release) = "revoke"
  <1>1. Spans(<<"revoke", "stopPipes">>, Unconfigured, "revoke", "stopPipes")
    BY DEF Spans, Chain, Ends, First, Unconfigured, Configuring, Plain, Joined, Steps,
           Holding, Keeping, Giving, Taking, Others, ControlSteps, ConfigHeld
  <1>2. Spans(<<"flushWork", "flushStop", "forget", "invalidate", "streamingOff">>,
              Unconfigured, "flushWork", "streamingOff")
    BY DEF Spans, Chain, Ends, First, Unconfigured, Configuring, Plain, Joined, Steps,
           Holding, Keeping, Giving, Taking, Others, ControlSteps, ConfigHeld
  <1>3. Joined("stopPipes", "purge")
    BY DEF Joined, Holding, Keeping, Giving, Taking, Others, ControlSteps, ConfigHeld
  <1>4. Spans(<<"revoke", "stopPipes">> \o C!Purge, Unconfigured, "revoke", "drain")
    BY <1>1, PurgeUnconfigured, <1>3, SpansJoin
  <1>5. Joined("drain", "flushWork")
    BY DEF Joined, Holding, Keeping, Giving, Taking, Others, ControlSteps, ConfigHeld
  <1>6. Spans(<<"revoke", "stopPipes">> \o C!Purge
              \o <<"flushWork", "flushStop", "forget", "invalidate", "streamingOff">>,
              Unconfigured, "revoke", "streamingOff")
    BY <1>4, <1>2, <1>5, SpansJoin
  <1> QED BY <1>6, UnconfiguredEnds DEF C!Script, Spans

LEMMA StopThenMarkScript ==
    PlainOne(C!StopThenMark) /\ ~Configures(C!StopThenMark) /\ First(C!StopThenMark) = "requestStop"
  <1>1. Spans(<<"requestStop", "purgeTargets", "drain">>, Unconfigured, "requestStop", "drain")
    BY DEF Spans, Chain, Ends, First, Unconfigured, Configuring, Plain, Joined, Steps,
           Holding, Keeping, Giving, Taking, Others, ControlSteps, ConfigHeld
  <1>2. Joined("drain", "streamingOff")
    BY DEF Joined, Holding, Keeping, Giving, Taking, Others, ControlSteps, ConfigHeld
  <1>3. Spans(<<"requestStop", "purgeTargets", "drain">> \o C!MarkStopped,
              Unconfigured, "requestStop", "workerOff")
    BY <1>1, MarkStoppedUnconfigured, <1>2, SpansJoin
  <1> QED BY <1>3, UnconfiguredEnds DEF C!StopThenMark, Spans

LEMMA MarkStoppedScript ==
    PlainOne(C!MarkStopped) /\ ~Configures(C!MarkStopped) /\ First(C!MarkStopped) = "streamingOff"
  BY MarkStoppedUnconfigured, UnconfiguredEnds DEF Spans

LEMMA OnFailureScript ==
    \A op \in {"apply", "run", "start"} :
        /\ PlainOne(C!OnFailure[op]) /\ First(C!OnFailure[op]) \in {"unlockPurge", "rollback"}
        /\ Len(C!OnFailure[op]) = 1
  <1>1. Spans(<<"unlockPurge">>, Plain, "unlockPurge", "unlockPurge")
    BY DEF Spans, Chain, Ends, First, Plain, Joined, Steps, Holding, Keeping, Giving, Taking,
           Others, ControlSteps, ConfigHeld
  <1>2. Spans(<<"rollback">>, Plain, "rollback", "rollback")
    BY DEF Spans, Chain, Ends, First, Plain, Joined, Steps, Holding, Keeping, Giving, Taking,
           Others, ControlSteps, ConfigHeld
  <1> QED BY <1>1, <1>2, PlainEnds DEF C!OnFailure, Spans

LEMMA EndOneShotAlone ==
    Spans(C!EndOneShot, Alone, "purge", "endOneShot")
  <1>1. Spans(<<"endOneShot">>, Alone, "endOneShot", "endOneShot")
    BY DEF Spans, Chain, Ends, First, Alone, OneShotSteps, Joined, Holding, Keeping, Giving,
           Taking, Others, ControlSteps, ConfigHeld
  <1>2. Joined("drain", "endOneShot")
    BY DEF Joined, Holding, Keeping, Giving, Taking, Others, ControlSteps, ConfigHeld
  <1>3. Spans(C!Purge \o <<"endOneShot">>, Alone, "purge", "endOneShot")
    BY PurgeAlone, <1>1, <1>2, SpansJoin
  <1> QED BY <1>3 DEF C!EndOneShot

LEMMA EndOneShotScript == AloneOne(C!EndOneShot) /\ First(C!EndOneShot) = "purge"
  BY EndOneShotAlone, AloneEnds DEF Spans

LEMMA ScriptSnapshot ==
    AloneOne(C!Script.snapshot) /\ First(C!Script.snapshot) = "beginOneShot"
  <1>1. Spans(<<"beginOneShot", "checkOneShot", "capture">>, Alone, "beginOneShot", "capture")
    BY DEF Spans, Chain, Ends, First, Alone, OneShotSteps, Joined, Holding, Keeping, Giving,
           Taking, Others, ControlSteps, ConfigHeld
  <1>2. Joined("capture", "purge")
    BY DEF Joined, Holding, Keeping, Giving, Taking, Others, ControlSteps, ConfigHeld
  <1>3. Spans(<<"beginOneShot", "checkOneShot", "capture">> \o C!EndOneShot,
              Alone, "beginOneShot", "endOneShot")
    BY <1>1, EndOneShotAlone, <1>2, SpansJoin
  <1> QED BY <1>3, AloneEnds DEF C!Script, Spans

LEMMA ScriptPulse ==
    AloneOne(C!Script.pulse) /\ First(C!Script.pulse) = "beginOneShot"
  <1>1. Spans(<<"beginOneShot", "checkOneShot", "capture", "output">>,
              Alone, "beginOneShot", "output")
    BY DEF Spans, Chain, Ends, First, Alone, OneShotSteps, Joined, Holding, Keeping, Giving,
           Taking, Others, ControlSteps, ConfigHeld
  <1>2. Joined("output", "purge")
    BY DEF Joined, Holding, Keeping, Giving, Taking, Others, ControlSteps, ConfigHeld
  <1>3. Spans(<<"beginOneShot", "checkOneShot", "capture", "output">> \o C!EndOneShot,
              Alone, "beginOneShot", "endOneShot")
    BY <1>1, EndOneShotAlone, <1>2, SpansJoin
  <1> QED BY <1>3, AloneEnds DEF C!Script, Spans

LEMMA ScriptBurst ==
    AloneOne(C!Script.burst) /\ First(C!Script.burst) = "beginOneShot"
  <1>1. Spans(<<"beginOneShot", "checkOneShot", "capture", "output", "capture", "output">>,
              Alone, "beginOneShot", "output")
    BY DEF Spans, Chain, Ends, First, Alone, OneShotSteps, Joined, Holding, Keeping, Giving,
           Taking, Others, ControlSteps, ConfigHeld
  <1>2. Joined("output", "purge")
    BY DEF Joined, Holding, Keeping, Giving, Taking, Others, ControlSteps, ConfigHeld
  <1>3. Spans(<<"beginOneShot", "checkOneShot", "capture", "output", "capture", "output">> \o C!EndOneShot,
              Alone, "beginOneShot", "endOneShot")
    BY <1>1, EndOneShotAlone, <1>2, SpansJoin
  <1> QED BY <1>3, AloneEnds DEF C!Script, Spans
\* What the rest of a script says.
LEMMA TailScript ==
    ASSUME NEW s, IsScript(s), s # <<>>
    PROVE  /\ IsScript(Tail(s)) /\ Head(s) \in Steps
           /\ Configures(Tail(s)) => Configures(s)
           /\ Tail(s) # <<>> => /\ Joined(Head(s), Head(Tail(s)))
                                /\ EndsAlone(Tail(s)) <=> EndsAlone(s)
           /\ Tail(s) = <<>> => /\ Head(s) \notin Unfinished
                                /\ EndsAlone(s) <=> Head(s) = "endOneShot"
           /\ EndsAlone(s) => Head(s) \in Alone
           /\ Head(s) \in {"beginOneShot", "checkOneShot", "capture", "output"} => EndsAlone(s)
           /\ Head(s) \in Configuring => Configures(s)
           /\ ~EndsAlone(<<>>)
  <1> DEFINE u == Tail(s)
  <1>1. s \in Seq(Steps)
    BY DEF IsScript
  <1>2. /\ u \in Seq(Steps) /\ Head(s) = s[1] /\ Len(s) \in Nat /\ Len(s) >= 1
        /\ Len(u) = Len(s) - 1
        /\ \A i \in 1 .. Len(u) : u[i] = s[i + 1]
        /\ (u = <<>> <=> Len(s) = 1)
    BY <1>1, TailOf
  <1>3. u # <<>> => Head(u) = s[2] /\ Len(s) >= 2 /\ u[Len(u)] = s[Len(s)]
    <2>1. u # <<>> => Head(u) = u[1] /\ Len(u) >= 1
      BY <1>2
    <2> QED BY <1>2, <2>1
  <1> HIDE DEF u
  <1>4. \A i \in 1 .. Len(u) - 1 : Joined(u[i], u[i + 1])
    <2> SUFFICES ASSUME NEW i \in 1 .. Len(u) - 1 PROVE Joined(u[i], u[i + 1])
      OBVIOUS
    <2>1. u[i] = s[i + 1] /\ u[i + 1] = s[(i + 1) + 1] /\ i + 1 \in 1 .. Len(s) - 1
      BY <1>2
    <2> QED BY <2>1 DEF IsScript
  <1>5. /\ ~EndsAlone(<<>>)
        /\ EndsAlone(s) <=> s[Len(s)] = "endOneShot"
    BY DEF EndsAlone
  <1>6. u # <<>> => (EndsAlone(u) <=> EndsAlone(s))
    BY <1>3, <1>5 DEF EndsAlone
  <1>7. u # <<>> => Joined(Head(s), Head(u))
    <2>1. u # <<>> => 1 \in 1 .. Len(s) - 1
      BY <1>2, <1>3
    <2>2. \A i \in 1 .. Len(s) - 1 : Joined(s[i], s[i + 1])
      BY DEF IsScript
    <2> QED BY <1>2, <1>3, <2>1, <2>2
  <1>8. IsScript(u)
    <2>1. u # <<>> => u[Len(u)] \notin Unfinished
      BY <1>3 DEF IsScript
    <2>2. EndsAlone(u) => \A i \in 1 .. Len(u) : u[i] \in OneShotSteps \cup {"beginOneShot"}
      <3> SUFFICES ASSUME EndsAlone(u), NEW i \in 1 .. Len(u)
                   PROVE  u[i] \in OneShotSteps \cup {"beginOneShot"}
        OBVIOUS
      <3>1. EndsAlone(s)
        BY <1>5, <1>6
      <3>2. i + 1 \in 1 .. Len(s) /\ u[i] = s[i + 1]
        BY <1>2
      <3> QED BY <3>1, <3>2 DEF IsScript
    <2>3. ASSUME NEW i \in 1 .. Len(u), u[i] \in {"beginOneShot", "checkOneShot", "capture", "output"}
          PROVE  EndsAlone(u)
      <3>1. u # <<>>
        BY <1>2
      <3>2. i + 1 \in 1 .. Len(s) /\ u[i] = s[i + 1]
        BY <1>2
      <3>3. EndsAlone(s)
        BY <2>3, <3>2 DEF IsScript
      <3> QED BY <1>6, <3>1, <3>3
    <2> QED BY <1>2, <1>4, <2>1, <2>2, <2>3 DEF IsScript
  <1>9. Configures(u) => Configures(s)
    <2>1. \A i \in 1 .. Len(u) : i + 1 \in 1 .. Len(s) /\ u[i] = s[i + 1]
      BY <1>2
    <2> QED BY <2>1 DEF Configures
  <1>10. u = <<>> => /\ Head(s) \notin Unfinished
                     /\ EndsAlone(s) <=> Head(s) = "endOneShot"
    BY <1>2, <1>5 DEF IsScript
  <1>11. Head(s) = s[1] /\ 1 \in 1 .. Len(s) /\ Head(s) \in Steps
    BY <1>1, <1>2
  <1>12. /\ EndsAlone(s) => Head(s) \in Alone
         /\ Head(s) \in {"beginOneShot", "checkOneShot", "capture", "output"} => EndsAlone(s)
         /\ Head(s) \in Configuring => Configures(s)
    BY <1>11 DEF IsScript, Alone, Configures
  <1> QED BY <1>5, <1>6, <1>7, <1>8, <1>9, <1>10, <1>11, <1>12 DEF u

\* The lock follows the script of a thread.
LockFollows(a, s) ==
    \/ lock'.purge = lock.purge /\ (ScriptHolds(s) <=> ScriptHolds(task[a].steps))
    \/ lock.purge = "none" /\ lock'.purge = a /\ ScriptHolds(s)
    \/ lock.purge = a /\ lock'.purge = "none" /\ ~ScriptHolds(s)
WordsTyped ==
    /\ DOMAIN ctl' = CtlFields /\ DOMAIN past' = {"stale", "abandoned", "credit", "unlike"}
    /\ DOMAIN lock' = {"purge", "bulk", "config"}
    /\ ctl'.remaining \in Nat /\ past'.credit \in Int /\ past'.credit >= ctl'.remaining

LEMMA ThreadMoves ==
    ASSUME AloneInv, NEW a \in C!Actors, NEW t, task' = [task EXCEPT ![a] = t],
           IsTask(t), EndsAlone(t.steps) => a = "ioctl",
           LockFollows(a, t.steps), WordsTyped,
           a = "ioctl" => /\ ctl'.oneShot <=> ScriptAlone(t.steps)
                          /\ ScriptTransfers(t.steps) => ctl'.engine = "Stopped" /\ ~ctl'.active,
           a # "ioctl" => /\ ctl'.oneShot <=> ctl.oneShot
                          /\ ScriptTransfers(task["ioctl"].steps)
                                => ctl'.engine = "Stopped" /\ ~ctl'.active
    PROVE  AloneInv'
  <1>1. DOMAIN task = C!Actors /\ "ioctl" \in C!Actors /\ "none" \notin C!Actors
    BY DEF AloneInv, ScriptsFollowed, C!Actors
  <1>2. DOMAIN task' = C!Actors /\ task'[a] = t /\ \A b \in C!Actors : b # a => task'[b] = task[b]
    BY <1>1
  <1>3. ScriptsFollowed'
    BY <1>2 DEF ScriptsFollowed, AloneInv
  <1>4. \A b \in C!Actors : lock'.purge = b <=> ScriptHolds(task'[b].steps)
    <2>1. \A b \in C!Actors : lock.purge = b <=> ScriptHolds(task[b].steps)
      BY DEF AloneInv, PurgeHeld
    <2>2. CASE lock'.purge = lock.purge /\ (ScriptHolds(t.steps) <=> ScriptHolds(task[a].steps))
      BY <1>2, <2>1, <2>2
    <2>3. CASE lock.purge = "none" /\ lock'.purge = a /\ ScriptHolds(t.steps)
      BY <1>1, <1>2, <2>1, <2>3
    <2>4. CASE lock.purge = a /\ lock'.purge = "none" /\ ~ScriptHolds(t.steps)
      BY <1>1, <1>2, <2>1, <2>4
    <2> QED BY <2>2, <2>3, <2>4 DEF LockFollows
  <1>5. lock'.purge \in C!Actors \cup {"none"}
    BY DEF AloneInv, PurgeHeld, LockFollows
  <1>6. ctl'.oneShot <=> ScriptAlone(task'["ioctl"].steps)
    BY <1>1, <1>2 DEF AloneInv, PurgeHeld
  <1>7. ScriptTransfers(task'["ioctl"].steps) => ctl'.engine = "Stopped" /\ ~ctl'.active
    BY <1>1, <1>2
  <1>8. PurgeHeld'
    BY <1>4, <1>5, <1>6 DEF PurgeHeld, WordsTyped
  <1>9. OneShotStands'
    BY <1>7 DEF OneShotStands, WordsTyped
  <1> QED BY <1>3, <1>8, <1>9 DEF AloneInv
\* A thread with another script.
LEMMA OtherSteps ==
    ASSUME NEW t, DOMAIN t = TaskFields, NEW s, IsScript(s),
           Configures(s) => t.op \in {"apply", "run", "start"}
    PROVE  IsTask(C!WithSteps(t, s)) /\ C!WithSteps(t, s).steps = s
  <1>1. CASE s = <<>>
    <2>1. C!WithSteps(t, s) = C!Resting /\ C!Resting.steps = <<>> /\ DOMAIN C!Resting = TaskFields
      BY <1>1 DEF C!WithSteps, C!Resting, TaskFields
    <2> QED BY <1>1, <2>1 DEF IsTask, Configures
  <1>2. CASE s # <<>>
    <2>1. C!WithSteps(t, s) = [t EXCEPT !.steps = s]
      BY <1>2 DEF C!WithSteps
    <2>2. /\ DOMAIN [t EXCEPT !.steps = s] = TaskFields /\ [t EXCEPT !.steps = s].steps = s
          /\ [t EXCEPT !.steps = s].op = t.op
      BY DEF TaskFields
    <2> QED BY <2>1, <2>2 DEF IsTask
  <1> QED BY <1>1, <1>2

LEMMA EmptyScript ==
    /\ IsScript(<<>>) /\ ~EndsAlone(<<>>) /\ ~ScriptHolds(<<>>) /\ ~ScriptAlone(<<>>)
    /\ ~ScriptTransfers(<<>>) /\ ~Configures(<<>>)
  BY DEF IsScript, EndsAlone, ScriptHolds, ScriptAlone, ScriptTransfers, Configures

\* What a thread at a step says of the state.
LEMMA Stands ==
    ASSUME AloneInv, NEW a \in C!Actors, NEW x, C!At(a, x)
    PROVE  /\ DOMAIN task[a] = TaskFields /\ IsScript(task[a].steps) /\ task[a].steps # <<>>
           /\ Head(task[a].steps) = x /\ x \in Steps
           /\ IsScript(C!Rest(a)) /\ (Configures(C!Rest(a)) => task[a].op \in {"apply", "run", "start"})
           /\ (x \in Configuring => task[a].op \in {"apply", "run", "start"})
           /\ (C!Rest(a) # <<>> => /\ Joined(x, Head(C!Rest(a)))
                                   /\ EndsAlone(C!Rest(a)) <=> EndsAlone(task[a].steps))
           /\ (C!Rest(a) = <<>> => /\ x \notin Unfinished
                                   /\ EndsAlone(task[a].steps) <=> x = "endOneShot")
           /\ (EndsAlone(task[a].steps) => x \in Alone /\ a = "ioctl")
           /\ (x \in {"beginOneShot", "checkOneShot", "capture", "output"} => EndsAlone(task[a].steps))
           /\ (lock.purge = a <=> x \in Holding)
           /\ (ctl.oneShot <=> ScriptAlone(task["ioctl"].steps))
           /\ (a = "ioctl" => (ctl.oneShot <=> EndsAlone(task[a].steps) /\ x # "beginOneShot"))
           /\ (a = "ioctl" => (ScriptTransfers(task[a].steps) <=> x \in {"capture", "output"}))
           /\ (ctl.oneShot /\ a # "ioctl" => lock.purge = "ioctl")
  <1> DEFINE s == task[a].steps
  <1>1. /\ DOMAIN task[a] = TaskFields /\ IsScript(s) /\ s # <<>> /\ Head(s) = x
        /\ (Configures(s) => task[a].op \in {"apply", "run", "start"})
        /\ (EndsAlone(s) => a = "ioctl")
    BY DEF AloneInv, ScriptsFollowed, IsTask, C!At
  <1>2. (lock.purge = a <=> ScriptHolds(s)) /\ (ctl.oneShot <=> ScriptAlone(task["ioctl"].steps))
    BY DEF AloneInv, PurgeHeld
  <1>3. ctl.oneShot => lock.purge = "ioctl"
    <2>1. "ioctl" \in C!Actors /\ IsScript(task["ioctl"].steps) /\ ~EndsAlone(<<>>)
      BY EmptyScript DEF AloneInv, ScriptsFollowed, IsTask, C!Actors
    <2> DEFINE u == task["ioctl"].steps
    <2>2. ctl.oneShot => u # <<>> /\ EndsAlone(u) /\ Head(u) # "beginOneShot"
      BY <1>2, <2>1 DEF ScriptAlone
    <2> HIDE DEF u
    <2>3. ctl.oneShot => Head(u) \in Alone
      BY <2>1, <2>2, TailScript DEF u
    <2>4. ctl.oneShot => ScriptHolds(u)
      BY <2>2, <2>3 DEF Alone, OneShotSteps, ScriptHolds, Holding, Keeping, Giving
    <2> QED BY <2>1, <2>4 DEF AloneInv, PurgeHeld, u
  <1> HIDE DEF s
  <1>4. /\ IsScript(Tail(s)) /\ Head(s) \in Steps
        /\ (Configures(Tail(s)) => Configures(s))
        /\ (Tail(s) # <<>> => /\ Joined(Head(s), Head(Tail(s)))
                              /\ EndsAlone(Tail(s)) <=> EndsAlone(s))
        /\ (Tail(s) = <<>> => /\ Head(s) \notin Unfinished
                              /\ EndsAlone(s) <=> Head(s) = "endOneShot")
        /\ (EndsAlone(s) => Head(s) \in Alone)
        /\ (Head(s) \in {"beginOneShot", "checkOneShot", "capture", "output"} => EndsAlone(s))
        /\ (Head(s) \in Configuring => Configures(s))
    BY <1>1, TailScript
  <1>5. (ScriptHolds(s) <=> x \in Holding) /\ (ScriptTransfers(s) <=> x \in {"capture", "output"})
        /\ (ScriptAlone(s) <=> EndsAlone(s) /\ x # "beginOneShot")
    BY <1>1 DEF ScriptHolds, ScriptTransfers, ScriptAlone
  <1> QED BY <1>1, <1>2, <1>3, <1>4, <1>5 DEF s, C!Rest

\* A step of a thread that has no effect on the words of a one-shot operation.
OneShotWords ==
    /\ WordsTyped
    /\ ctl'.oneShot <=> ctl.oneShot
    /\ ScriptTransfers(task["ioctl"].steps) => ctl'.engine = "Stopped" /\ ~ctl'.active

LEMMA QuietMove ==
    ASSUME AloneInv, NEW a \in C!Actors, NEW t, task' = [task EXCEPT ![a] = t],
           IsTask(t), EndsAlone(t.steps) => a = "ioctl",
           LockFollows(a, t.steps), OneShotWords,
           a = "ioctl" => /\ ScriptAlone(t.steps) <=> ScriptAlone(task[a].steps)
                          /\ ScriptTransfers(t.steps) => ScriptTransfers(task[a].steps)
    PROVE  AloneInv'
  <1>1. WordsTyped /\ (ctl'.oneShot <=> ctl.oneShot)
        /\ (ScriptTransfers(task["ioctl"].steps) => ctl'.engine = "Stopped" /\ ~ctl'.active)
    BY DEF OneShotWords
  <1>2. ctl.oneShot <=> ScriptAlone(task["ioctl"].steps)
    BY DEF AloneInv, PurgeHeld
  <1>3. a = "ioctl" => /\ ctl'.oneShot <=> ScriptAlone(t.steps)
                       /\ ScriptTransfers(t.steps) => ctl'.engine = "Stopped" /\ ~ctl'.active
    BY <1>1, <1>2
  <1> QED BY <1>1, <1>3, ThreadMoves

\* A thread goes on: the lock is taken, kept or given back as its step says.
StepLock(a, x) ==
    /\ x \in (Keeping \cup Others) => lock'.purge = lock.purge
    /\ x \in Taking => lock.purge = "none" /\ lock'.purge = a
    /\ x \in Giving => lock'.purge = "none"
    /\ x = "drain" => lock'.purge = IF ctl.oneShot THEN lock.purge ELSE "none"

LEMMA QuietGoesOn ==
    ASSUME AloneInv, NEW a \in C!Actors, NEW x, C!At(a, x),
           NEW t, task' = [task EXCEPT ![a] = t], IsTask(t), t.steps = C!Rest(a),
           x \notin {"beginOneShot", "checkOneShot", "endOneShot"},
           StepLock(a, x), OneShotWords
    PROVE  AloneInv'
  <1> DEFINE s == task[a].steps
             u == C!Rest(a)
  <1>1. /\ DOMAIN task[a] = TaskFields /\ s # <<>> /\ Head(s) = x /\ x \in Steps
        /\ IsScript(u) /\ (Configures(u) => task[a].op \in {"apply", "run", "start"})
        /\ (u # <<>> => /\ Joined(x, Head(u))
                        /\ EndsAlone(u) <=> EndsAlone(s))
        /\ (u = <<>> => /\ x \notin Unfinished
                        /\ EndsAlone(s) <=> x = "endOneShot")
        /\ (EndsAlone(s) => x \in Alone /\ a = "ioctl")
        /\ (lock.purge = a <=> x \in Holding)
        /\ (a = "ioctl" => (ctl.oneShot <=> EndsAlone(s) /\ x # "beginOneShot"))
        /\ (ctl.oneShot /\ a # "ioctl" => lock.purge = "ioctl")
    BY Stands
  <1>2. u # <<>> => Tail(u) # <<>> \/ (EndsAlone(u) <=> Head(u) = "endOneShot")
    BY <1>1, TailScript
  <1>3. u # <<>> /\ Tail(u) # <<>> => Head(u) # "endOneShot"
    BY <1>1, TailScript DEF Joined
  <1>5. IsTask(t) /\ t.steps = u /\ task' = [task EXCEPT ![a] = t]
    OBVIOUS
  <1> HIDE DEF u
  <1>6. x \in Keeping \/ x \in Giving \/ x \in Taking \/ x \in Others \/ x = "drain"
    BY <1>1 DEF Steps, Holding
  <1>7. "none" \notin C!Actors
    BY DEF C!Actors
  <1>8. LockFollows(a, u)
    <2>1. ScriptHolds(s) <=> x \in Holding
      BY <1>1 DEF ScriptHolds
    <2>2. CASE x \in Keeping
      <3>1. ScriptHolds(u) /\ x \in Holding
        BY <1>1, <2>2 DEF Joined, Unfinished, ScriptHolds, Holding
      <3> QED BY <2>1, <2>2, <3>1 DEF StepLock, LockFollows
    <2>3. CASE x \in Giving
      <3>1. ~ScriptHolds(u) /\ x \in Holding
        BY <1>1, <2>3 DEF Joined, Unfinished, ScriptHolds, Holding
      <3> QED BY <1>1, <2>3, <3>1 DEF StepLock, LockFollows
    <2>4. CASE x \in Taking
      <3>1. ScriptHolds(u)
        BY <1>1, <2>4 DEF Joined, Unfinished, ScriptHolds
      <3> QED BY <2>4, <3>1 DEF StepLock, LockFollows
    <2>5. CASE x \in Others
      <3>1. ~ScriptHolds(u)
        BY <1>1, <2>5 DEF Joined, Unfinished, ScriptHolds
      <3>2. x \notin Holding
        BY <2>5 DEF Others, Holding, Keeping, Giving
      <3> QED BY <2>1, <2>5, <3>1, <3>2 DEF StepLock, LockFollows
    <2>6. CASE x = "drain"
      <3>1. x \in Holding /\ lock.purge = a
        BY <1>1, <2>6 DEF Holding
      <3>2. CASE ctl.oneShot
        <4>1. a = "ioctl" /\ EndsAlone(s)
          BY <1>1, <3>1, <3>2
        <4>2. u # <<>> /\ EndsAlone(u)
          BY <1>1, <2>6, <4>1
        <4>3. Head(u) \in Alone /\ Head(u) # "beginOneShot"
          BY <1>1, <4>2, TailScript DEF Joined
        <4>4. ScriptHolds(u)
          BY <4>2, <4>3 DEF Alone, OneShotSteps, ScriptHolds, Holding, Keeping, Giving
        <4> QED BY <2>1, <2>6, <3>1, <3>2, <4>4 DEF StepLock, LockFollows
      <3>3. CASE ~ctl.oneShot
        <4>1. ~EndsAlone(s)
          BY <1>1, <2>6, <3>3
        <4>2. u # <<>> => Head(u) # "endOneShot"
          BY <1>1, <1>2, <1>3, <4>1
        <4>3. ~ScriptHolds(u)
          BY <1>1, <2>6, <4>2 DEF Joined, Unfinished, ScriptHolds
        <4> QED BY <2>6, <3>1, <3>3, <4>3 DEF StepLock, LockFollows
      <3> QED BY <3>2, <3>3
    <2> QED BY <1>6, <2>2, <2>3, <2>4, <2>5, <2>6
  <1>9. ScriptAlone(u) <=> ScriptAlone(s)
    BY <1>1, EmptyScript DEF ScriptAlone, Joined
  <1>10. ScriptTransfers(u) => x \in {"checkOneShot", "capture", "output"}
    BY <1>1 DEF ScriptTransfers, Joined
  <1>11. ScriptTransfers(u) => ScriptTransfers(s)
    BY <1>1, <1>10 DEF ScriptTransfers
  <1>12. EndsAlone(u) => a = "ioctl"
    BY <1>1, EmptyScript
  <1> QED BY <1>5, <1>8, <1>9, <1>11, <1>12, QuietMove

LEMMA QuietAdvance ==
    ASSUME AloneInv, NEW a \in C!Actors, NEW x, C!At(a, x), C!Advance(a),
           x \notin {"beginOneShot", "checkOneShot", "endOneShot"},
           StepLock(a, x), OneShotWords
    PROVE  AloneInv'
  <1> DEFINE u == C!Rest(a)
             t == C!WithSteps(task[a], u)
  <1>1. DOMAIN task[a] = TaskFields /\ IsScript(u)
        /\ (Configures(u) => task[a].op \in {"apply", "run", "start"})
    BY Stands
  <1>2. task' = [task EXCEPT ![a] = t]
    BY DEF C!Advance, C!Continue
  <1>3. IsTask(t) /\ t.steps = C!Rest(a)
    <2> HIDE DEF u
    <2>1. IsTask(t) /\ t.steps = u
      BY <1>1, OtherSteps
    <2> QED BY <2>1 DEF u
  <1> HIDE DEF t
  <1> QED BY <1>2, <1>3, QuietGoesOn

\* A thread that is not in a one-shot operation goes on elsewhere.
LEMMA QuietJump ==
    ASSUME AloneInv, NEW a \in C!Actors, NEW x, C!At(a, x), x \notin Alone,
           NEW t, task' = [task EXCEPT ![a] = t], IsTask(t), ~EndsAlone(t.steps),
           lock'.purge = lock.purge, ScriptHolds(t.steps) <=> x \in Holding, OneShotWords
    PROVE  AloneInv'
  <1>1. ScriptHolds(task[a].steps) <=> x \in Holding
    BY Stands DEF ScriptHolds
  <1>2. ~EndsAlone(task[a].steps)
    BY Stands
  <1>3. ~ScriptAlone(task[a].steps) /\ ~ScriptAlone(t.steps)
    BY <1>2 DEF ScriptAlone
  <1>4. ~ScriptTransfers(t.steps)
    <2>1. IsScript(t.steps)
      BY DEF IsTask
    <2> QED BY <2>1, TailScript DEF ScriptTransfers
  <1>5. LockFollows(a, t.steps)
    BY <1>1 DEF LockFollows
  <1> QED BY <1>3, <1>4, <1>5, QuietMove

LEMMA QuietContinue ==
    ASSUME AloneInv, NEW a \in C!Actors, NEW x, C!At(a, x), x \notin Alone,
           NEW s, C!Continue(a, s), PlainOne(s),
           Configures(s) => task[a].op \in {"apply", "run", "start"},
           lock'.purge = lock.purge, ScriptHolds(s) <=> x \in Holding, OneShotWords
    PROVE  AloneInv'
  <1> DEFINE t == C!WithSteps(task[a], s)
  <1>1. DOMAIN task[a] = TaskFields
    BY Stands
  <1>2. IsTask(t) /\ t.steps = s
    BY <1>1, OtherSteps DEF PlainOne
  <1>3. task' = [task EXCEPT ![a] = t]
    BY DEF C!Continue
  <1> HIDE DEF t
  <1> QED BY <1>2, <1>3, QuietJump DEF PlainOne

\* The words of a one-shot operation do not change.
LEMMA SameWords ==
    ASSUME AloneInv, DOMAIN ctl' = CtlFields, DOMAIN past' = {"stale", "abandoned", "credit", "unlike"},
           DOMAIN lock' = {"purge", "bulk", "config"}, ctl'.oneShot = ctl.oneShot,
           ctl'.engine = ctl.engine, ctl'.active => ctl.active, ctl'.remaining = ctl.remaining,
           past'.credit = past.credit
    PROVE  OneShotWords
  BY DEF AloneInv, OneShotStands, OneShotWords, WordsTyped

LEMMA Domains ==
    ASSUME AloneInv
    PROVE  /\ DOMAIN ctl = CtlFields /\ DOMAIN past = {"stale", "abandoned", "credit", "unlike"}
           /\ DOMAIN lock = {"purge", "bulk", "config"} /\ DOMAIN task = C!Actors
           /\ \A a \in C!Actors : DOMAIN task[a] = TaskFields
           /\ ctl.remaining \in Nat /\ past.credit \in Int /\ past.credit >= ctl.remaining
  BY DEF AloneInv, ScriptsFollowed, PurgeHeld, OneShotStands, IsTask

\* While a one-shot transfer is on the bus its request has the lock.
LEMMA TransferMeans ==
    ASSUME AloneInv, ScriptTransfers(task["ioctl"].steps)
    PROVE  /\ ctl.oneShot /\ lock.purge = "ioctl" /\ ctl.engine = "Stopped" /\ ~ctl.active
           /\ \A a \in C!Actors : \A x \in Holding \ {"capture", "output"} : ~C!At(a, x)
  <1> DEFINE s == task["ioctl"].steps
  <1>1. "ioctl" \in C!Actors /\ s # <<>> /\ Head(s) \in {"capture", "output"}
    BY DEF ScriptTransfers, C!Actors
  <1>2. C!At("ioctl", Head(s)) /\ Head(s) # "beginOneShot" /\ Head(s) \in Holding
    BY <1>1 DEF C!At, Holding, Keeping
  <1>3. lock.purge = "ioctl" /\ EndsAlone(s)
    BY <1>1, <1>2, Stands
  <1>4. ctl.oneShot
    BY <1>2, <1>3 DEF AloneInv, PurgeHeld, ScriptAlone
  <1>5. ctl.engine = "Stopped" /\ ~ctl.active
    BY DEF AloneInv, OneShotStands
  <1>6. ASSUME NEW a \in C!Actors, NEW x \in Holding \ {"capture", "output"}, C!At(a, x)
        PROVE  FALSE
    <2>1. lock.purge = a
      BY <1>6, Stands
    <2>2. a = "ioctl"
      BY <1>3, <2>1
    <2> QED BY <1>1, <1>6, <2>2 DEF C!At
  <1> QED BY <1>3, <1>4, <1>5, <1>6

\* A script of a thread that is not in a one-shot operation is plain.
LEMMA ChainOfScript ==
    ASSUME NEW s, IsScript(s), s # <<>>, ~EndsAlone(s)
    PROVE  Chain(s, Plain) /\ Ends(s) \notin Unfinished /\ First(s) = Head(s)
  <1>1. s \in Seq(Steps) /\ Len(s) \in Nat /\ Len(s) >= 1 /\ Head(s) = s[1]
    BY TailOf DEF IsScript
  <1>2. ASSUME NEW i \in 1 .. Len(s)
        PROVE  s[i] \in Plain
    <2>1. s[i] \in Steps /\ s[i] \notin {"beginOneShot", "checkOneShot", "capture", "output"}
      BY <1>1 DEF IsScript
    <2>2. s[i] # "endOneShot"
      <3>1. CASE i = Len(s)
        BY <3>1 DEF EndsAlone
      <3>2. CASE i # Len(s)
        <4>1. i \in 1 .. Len(s) - 1
          BY <1>1, <3>2
        <4> QED BY <4>1 DEF IsScript, Joined
      <3> QED BY <3>1, <3>2
    <2> QED BY <2>1, <2>2 DEF Plain
  <1>3. s \in Seq(Plain)
    <2>1. s \in [1 .. Len(s) -> Plain]
      BY <1>1, <1>2
    <2> QED BY <1>1, <2>1
  <1> QED BY <1>1, <1>3 DEF Chain, IsScript, Ends, First

\* A round of reads before a script that may follow a read.
LEMMA ReadBefore ==
    ASSUME NEW s, IsScript(s), ~EndsAlone(s), s # <<>>, Joined("read", Head(s))
    PROVE  PlainOne(C!Read \o s) /\ ~ScriptHolds(C!Read \o s) /\ (Configures(C!Read \o s) => Configures(s))
  <1> DEFINE u == C!Read \o s
  <1>1. Chain(C!Read, Plain) /\ First(C!Read) = "auto" /\ Ends(C!Read) = "read"
    BY ReadChain DEF Spans
  <1>2. Chain(s, Plain) /\ Ends(s) \notin Unfinished /\ First(s) = Head(s)
    BY ChainOfScript
  <1>3. Joined(Ends(C!Read), First(s))
    BY <1>1, <1>2
  <1>4. Chain(u, Plain) /\ Ends(u) = Ends(s) /\ First(u) = First(C!Read)
    BY <1>1, <1>2, <1>3, ChainJoins
  <1>5. PlainOne(u)
    BY <1>2, <1>4, PlainScript DEF PlainOne
  <1>6. Head(u) = "auto"
    BY <1>1, <1>4 DEF Chain, First
  <1>7. ~ScriptHolds(u)
    BY <1>6 DEF ScriptHolds, Holding, Keeping, Giving
  <1>8. ASSUME Configures(u) PROVE Configures(s)
    <2>1. PICK i \in 1 .. Len(u) : u[i] \in Configuring
      BY <1>8 DEF Configures
    <2>2. C!Read \in Seq(Plain) /\ s \in Seq(Plain)
      BY <1>1, <1>2 DEF Chain
    <2>3. /\ Len(C!Read) \in Nat /\ Len(s) \in Nat /\ Len(u) = Len(C!Read) + Len(s)
          /\ \A j \in 1 .. Len(C!Read) : u[j] = C!Read[j]
          /\ \A j \in 1 .. Len(C!Read) + Len(s) : j > Len(C!Read) => u[j] = s[j - Len(C!Read)]
      BY <2>2, Joins
    <2>4. \A j \in 1 .. Len(C!Read) : C!Read[j] \notin Configuring
      BY DEF C!Read, Configuring
    <2> HIDE DEF u
    <2>5. i > Len(C!Read)
      BY <2>1, <2>3, <2>4
    <2>6. i - Len(C!Read) \in 1 .. Len(s) /\ u[i] = s[i - Len(C!Read)]
      BY <2>1, <2>3, <2>5
    <2> QED BY <2>1, <2>6 DEF Configures
  <1> QED BY <1>5, <1>7, <1>8

\* What follows a configuration is done under the lock.
LEMMA AfterConfigure ==
    ASSUME NEW s, IsScript(s), s # <<>>, Head(s) = "configure"
    PROVE  LET u == SubSeq(s, 6, Len(s)) IN
           /\ PlainOne(u) /\ ScriptHolds(u) /\ (Configures(u) => Configures(s))
           /\ Joined("commit", Head(u)) /\ Len(s) \in Nat /\ u \in Seq(Steps)
           /\ Len(u) = Len(s) - 5 /\ \A i \in 1 .. Len(u) : u[i] = s[i + 5]
  <1> DEFINE t1 == Tail(s)
             t2 == Tail(t1)
             t3 == Tail(t2)
             t4 == Tail(t3)
             t5 == Tail(t4)
  <1>1. /\ ~EndsAlone(s) /\ IsScript(t1) /\ t1 # <<>> /\ Head(t1) = "info" /\ ~EndsAlone(t1)
        /\ (Configures(t1) => Configures(s))
    <2>1. "configure" \in Keeping /\ "configure" \notin Alone
      BY DEF Keeping, Alone, OneShotSteps
    <2> HIDE DEF t1
    <2> QED BY <2>1, TailScript DEF Joined, Unfinished, t1
  <1>2. /\ IsScript(t2) /\ t2 # <<>> /\ Head(t2) = "reset" /\ ~EndsAlone(t2)
        /\ (Configures(t2) => Configures(t1))
    <2> HIDE DEF t1
    <2> QED BY <1>1, TailScript DEF Joined, Unfinished, Keeping
  <1>3. /\ IsScript(t3) /\ t3 # <<>> /\ Head(t3) = "set" /\ ~EndsAlone(t3)
        /\ (Configures(t3) => Configures(t2))
    <2> HIDE DEF t2
    <2> QED BY <1>2, TailScript DEF Joined, Unfinished, Keeping
  <1>4. /\ IsScript(t4) /\ t4 # <<>> /\ Head(t4) = "commit" /\ ~EndsAlone(t4)
        /\ (Configures(t4) => Configures(t3))
    <2> HIDE DEF t3
    <2> QED BY <1>3, TailScript DEF Joined, Unfinished, Keeping
  <1>5. /\ IsScript(t5) /\ t5 # <<>> /\ Head(t5) \in Holding /\ ~EndsAlone(t5)
        /\ Joined("commit", Head(t5))
        /\ (Configures(t5) => Configures(t4))
    <2> HIDE DEF t4
    <2> QED BY <1>4, TailScript DEF Joined, Unfinished, Keeping
  <1>6. /\ SubSeq(s, 6, Len(s)) = t5 /\ Len(s) \in Nat /\ t5 \in Seq(Steps)
        /\ Len(t5) = Len(s) - 5 /\ \A i \in 1 .. Len(t5) : t5[i] = s[i + 5]
    <2>1. s \in Seq(Steps)
      BY DEF IsScript
    <2>2. t1 \in Seq(Steps) /\ Len(s) \in Nat /\ Len(t1) = Len(s) - 1
          /\ \A i \in 1 .. Len(t1) : t1[i] = s[i + 1]
      BY <2>1, TailOf
    <2> HIDE DEF t1
    <2>3. t2 \in Seq(Steps) /\ Len(t1) \in Nat /\ Len(t2) = Len(t1) - 1
          /\ \A i \in 1 .. Len(t2) : t2[i] = t1[i + 1]
      BY <1>1, <2>2, TailOf
    <2> HIDE DEF t2
    <2>4. t3 \in Seq(Steps) /\ Len(t2) \in Nat /\ Len(t3) = Len(t2) - 1
          /\ \A i \in 1 .. Len(t3) : t3[i] = t2[i + 1]
      BY <1>2, <2>3, TailOf
    <2> HIDE DEF t3
    <2>5. t4 \in Seq(Steps) /\ Len(t3) \in Nat /\ Len(t4) = Len(t3) - 1
          /\ \A i \in 1 .. Len(t4) : t4[i] = t3[i + 1]
      BY <1>3, <2>4, TailOf
    <2> HIDE DEF t4
    <2>6. t5 \in Seq(Steps) /\ Len(t4) \in Nat /\ Len(t5) = Len(t4) - 1 /\ Len(t5) \in Nat
          /\ \A i \in 1 .. Len(t5) : t5[i] = t4[i + 1]
      BY <1>4, <1>5, <2>5, TailOf
    <2> HIDE DEF t5
    <2>7. Len(t5) = Len(s) - 5 /\ \A i \in 1 .. Len(t5) : t5[i] = s[i + 5]
      <3>1. Len(t5) = Len(s) - 5
        BY <2>2, <2>3, <2>4, <2>5, <2>6
      <3> SUFFICES ASSUME NEW i \in 1 .. Len(t5) PROVE t5[i] = s[i + 5]
        BY <3>1
      <3>2. t5[i] = t4[i + 1] /\ i + 1 \in 1 .. Len(t4)
        BY <2>6
      <3>3. t4[i + 1] = t3[(i + 1) + 1] /\ i + 2 \in 1 .. Len(t3) /\ (i + 1) + 1 = i + 2
        BY <2>5, <2>6, <3>2
      <3>4. t3[i + 2] = t2[(i + 2) + 1] /\ i + 3 \in 1 .. Len(t2) /\ (i + 2) + 1 = i + 3
        BY <2>4, <2>5, <2>6, <3>3
      <3>5. t2[i + 3] = t1[(i + 3) + 1] /\ i + 4 \in 1 .. Len(t1) /\ (i + 3) + 1 = i + 4
        BY <2>3, <2>4, <2>5, <2>6, <3>4
      <3>6. t1[i + 4] = s[(i + 4) + 1] /\ (i + 4) + 1 = i + 5
        BY <2>2, <2>3, <2>4, <2>5, <2>6, <3>5
      <3> QED BY <3>2, <3>3, <3>4, <3>5, <3>6
    <2> DEFINE w == SubSeq(s, 6, Len(s))
    <2>8. w \in Seq(Steps) /\ Len(w) = Len(s) - 5 /\ \A i \in 1 .. Len(w) : w[i] = s[i + 5]
      <3>1. Len(s) >= 6
        BY <1>5, <2>6, <2>7
      <3>2. w = [i \in 1 .. (Len(s) - 5) |-> s[i + 5]]
        BY <2>1, <2>2, <3>1
      <3>3. Len(w) = Len(s) - 5
        BY <2>1, <2>2, <3>1
      <3>4. \A i \in 1 .. (Len(s) - 5) : i + 5 \in 1 .. Len(s) /\ s[i + 5] \in Steps
        BY <2>1, <2>2
      <3>5. w \in [1 .. (Len(s) - 5) -> Steps]
        BY <3>2, <3>4
      <3>6. w \in Seq(Steps)
        <4> DEFINE n == Len(s) - 5
        <4>1. n \in Nat /\ w \in [1 .. n -> Steps]
          BY <2>2, <3>1, <3>5
        <4> HIDE DEF n, w
        <4> QED BY <4>1
      <3> QED BY <3>2, <3>3, <3>6
    <2> HIDE DEF w
    <2>9. w = t5
      BY <2>6, <2>7, <2>8, SeqEqual
    <2> QED BY <2>2, <2>6, <2>7, <2>9 DEF w
  <1> HIDE DEF t1, t2, t3, t4, t5
  <1> QED BY <1>1, <1>2, <1>3, <1>4, <1>5, <1>6 DEF PlainOne, ScriptHolds

(***************************************************************************)
(* Each step of a thread keeps the invariant                                *)
(***************************************************************************)
\* A command that goes on after its answer.
LEMMA SucceedsKeeps ==
    ASSUME AloneInv, NEW a \in C!Actors, NEW c \in C!Commands, C!At(a, c), NEW got, C!Succeeds(a, c, got)
    PROVE  AloneInv'
  <1> DEFINE r == IF c = "read" THEN 0 ELSE task[a].rounds
             p == [task[a] EXCEPT !.sent = "no", !.tries = 0, !.rounds = r, !.got = got]
             t == C!WithSteps(p, C!Rest(a))
  <1>1. task' = [task EXCEPT ![a] = t]
    BY DEF C!Succeeds, C!NextCommand
  <1>2. /\ DOMAIN task[a] = TaskFields /\ IsScript(C!Rest(a))
        /\ (Configures(C!Rest(a)) => task[a].op \in {"apply", "run", "start"})
    BY Stands
  <1>3. DOMAIN p = TaskFields /\ p.op = task[a].op
    BY <1>2 DEF TaskFields
  <1> HIDE DEF p
  <1>4. IsTask(t) /\ t.steps = C!Rest(a)
    BY <1>2, <1>3, OtherSteps
  <1> HIDE DEF t
  <1>5. lock' = [lock EXCEPT !.bulk = "none"] /\ past' = past
        /\ ctl' = [ctl EXCEPT !.ready = @ \/ c = "read"]
    BY DEF C!Succeeds, C!Give
  <1>6. lock'.purge = lock.purge /\ OneShotWords
    BY <1>5, Domains, SameWords DEF CtlFields
  <1>7. c \in Keeping \cup Others /\ c \notin Alone
    BY DEF C!Commands, C!Settings, Keeping, Others, Alone, OneShotSteps
  <1>8. StepLock(a, c)
    BY <1>6, <1>7 DEF StepLock, Keeping, Others, Taking, Giving
  <1>9. c \notin {"beginOneShot", "checkOneShot", "endOneShot"}
    BY <1>7 DEF Alone, OneShotSteps
  <1> QED BY <1>1, <1>4, <1>6, <1>8, <1>9, QuietGoesOn

\* A command that fails: its round starts again, its configuration ends, or its thread does.
LEMMA FailsKeeps ==
    ASSUME AloneInv, NEW a \in C!Actors, NEW c \in C!Commands, C!At(a, c), C!Fails(a, c)
    PROVE  AloneInv'
  <1> DEFINE again == c \in {"auto", "read"} /\ task[a].rounds + 1 < ReadRounds
             after == IF c = "auto" THEN Tail(C!Rest(a)) ELSE C!Rest(a)
             op == task[a].op
             s == IF again THEN C!Read \o after ELSE IF c \in C!Settings THEN C!OnFailure[op] ELSE <<>>
             p == [task[a] EXCEPT !.sent = "no", !.tries = 0, !.rounds = task[a].rounds + 1,
                                  !.got = C!NoReply]
             t == C!WithSteps(p, s)
  <1>1. task' = [task EXCEPT ![a] = t]
    BY DEF C!Fails, C!NextCommand
  <1>2. /\ DOMAIN task[a] = TaskFields /\ IsScript(C!Rest(a))
        /\ (Configures(C!Rest(a)) => op \in {"apply", "run", "start"})
        /\ (c \in Configuring => op \in {"apply", "run", "start"})
        /\ (C!Rest(a) # <<>> => /\ Joined(c, Head(C!Rest(a)))
                                /\ EndsAlone(C!Rest(a)) <=> EndsAlone(task[a].steps))
        /\ (C!Rest(a) = <<>> => c \notin {"auto", "read"})
        /\ (EndsAlone(task[a].steps) => c \in Alone)
    BY Stands DEF Unfinished
  <1>3. c \in Keeping \cup Others /\ c \notin Alone /\ (c \in Holding <=> c \in C!Settings)
        /\ (c \in C!Settings => c \in Configuring)
    BY DEF C!Commands, C!Settings, Keeping, Others, Alone, OneShotSteps, Holding, Giving, Configuring
  <1>4. DOMAIN p = TaskFields /\ p.op = op
    BY <1>2 DEF TaskFields
  <1> HIDE DEF p
  <1>5. /\ PlainOne(s) /\ (Configures(s) => op \in {"apply", "run", "start"})
        /\ (ScriptHolds(s) <=> c \in Holding)
    <2>1. CASE again
      <3>1. ~EndsAlone(C!Rest(a))
        BY <1>2, <1>3, EmptyScript
      <3>2. CASE c = "read"
        <4>1. after = C!Rest(a) /\ after # <<>> /\ Joined("read", Head(after))
          BY <1>2, <3>2
        <4> HIDE DEF after
        <4>2. IsScript(after) /\ ~EndsAlone(after)
          BY <1>2, <3>1, <4>1
        <4>3. PlainOne(C!Read \o after) /\ ~ScriptHolds(C!Read \o after)
              /\ (Configures(C!Read \o after) => Configures(after))
          BY <4>1, <4>2, ReadBefore
        <4>4. c \notin C!Settings
          BY <3>2 DEF C!Settings
        <4> QED BY <1>2, <1>3, <2>1, <4>1, <4>3, <4>4
      <3>3. CASE c = "auto"
        <4> DEFINE u == C!Rest(a)
        <4>1. after = Tail(u) /\ u # <<>> /\ IsScript(u) /\ ~EndsAlone(u) /\ Head(u) = "read"
          BY <1>2, <3>1, <3>3 DEF Joined
        <4> HIDE DEF after, u
        <4>2. /\ IsScript(after) /\ after # <<>> /\ Joined("read", Head(after))
              /\ (Configures(after) => Configures(u))
          BY <4>1, TailScript DEF Unfinished
        <4>3. ~EndsAlone(after)
          BY <4>1, TailScript, EmptyScript
        <4>4. PlainOne(C!Read \o after) /\ ~ScriptHolds(C!Read \o after)
              /\ (Configures(C!Read \o after) => Configures(after))
          BY <4>2, <4>3, ReadBefore
        <4>5. c \notin C!Settings
          BY <3>3 DEF C!Settings
        <4> QED BY <1>2, <1>3, <2>1, <4>2, <4>4, <4>5 DEF u
      <3> QED BY <2>1, <3>2, <3>3
    <2>2. CASE ~again /\ c \in C!Settings
      <3>1. op \in {"apply", "run", "start"} /\ c \in Holding
        BY <1>2, <1>3, <2>2
      <3>2. PlainOne(C!OnFailure[op]) /\ First(C!OnFailure[op]) \in {"unlockPurge", "rollback"}
            /\ Len(C!OnFailure[op]) = 1
        BY <3>1, OnFailureScript
      <3>3. ScriptHolds(C!OnFailure[op])
        BY <3>2 DEF ScriptHolds, First, Holding, Giving, PlainOne, IsScript
      <3> QED BY <2>2, <3>1, <3>2, <3>3
    <2>3. CASE ~again /\ c \notin C!Settings
      <3>1. s = <<>>
        BY <2>3
      <3> HIDE DEF s
      <3> QED BY <1>3, <2>3, <3>1, EmptyScript DEF PlainOne
    <2> QED BY <2>1, <2>2, <2>3
  <1> HIDE DEF s
  <1>6. IsTask(t) /\ t.steps = s
    BY <1>4, <1>5, OtherSteps DEF PlainOne
  <1> HIDE DEF t
  <1>7. /\ lock' = [lock EXCEPT !.bulk = "none", !.config = IF c \in C!Settings THEN "none" ELSE @]
        /\ past' = [past EXCEPT !.abandoned = @ \/ c \in {"reset", "set"}]
        /\ ctl' = [ctl EXCEPT !.ready = @ /\ (again \/ c \in C!Settings)]
    BY DEF C!Fails
  <1>8. lock'.purge = lock.purge /\ OneShotWords
    BY <1>7, Domains, SameWords DEF CtlFields
  <1> QED BY <1>1, <1>3, <1>5, <1>6, <1>8, QuietJump DEF PlainOne

\* A thread that sends or waits stays at its step.
LEMMA SendingKeeps ==
    ASSUME AloneInv, NEW a \in C!Actors, NEW sent, NEW tries, C!Sending(a, sent, tries),
           lock' = [lock EXCEPT !.bulk = a], UNCHANGED <<ctl, past>>
    PROVE  AloneInv'
  <1> DEFINE t == [task[a] EXCEPT !.sent = sent, !.tries = tries]
  <1>1. task' = [task EXCEPT ![a] = t]
    BY Domains DEF C!Sending
  <1>2. DOMAIN t = TaskFields /\ t.op = task[a].op /\ t.steps = task[a].steps
    BY Domains DEF TaskFields
  <1> HIDE DEF t
  <1>3. IsTask(t) /\ (EndsAlone(t.steps) => a = "ioctl")
    BY <1>2 DEF AloneInv, ScriptsFollowed, IsTask
  <1>4. lock'.purge = lock.purge /\ OneShotWords
    BY Domains, SameWords
  <1>5. LockFollows(a, t.steps)
    BY <1>2, <1>4 DEF LockFollows
  <1> QED BY <1>1, <1>2, <1>3, <1>4, <1>5, QuietMove

LEMMA BulkKeeps ==
    ASSUME AloneInv, NEW a \in C!Actors, C!Bulk(a)
    PROVE  AloneInv'
  <1>1. PICK c \in C!Commands : C!At(a, c) /\ (C!BulkRefused(a, c) \/ C!BulkWrite(a, c)
                                               \/ C!BulkRevoked(a, c) \/ C!BulkWait(a, c))
    BY DEF C!Bulk
  <1>2. CASE C!BulkRefused(a, c)
    BY <1>1, <1>2, FailsKeeps DEF C!BulkRefused
  <1>3. CASE C!BulkWrite(a, c)
    <2>1. CASE C!Fails(a, c)
      BY <1>1, <2>1, FailsKeeps
    <2>2. CASE C!Succeeds(a, c, C!NoReply)
      BY <1>1, <2>2, SucceedsKeeps
    <2>3. CASE C!Take("bulk", a) /\ C!Sending(a, "wait", 0) /\ UNCHANGED <<ctl, past>>
      BY <2>3, SendingKeeps DEF C!Take
    <2>4. CASE C!Take("bulk", a) /\ C!Sending(a, "out", task[a].tries + 1) /\ UNCHANGED <<ctl, past>>
      BY <2>4, SendingKeeps DEF C!Take
    <2> QED BY <1>3, <2>1, <2>2, <2>3, <2>4 DEF C!BulkWrite, C!GiveUp
  <1>4. CASE C!BulkRevoked(a, c)
    BY <1>1, <1>4, FailsKeeps DEF C!BulkRevoked, C!GiveUp
  <1>5. CASE C!BulkWait(a, c)
    <2>1. CASE C!Fails(a, c)
      BY <1>1, <2>1, FailsKeeps
    <2>2. CASE C!Succeeds(a, c, ep1.reply)
      BY <1>1, <2>2, SucceedsKeeps
    <2> QED BY <1>5, <2>1, <2>2 DEF C!BulkWait, C!GiveUp
  <1> QED BY <1>1, <1>2, <1>3, <1>4, <1>5

\* The words of a thread that goes on with another step, or ends.
LEMMA ParametersKeep ==
    ASSUME AloneInv, NEW a \in C!Actors, C!Parameters(a)
    PROVE  AloneInv'
  <1>1. CASE C!ConfigureBegin(a)
    <2>1. C!At(a, "configure") /\ "configure" \in Keeping /\ "configure" \notin Alone
          /\ "configure" \in Holding /\ "configure" \in Configuring
      BY <1>1 DEF C!ConfigureBegin, Keeping, Alone, OneShotSteps, Holding, Configuring
    <2>2. task[a].op \in {"apply", "run", "start"} /\ IsScript(task[a].steps)
          /\ task[a].steps # <<>> /\ Head(task[a].steps) = "configure"
      BY <2>1, Stands
    <2>3. past' = past
      BY <1>1 DEF C!ConfigureBegin, C!OnlyControl
    <2>4. CASE /\ ctl' = [ctl EXCEPT !.format = task[a].rate]
               /\ C!Continue(a, SubSeq(task[a].steps, 6, Len(task[a].steps)))
               /\ UNCHANGED lock
      <3> DEFINE u == SubSeq(task[a].steps, 6, Len(task[a].steps))
      <3>1. PlainOne(u) /\ ScriptHolds(u)
        BY <2>2, AfterConfigure
      <3>2. C!Continue(a, u)
        BY <2>4
      <3> HIDE DEF u
      <3>3. OneShotWords /\ lock'.purge = lock.purge
        BY <2>3, <2>4, Domains, SameWords DEF CtlFields
      <3> QED BY <2>1, <2>2, <3>1, <3>2, <3>3, QuietContinue
    <2>5. CASE C!Take("config", a) /\ C!Advance(a) /\ UNCHANGED ctl
      <3>1. lock' = [lock EXCEPT !.config = a]
        BY <2>5 DEF C!Take
      <3>2. OneShotWords /\ lock'.purge = lock.purge
        BY <2>3, <2>5, <3>1, Domains, SameWords
      <3>3. StepLock(a, "configure")
        BY <3>2 DEF StepLock, Taking, Giving
      <3> QED BY <2>1, <2>5, <3>2, <3>3, QuietAdvance
    <2>6. CASE C!Continue(a, C!OnFailure[task[a].op]) /\ UNCHANGED <<ctl, lock>>
      <3>1. OneShotWords /\ lock'.purge = lock.purge
        BY <2>3, <2>6, Domains, SameWords
      <3>2. PlainOne(C!OnFailure[task[a].op]) /\ ScriptHolds(C!OnFailure[task[a].op])
        BY <2>2, OnFailureScript DEF ScriptHolds, First, Holding, Giving, PlainOne, IsScript
      <3> QED BY <2>1, <2>2, <2>6, <3>1, <3>2, QuietContinue
    <2> QED BY <1>1, <2>4, <2>5, <2>6 DEF C!ConfigureBegin
  <1>2. CASE C!Commit(a)
    <2>1. C!At(a, "commit") /\ "commit" \in Keeping /\ "commit" \notin Alone
          /\ "commit" \in Holding /\ "commit" \in Configuring
      BY <1>2 DEF C!Commit, Keeping, Alone, OneShotSteps, Holding, Configuring
    <2>2. task[a].op \in {"apply", "run", "start"}
      BY <2>1, Stands
    <2>3. lock' = [lock EXCEPT !.config = "none"]
      BY <1>2 DEF C!Commit, C!Give
    <2>4. CASE /\ ctl' = [ctl EXCEPT !.rate = task[a].rate, !.configured = TRUE,
                                     !.format = task[a].rate]
               /\ past' = [past EXCEPT !.abandoned = FALSE]
               /\ C!Advance(a)
      <3>1. OneShotWords /\ lock'.purge = lock.purge
        BY <2>3, <2>4, Domains, SameWords DEF CtlFields
      <3>2. StepLock(a, "commit")
        BY <3>1 DEF StepLock, Taking, Giving
      <3> QED BY <2>1, <2>4, <3>1, <3>2, QuietAdvance
    <2>5. CASE C!Continue(a, C!OnFailure[task[a].op]) /\ UNCHANGED <<ctl, past>>
      <3>1. OneShotWords /\ lock'.purge = lock.purge
        BY <2>3, <2>5, Domains, SameWords
      <3>2. PlainOne(C!OnFailure[task[a].op]) /\ ScriptHolds(C!OnFailure[task[a].op])
        BY <2>2, OnFailureScript DEF ScriptHolds, First, Holding, Giving, PlainOne, IsScript
      <3> QED BY <2>1, <2>2, <2>5, <3>1, <3>2, QuietContinue
    <2> QED BY <1>2, <2>4, <2>5 DEF C!Commit
  <1>3. CASE C!Invalidate(a)
    <2>1. /\ C!At(a, "invalidate") /\ C!Advance(a) /\ lock' = lock /\ past' = past
          /\ ctl' = [ctl EXCEPT !.configured = FALSE, !.rate = "none"]
      BY <1>3 DEF C!Invalidate, C!OnlyControl
    <2>2. OneShotWords /\ StepLock(a, "invalidate")
      BY <2>1, Domains, SameWords DEF CtlFields, StepLock, Taking, Giving
    <2> QED BY <2>1, <2>2, QuietAdvance
  <1> QED BY <1>1, <1>2, <1>3 DEF C!Parameters

\* A word that is no one-shot's is set.
LEMMA SetsKeeps ==
    ASSUME AloneInv, NEW a \in C!Actors, NEW x \in Others, NEW w, C!Sets(a, x, w),
           DOMAIN w = CtlFields, w.oneShot = ctl.oneShot, w.engine = ctl.engine,
           w.active => ctl.active, w.remaining = ctl.remaining
    PROVE  AloneInv'
  <1>1. C!At(a, x) /\ ctl' = w /\ C!Advance(a) /\ lock' = lock /\ past' = past
    BY DEF C!Sets, C!OnlyControl
  <1>2. OneShotWords
    BY <1>1, Domains, SameWords
  <1>3. StepLock(a, x) /\ x \notin {"beginOneShot", "checkOneShot", "endOneShot"}
    BY <1>1 DEF StepLock, Others, Taking, Giving
  <1> QED BY <1>1, <1>2, <1>3, QuietAdvance

\* Signalled changes no word of a one-shot operation.
LEMMA SignalledWords ==
    ASSUME NEW w, DOMAIN w = CtlFields
    PROVE  /\ DOMAIN C!Signalled(w) = CtlFields /\ C!Signalled(w).oneShot = w.oneShot
           /\ C!Signalled(w).engine = w.engine /\ C!Signalled(w).active = w.active
           /\ C!Signalled(w).remaining = w.remaining
  BY DEF C!Signalled, CtlFields

LEMMA PurgeKeeps ==
    ASSUME AloneInv, NEW a \in C!Actors, C!PurgeBegins(a) \/ C!PurgeTargets(a) \/ C!Drain(a)
    PROVE  AloneInv'
  <1>1. CASE C!PurgeBegins(a)
    <2>1. /\ C!At(a, "purge") /\ C!Advance(a) /\ lock' = lock /\ past' = past
          /\ ctl' = [ctl EXCEPT !.engine = "Stopping", !.draining = TRUE, !.healthy = FALSE]
      BY <1>1 DEF C!PurgeBegins, C!OnlyControl
    <2>2. ~ScriptTransfers(task["ioctl"].steps)
      BY <2>1, TransferMeans DEF Holding, Keeping
    <2>3. OneShotWords /\ StepLock(a, "purge")
      BY <2>1, <2>2, Domains DEF CtlFields, OneShotWords, WordsTyped, StepLock, Taking, Giving
    <2> QED BY <2>1, <2>3, QuietAdvance
  <1>2. CASE C!PurgeTargets(a)
    <2>1. C!At(a, "purgeTargets") /\ lock.purge = "none" /\ past' = past
      BY <1>2 DEF C!PurgeTargets, C!OnlyControl, C!Free
    <2>2. ~ScriptTransfers(task["ioctl"].steps)
      BY <2>1, TransferMeans
    <2>3. CASE /\ C!Take("purge", a) /\ C!Advance(a)
               /\ ctl' = [ctl EXCEPT !.engine = "Stopping", !.draining = TRUE, !.healthy = FALSE]
      <3>1. lock' = [lock EXCEPT !.purge = a]
        BY <2>3 DEF C!Take
      <3>2. lock'.purge = a
        BY <3>1, Domains
      <3>3. OneShotWords /\ StepLock(a, "purgeTargets")
        BY <2>1, <2>2, <2>3, <3>1, <3>2, Domains
           DEF CtlFields, OneShotWords, WordsTyped, StepLock, Keeping, Others, Giving
      <3> QED BY <2>1, <2>3, <3>3, QuietAdvance
    <2>4. CASE /\ ctl' = [ctl EXCEPT !.healthy = FALSE]
               /\ C!Continue(a, Tail(C!Rest(a))) /\ UNCHANGED lock
      <3> DEFINE u == C!Rest(a)
                 v == Tail(u)
      <3>1. /\ IsScript(u) /\ (Configures(u) => task[a].op \in {"apply", "run", "start"})
            /\ u # <<>> /\ Head(u) = "drain" /\ ~EndsAlone(u)
        BY <2>1, Stands DEF Joined, Unfinished, Taking, Alone, OneShotSteps
      <3> HIDE DEF u
      <3>2. /\ IsScript(v) /\ (Configures(v) => Configures(u))
            /\ (v # <<>> => Joined("drain", Head(v)) /\ (EndsAlone(v) <=> EndsAlone(u)))
            /\ ~EndsAlone(<<>>)
        BY <3>1, TailScript
      <3>3. v # <<>> /\ Head(v) = "endOneShot" => EndsAlone(v)
        BY <3>2, TailScript DEF Joined
      <3>4. ~EndsAlone(v) /\ ~ScriptHolds(v)
        BY <3>1, <3>2, <3>3 DEF ScriptHolds, Joined
      <3>5. C!Continue(a, v)
        BY <2>4 DEF u
      <3> HIDE DEF v
      <3>6. OneShotWords /\ lock'.purge = lock.purge
        BY <2>1, <2>4, Domains, SameWords DEF CtlFields
      <3>7. "purgeTargets" \notin Alone /\ "purgeTargets" \notin Holding
        BY DEF Alone, OneShotSteps, Holding, Keeping, Giving
      <3> QED BY <2>1, <3>1, <3>2, <3>4, <3>5, <3>6, <3>7, QuietContinue DEF PlainOne
    <2> QED BY <1>2, <2>3, <2>4 DEF C!PurgeTargets
  <1>3. CASE C!Drain(a)
    <2>1. PICK restarted : ctl' = C!Signalled([ctl EXCEPT !.engine = "Stopped", !.draining = FALSE,
                                                        !.healthy = restarted])
      BY <1>3 DEF C!Drain
    <2>2. /\ C!At(a, "drain") /\ C!Advance(a) /\ past' = past
          /\ (IF ctl.oneShot THEN lock' = lock ELSE lock' = [lock EXCEPT !.purge = "none"])
      BY <1>3 DEF C!Drain, C!Give
    <2> DEFINE w == [ctl EXCEPT !.engine = "Stopped", !.draining = FALSE, !.healthy = restarted]
    <2>3. DOMAIN w = CtlFields /\ w.oneShot = ctl.oneShot /\ w.remaining = ctl.remaining
          /\ w.active = ctl.active
      BY Domains DEF CtlFields
    <2>4. ctl' = C!Signalled(w)
      BY <2>1
    <2> HIDE DEF w
    <2>5. DOMAIN ctl' = CtlFields /\ ctl'.oneShot = ctl.oneShot /\ ctl'.remaining = ctl.remaining
      BY <2>3, <2>4, SignalledWords
    <2>6. ~ScriptTransfers(task["ioctl"].steps)
      BY <2>2, TransferMeans DEF Holding
    <2>7. OneShotWords
      BY <2>2, <2>5, <2>6, Domains DEF OneShotWords, WordsTyped
    <2>8. StepLock(a, "drain")
      BY <2>2, Domains DEF StepLock, Keeping, Others, Taking, Giving
    <2> QED BY <2>2, <2>7, <2>8, QuietAdvance
  <1> QED BY <1>1, <1>2, <1>3

LEMMA EngineKeeps ==
    ASSUME AloneInv, NEW a \in C!Actors, C!Engine(a)
    PROVE  AloneInv'
  <1>1. CASE C!PurgeBegins(a) \/ C!PurgeTargets(a) \/ C!Drain(a)
    BY <1>1, PurgeKeeps
  <1>2. CASE C!Look(a)
    <2>1. C!At(a, "look") /\ lock' = lock /\ past' = past
          /\ "look" \notin Alone /\ "look" \notin Holding
      BY <1>2 DEF C!Look, C!OnlyControl, Alone, OneShotSteps, Holding, Keeping, Giving
    <2>2. CASE ctl' = [ctl EXCEPT !.streaming = TRUE] /\ C!Advance(a)
      <3>1. OneShotWords /\ StepLock(a, "look")
        BY <2>1, <2>2, Domains, SameWords DEF CtlFields, StepLock, Taking, Giving
      <3> QED BY <2>1, <2>2, <3>1, QuietAdvance
    <2>3. CASE C!Continue(a, C!MarkStopped) /\ UNCHANGED ctl
      <3>1. OneShotWords /\ lock'.purge = lock.purge
        BY <2>1, <2>3, Domains, SameWords
      <3>2. PlainOne(C!MarkStopped) /\ ~ScriptHolds(C!MarkStopped) /\ ~Configures(C!MarkStopped)
        BY MarkStoppedScript DEF C!MarkStopped, ScriptHolds, Holding, Keeping, Giving
      <3> QED BY <2>1, <2>3, <3>1, <3>2, QuietContinue
    <2> QED BY <1>2, <2>2, <2>3 DEF C!Look
  <1>3. CASE C!StartEngine(a)
    <2>1. C!At(a, "startEngine") /\ lock' = lock /\ past' = past
          /\ "startEngine" \notin Alone /\ "startEngine" \notin Holding
      BY <1>3 DEF C!StartEngine, Alone, OneShotSteps, Holding, Keeping, Giving
    <2>2. C!CanStart => ~ScriptTransfers(task["ioctl"].steps)
      BY TransferMeans DEF C!CanStart
    <2>3. CASE C!CanStart /\ ctl' = [ctl EXCEPT !.engine = "Running"] /\ C!Advance(a)
      <3>1. OneShotWords /\ StepLock(a, "startEngine")
        BY <2>1, <2>2, <2>3, Domains
           DEF OneShotWords, WordsTyped, CtlFields, StepLock, Taking, Giving
      <3> QED BY <2>1, <2>3, <3>1, QuietAdvance
    <2>4. CASE /\ C!Continue(a, C!StopThenMark)
               /\ \/ C!CanStart /\ ctl' = C!FatalStop(ctl)
                  \/ UNCHANGED ctl
      <3>1. OneShotWords /\ lock'.purge = lock.purge
        <4>1. CASE C!CanStart /\ ctl' = C!FatalStop(ctl)
          BY <2>1, <2>2, <4>1, Domains DEF OneShotWords, WordsTyped, CtlFields, C!FatalStop
        <4>2. CASE UNCHANGED ctl
          BY <2>1, <4>2, Domains, SameWords
        <4> QED BY <2>4, <4>1, <4>2
      <3>2. PlainOne(C!StopThenMark) /\ ~Configures(C!StopThenMark) /\ First(C!StopThenMark) = "requestStop"
        BY StopThenMarkScript
      <3>3. ~ScriptHolds(C!StopThenMark)
        BY <3>2 DEF First, ScriptHolds, PlainOne, IsScript, Holding, Keeping, Giving
      <3> QED BY <2>1, <2>4, <3>1, <3>2, <3>3, QuietContinue
    <2> QED BY <1>3, <2>3, <2>4 DEF C!StartEngine
  <1>4. CASE C!StopEnds(a)
    <2>1. C!At(a, "stopEnds") /\ lock' = lock /\ C!Advance(a) /\ past' = past
      BY <1>4 DEF C!StopEnds, C!OnlyControl
    <2> DEFINE w == [ctl EXCEPT !.stopPending = FALSE, !.stopActive = FALSE]
    <2>2. DOMAIN w = CtlFields /\ w.oneShot = ctl.oneShot /\ w.remaining = ctl.remaining
          /\ w.active = ctl.active /\ w.engine = ctl.engine
      BY Domains DEF CtlFields
    <2>3. ctl' = C!Signalled(w)
      BY <1>4 DEF C!StopEnds
    <2> HIDE DEF w
    <2>4. /\ DOMAIN ctl' = CtlFields /\ ctl'.oneShot = ctl.oneShot /\ ctl'.engine = ctl.engine
          /\ ctl'.active = ctl.active /\ ctl'.remaining = ctl.remaining
      BY <2>2, <2>3, SignalledWords
    <2>5. OneShotWords
      BY <2>1, <2>4, Domains, SameWords
    <2>6. StepLock(a, "stopEnds")
      BY <2>1 DEF StepLock, Taking, Giving
    <2> QED BY <2>1, <2>5, <2>6, QuietAdvance
  <1>5. CASE C!Sets(a, "streamingOff", [ctl EXCEPT !.streaming = FALSE])
    BY <1>5, Domains, SetsKeeps DEF CtlFields, Others
  <1>6. CASE C!Sets(a, "workerOff", [ctl EXCEPT !.worker = FALSE])
    BY <1>6, Domains, SetsKeeps DEF CtlFields, Others
  <1>7. CASE C!Sets(a, "requestStop", [ctl EXCEPT !.stopRequested = TRUE])
    BY <1>7, Domains, SetsKeeps DEF CtlFields, Others
  <1>8. CASE C!Sets(a, "stopActive", [ctl EXCEPT !.stopActive = TRUE])
    BY <1>8, Domains, SetsKeeps DEF CtlFields, Others
  <1> QED BY <1>1, <1>2, <1>3, <1>4, <1>5, <1>6, <1>7, <1>8 DEF C!Engine

LEMMA FlushKeeps ==
    ASSUME AloneInv, NEW a \in C!Actors, C!Flush(a)
    PROVE  AloneInv'
  <1>1. PICK x \in {"flushWork", "flushStop"} : C!At(a, x)
    BY DEF C!Flush
  <1>2. C!Advance(a) /\ ctl' = ctl /\ lock' = lock /\ past' = past
    BY DEF C!Flush, C!OnlyControl
  <1>3. OneShotWords /\ StepLock(a, x)
    BY <1>1, <1>2, Domains, SameWords DEF StepLock, Taking, Giving
  <1> QED BY <1>1, <1>2, <1>3, QuietAdvance

\* Consumed takes one operation from what was armed, and nothing else.
LEMMA ConsumedWords ==
    ASSUME AloneInv, ctl.remaining > 0
    PROVE  /\ DOMAIN C!Consumed(ctl) = CtlFields /\ C!Consumed(ctl).oneShot = ctl.oneShot
           /\ C!Consumed(ctl).engine = ctl.engine /\ C!Consumed(ctl).active = ctl.active
           /\ C!Consumed(ctl).remaining = ctl.remaining - 1 /\ ctl.remaining - 1 \in Nat
  BY Domains DEF C!Consumed, CtlFields

LEMMA ConsumeKeeps ==
    ASSUME AloneInv, NEW a \in C!Actors, NEW x \in Others, NEW phase, C!Consume(a, x, phase)
    PROVE  AloneInv'
  <1>1. C!At(a, x) /\ lock' = lock /\ x \notin Alone /\ x \notin Holding
    BY DEF C!Consume, Others, Alone, OneShotSteps, Holding, Keeping, Giving
  <1>2. CASE /\ C!Authorised(phase) /\ ctl' = C!Consumed(ctl)
             /\ past' = [past EXCEPT !.credit = @ - 1] /\ C!Advance(a)
    <2>1. /\ DOMAIN ctl' = CtlFields /\ ctl'.oneShot = ctl.oneShot
          /\ ctl'.engine = ctl.engine /\ ctl'.active = ctl.active
          /\ ctl'.remaining = ctl.remaining - 1 /\ ctl.remaining - 1 \in Nat
      BY <1>2, ConsumedWords DEF C!Authorised
    <2>2. /\ DOMAIN past' = {"stale", "abandoned", "credit", "unlike"}
          /\ past'.credit = past.credit - 1
      BY <1>2, Domains
    <2>3. OneShotWords
      BY <1>1, <2>1, <2>2, Domains, TransferMeans DEF OneShotWords, WordsTyped
    <2>4. StepLock(a, x) /\ x \notin {"beginOneShot", "checkOneShot", "endOneShot"}
      BY <1>1 DEF StepLock, Others, Taking, Giving
    <2> QED BY <1>1, <1>2, <2>3, <2>4, QuietAdvance
  <1>3. CASE C!Continue(a, <<>>) /\ UNCHANGED <<ctl, past>>
    <2>1. OneShotWords /\ lock'.purge = lock.purge
      BY <1>1, <1>3, Domains, SameWords
    <2> QED BY <1>1, <1>3, <2>1, EmptyScript, QuietContinue DEF PlainOne
  <1> QED BY <1>2, <1>3 DEF C!Consume

LEMMA ArmKeeps ==
    ASSUME AloneInv, NEW a \in C!Actors, C!CheckArm(a) \/ C!Arm(a) \/ C!Disarm(a)
    PROVE  AloneInv'
  <1>1. CASE C!CheckArm(a)
    <2>1. C!At(a, "checkArm") /\ ctl' = ctl /\ lock' = lock /\ past' = past
          /\ "checkArm" \notin Alone /\ "checkArm" \notin Holding
      BY <1>1 DEF C!CheckArm, C!OnlyControl, Alone, OneShotSteps, Holding, Keeping, Giving
    <2>2. OneShotWords /\ lock'.purge = lock.purge
      BY <2>1, Domains, SameWords
    <2>3. CASE C!Continue(a, C!Rest(a))
      <3>1. C!Advance(a)
        BY <2>3 DEF C!Advance
      <3>2. StepLock(a, "checkArm")
        BY <2>2 DEF StepLock, Taking, Giving
      <3> QED BY <2>1, <2>2, <3>1, <3>2, QuietAdvance
    <2>4. CASE C!Continue(a, <<>>)
      BY <2>1, <2>2, <2>4, EmptyScript, QuietContinue DEF PlainOne
    <2> QED BY <1>1, <2>3, <2>4 DEF C!CheckArm
  <1>2. CASE C!Arm(a)
    <2>1. /\ C!At(a, "arm") /\ lock' = lock /\ C!Advance(a)
          /\ ctl' = [ctl EXCEPT !.remaining = 1, !.phase = task[a].phase]
          /\ past' = [past EXCEPT !.credit = @ + 1]
      BY <1>2 DEF C!Arm
    <2>2. OneShotWords
      BY <2>1, Domains, TransferMeans DEF OneShotWords, WordsTyped, CtlFields
    <2>3. StepLock(a, "arm")
      BY <2>1 DEF StepLock, Taking, Giving
    <2> QED BY <2>1, <2>2, <2>3, QuietAdvance
  <1>3. CASE C!Disarm(a)
    <2>1. /\ C!At(a, "disarm") /\ C!Advance(a) /\ past' = past /\ lock.purge = "none"
          /\ lock' = [lock EXCEPT !.purge = a]
          /\ ctl' = [ctl EXCEPT !.phase = "none", !.remaining = 0, !.stopRequested = TRUE]
      BY <1>3 DEF C!Disarm, C!OnlyControl, C!Free, C!Take
    <2>2. OneShotWords
      BY <2>1, Domains, TransferMeans DEF OneShotWords, WordsTyped, CtlFields
    <2>3. StepLock(a, "disarm")
      BY <2>1, Domains DEF StepLock, Keeping, Others, Giving
    <2> QED BY <2>1, <2>2, <2>3, QuietAdvance
  <1> QED BY <1>1, <1>2, <1>3

\* A one-shot operation announces itself, is checked, transfers and ends.
LEMMA OneShotKeeps ==
    ASSUME AloneInv, NEW a \in C!Actors,
           C!BeginOneShot(a) \/ C!CheckOneShot(a) \/ C!EndsOneShot(a)
           \/ C!CaptureIsoSnapshot(a) \/ C!SendIsoOutputBuffer(a)
    PROVE  AloneInv'
  <1> DEFINE s == task[a].steps
             u == C!Rest(a)
             t == C!WithSteps(task[a], u)
  <1>1. PICK x \in {"beginOneShot", "checkOneShot", "capture", "output", "endOneShot"} : C!At(a, x)
    BY DEF C!BeginOneShot, C!CheckOneShot, C!EndsOneShot, C!CaptureIsoSnapshot, C!SendIsoOutputBuffer, C!Transfer
  <1>2. /\ DOMAIN task[a] = TaskFields /\ IsScript(s) /\ s # <<>> /\ Head(s) = x
        /\ IsScript(u) /\ (Configures(u) => task[a].op \in {"apply", "run", "start"})
        /\ (u # <<>> => Joined(x, Head(u)) /\ (EndsAlone(u) <=> EndsAlone(s)))
        /\ (u = <<>> => /\ x \notin Unfinished
                        /\ (EndsAlone(s) <=> x = "endOneShot"))
        /\ (EndsAlone(s) => x \in Alone /\ a = "ioctl")
        /\ (x \in {"beginOneShot", "checkOneShot", "capture", "output"} => EndsAlone(s))
        /\ (lock.purge = a <=> x \in Holding)
        /\ (a = "ioctl" => (ctl.oneShot <=> EndsAlone(s) /\ x # "beginOneShot"))
    BY <1>1, Stands
  <1>3. /\ (x = "endOneShot" => u = <<>>)
        /\ (x # "endOneShot" => u # <<>> /\ EndsAlone(u) /\ a = "ioctl")
    BY <1>2 DEF Joined, Unfinished, Keeping, Taking
  <1>4. x = "endOneShot" => EndsAlone(s) /\ a = "ioctl"
    BY <1>2, <1>3
  <1>5. IsTask(t) /\ t.steps = u
    <2> HIDE DEF u
    <2> QED BY <1>2, OtherSteps
  <1>6. C!Advance(a) <=> task' = [task EXCEPT ![a] = t]
    BY DEF C!Advance, C!Continue
  <1> HIDE DEF t
  <1>7. CASE C!BeginOneShot(a)
    <2>1. /\ C!At(a, "beginOneShot") /\ C!Advance(a) /\ past' = past /\ lock.purge = "none"
          /\ lock' = [lock EXCEPT !.purge = a] /\ ctl' = [ctl EXCEPT !.oneShot = TRUE]
      BY <1>7 DEF C!BeginOneShot, C!OnlyControl, C!Free, C!Take
    <2>2. x = "beginOneShot"
      BY <1>2, <2>1 DEF C!At
    <2>3. Head(u) = "checkOneShot" /\ u # <<>> /\ EndsAlone(u) /\ a = "ioctl"
      BY <1>2, <1>3, <2>2 DEF Joined
    <2>4. ScriptHolds(u) /\ ScriptAlone(u) /\ ~ScriptTransfers(u)
      BY <2>3 DEF ScriptHolds, ScriptAlone, ScriptTransfers, Holding, Keeping
    <2>5. LockFollows(a, u)
      BY <2>1, <2>4, Domains DEF LockFollows
    <2>6. WordsTyped /\ ctl'.oneShot = TRUE
      BY <2>1, Domains DEF WordsTyped, CtlFields
    <2> QED BY <1>5, <1>6, <2>1, <2>3, <2>4, <2>5, <2>6, ThreadMoves
  <1>8. CASE C!CheckOneShot(a)
    <2>1. C!At(a, "checkOneShot")
      BY <1>8 DEF C!CheckOneShot
    <2>2. x = "checkOneShot"
      BY <1>2, <2>1 DEF C!At
    <2>3. u # <<>> /\ EndsAlone(u) /\ a = "ioctl" /\ lock.purge = a /\ ctl.oneShot
      BY <1>2, <1>3, <2>2 DEF Holding, Keeping
    <2>4. CASE /\ C!TransportIsIdle /\ C!Authorised(task[a].phase) /\ ctl' = C!Consumed(ctl)
               /\ past' = [past EXCEPT !.credit = @ - 1] /\ C!Advance(a) /\ UNCHANGED lock
      <3>1. /\ DOMAIN ctl' = CtlFields /\ ctl'.oneShot = ctl.oneShot
            /\ ctl'.engine = "Stopped" /\ ~ctl'.active
            /\ ctl'.remaining = ctl.remaining - 1 /\ ctl.remaining - 1 \in Nat
        BY <2>4, ConsumedWords DEF C!Authorised, C!TransportIsIdle
      <3>2. /\ DOMAIN past' = {"stale", "abandoned", "credit", "unlike"}
            /\ past'.credit = past.credit - 1
        BY <2>4, Domains
      <3>3. WordsTyped
        BY <2>4, <3>1, <3>2, Domains DEF WordsTyped
      <3>4. ScriptHolds(u) /\ ScriptAlone(u)
        BY <1>2, <2>2, <2>3 DEF ScriptHolds, ScriptAlone, Joined, Keeping
      <3>5. LockFollows(a, u)
        BY <1>2, <2>2, <2>4, <3>4 DEF LockFollows, ScriptHolds, Holding, Keeping
      <3> QED BY <1>5, <1>6, <2>3, <2>4, <3>1, <3>3, <3>4, <3>5, ThreadMoves
    <2>5. CASE /\ ctl' = [ctl EXCEPT !.oneShot = FALSE] /\ C!Give("purge")
               /\ C!Continue(a, <<>>) /\ UNCHANGED past
      <3> DEFINE z == C!WithSteps(task[a], <<>>)
      <3>1. IsTask(z) /\ z.steps = <<>>
        BY <1>2, EmptyScript, OtherSteps
      <3>2. task' = [task EXCEPT ![a] = z]
        BY <2>5 DEF C!Continue
      <3> HIDE DEF z
      <3>3. lock' = [lock EXCEPT !.purge = "none"]
        BY <2>5 DEF C!Give
      <3>4. WordsTyped /\ ctl'.oneShot = FALSE /\ lock'.purge = "none"
        BY <2>5, <3>3, Domains DEF WordsTyped, CtlFields
      <3>5. LockFollows(a, z.steps)
        BY <2>3, <3>1, <3>4, EmptyScript DEF LockFollows
      <3> QED BY <2>3, <3>1, <3>2, <3>4, <3>5, EmptyScript, ThreadMoves
    <2> QED BY <1>8, <2>4, <2>5 DEF C!CheckOneShot
  <1>9. CASE C!EndsOneShot(a)
    <2>1. /\ C!At(a, "endOneShot") /\ C!Advance(a) /\ past' = past
          /\ lock' = [lock EXCEPT !.purge = "none"] /\ ctl' = [ctl EXCEPT !.oneShot = FALSE]
      BY <1>9 DEF C!EndsOneShot, C!OnlyControl, C!Give
    <2>2. x = "endOneShot"
      BY <1>2, <2>1 DEF C!At
    <2>3. u = <<>> /\ a = "ioctl" /\ lock.purge = a
      BY <1>2, <1>3, <1>4, <2>2 DEF Holding, Giving
    <2>4. ~ScriptHolds(u) /\ ~ScriptAlone(u) /\ ~ScriptTransfers(u) /\ ~EndsAlone(u)
      <3>1. u = <<>>
        BY <2>3
      <3> HIDE DEF u
      <3> QED BY <3>1, EmptyScript
    <2>5. WordsTyped /\ ctl'.oneShot = FALSE /\ lock'.purge = "none"
      BY <2>1, Domains DEF WordsTyped, CtlFields
    <2>6. LockFollows(a, u)
      BY <2>3, <2>4, <2>5 DEF LockFollows
    <2> QED BY <1>5, <1>6, <2>1, <2>3, <2>4, <2>5, <2>6, ThreadMoves
  <1>10. CASE C!CaptureIsoSnapshot(a) \/ C!SendIsoOutputBuffer(a)
    <2>1. /\ C!At(a, "capture") \/ C!At(a, "output")
          /\ C!Advance(a) \/ C!Continue(a, C!EndOneShot)
          /\ ctl' = ctl /\ lock' = lock /\ past' = past
      BY <1>10 DEF C!CaptureIsoSnapshot, C!SendIsoOutputBuffer, C!Transfer
    <2>2. x \in {"capture", "output"}
      BY <1>2, <2>1 DEF C!At
    <2>3. OneShotWords
      BY <2>1, Domains, SameWords
    <2>4. CASE C!Advance(a)
      <3>1. StepLock(a, x)
        BY <2>1, <2>2 DEF StepLock, Taking, Giving
      <3> QED BY <1>1, <2>2, <2>3, <2>4, <3>1, QuietAdvance
    <2>5. CASE C!Continue(a, C!EndOneShot)
      <3> DEFINE z == C!WithSteps(task[a], C!EndOneShot)
      <3>1. /\ IsScript(C!EndOneShot) /\ EndsAlone(C!EndOneShot) /\ First(C!EndOneShot) = "purge"
            /\ C!EndOneShot # <<>>
        BY EndOneShotScript, EmptyScript DEF AloneOne
      <3>2. Head(C!EndOneShot) = "purge"
        BY <3>1 DEF First, IsScript
      <3>3. ~Configures(C!EndOneShot)
        <4>1. \A i \in 1 .. Len(C!EndOneShot) : C!EndOneShot[i] \in OneShotSteps \cup {"beginOneShot"}
          BY <3>1 DEF IsScript
        <4> QED BY <4>1 DEF Configures, Configuring, OneShotSteps
      <3>4. IsTask(z) /\ z.steps = C!EndOneShot
        BY <1>2, <3>1, <3>3, OtherSteps
      <3>5. task' = [task EXCEPT ![a] = z]
        BY <2>5 DEF C!Continue
      <3> HIDE DEF z
      <3>6. ScriptHolds(z.steps) /\ ScriptAlone(z.steps) /\ ~ScriptTransfers(z.steps)
        BY <3>1, <3>2, <3>4 DEF ScriptHolds, ScriptAlone, ScriptTransfers, Holding, Keeping
      <3>7. ScriptHolds(s) /\ ScriptAlone(s) /\ a = "ioctl"
        BY <1>2, <2>2 DEF ScriptHolds, ScriptAlone, Holding, Keeping
      <3>8. LockFollows(a, z.steps)
        BY <2>1, <3>6, <3>7 DEF LockFollows
      <3> QED BY <2>3, <3>4, <3>5, <3>6, <3>7, <3>8, QuietMove
    <2> QED BY <2>1, <2>4, <2>5
  <1> QED BY <1>7, <1>8, <1>9, <1>10

LEMMA CanaryKeeps ==
    ASSUME AloneInv, NEW a \in C!Actors, C!Canary(a)
    PROVE  AloneInv'
  <1>1. "consumeRead" \in Others /\ "consumeStreaming" \in Others
    BY DEF Others
  <1> QED BY <1>1, ConsumeKeeps, ArmKeeps, OneShotKeeps DEF C!Canary

\* The last step of a thread that holds the lock gives it back.
LEMMA LastKeeps ==
    ASSUME AloneInv, NEW a \in C!Actors, NEW x \in Giving \ {"endOneShot"}, NEW w, C!Last(a, x, w),
           DOMAIN w = CtlFields, w.oneShot = ctl.oneShot, w.remaining = ctl.remaining
    PROVE  AloneInv'
  <1>1. /\ C!At(a, x) /\ ctl' = w /\ C!Advance(a) /\ past' = past
        /\ lock' = [lock EXCEPT !.purge = "none"]
    BY DEF C!Last, C!Give, C!OnlyControl
  <1>2. x \in Holding \ {"capture", "output"}
    BY DEF Holding, Giving
  <1>3. ~ScriptTransfers(task["ioctl"].steps)
    BY <1>1, <1>2, TransferMeans
  <1>4. OneShotWords
    BY <1>1, <1>3, Domains DEF OneShotWords, WordsTyped
  <1>5. StepLock(a, x) /\ x \notin {"beginOneShot", "checkOneShot", "endOneShot"}
    BY <1>1, Domains DEF StepLock, Giving, Keeping, Others, Taking
  <1> QED BY <1>1, <1>4, <1>5, QuietAdvance

\* A thread that ends where it does not hold the lock.
LEMMA EndKeeps ==
    ASSUME AloneInv, NEW a \in C!Actors, NEW x \in (Others \cup Taking) \ {"beginOneShot"}, C!At(a, x),
           C!Continue(a, <<>>), lock' = lock, OneShotWords
    PROVE  AloneInv'
  <1>1. x \notin Alone /\ x \notin Holding
    BY DEF Others, Taking, Alone, OneShotSteps, Holding, Keeping, Giving
  <1> QED BY <1>1, EmptyScript, QuietContinue DEF PlainOne

\* A request or callback that takes the lock and notes the rate to configure.
LEMMA ClaimsKeeps ==
    ASSUME AloneInv, NEW a \in C!Actors, NEW x \in Taking \ {"beginOneShot"}, C!At(a, x),
           C!Take("purge", a), lock.purge = "none", NEW r,
           task' = [task EXCEPT ![a].steps = C!Rest(a), ![a].rate = r], OneShotWords
    PROVE  AloneInv'
  <1> DEFINE t == [task[a] EXCEPT !.steps = C!Rest(a), !.rate = r]
  <1>1. task' = [task EXCEPT ![a] = t]
    BY Domains
  <1>2. DOMAIN t = TaskFields /\ t.op = task[a].op /\ t.steps = C!Rest(a)
    BY Domains DEF TaskFields
  <1>3. IsScript(C!Rest(a)) /\ (Configures(C!Rest(a)) => task[a].op \in {"apply", "run", "start"})
    BY Stands
  <1> HIDE DEF t
  <1>4. IsTask(t)
    BY <1>2, <1>3 DEF IsTask
  <1>5. lock' = [lock EXCEPT !.purge = a]
    BY DEF C!Take
  <1>6. StepLock(a, x) /\ x \notin {"beginOneShot", "checkOneShot", "endOneShot"}
    BY <1>5, Domains DEF StepLock, Taking, Keeping, Others, Giving
  <1> QED BY <1>1, <1>2, <1>4, <1>6, QuietGoesOn

LEMMA RequestKeeps ==
    ASSUME AloneInv, NEW a \in C!Actors, C!Request(a)
    PROVE  AloneInv'
  <1>1. CASE C!StoreControlState(a)
    <2> DEFINE lifts == task[a].control.lift # ctl.raw.lift
    <2>1. /\ C!At(a, "store") /\ lock' = lock /\ past' = past /\ "store" \in Others
          /\ ctl' \in {ctl, [ctl EXCEPT !.mismatch = lifts]}
      BY <1>1 DEF C!StoreControlState, C!OnlyControl, Others
    <2> HIDE DEF lifts
    <2>2. OneShotWords /\ StepLock(a, "store")
      BY <2>1, Domains, SameWords DEF CtlFields, StepLock, Taking, Giving
    <2>3. CASE C!Continue(a, C!Rest(a))
      BY <2>1, <2>2, <2>3, QuietAdvance DEF C!Advance
    <2>4. CASE C!Continue(a, <<>>)
      BY <2>1, <2>2, <2>4, EndKeeps DEF Taking
    <2> QED BY <1>1, <2>3, <2>4 DEF C!StoreControlState
  <1>2. CASE C!Refresh(a)
    <2> DEFINE p == [task[a] EXCEPT !.control.lift = task[a].got.content.lift, !.got = C!NoReply]
               t == C!WithSteps(p, C!Rest(a))
    <2>1. /\ C!At(a, "refresh") /\ lock' = lock /\ past' = [past EXCEPT !.unlike = FALSE]
          /\ task' = [task EXCEPT ![a] = t] /\ ctl' = [ctl EXCEPT !.raw = task[a].got.content]
      BY <1>2 DEF C!Refresh
    <2>2. DOMAIN p = TaskFields /\ p.op = task[a].op
      BY Domains DEF TaskFields
    <2>3. IsScript(C!Rest(a)) /\ (Configures(C!Rest(a)) => task[a].op \in {"apply", "run", "start"})
      BY <2>1, Stands
    <2> HIDE DEF p
    <2>4. IsTask(t) /\ t.steps = C!Rest(a)
      BY <2>2, <2>3, OtherSteps
    <2> HIDE DEF t
    <2>5. OneShotWords /\ StepLock(a, "refresh")
      BY <2>1, Domains, SameWords DEF CtlFields, StepLock, Taking, Giving
    <2> QED BY <2>1, <2>4, <2>5, QuietGoesOn
  <1>3. CASE C!Confirm(a)
    <2> DEFINE alike == task[a].got.content = task[a].control
               raw == task[a].control
    <2>1. /\ C!At(a, "confirm") /\ C!Advance(a) /\ lock' = lock
          /\ past' = [past EXCEPT !.unlike = ~alike]
      BY <1>3 DEF C!Confirm
    <2>2. ctl' \in {[ctl EXCEPT !.raw = raw], [ctl EXCEPT !.mismatch = TRUE]}
      BY <1>3 DEF C!Confirm
    <2> HIDE DEF alike, raw
    <2>3. OneShotWords /\ StepLock(a, "confirm")
      BY <2>1, <2>2, Domains, SameWords DEF CtlFields, StepLock, Taking, Giving
    <2> QED BY <2>1, <2>3, QuietAdvance
  <1>4. CASE C!CheckFormat(a)
    <2>1. C!At(a, "checkFormat") /\ lock' = lock /\ past' = past /\ "checkFormat" \in Others
      BY <1>4 DEF C!CheckFormat, C!OnlyControl, Others
    <2>2. CASE C!Continue(a, <<>>) /\ UNCHANGED ctl
      <3>1. OneShotWords
        BY <2>1, <2>2, Domains, SameWords
      <3> QED BY <2>1, <2>2, <3>1, EndKeeps DEF Taking
    <2>3. CASE C!Advance(a) /\ ctl' = [ctl EXCEPT !.format = task[a].rate]
      <3>1. OneShotWords /\ StepLock(a, "checkFormat")
        BY <2>1, <2>3, Domains, SameWords DEF CtlFields, StepLock, Taking, Giving
      <3> QED BY <2>1, <2>3, <3>1, QuietAdvance
    <2> QED BY <1>4, <2>2, <2>3 DEF C!CheckFormat
  <1>5. CASE C!Isolate(a)
    <2>1. C!At(a, "isolate") /\ ctl' = ctl /\ past' = past /\ lock.purge = "none"
          /\ "isolate" \in Taking \ {"beginOneShot"}
      BY <1>5 DEF C!Isolate, C!OnlyControl, C!Free, Taking
    <2>2. DOMAIN lock' = {"purge", "bulk", "config"} => OneShotWords
      BY <2>1, Domains, SameWords
    <2>3. CASE /\ C!Take("purge", a)
               /\ task' = [task EXCEPT ![a].steps = C!Rest(a), ![a].rate = ctl.format]
      <3>1. DOMAIN lock' = {"purge", "bulk", "config"}
        BY <2>3, Domains DEF C!Take
      <3> QED BY <2>1, <2>2, <2>3, <3>1, ClaimsKeeps
    <2>4. CASE C!Continue(a, <<>>) /\ UNCHANGED lock
      BY <2>1, <2>2, <2>4, Domains, EndKeeps
    <2> QED BY <1>5, <2>3, <2>4 DEF C!Isolate
  <1>6. CASE C!Claim(a)
    <2>1. C!At(a, "claim") /\ past' = past /\ lock.purge = "none"
          /\ "claim" \in Taking \ {"beginOneShot"}
      BY <1>6 DEF C!Claim, C!OnlyControl, C!Free, Taking
    <2>2. CASE /\ C!Take("purge", a)
               /\ ctl' = [ctl EXCEPT !.worker = TRUE, !.stopRequested = FALSE]
               /\ task' = [task EXCEPT ![a].steps = C!Rest(a), ![a].rate = ctl.format]
      <3>1. DOMAIN lock' = {"purge", "bulk", "config"}
        BY <2>2, Domains DEF C!Take
      <3>2. OneShotWords
        BY <2>1, <2>2, <3>1, Domains, SameWords DEF CtlFields
      <3> QED BY <2>1, <2>2, <3>2, ClaimsKeeps
    <2>3. CASE /\ ctl' = [ctl EXCEPT !.streaming = ~ctl.oneShot /\ ctl.prepared /\ ~ctl.stopRequested]
               /\ C!Continue(a, <<>>) /\ UNCHANGED lock
      <3>1. OneShotWords
        BY <2>1, <2>3, Domains, SameWords DEF CtlFields
      <3> QED BY <2>1, <2>3, <3>1, EndKeeps
    <2> QED BY <1>6, <2>2, <2>3 DEF C!Claim
  <1>7. CASE C!Halt(a)
    <2>1. /\ C!At(a, "halt") /\ past' = past /\ lock.purge = "none" /\ C!Advance(a)
          /\ lock' = [lock EXCEPT !.purge = a] /\ ctl' = [ctl EXCEPT !.stopRequested = TRUE]
      BY <1>7 DEF C!Halt, C!OnlyControl, C!Free, C!Take
    <2>2. OneShotWords /\ StepLock(a, "halt")
      BY <2>1, Domains, SameWords DEF CtlFields, StepLock, Keeping, Others, Giving
    <2> QED BY <2>1, <2>2, QuietAdvance
  <1>8. CASE C!Last(a, "unlockPurge", ctl)
    BY <1>8, Domains, LastKeeps DEF Giving
  <1>9. CASE C!Last(a, "stream", [ctl EXCEPT !.streaming = TRUE, !.stopRequested = FALSE,
                                          !.queued = TRUE])
    BY <1>9, Domains, LastKeeps DEF Giving, CtlFields
  <1>10. CASE C!Last(a, "rollback", [ctl EXCEPT !.streaming = FALSE, !.stopRequested = TRUE,
                                             !.worker = FALSE])
    BY <1>10, Domains, LastKeeps DEF Giving, CtlFields
  <1>11. CASE C!Sets(a, "stopped", [ctl EXCEPT !.streaming = FALSE,
                                            !.stopRequested = @ /\ ctl.worker])
    BY <1>11, Domains, SetsKeeps DEF Others, CtlFields
  <1> QED BY <1>1, <1>2, <1>3, <1>4, <1>5, <1>6, <1>7, <1>8, <1>9, <1>10, <1>11 DEF C!Request

LEMMA CallbackKeeps ==
    ASSUME AloneInv, NEW a \in C!Actors, C!Callback(a)
    PROVE  AloneInv'
  <1>1. CASE C!Run(a)
    <2>1. C!At(a, "run") /\ ctl' = ctl /\ past' = past /\ lock.purge = "none"
          /\ "run" \in Taking \ {"beginOneShot"}
      BY <1>1 DEF C!Run, C!OnlyControl, C!Free, Taking
    <2>2. CASE C!Take("purge", a) /\ C!Advance(a)
      <3>1. lock' = [lock EXCEPT !.purge = a]
        BY <2>2 DEF C!Take
      <3>2. OneShotWords /\ StepLock(a, "run")
        BY <2>1, <3>1, Domains, SameWords DEF StepLock, Keeping, Others, Giving
      <3> QED BY <2>1, <2>2, <3>2, QuietAdvance
    <2>3. CASE C!Continue(a, <<>>) /\ UNCHANGED lock
      <3>1. OneShotWords
        BY <2>1, <2>3, Domains, SameWords
      <3> QED BY <2>1, <2>3, <3>1, EndKeeps
    <2> QED BY <1>1, <2>2, <2>3 DEF C!Run
  <1>2. CASE C!Revoke(a)
    <2>1. /\ C!At(a, "revoke") /\ past' = past /\ lock.purge = "none" /\ C!Advance(a)
          /\ lock' = [lock EXCEPT !.purge = a]
          /\ ctl' = [ctl EXCEPT !.prepared = FALSE, !.stopRequested = TRUE,
                                !.phase = "none", !.remaining = 0]
      BY <1>2 DEF C!Revoke, C!OnlyControl, C!Free, C!Take
    <2>2. OneShotWords
      BY <2>1, Domains, TransferMeans DEF OneShotWords, WordsTyped, CtlFields
    <2>3. StepLock(a, "revoke")
      BY <2>1, Domains DEF StepLock, Keeping, Others, Giving
    <2> QED BY <2>1, <2>2, <2>3, QuietAdvance
  <1>3. CASE C!StopPipes(a)
    <2>1. C!At(a, "stopPipes") /\ ctl' = ctl /\ past' = past /\ lock' = lock /\ C!Advance(a)
      BY <1>3 DEF C!StopPipes
    <2>2. OneShotWords /\ StepLock(a, "stopPipes")
      BY <2>1, Domains, SameWords DEF StepLock, Taking, Giving
    <2> QED BY <2>1, <2>2, QuietAdvance
  <1>4. CASE C!Last(a, "activate", C!Activated)
    <2> DEFINE w == C!Activated
    <2>1. DOMAIN w = CtlFields /\ w.oneShot = ctl.oneShot /\ w.remaining = ctl.remaining
      BY Domains DEF C!Activated, CtlFields
    <2> HIDE DEF w
    <2>2. C!Last(a, "activate", w)
      BY <1>4 DEF w
    <2> QED BY <2>1, <2>2, LastKeeps DEF Giving
  <1>5. CASE C!Sets(a, "inactive", [ctl EXCEPT !.active = FALSE])
    BY <1>5, Domains, SetsKeeps DEF Others, CtlFields
  <1>6. CASE C!Sets(a, "forget", [ctl EXCEPT !.active = FALSE])
    BY <1>6, Domains, SetsKeeps DEF Others, CtlFields
  <1> QED BY <1>1, <1>2, <1>3, <1>4, <1>5, <1>6 DEF C!Callback

\* A thread that rests begins its script, with no lock.
CtlWordsStand ==
    /\ DOMAIN ctl' = CtlFields /\ ctl'.oneShot = ctl.oneShot /\ ctl'.engine = ctl.engine
    /\ ctl'.active => ctl.active
    /\ ctl'.remaining = ctl.remaining

LEMMA StartsKeeps ==
    ASSUME AloneInv, NEW a \in C!Actors, C!IsResting(a), NEW t, task' = [task EXCEPT ![a] = t],
           DOMAIN t = TaskFields,
           PlainOne(t.steps) \/ (a = "ioctl" /\ AloneOne(t.steps) /\ First(t.steps) = "beginOneShot"),
           First(t.steps) \notin Holding,
           Configures(t.steps) => t.op \in {"apply", "run", "start"},
           lock' = lock, past' = past, CtlWordsStand
    PROVE  AloneInv'
  <1>1. IsTask(t) /\ (EndsAlone(t.steps) => a = "ioctl")
    BY DEF PlainOne, AloneOne, IsTask
  <1>2. OneShotWords
    BY Domains, SameWords DEF CtlWordsStand
  <1>3. IsScript(t.steps) /\ (t.steps # <<>> => Head(t.steps) = First(t.steps))
    BY <1>1 DEF IsTask, IsScript, First
  <1>4. ~ScriptHolds(t.steps) /\ ~ScriptHolds(task[a].steps) /\ ~ScriptAlone(task[a].steps)
    BY <1>3, EmptyScript DEF ScriptHolds, C!IsResting
  <1>5. ~ScriptAlone(t.steps)
    BY <1>3 DEF ScriptAlone, PlainOne, AloneOne, EndsAlone
  <1>6. ~ScriptTransfers(t.steps)
    BY <1>3 DEF ScriptTransfers, Holding, Keeping
  <1>7. LockFollows(a, t.steps)
    BY <1>4 DEF LockFollows
  <1> QED BY <1>1, <1>2, <1>4, <1>5, <1>6, <1>7, QuietMove

LEMMA BeginsKeeps ==
    ASSUME AloneInv, NEW a \in C!Actors, NEW op, NEW r, DOMAIN r = TaskFields, C!Begins(a, op, r),
           NEW s, s = C!Script[op],
           PlainOne(s) \/ (a = "ioctl" /\ AloneOne(s) /\ First(s) = "beginOneShot"),
           First(s) \notin Holding,
           Configures(s) => op \in {"apply", "run", "start"},
           lock' = lock, past' = past, CtlWordsStand
    PROVE  AloneInv'
  <1> DEFINE t == [r EXCEPT !.op = op, !.steps = s]
  <1>1. C!IsResting(a) /\ task' = [task EXCEPT ![a] = t]
    BY DEF C!Begins
  <1>2. DOMAIN t = TaskFields /\ t.op = op /\ t.steps = s
    BY DEF TaskFields
  <1> HIDE DEF t
  <1> QED BY <1>1, <1>2, StartsKeeps

LEMMA RequestArrivesKeeps ==
    ASSUME AloneInv, C!RequestArrives
    PROVE  AloneInv'
  <1>1. ctl' = ctl /\ lock' = lock /\ past' = past /\ "ioctl" \in C!Actors
    BY DEF C!RequestArrives, C!Actors
  <1>2. CtlWordsStand
    BY <1>1, Domains DEF CtlWordsStand
  <1>3. \A c, m, r, p :
           /\ DOMAIN C!Resting = TaskFields /\ DOMAIN [C!Resting EXCEPT !.control = c] = TaskFields
           /\ DOMAIN [C!Resting EXCEPT !.control.mode = m] = TaskFields
           /\ DOMAIN [C!Resting EXCEPT !.rate = r] = TaskFields
           /\ DOMAIN [C!Resting EXCEPT !.phase = p] = TaskFields
    BY DEF C!Resting, TaskFields
  <1>4. /\ {"auto", "consumeRead", "consumeStreaming", "halt", "disarm"} \cap Holding = {}
        /\ {"store", "checkFormat", "checkArm", "beginOneShot"} \cap Holding = {}
    BY DEF Holding, Keeping, Giving
  <1>5. \A op \in {"get", "apply", "start", "stop", "disarm", "set", "profile", "format", "arm"} :
           /\ PlainOne(C!Script[op]) /\ First(C!Script[op]) \notin Holding
           /\ Configures(C!Script[op]) => op \in {"apply", "run", "start"}
    BY <1>4, ScriptGet, ScriptApply, ScriptStart, ScriptStop, ScriptDisarm, ScriptSet,
       ScriptProfile, ScriptFormat, ScriptArm
  <1>6. \A op \in {"snapshot", "pulse", "burst"} :
           /\ AloneOne(C!Script[op]) /\ First(C!Script[op]) = "beginOneShot"
           /\ First(C!Script[op]) \notin Holding /\ ~Configures(C!Script[op])
    <2>1. \A s : AloneOne(s) => ~Configures(s)
      BY DEF AloneOne, IsScript, Configures, Configuring, OneShotSteps
    <2> QED BY <1>4, <2>1, ScriptSnapshot, ScriptPulse, ScriptBurst
  <1>7. CASE \E op \in {"get", "apply", "start", "stop", "disarm"} : C!Begins("ioctl", op, C!Resting)
    BY <1>1, <1>2, <1>3, <1>5, <1>7, BeginsKeeps
  <1>8. CASE \E c \in C!Controls : C!Begins("ioctl", "set", [C!Resting EXCEPT !.control = c])
    BY <1>1, <1>2, <1>3, <1>5, <1>8, BeginsKeeps
  <1>9. CASE \E m \in Modes : C!Begins("ioctl", "profile", [C!Resting EXCEPT !.control.mode = m])
    BY <1>1, <1>2, <1>3, <1>5, <1>9, BeginsKeeps
  <1>10. CASE \E r \in Rates : C!Begins("ioctl", "format", [C!Resting EXCEPT !.rate = r])
    BY <1>1, <1>2, <1>3, <1>5, <1>10, BeginsKeeps
  <1>11. CASE \E p \in C!Phases : C!Begins("ioctl", "arm", [C!Resting EXCEPT !.phase = p])
    BY <1>1, <1>2, <1>3, <1>5, <1>11, BeginsKeeps
  <1>12. CASE C!Begins("ioctl", "snapshot", [C!Resting EXCEPT !.phase = "capture"])
    BY <1>1, <1>2, <1>3, <1>6, <1>12, BeginsKeeps
  <1>13. CASE \E op \in {"pulse", "burst"} : C!Begins("ioctl", op, [C!Resting EXCEPT !.phase = "output"])
    BY <1>1, <1>2, <1>3, <1>6, <1>13, BeginsKeeps
  <1> QED BY <1>7, <1>8, <1>9, <1>10, <1>11, <1>12, <1>13 DEF C!RequestArrives

LEMMA CallbackArrivesKeeps ==
    ASSUME AloneInv, C!CallbackArrives
    PROVE  AloneInv'
  <1>1. lock' = lock /\ past' = past /\ "acx" \in C!Actors
    BY DEF C!CallbackArrives, C!Actors
  <1>2. \A r : DOMAIN C!Resting = TaskFields /\ DOMAIN [C!Resting EXCEPT !.rate = r] = TaskFields
    BY DEF C!Resting, TaskFields
  <1>3. {"run", "inactive"} \cap Holding = {}
    BY DEF Holding, Keeping, Giving
  <1>4. \A op \in {"run", "pause", "free"} :
           /\ PlainOne(C!Script[op]) /\ First(C!Script[op]) \notin Holding
           /\ Configures(C!Script[op]) => op \in {"apply", "run", "start"}
    BY <1>3, ScriptRun, ScriptPause, ScriptFree
  <1>5. CASE (\E r \in Rates : C!Begins("acx", "run", [C!Resting EXCEPT !.rate = r])) /\ UNCHANGED ctl
    <2>1. CtlWordsStand
      BY <1>5, Domains DEF CtlWordsStand
    <2> QED BY <1>1, <1>2, <1>4, <1>5, <2>1, BeginsKeeps
  <1>6. CASE C!Begins("acx", "pause", C!Resting) /\ ctl' = [ctl EXCEPT !.acx = "paused"]
    <2>1. CtlWordsStand
      BY <1>6, Domains DEF CtlWordsStand, CtlFields
    <2> QED BY <1>1, <1>2, <1>4, <1>6, <2>1, BeginsKeeps
  <1>7. CASE C!Begins("acx", "free", C!Resting) /\ ctl' = [ctl EXCEPT !.acx = "free"]
    <2>1. CtlWordsStand
      BY <1>7, Domains DEF CtlWordsStand, CtlFields
    <2> QED BY <1>1, <1>2, <1>4, <1>7, <2>1, BeginsKeeps
  <1> QED BY <1>5, <1>6, <1>7 DEF C!CallbackArrives

LEMMA WorkKeeps ==
    ASSUME AloneInv, C!WorkBegins \/ C!StopBegins \/ C!ReleaseHardware
    PROVE  AloneInv'
  <1>1. {"look", "stopActive", "revoke"} \cap Holding = {}
    BY DEF Holding, Keeping, Giving
  <1>2. \A op \in {"work", "stopWork", "release"} :
           PlainOne(C!Script[op]) /\ First(C!Script[op]) \notin Holding /\ ~Configures(C!Script[op])
    BY <1>1, ScriptWork, ScriptStopWork, ScriptRelease
  <1>3. CASE C!WorkBegins
    <2> DEFINE s == C!Script["work"]
               t == [task["work"] EXCEPT !.op = "work", !.steps = s]
    <2>1. PlainOne(s) /\ First(s) \notin Holding /\ ~Configures(s)
      BY <1>2
    <2> HIDE DEF s
    <2>2. "work" \in C!Actors /\ task' = [task EXCEPT !["work"] = t] /\ C!IsResting("work")
          /\ DOMAIN t = TaskFields /\ t.steps = s
      BY <1>3, Domains DEF C!WorkBegins, C!Actors, TaskFields, s
    <2> HIDE DEF t
    <2>3. lock' = lock /\ past' = past /\ CtlWordsStand
      BY <1>3, Domains DEF C!WorkBegins, C!OnlyControl, CtlWordsStand, CtlFields
    <2> QED BY <2>1, <2>2, <2>3, StartsKeeps
  <1>4. CASE C!StopBegins
    <2> DEFINE s == C!Script["stopWork"]
               t == [task["stop"] EXCEPT !.op = "stopWork", !.steps = s]
    <2>1. PlainOne(s) /\ First(s) \notin Holding /\ ~Configures(s)
      BY <1>2
    <2> HIDE DEF s
    <2>2. "stop" \in C!Actors /\ task' = [task EXCEPT !["stop"] = t] /\ C!IsResting("stop")
          /\ DOMAIN t = TaskFields /\ t.steps = s
      BY <1>4, Domains DEF C!StopBegins, C!Actors, TaskFields, s
    <2> HIDE DEF t
    <2>3. lock' = lock /\ past' = past /\ CtlWordsStand
      BY <1>4, Domains DEF C!StopBegins, C!OnlyControl, CtlWordsStand, CtlFields
    <2> QED BY <2>1, <2>2, <2>3, StartsKeeps
  <1>5. CASE C!ReleaseHardware
    <2>1. lock' = lock /\ past' = past /\ "pnp" \in C!Actors /\ C!Begins("pnp", "release", C!Resting)
          /\ CtlWordsStand
      BY <1>5, Domains DEF C!ReleaseHardware, C!Actors, CtlWordsStand
    <2>2. DOMAIN C!Resting = TaskFields
      BY DEF C!Resting, TaskFields
    <2> QED BY <1>2, <2>1, <2>2, BeginsKeeps
  <1> QED BY <1>3, <1>4, <1>5

\* A step of nobody's script: the thread's words and the lock stand.
LEMMA OthersKeep ==
    ASSUME AloneInv, task' = task, lock' = lock, OneShotWords
    PROVE  AloneInv'
  <1>1. ScriptsFollowed' /\ PurgeHeld'
    BY DEF AloneInv, ScriptsFollowed, PurgeHeld, OneShotWords, WordsTyped
  <1>2. OneShotStands'
    BY DEF OneShotStands, OneShotWords, WordsTyped
  <1> QED BY <1>1, <1>2 DEF AloneInv

LEMMA DeviceKeeps ==
    ASSUME AloneInv, C!EngineFails \/ C!Ep1ReadComplete \/ C!PrepareHardware
    PROVE  AloneInv'
  <1>1. task' = task /\ lock' = lock
    BY DEF C!EngineFails, C!Ep1ReadComplete, C!PrepareHardware
  <1>2. OneShotWords
    <2>1. CASE C!EngineFails
      <3>1. ctl.engine = "Running" /\ ctl' = C!FatalStop(ctl) /\ past' = past
        BY <2>1 DEF C!EngineFails
      <3>2. ~ScriptTransfers(task["ioctl"].steps)
        BY <3>1, TransferMeans
      <3> QED BY <1>1, <3>1, <3>2, Domains DEF C!FatalStop, OneShotWords, WordsTyped, CtlFields
    <2>2. CASE C!Ep1ReadComplete
      <3> DEFINE z == past.stale \/ (ep1.pending = Head(hw.replies).command /\ Head(hw.replies).old)
      <3>1. ctl' = ctl /\ past' = [past EXCEPT !.stale = z]
        BY <2>2 DEF C!Ep1ReadComplete
      <3> HIDE DEF z
      <3> QED BY <1>1, <3>1, Domains, SameWords
    <2>3. CASE C!PrepareHardware
      <3>1. ctl' = C!Prepared /\ past' = [past EXCEPT !.credit = 0]
        BY <2>3 DEF C!PrepareHardware
      <3> QED BY <1>1, <3>1, Domains, TransferMeans DEF C!Prepared, OneShotWords, WordsTyped, CtlFields
    <2> QED BY <2>1, <2>2, <2>3
  <1> QED BY <1>1, <1>2, OthersKeep

LEMMA AloneInit ==
    ASSUME C!Init
    PROVE  AloneInv
  <1>1. \A a \in C!Actors : task[a] = C!Resting
    BY DEF C!Init
  <1>2. DOMAIN C!Resting = TaskFields /\ C!Resting.steps = <<>> /\ "ioctl" \in C!Actors
        /\ "none" \notin C!Actors
    BY DEF C!Resting, TaskFields, C!Actors
  <1>3. ScriptsFollowed
    BY <1>1, <1>2, EmptyScript DEF C!Init, ScriptsFollowed, IsTask
  <1>4. PurgeHeld
    BY <1>1, <1>2, EmptyScript DEF C!Init, PurgeHeld, CtlFields
  <1>5. OneShotStands
    BY <1>1, <1>2, EmptyScript DEF C!Init, OneShotStands
  <1> QED BY <1>3, <1>4, <1>5 DEF AloneInv

LEMMA AloneStep ==
    ASSUME AloneInv, C!Next
    PROVE  AloneInv'
  <1>1. ASSUME NEW a \in C!Actors, C!Step(a)
        PROVE  AloneInv'
    BY <1>1, BulkKeeps, ParametersKeep, EngineKeeps, FlushKeeps, CanaryKeeps, RequestKeeps,
       CallbackKeeps DEF C!Step
  <1>2. CASE C!RequestArrives
    BY <1>2, RequestArrivesKeeps
  <1>3. CASE C!CallbackArrives
    BY <1>3, CallbackArrivesKeeps
  <1>4. CASE C!WorkBegins \/ C!StopBegins \/ C!ReleaseHardware
    BY <1>4, WorkKeeps
  <1>5. CASE C!EngineFails \/ C!Ep1ReadComplete \/ C!PrepareHardware
    BY <1>5, DeviceKeeps
  <1> QED BY <1>1, <1>2, <1>3, <1>4, <1>5 DEF C!Next, C!Progress

LEMMA AloneStutter ==
    ASSUME AloneInv, UNCHANGED C!cvars
    PROVE  AloneInv'
  <1>1. task' = task /\ ctl' = ctl /\ lock' = lock /\ past' = past
    BY DEF C!cvars
  <1>2. OneShotWords
    BY <1>1, Domains, SameWords
  <1> QED BY <1>1, <1>2, OthersKeep

LEMMA AloneMeans ==
    ASSUME AloneInv
    PROVE  C!OneShotsAlone
  <1>1. C!At("ioctl", "capture") \/ C!At("ioctl", "output") => ScriptTransfers(task["ioctl"].steps)
    BY DEF C!At, ScriptTransfers
  <1>2. past.credit >= 0
    BY Domains
  <1> QED BY <1>1, <1>2, TransferMeans DEF C!OneShotsAlone
(***************************************************************************)
(* What the driver believes of the device.  Endpoint 1 has one user at a    *)
(* time, and AudioConfigLock is with the thread that is at one of the steps  *)
(* under it.                                                               *)
(***************************************************************************)
RealControls == [mode : Modes \cup {DefaultMode}, lift : {"off", "on"}]
Replies == [command : {"info", "params", "read"}, content : C!Settings \cup RealControls, old : BOOLEAN]
ReleaseSteps == {"revoke", "stopPipes", "purge", "drain", "flushWork", "flushStop", "forget",
                 "invalidate", "streamingOff"}

StartsIn(s, S) == s # <<>> /\ Head(s) \in S
Forgets(s) == \E i \in 1 .. Len(s) : s[i] = "invalidate"
Refreshes(s) == \E i \in 1 .. Len(s) : s[i] = "refresh"
AfterWrite(s) == \A i, j \in 1 .. Len(s) : s[i] = "write" /\ i < j => s[j] # "refresh"

\* Where a thread may be.
PlaceOf(a, t) ==
    /\ t.sent \in {"no", "wait", "out"} /\ t.control \in RealControls
    /\ t.sent # "no" => StartsIn(t.steps, C!Commands)
    /\ t.sent = "wait" => StartsIn(t.steps, C!Answered)
    /\ StartsIn(t.steps, ControlSteps) => a = "ioctl" /\ t.op \in C!ControlOps
    /\ StartsIn(t.steps, {"revoke"}) => a = "pnp" /\ Forgets(t.steps)
    /\ a = "pnp" => \A i \in 1 .. Len(t.steps) : t.steps[i] \in ReleaseSteps
    /\ a = "ioctl" => AfterWrite(t.steps)

Placed ==
    /\ \A a \in C!Actors : /\ PlaceOf(a, task[a])
                           /\ lock.bulk = a <=> task[a].sent # "no"
                           /\ lock.config = a <=> StartsIn(task[a].steps, ConfigHeld)
    /\ lock.bulk \in C!Actors \cup {"none"} /\ lock.config \in C!Actors \cup {"none"}

\* A configuration moves the rate of the device from the reset to the commit; meanwhile no stream
\* holds on to the parameters of before.
Changing(t) ==
    \/ StartsIn(t.steps, {"set", "commit"})
    \/ StartsIn(t.steps, {"reset"}) /\ t.sent # "no"
Arrived(t) ==
    \/ StartsIn(t.steps, {"commit"})
    \/ StartsIn(t.steps, {"set"}) /\ t.sent = "wait"

RateStands ==
    /\ DOMAIN hw = {"control", "rate", "replies"}
    /\ lock.config # "none" => ctl.prepared /\ ~(ctl.worker /\ ctl.configured)
    /\ ~ctl.prepared /\ ctl.configured => Forgets(task["pnp"].steps)
    /\ ctl.configured /\ ~past.abandoned /\ (\A a \in C!Actors : ~Changing(task[a]))
          => hw.rate = ctl.rate
    /\ \A a \in C!Actors : Arrived(task[a]) => hw.rate = task[a].rate

\* A reply that is not of an earlier command tells the control state of the device.
HardwareTyped ==
    /\ hw.control \in RealControls \cup {C!AnyControl} /\ hw.replies \in Seq(Replies)
    /\ \A i \in 1 .. Len(hw.replies) :
          hw.replies[i].command = "read" => hw.replies[i].content \in RealControls
    /\ DOMAIN ep1 = {"pending", "reply"}
    /\ ep1.reply.command = "read" => ep1.reply.content \in RealControls

Asking(t) == StartsIn(t.steps, {"read"}) /\ t.sent # "no"
RepliesTrue ==
    /\ ep1.pending \in {"none", "read"} /\ ep1.reply.command \in {"none", "read"}
    /\ ep1.reply.command = "read" /\ ~past.stale => ep1.reply.content = hw.control
    /\ \A i \in 1 .. Len(hw.replies) :
          hw.replies[i].command = "read" /\ ~hw.replies[i].old => hw.replies[i].content = hw.control

\* What is read is kept when it is refreshed or confirmed; in between, a write may not be known.
Confirming(s) == StartsIn(s, {"auto", "read", "confirm"}) /\ ~Refreshes(s)
Unsettled(t) ==
    \/ StartsIn(t.steps, {"refresh"}) \/ Confirming(t.steps)
    \/ StartsIn(t.steps, {"write"})

\* What counts is the device's state, or the driver says that the last write was not taken over.
Agrees == ctl.raw = hw.control \/ (past.unlike /\ ctl.mismatch)

KnownTrue(t) ==
    /\ StartsIn(t.steps, {"refresh", "confirm"}) => t.got.content = hw.control
    /\ ~Unsettled(t) => Agrees

ControlOf(t) ==
    /\ Asking(t) => RepliesTrue
    /\ Asking(t) /\ t.sent = "wait" => hw.control # C!AnyControl
    /\ StartsIn(t.steps, {"refresh"}) => t.got.content \in RealControls
    /\ ctl.ready /\ ~past.stale => KnownTrue(t)

ControlStands ==
    /\ HardwareTyped
    /\ ctl.ready => hw.control # C!AnyControl
    /\ ControlOf(task["ioctl"])

BelievedInv == AloneInv /\ Placed /\ RateStands /\ ControlStands
\* What is left of a script after its first step.
LEMMA TailPlace ==
    ASSUME NEW s \in Seq(Steps), s # <<>>
    PROVE  /\ Forgets(s) /\ Head(s) # "invalidate" => Forgets(Tail(s))
           /\ AfterWrite(s) => AfterWrite(Tail(s))
           /\ AfterWrite(s) /\ Head(s) = "write" => ~Refreshes(Tail(s))
           /\ Refreshes(Tail(s)) => Refreshes(s)
           /\ Refreshes(s) /\ Head(s) # "refresh" => Refreshes(Tail(s))
           /\ \A S : (\A i \in 1 .. Len(s) : s[i] \in S)
                        => Head(s) \in S /\ \A i \in 1 .. Len(Tail(s)) : Tail(s)[i] \in S
  <1> DEFINE u == Tail(s)
  <1>1. /\ Head(s) = s[1] /\ Len(s) \in Nat /\ Len(s) >= 1 /\ Len(u) = Len(s) - 1
        /\ \A i \in 1 .. Len(u) : u[i] = s[i + 1]
    BY TailOf
  <1> HIDE DEF u
  <1>2. \A i \in 1 .. Len(u) : i + 1 \in 1 .. Len(s) /\ 1 < i + 1 /\ 1 \in 1 .. Len(s)
    BY <1>1
  <1>3. \A i \in 1 .. Len(s) : i # 1 => i - 1 \in 1 .. Len(u) /\ u[i - 1] = s[i]
    BY <1>1
  <1>4. Forgets(s) /\ Head(s) # "invalidate" => Forgets(u)
    BY <1>1, <1>3 DEF Forgets
  <1>5. AfterWrite(s) => AfterWrite(u)
    <2> SUFFICES ASSUME AfterWrite(s), NEW i \in 1 .. Len(u), NEW j \in 1 .. Len(u),
                        u[i] = "write", i < j
                 PROVE  u[j] # "refresh"
      BY DEF AfterWrite
    <2>1. s[i + 1] = "write" /\ i + 1 < j + 1 /\ u[j] = s[j + 1]
      BY <1>1
    <2> QED BY <1>2, <2>1 DEF AfterWrite
  <1>6. AfterWrite(s) /\ Head(s) = "write" => ~Refreshes(u)
    BY <1>1, <1>2 DEF AfterWrite, Refreshes
  <1>7. Refreshes(u) => Refreshes(s)
    BY <1>1, <1>2 DEF Refreshes
  <1>8. Refreshes(s) /\ Head(s) # "refresh" => Refreshes(u)
    BY <1>1, <1>3 DEF Refreshes
  <1>9. \A S : (\A i \in 1 .. Len(s) : s[i] \in S)
                  => Head(s) \in S /\ \A i \in 1 .. Len(u) : u[i] \in S
    BY <1>1, <1>2
  <1> QED BY <1>4, <1>5, <1>6, <1>7, <1>8, <1>9 DEF u

LEMMA EmptyPlace == AfterWrite(<<>>) /\ ~Forgets(<<>>) /\ ~Refreshes(<<>>) /\ \A S : ~StartsIn(<<>>, S)
  BY DEF AfterWrite, Forgets, Refreshes, StartsIn

\* A lock goes to a thread, stays with it, or is given back.
LockGoes(old, new, a, holds) ==
    \/ new = old /\ (holds <=> old = a)
    \/ old \in {a, "none"} /\ new = IF holds THEN a ELSE "none"

LEMMA PlacedMove ==
    ASSUME Placed, DOMAIN task = C!Actors, NEW a \in C!Actors, NEW t, task' = [task EXCEPT ![a] = t],
           PlaceOf(a, t), LockGoes(lock.bulk, lock'.bulk, a, t.sent # "no"),
           LockGoes(lock.config, lock'.config, a, StartsIn(t.steps, ConfigHeld))
    PROVE  Placed'
  <1>1. task'[a] = t /\ \A b \in C!Actors : b # a => task'[b] = task[b]
    OBVIOUS
  <1>2. \A b \in C!Actors : PlaceOf(b, task'[b])
    BY <1>1 DEF Placed
  <1>3. "none" \notin C!Actors
    BY DEF C!Actors
  <1>4. /\ \A b \in C!Actors : lock.bulk = b <=> task[b].sent # "no"
        /\ \A b \in C!Actors : lock.config = b <=> StartsIn(task[b].steps, ConfigHeld)
        /\ lock.bulk \in C!Actors \cup {"none"} /\ lock.config \in C!Actors \cup {"none"}
    BY DEF Placed
  <1>5. \A b \in C!Actors : lock'.bulk = b <=> task'[b].sent # "no"
    BY <1>1, <1>3, <1>4 DEF LockGoes
  <1>6. \A b \in C!Actors : lock'.config = b <=> StartsIn(task'[b].steps, ConfigHeld)
    BY <1>1, <1>3, <1>4 DEF LockGoes
  <1>7. lock'.bulk \in C!Actors \cup {"none"} /\ lock'.config \in C!Actors \cup {"none"}
    BY <1>4 DEF LockGoes
  <1> QED BY <1>2, <1>5, <1>6, <1>7 DEF Placed

\* A step that does not touch the rate of the device.
RateWords ==
    /\ DOMAIN hw' = {"control", "rate", "replies"} /\ hw'.rate = hw.rate
    /\ past.abandoned => past'.abandoned
    /\ ctl'.prepared = ctl.prepared
    /\ ctl'.configured => ctl.configured /\ ctl'.rate = ctl.rate
    /\ ctl'.worker => ctl.worker \/ lock.config = "none"

LEMMA RateMove ==
    ASSUME RateStands, DOMAIN task = C!Actors, NEW a \in C!Actors, NEW t, task' = [task EXCEPT ![a] = t],
           RateWords,
           lock'.config # "none" => \/ lock'.config = lock.config
                                    \/ ctl'.prepared /\ ~(ctl'.worker /\ ctl'.configured),
           Changing(task[a]) => Changing(t),
           Arrived(t) => Arrived(task[a]) /\ t.rate = task[a].rate,
           a = "pnp" /\ Forgets(task[a].steps) => Forgets(t.steps) \/ ~ctl'.configured
    PROVE  RateStands'
  <1>1. task'[a] = t /\ \A b \in C!Actors : b # a => task'[b] = task[b]
    OBVIOUS
  <1>2. lock'.config # "none" => ctl'.prepared /\ ~(ctl'.worker /\ ctl'.configured)
    BY DEF RateStands, RateWords
  <1>3. ~ctl'.prepared /\ ctl'.configured => Forgets(task'["pnp"].steps)
    <2>1. "pnp" \in C!Actors
      BY DEF C!Actors
    <2> QED BY <1>1, <2>1 DEF RateStands, RateWords
  <1>4. ctl'.configured /\ ~past'.abandoned /\ (\A b \in C!Actors : ~Changing(task'[b]))
           => hw'.rate = ctl'.rate
    <2>1. (\A b \in C!Actors : ~Changing(task'[b])) => (\A b \in C!Actors : ~Changing(task[b]))
      BY <1>1
    <2> QED BY <2>1 DEF RateStands, RateWords
  <1>5. \A b \in C!Actors : Arrived(task'[b]) => hw'.rate = task'[b].rate
    BY <1>1 DEF RateStands, RateWords
  <1>6. DOMAIN hw' = {"control", "rate", "replies"}
    BY DEF RateWords
  <1> QED BY <1>2, <1>3, <1>4, <1>5, <1>6 DEF RateStands

\* A step that does not touch the control state.
ControlWords ==
    /\ hw' = hw /\ ep1' = ep1 /\ past'.stale = past.stale /\ past'.unlike = past.unlike
    /\ ctl'.ready = ctl.ready /\ ctl'.raw = ctl.raw /\ ctl'.mismatch = ctl.mismatch

LEMMA ControlMove ==
    ASSUME ControlStands, DOMAIN task = C!Actors, NEW a \in C!Actors, NEW t,
           task' = [task EXCEPT ![a] = t], ControlWords,
           a = "ioctl" => /\ t.sent = "no" /\ ~StartsIn(t.steps, {"refresh", "confirm"})
                          /\ ~Confirming(t.steps) /\ ~Unsettled(task[a])
    PROVE  ControlStands'
  <1>1. "ioctl" \in C!Actors
    BY DEF C!Actors
  <1>2. /\ a = "ioctl" => task'["ioctl"] = t
        /\ a # "ioctl" => task'["ioctl"] = task["ioctl"]
    BY <1>1
  <1>3. HardwareTyped' /\ (ctl'.ready => hw'.control # C!AnyControl)
    BY DEF ControlStands, ControlWords, HardwareTyped
  <1>4. ControlOf(task["ioctl"])'
    <2>1. CASE a = "ioctl"
      <3>1. ctl'.ready /\ ~past'.stale => Agrees'
        BY <2>1 DEF ControlStands, ControlOf, ControlWords, KnownTrue, Agrees
      <3>2. ~Asking(t) /\ ~StartsIn(t.steps, {"refresh"})
        BY <2>1 DEF Asking, StartsIn
      <3>3. ControlOf(t)'
        BY <2>1, <1>2, <3>1, <3>2 DEF ControlOf, KnownTrue, Asking, StartsIn, Confirming
      <3> QED BY <1>2, <2>1, <3>3
    <2>2. CASE a # "ioctl"
      <3>1. task'["ioctl"] = task["ioctl"]
        BY <1>2, <2>2
      <3>2. RepliesTrue => RepliesTrue'
        BY DEF ControlWords, RepliesTrue
      <3> QED BY <3>1, <3>2 DEF ControlStands, ControlOf, ControlWords, KnownTrue, Agrees
    <2> QED BY <2>1, <2>2
  <1> QED BY <1>3, <1>4 DEF ControlStands

\* Where a thread that is not with the device stands.
Elsewhere == ControlSteps \cup ConfigHeld
FarFrom(s) == ~StartsIn(s, Elsewhere) /\ ~StartsIn(s, {"revoke"})

LEMMA FarScripts ==
    ASSUME NEW s, ~StartsIn(s, Elsewhere)
    PROVE  /\ ~StartsIn(s, C!Commands) /\ ~StartsIn(s, C!Answered) /\ ~StartsIn(s, ControlSteps)
           /\ ~StartsIn(s, ConfigHeld) /\ ~StartsIn(s, {"refresh", "confirm"}) /\ ~Confirming(s)
           /\ ~StartsIn(s, {"read"}) /\ ~StartsIn(s, {"write"}) /\ ~StartsIn(s, {"refresh"})
           /\ ~StartsIn(s, {"set", "commit"}) /\ ~StartsIn(s, {"reset"}) /\ ~StartsIn(s, {"commit"})
           /\ ~StartsIn(s, {"set"})
  BY DEF StartsIn, Elsewhere, ControlSteps, ConfigHeld, C!Commands, C!Settings, C!Answered, Confirming

\* Such a thread goes on to such a step.
QuietWords ==
    /\ RateWords /\ ControlWords
    /\ lock'.bulk = lock.bulk /\ lock'.config = lock.config

LEMMA QuietBelieved ==
    ASSUME BelievedInv, NEW a \in C!Actors, NEW t, task' = [task EXCEPT ![a] = t], QuietWords,
           ~StartsIn(task[a].steps, Elsewhere), FarFrom(t.steps), PlaceOf(a, t),
           a = "pnp" /\ Forgets(task[a].steps) => Forgets(t.steps) \/ ~ctl'.configured
    PROVE  Placed' /\ RateStands' /\ ControlStands'
  <1> USE DEF BelievedInv
  <1>1. DOMAIN task = C!Actors
    BY Domains
  <1>2. task[a].sent = "no" /\ t.sent = "no" /\ PlaceOf(a, task[a])
    BY FarScripts DEF Placed, PlaceOf, FarFrom
  <1>3. LockGoes(lock.bulk, lock'.bulk, a, t.sent # "no")
    BY <1>2 DEF Placed, LockGoes, QuietWords
  <1>4. LockGoes(lock.config, lock'.config, a, StartsIn(t.steps, ConfigHeld))
    BY FarScripts DEF Placed, LockGoes, QuietWords, FarFrom
  <1>5. Placed'
    BY <1>1, <1>3, <1>4, PlacedMove
  <1>6. ~Changing(task[a]) /\ ~Arrived(t)
    BY FarScripts DEF Changing, Arrived, FarFrom
  <1>7. RateStands'
    BY <1>1, <1>6, RateMove DEF QuietWords
  <1>8. a = "ioctl" => /\ t.sent = "no" /\ ~StartsIn(t.steps, {"refresh", "confirm"})
                       /\ ~Confirming(t.steps) /\ ~Unsettled(task[a])
    BY <1>2, FarScripts DEF Unsettled, FarFrom
  <1>9. ControlStands'
    BY <1>1, <1>8, ControlMove DEF QuietWords
  <1> QED BY <1>5, <1>7, <1>9

\* The place of a thread that goes on, or ends.
LEMMA QuietPlace ==
    ASSUME NEW a, NEW t, DOMAIN t = TaskFields, t.sent = "no", t.control \in RealControls,
           NEW s, FarFrom(s), a = "pnp" => \A i \in 1 .. Len(s) : s[i] \in ReleaseSteps,
           a = "ioctl" => AfterWrite(s)
    PROVE  PlaceOf(a, C!WithSteps(t, s)) /\ C!WithSteps(t, s).steps = s
  <1>1. CASE s = <<>>
    <2>1. C!WithSteps(t, s) = C!Resting
      BY <1>1 DEF C!WithSteps
    <2>2. C!Resting.steps = <<>> /\ C!Resting.sent = "no" /\ C!Resting.control \in RealControls
      BY DEF C!Resting, C!DefaultControl, RealControls
    <2> QED BY <1>1, <2>1, <2>2, EmptyPlace DEF PlaceOf
  <1>2. CASE s # <<>>
    <2> DEFINE u == [t EXCEPT !.steps = s]
    <2>1. u.steps = s /\ u.sent = "no" /\ u.control \in RealControls /\ C!WithSteps(t, s) = u
      BY <1>2 DEF C!WithSteps, TaskFields
    <2> HIDE DEF u
    <2> QED BY <2>1, FarScripts DEF PlaceOf, FarFrom
  <1> QED BY <1>1, <1>2

\* What a thread at a step says of its place.
LEMMA StandsPlaced ==
    ASSUME BelievedInv, NEW a \in C!Actors, NEW x, C!At(a, x), x \notin Elsewhere
    PROVE  /\ ~StartsIn(task[a].steps, Elsewhere) /\ PlaceOf(a, task[a]) /\ task[a].sent = "no"
           /\ task[a].control \in RealControls
           /\ a = "pnp" => x \in ReleaseSteps
           /\ a = "pnp" => \A i \in 1 .. Len(C!Rest(a)) : C!Rest(a)[i] \in ReleaseSteps
           /\ a = "ioctl" => AfterWrite(C!Rest(a))
           /\ x # "invalidate" /\ Forgets(task[a].steps) => Forgets(C!Rest(a))
           /\ x # "configure" => FarFrom(C!Rest(a))
           /\ DOMAIN task[a] = TaskFields /\ DOMAIN task = C!Actors
  <1> USE DEF BelievedInv
  <1> DEFINE s == task[a].steps
  <1>1. /\ DOMAIN task[a] = TaskFields /\ IsScript(s) /\ s # <<>> /\ Head(s) = x
        /\ C!Rest(a) # <<>> => Joined(x, Head(C!Rest(a)))
    BY Stands
  <1>2. PlaceOf(a, task[a]) /\ ~StartsIn(s, Elsewhere)
    BY <1>1 DEF Placed, StartsIn
  <1>3. task[a].sent = "no" /\ task[a].control \in RealControls
    BY <1>2, FarScripts DEF PlaceOf
  <1>4. /\ a = "pnp" => \A i \in 1 .. Len(s) : s[i] \in ReleaseSteps
        /\ a = "ioctl" => AfterWrite(s)
    BY <1>2 DEF PlaceOf
  <1>5. s \in Seq(Steps)
    BY <1>1 DEF IsScript
  <1> HIDE DEF s
  <1>6. /\ a = "pnp" => x \in ReleaseSteps
        /\ a = "pnp" => \A i \in 1 .. Len(Tail(s)) : Tail(s)[i] \in ReleaseSteps
        /\ a = "ioctl" => AfterWrite(Tail(s))
        /\ x # "invalidate" /\ Forgets(s) => Forgets(Tail(s))
    BY <1>1, <1>4, <1>5, TailPlace
  <1>7. x # "configure" => FarFrom(C!Rest(a))
    BY <1>1 DEF FarFrom, StartsIn, Joined, Elsewhere, ControlSteps, ConfigHeld
  <1> QED BY <1>1, <1>2, <1>3, <1>6, <1>7, Domains DEF s, C!Rest

LEMMA QuietGoes ==
    ASSUME BelievedInv, NEW a \in C!Actors, NEW x, C!At(a, x), x \notin Elsewhere \cup {"configure"},
           C!Advance(a), QuietWords, x = "invalidate" => ~ctl'.configured
    PROVE  Placed' /\ RateStands' /\ ControlStands'
  <1> DEFINE u == C!Rest(a)
             t == C!WithSteps(task[a], u)
  <1>1. /\ ~StartsIn(task[a].steps, Elsewhere) /\ task[a].sent = "no"
        /\ task[a].control \in RealControls
        /\ a = "pnp" => \A i \in 1 .. Len(u) : u[i] \in ReleaseSteps
        /\ a = "ioctl" => AfterWrite(u)
        /\ x # "invalidate" /\ Forgets(task[a].steps) => Forgets(u)
        /\ FarFrom(u) /\ DOMAIN task[a] = TaskFields
    BY StandsPlaced
  <1>2. task' = [task EXCEPT ![a] = t]
    BY DEF C!Advance, C!Continue
  <1> HIDE DEF u
  <1>3. PlaceOf(a, t) /\ t.steps = u
    BY <1>1, QuietPlace
  <1> HIDE DEF t
  <1>4. FarFrom(t.steps)
    BY <1>1, <1>3
  <1>5. a = "pnp" /\ Forgets(task[a].steps) => Forgets(t.steps) \/ ~ctl'.configured
    BY <1>1, <1>3
  <1> QED BY <1>1, <1>2, <1>3, <1>4, <1>5, QuietBelieved

\* A request or callback that takes IsoPurgeLock and notes the rate to configure.
LEMMA QuietClaims ==
    ASSUME BelievedInv, NEW a \in C!Actors, NEW x, C!At(a, x),
           x \notin Elsewhere \cup {"configure", "invalidate"}, NEW r,
           task' = [task EXCEPT ![a].steps = C!Rest(a), ![a].rate = r], QuietWords
    PROVE  Placed' /\ RateStands' /\ ControlStands'
  <1> DEFINE u == C!Rest(a)
             t == [task[a] EXCEPT !.steps = u, !.rate = r]
  <1>1. /\ ~StartsIn(task[a].steps, Elsewhere) /\ task[a].sent = "no"
        /\ task[a].control \in RealControls
        /\ a = "pnp" => \A i \in 1 .. Len(u) : u[i] \in ReleaseSteps
        /\ a = "ioctl" => AfterWrite(u)
        /\ Forgets(task[a].steps) => Forgets(u)
        /\ FarFrom(u) /\ DOMAIN task[a] = TaskFields /\ DOMAIN task = C!Actors
    BY StandsPlaced
  <1>2. task' = [task EXCEPT ![a] = t]
    BY <1>1
  <1> HIDE DEF u
  <1>3. t.steps = u /\ t.sent = "no" /\ t.control \in RealControls
    BY <1>1 DEF TaskFields
  <1> HIDE DEF t
  <1>4. PlaceOf(a, t) /\ FarFrom(t.steps)
    BY <1>1, <1>3, FarScripts DEF PlaceOf, FarFrom
  <1> QED BY <1>1, <1>2, <1>3, <1>4, QuietBelieved

\* A thread that goes on elsewhere, or ends; a removal does not.
LEMMA QuietElse ==
    ASSUME BelievedInv, NEW a \in C!Actors, NEW x, C!At(a, x),
           x \notin Elsewhere \cup ReleaseSteps,
           NEW s, C!Continue(a, s), FarFrom(s), AfterWrite(s), QuietWords
    PROVE  Placed' /\ RateStands' /\ ControlStands'
  <1> DEFINE t == C!WithSteps(task[a], s)
  <1>1. /\ ~StartsIn(task[a].steps, Elsewhere) /\ task[a].sent = "no"
        /\ task[a].control \in RealControls /\ a # "pnp" /\ DOMAIN task[a] = TaskFields
    BY StandsPlaced
  <1>2. task' = [task EXCEPT ![a] = t]
    BY DEF C!Continue
  <1>3. PlaceOf(a, t) /\ t.steps = s
    BY <1>1, QuietPlace
  <1> HIDE DEF t
  <1> QED BY <1>1, <1>2, <1>3, QuietBelieved

LEMMA QuietEnds ==
    ASSUME BelievedInv, NEW a \in C!Actors, NEW x, C!At(a, x),
           x \notin Elsewhere \cup ReleaseSteps, C!Continue(a, <<>>), QuietWords
    PROVE  Placed' /\ RateStands' /\ ControlStands'
  BY EmptyPlace, QuietElse DEF FarFrom

LEMMA SameQuiet ==
    ASSUME BelievedInv, hw' = hw, ep1' = ep1, past'.stale = past.stale, past'.unlike = past.unlike,
           past'.abandoned = past.abandoned, lock'.bulk = lock.bulk, lock'.config = lock.config,
           ctl'.prepared = ctl.prepared, ctl'.ready = ctl.ready, ctl'.raw = ctl.raw,
           ctl'.mismatch = ctl.mismatch,
           ctl'.rate = ctl.rate, ctl'.configured => ctl.configured, ctl'.worker => ctl.worker
    PROVE  QuietWords
  BY DEF QuietWords, RateWords, ControlWords, BelievedInv, RateStands

LEMMA SignalledQuiet ==
    ASSUME NEW w, DOMAIN w = CtlFields
    PROVE  /\ C!Signalled(w).prepared = w.prepared /\ C!Signalled(w).ready = w.ready
           /\ C!Signalled(w).raw = w.raw /\ C!Signalled(w).mismatch = w.mismatch
           /\ C!Signalled(w).rate = w.rate
           /\ C!Signalled(w).configured => w.configured
           /\ C!Signalled(w).worker => w.worker
  BY DEF C!Signalled, CtlFields

\* Steps that are not at the device: none of them is one of those above.
LEMMA FarSteps ==
    /\ {"purge", "purgeTargets", "drain", "look", "startEngine", "stopEnds", "streamingOff",
        "workerOff", "requestStop", "stopActive", "flushWork", "flushStop", "consumeRead",
        "consumeStreaming", "checkArm", "arm", "disarm", "beginOneShot", "checkOneShot", "capture",
        "output", "endOneShot", "checkFormat", "isolate", "claim", "halt", "unlockPurge", "stream",
        "rollback", "stopped", "run", "activate", "inactive", "forget"}
          \cap (Elsewhere \cup {"configure", "invalidate", "revoke"}) = {}
    /\ {"purgeTargets", "look", "startEngine", "stopEnds", "consumeRead", "consumeStreaming",
        "checkArm", "checkOneShot", "capture", "output", "checkFormat", "isolate", "claim", "run"}
          \cap (Elsewhere \cup ReleaseSteps) = {}
  BY DEF Elsewhere, ControlSteps, ConfigHeld, ReleaseSteps

LEMMA PurgeBelieved ==
    ASSUME BelievedInv, NEW a \in C!Actors, C!PurgeBegins(a) \/ C!PurgeTargets(a) \/ C!Drain(a)
    PROVE  Placed' /\ RateStands' /\ ControlStands'
  <1> USE DEF BelievedInv
  <1>1. CASE C!PurgeBegins(a)
    <2>1. /\ C!At(a, "purge") /\ C!Advance(a) /\ lock' = lock /\ past' = past /\ hw' = hw /\ ep1' = ep1
          /\ ctl' = [ctl EXCEPT !.engine = "Stopping", !.draining = TRUE, !.healthy = FALSE]
      BY <1>1 DEF C!PurgeBegins, C!OnlyControl
    <2>2. QuietWords
      BY <2>1, Domains, SameQuiet DEF CtlFields
    <2> QED BY <2>1, <2>2, FarSteps, QuietGoes
  <1>2. CASE C!PurgeTargets(a)
    <2>1. C!At(a, "purgeTargets") /\ past' = past /\ hw' = hw /\ ep1' = ep1
      BY <1>2 DEF C!PurgeTargets, C!OnlyControl
    <2>2. CASE /\ C!Take("purge", a) /\ C!Advance(a)
               /\ ctl' = [ctl EXCEPT !.engine = "Stopping", !.draining = TRUE, !.healthy = FALSE]
      <3>1. QuietWords
        BY <2>1, <2>2, Domains, SameQuiet DEF CtlFields, C!Take
      <3> QED BY <2>1, <2>2, <3>1, FarSteps, QuietGoes
    <2>3. CASE /\ ctl' = [ctl EXCEPT !.healthy = FALSE]
               /\ C!Continue(a, Tail(C!Rest(a))) /\ UNCHANGED lock
      <3> DEFINE u == C!Rest(a)
                 v == Tail(u)
      <3>1. IsScript(u) /\ u # <<>> /\ Head(u) = "drain"
        BY <2>1, Stands DEF Joined, Unfinished, Taking
      <3>2. a # "pnp" /\ (a = "ioctl" => AfterWrite(u))
        BY <2>1, FarSteps, StandsPlaced
      <3>3. C!Continue(a, v)
        BY <2>3
      <3> HIDE DEF u
      <3>4. /\ u \in Seq(Steps) /\ (v # <<>> => Joined("drain", Head(v)))
        BY <3>1, TailScript DEF IsScript
      <3>5. a = "ioctl" => AfterWrite(v)
        BY <3>1, <3>2, <3>4, TailPlace
      <3>6. FarFrom(v)
        BY <3>4 DEF FarFrom, StartsIn, Joined, Elsewhere, ControlSteps, ConfigHeld
      <3> HIDE DEF v
      <3>7. QuietWords
        BY <2>1, <2>3, Domains, SameQuiet DEF CtlFields
      <3> DEFINE t == C!WithSteps(task[a], v)
      <3>8. /\ ~StartsIn(task[a].steps, Elsewhere) /\ task[a].sent = "no"
            /\ task[a].control \in RealControls /\ DOMAIN task[a] = TaskFields
        BY <2>1, FarSteps, StandsPlaced
      <3>9. PlaceOf(a, t) /\ t.steps = v
        BY <3>2, <3>5, <3>6, <3>8, QuietPlace
      <3>10. task' = [task EXCEPT ![a] = t]
        BY <3>3 DEF C!Continue
      <3> HIDE DEF t
      <3> QED BY <3>2, <3>6, <3>7, <3>8, <3>9, <3>10, QuietBelieved
    <2> QED BY <1>2, <2>2, <2>3 DEF C!PurgeTargets
  <1>3. CASE C!Drain(a)
    <2>1. PICK restarted : ctl' = C!Signalled([ctl EXCEPT !.engine = "Stopped", !.draining = FALSE,
                                                        !.healthy = restarted])
      BY <1>3 DEF C!Drain
    <2>2. /\ C!At(a, "drain") /\ C!Advance(a) /\ past' = past /\ hw' = hw /\ ep1' = ep1
          /\ (IF ctl.oneShot THEN lock' = lock ELSE lock' = [lock EXCEPT !.purge = "none"])
      BY <1>3 DEF C!Drain, C!Give
    <2> DEFINE w == [ctl EXCEPT !.engine = "Stopped", !.draining = FALSE, !.healthy = restarted]
    <2>3. DOMAIN w = CtlFields /\ w.prepared = ctl.prepared /\ w.ready = ctl.ready
          /\ w.raw = ctl.raw /\ w.mismatch = ctl.mismatch /\ w.rate = ctl.rate
          /\ w.configured = ctl.configured
          /\ w.worker = ctl.worker
      BY Domains DEF CtlFields
    <2>4. ctl' = C!Signalled(w)
      BY <2>1
    <2> HIDE DEF w
    <2>5. lock'.bulk = lock.bulk /\ lock'.config = lock.config
      BY <2>2, Domains
    <2>6. QuietWords
      BY <2>2, <2>3, <2>4, <2>5, SignalledQuiet, SameQuiet
    <2> QED BY <2>2, <2>6, FarSteps, QuietGoes
  <1> QED BY <1>1, <1>2, <1>3

LEMMA SetsBelieved ==
    ASSUME BelievedInv, NEW a \in C!Actors, NEW x, C!Sets(a, x, ctl'),
           x \notin Elsewhere \cup {"configure", "invalidate"},
           ctl'.prepared = ctl.prepared, ctl'.ready = ctl.ready, ctl'.raw = ctl.raw,
           ctl'.mismatch = ctl.mismatch,
           ctl'.rate = ctl.rate, ctl'.configured => ctl.configured, ctl'.worker => ctl.worker
    PROVE  Placed' /\ RateStands' /\ ControlStands'
  <1>1. /\ C!At(a, x) /\ C!Advance(a) /\ lock' = lock /\ past' = past /\ hw' = hw /\ ep1' = ep1
    BY DEF C!Sets, C!OnlyControl
  <1>2. QuietWords
    BY <1>1, SameQuiet
  <1> QED BY <1>1, <1>2, QuietGoes

LEMMA EngineBelieved ==
    ASSUME BelievedInv, NEW a \in C!Actors, C!Engine(a)
    PROVE  Placed' /\ RateStands' /\ ControlStands'
  <1> USE DEF BelievedInv
  <1>1. CASE C!PurgeBegins(a) \/ C!PurgeTargets(a) \/ C!Drain(a)
    BY <1>1, PurgeBelieved
  <1>2. CASE C!Look(a)
    <2>1. C!At(a, "look") /\ lock' = lock /\ past' = past /\ hw' = hw /\ ep1' = ep1
      BY <1>2 DEF C!Look, C!OnlyControl
    <2>2. CASE ctl' = [ctl EXCEPT !.streaming = TRUE] /\ C!Advance(a)
      <3>1. QuietWords
        BY <2>1, <2>2, Domains, SameQuiet DEF CtlFields
      <3> QED BY <2>1, <2>2, <3>1, FarSteps, QuietGoes
    <2>3. CASE C!Continue(a, C!MarkStopped) /\ UNCHANGED ctl
      <3>1. QuietWords
        BY <2>1, <2>3, SameQuiet
      <3>2. FarFrom(C!MarkStopped) /\ AfterWrite(C!MarkStopped)
        BY DEF C!MarkStopped, FarFrom, StartsIn, AfterWrite, Elsewhere, ControlSteps, ConfigHeld
      <3> QED BY <2>1, <2>3, <3>1, <3>2, FarSteps, QuietElse
    <2> QED BY <1>2, <2>2, <2>3 DEF C!Look
  <1>3. CASE C!StartEngine(a)
    <2>1. C!At(a, "startEngine") /\ lock' = lock /\ past' = past /\ hw' = hw /\ ep1' = ep1
      BY <1>3 DEF C!StartEngine
    <2>2. CASE ctl' = [ctl EXCEPT !.engine = "Running"] /\ C!Advance(a)
      <3>1. QuietWords
        BY <2>1, <2>2, Domains, SameQuiet DEF CtlFields
      <3> QED BY <2>1, <2>2, <3>1, FarSteps, QuietGoes
    <2>3. CASE C!Continue(a, C!StopThenMark) /\ (ctl' = C!FatalStop(ctl) \/ UNCHANGED ctl)
      <3>1. QuietWords
        BY <2>1, <2>3, Domains, SameQuiet DEF CtlFields, C!FatalStop
      <3>2. FarFrom(C!StopThenMark) /\ AfterWrite(C!StopThenMark)
        <4>1. First(C!StopThenMark) = "requestStop" /\ IsScript(C!StopThenMark)
          BY StopThenMarkScript DEF PlainOne
        <4>2. FarFrom(C!StopThenMark)
          BY <4>1 DEF First, IsScript, FarFrom, StartsIn, Elsewhere, ControlSteps, ConfigHeld
        <4>3. C!StopThenMark \in Seq(Steps \ {"write"})
          BY DEF C!StopThenMark, C!MarkStopped, Steps, Holding, Taking, Others
        <4> QED BY <4>2, <4>3 DEF AfterWrite
      <3> QED BY <2>1, <2>3, <3>1, <3>2, FarSteps, QuietElse
    <2> QED BY <1>3, <2>2, <2>3 DEF C!StartEngine
  <1>4. CASE C!StopEnds(a)
    <2>1. /\ C!At(a, "stopEnds") /\ lock' = lock /\ C!Advance(a) /\ past' = past /\ hw' = hw
          /\ ep1' = ep1
      BY <1>4 DEF C!StopEnds, C!OnlyControl
    <2> DEFINE w == [ctl EXCEPT !.stopPending = FALSE, !.stopActive = FALSE]
    <2>2. DOMAIN w = CtlFields /\ w.prepared = ctl.prepared /\ w.ready = ctl.ready
          /\ w.raw = ctl.raw /\ w.mismatch = ctl.mismatch /\ w.rate = ctl.rate
          /\ w.configured = ctl.configured
          /\ w.worker = ctl.worker
      BY Domains DEF CtlFields
    <2>3. ctl' = C!Signalled(w)
      BY <1>4 DEF C!StopEnds
    <2> HIDE DEF w
    <2>4. QuietWords
      BY <2>1, <2>2, <2>3, SignalledQuiet, SameQuiet
    <2> QED BY <2>1, <2>4, FarSteps, QuietGoes
  <1>5. ASSUME NEW x \in {"streamingOff", "workerOff", "requestStop", "stopActive"}, C!Sets(a, x, ctl'),
               ctl' \in {[ctl EXCEPT !.streaming = FALSE], [ctl EXCEPT !.worker = FALSE],
                         [ctl EXCEPT !.stopRequested = TRUE], [ctl EXCEPT !.stopActive = TRUE]}
        PROVE  Placed' /\ RateStands' /\ ControlStands'
    <2>1. /\ ctl'.prepared = ctl.prepared /\ ctl'.ready = ctl.ready /\ ctl'.raw = ctl.raw
          /\ ctl'.mismatch = ctl.mismatch
          /\ ctl'.rate = ctl.rate /\ ctl'.configured = ctl.configured
          /\ ctl'.worker => ctl.worker
      BY <1>5, Domains DEF CtlFields
    <2>2. x \notin Elsewhere \cup {"configure", "invalidate"}
      BY FarSteps
    <2> QED BY <1>5, <2>1, <2>2, SetsBelieved
  <1>6. CASE \/ C!Sets(a, "streamingOff", [ctl EXCEPT !.streaming = FALSE])
             \/ C!Sets(a, "workerOff", [ctl EXCEPT !.worker = FALSE])
             \/ C!Sets(a, "requestStop", [ctl EXCEPT !.stopRequested = TRUE])
             \/ C!Sets(a, "stopActive", [ctl EXCEPT !.stopActive = TRUE])
    BY <1>5, <1>6 DEF C!Sets
  <1> QED BY <1>1, <1>2, <1>3, <1>4, <1>6 DEF C!Engine

LEMMA FlushBelieved ==
    ASSUME BelievedInv, NEW a \in C!Actors, C!Flush(a)
    PROVE  Placed' /\ RateStands' /\ ControlStands'
  <1>1. PICK x \in {"flushWork", "flushStop"} : C!At(a, x)
    BY DEF C!Flush
  <1>2. C!Advance(a) /\ ctl' = ctl /\ lock' = lock /\ past' = past /\ hw' = hw /\ ep1' = ep1
    BY DEF C!Flush, C!OnlyControl
  <1>3. QuietWords
    BY <1>2, SameQuiet
  <1>4. x \notin Elsewhere \cup {"configure", "invalidate"}
    BY FarSteps
  <1> QED BY <1>1, <1>2, <1>3, <1>4, QuietGoes

LEMMA ConsumeBelieved ==
    ASSUME BelievedInv, NEW a \in C!Actors, NEW x \in {"consumeRead", "consumeStreaming"}, NEW phase,
           C!Consume(a, x, phase)
    PROVE  Placed' /\ RateStands' /\ ControlStands'
  <1> USE DEF BelievedInv
  <1>1. C!At(a, x) /\ lock' = lock /\ hw' = hw /\ ep1' = ep1
    BY DEF C!Consume
  <1>2. CASE ctl' = C!Consumed(ctl) /\ past' = [past EXCEPT !.credit = @ - 1] /\ C!Advance(a)
    <2>1. QuietWords
      BY <1>1, <1>2, Domains, SameQuiet DEF CtlFields, C!Consumed
    <2> QED BY <1>1, <1>2, <2>1, FarSteps, QuietGoes
  <1>3. CASE C!Continue(a, <<>>) /\ UNCHANGED <<ctl, past>>
    <2>1. QuietWords
      BY <1>1, <1>3, SameQuiet
    <2> QED BY <1>1, <1>3, <2>1, FarSteps, QuietEnds
  <1> QED BY <1>2, <1>3 DEF C!Consume

LEMMA ArmBelieved ==
    ASSUME BelievedInv, NEW a \in C!Actors, C!CheckArm(a) \/ C!Arm(a) \/ C!Disarm(a)
    PROVE  Placed' /\ RateStands' /\ ControlStands'
  <1> USE DEF BelievedInv
  <1>1. CASE C!CheckArm(a)
    <2>1. C!At(a, "checkArm") /\ ctl' = ctl /\ lock' = lock /\ past' = past /\ hw' = hw /\ ep1' = ep1
      BY <1>1 DEF C!CheckArm, C!OnlyControl
    <2>2. QuietWords
      BY <2>1, SameQuiet
    <2>3. CASE C!Advance(a)
      BY <2>1, <2>2, <2>3, FarSteps, QuietGoes
    <2>4. CASE C!Continue(a, <<>>)
      BY <2>1, <2>2, <2>4, FarSteps, QuietEnds
    <2> QED BY <1>1, <2>3, <2>4 DEF C!CheckArm, C!Advance
  <1>2. CASE C!Arm(a)
    <2>1. /\ C!At(a, "arm") /\ lock' = lock /\ C!Advance(a) /\ hw' = hw /\ ep1' = ep1
          /\ ctl' = [ctl EXCEPT !.remaining = 1, !.phase = task[a].phase]
          /\ past' = [past EXCEPT !.credit = @ + 1]
      BY <1>2 DEF C!Arm
    <2>2. QuietWords
      BY <2>1, Domains, SameQuiet DEF CtlFields
    <2> QED BY <2>1, <2>2, FarSteps, QuietGoes
  <1>3. CASE C!Disarm(a)
    <2>1. /\ C!At(a, "disarm") /\ C!Advance(a) /\ past' = past /\ hw' = hw /\ ep1' = ep1
          /\ lock' = [lock EXCEPT !.purge = a]
          /\ ctl' = [ctl EXCEPT !.phase = "none", !.remaining = 0, !.stopRequested = TRUE]
      BY <1>3 DEF C!Disarm, C!OnlyControl, C!Take
    <2>2. QuietWords
      BY <2>1, Domains, SameQuiet DEF CtlFields
    <2> QED BY <2>1, <2>2, FarSteps, QuietGoes
  <1> QED BY <1>1, <1>2, <1>3

LEMMA OneShotBelieved ==
    ASSUME BelievedInv, NEW a \in C!Actors,
           \/ C!BeginOneShot(a) \/ C!CheckOneShot(a) \/ C!EndsOneShot(a)
           \/ C!CaptureIsoSnapshot(a) \/ C!SendIsoOutputBuffer(a)
    PROVE  Placed' /\ RateStands' /\ ControlStands'
  <1> USE DEF BelievedInv
  <1>1. CASE C!BeginOneShot(a)
    <2>1. /\ C!At(a, "beginOneShot") /\ C!Advance(a) /\ past' = past /\ hw' = hw /\ ep1' = ep1
          /\ lock' = [lock EXCEPT !.purge = a] /\ ctl' = [ctl EXCEPT !.oneShot = TRUE]
      BY <1>1 DEF C!BeginOneShot, C!OnlyControl, C!Take
    <2>2. QuietWords
      BY <2>1, Domains, SameQuiet DEF CtlFields
    <2> QED BY <2>1, <2>2, FarSteps, QuietGoes
  <1>2. CASE C!CheckOneShot(a)
    <2>1. C!At(a, "checkOneShot") /\ hw' = hw /\ ep1' = ep1
      BY <1>2 DEF C!CheckOneShot
    <2>2. CASE /\ ctl' = C!Consumed(ctl) /\ past' = [past EXCEPT !.credit = @ - 1]
               /\ C!Advance(a) /\ UNCHANGED lock
      <3>1. QuietWords
        BY <2>1, <2>2, Domains, SameQuiet DEF CtlFields, C!Consumed
      <3> QED BY <2>1, <2>2, <3>1, FarSteps, QuietGoes
    <2>3. CASE /\ ctl' = [ctl EXCEPT !.oneShot = FALSE] /\ C!Give("purge")
               /\ C!Continue(a, <<>>) /\ UNCHANGED past
      <3>1. QuietWords
        BY <2>1, <2>3, Domains, SameQuiet DEF CtlFields, C!Give
      <3> QED BY <2>1, <2>3, <3>1, FarSteps, QuietEnds
    <2> QED BY <1>2, <2>2, <2>3 DEF C!CheckOneShot
  <1>3. CASE C!EndsOneShot(a)
    <2>1. /\ C!At(a, "endOneShot") /\ C!Advance(a) /\ past' = past /\ hw' = hw /\ ep1' = ep1
          /\ lock' = [lock EXCEPT !.purge = "none"] /\ ctl' = [ctl EXCEPT !.oneShot = FALSE]
      BY <1>3 DEF C!EndsOneShot, C!OnlyControl, C!Give
    <2>2. QuietWords
      BY <2>1, Domains, SameQuiet DEF CtlFields
    <2> QED BY <2>1, <2>2, FarSteps, QuietGoes
  <1>4. ASSUME NEW x \in {"capture", "output"}, C!Transfer(a, x)
        PROVE  Placed' /\ RateStands' /\ ControlStands'
    <2>1. /\ C!At(a, x) /\ ctl' = ctl /\ ep1' = ep1 /\ hw' = hw /\ lock' = lock /\ past' = past
          /\ C!Advance(a) \/ C!Continue(a, C!EndOneShot)
      BY <1>4 DEF C!Transfer
    <2>2. QuietWords
      BY <2>1, SameQuiet
    <2>3. FarFrom(C!EndOneShot) /\ AfterWrite(C!EndOneShot)
      <3>1. First(C!EndOneShot) = "purge" /\ IsScript(C!EndOneShot)
        BY EndOneShotScript DEF AloneOne
      <3>2. C!EndOneShot \in Seq(Steps \ {"write"})
        BY DEF C!EndOneShot, C!Purge, Steps, Holding, Keeping, Giving
      <3> QED BY <3>1, <3>2 DEF First, IsScript, FarFrom, StartsIn, Elsewhere, ControlSteps, ConfigHeld,
                                AfterWrite
    <2> QED BY <2>1, <2>2, <2>3, FarSteps, QuietGoes, QuietElse
  <1> QED BY <1>1, <1>2, <1>3, <1>4 DEF C!CaptureIsoSnapshot, C!SendIsoOutputBuffer

LEMMA CanaryBelieved ==
    ASSUME BelievedInv, NEW a \in C!Actors, C!Canary(a)
    PROVE  Placed' /\ RateStands' /\ ControlStands'
  BY ConsumeBelieved, ArmBelieved, OneShotBelieved DEF C!Canary

\* A configuration goes on under IsoPurgeLock.
LEMMA ConfigHasPurge ==
    ASSUME BelievedInv, NEW a \in C!Actors, lock.config = a \/ StartsIn(task[a].steps, ConfigHeld)
    PROVE  lock.purge = a /\ lock.config = a
  <1> USE DEF BelievedInv
  <1>1. StartsIn(task[a].steps, ConfigHeld) /\ lock.config = a
    BY DEF Placed
  <1>2. ScriptHolds(task[a].steps)
    BY <1>1 DEF StartsIn, ConfigHeld, ScriptHolds, Holding, Keeping
  <1> QED BY <1>1, <1>2 DEF AloneInv, PurgeHeld

LEMMA PurgeFreesConfig ==
    ASSUME BelievedInv, lock.purge = "none" \/ \E a \in C!Actors : lock.purge = a /\ ~StartsIn(task[a].steps, ConfigHeld)
    PROVE  lock.config = "none"
  <1>1. SUFFICES ASSUME lock.config # "none" PROVE FALSE
    OBVIOUS
  <1>2. lock.config \in C!Actors
    BY <1>1 DEF BelievedInv, Placed
  <1>3. lock.purge = lock.config /\ StartsIn(task[lock.config].steps, ConfigHeld)
    BY <1>2, ConfigHasPurge DEF BelievedInv, Placed
  <1>4. "none" \notin C!Actors
    BY DEF C!Actors
  <1> QED BY <1>2, <1>3, <1>4

LEMMA LastBelieved ==
    ASSUME BelievedInv, NEW a \in C!Actors, NEW x \in Giving, C!Last(a, x, ctl'),
           x \notin Elsewhere \cup {"configure", "invalidate"},
           ctl'.prepared = ctl.prepared, ctl'.ready = ctl.ready, ctl'.raw = ctl.raw,
           ctl'.mismatch = ctl.mismatch,
           ctl'.rate = ctl.rate, ctl'.configured => ctl.configured
    PROVE  Placed' /\ RateStands' /\ ControlStands'
  <1> USE DEF BelievedInv
  <1>1. /\ C!At(a, x) /\ C!Advance(a) /\ past' = past /\ hw' = hw /\ ep1' = ep1
        /\ lock' = [lock EXCEPT !.purge = "none"]
    BY DEF C!Last, C!OnlyControl, C!Give
  <1>2. lock.purge = a
    BY <1>1, Stands DEF Holding
  <1>3. ~StartsIn(task[a].steps, ConfigHeld)
    BY <1>1 DEF C!At, StartsIn, Elsewhere
  <1>4. lock.config = "none"
    BY <1>2, <1>3, PurgeFreesConfig
  <1>5. lock'.bulk = lock.bulk /\ lock'.config = lock.config
    BY <1>1, Domains
  <1>6. QuietWords
    BY <1>1, <1>4, <1>5 DEF QuietWords, RateWords, ControlWords, RateStands
  <1> QED BY <1>1, <1>6, QuietGoes

\* A step that moves what comes from the device, while nobody asks for the control state.
LEMMA ControlAway ==
    ASSUME ControlStands, DOMAIN task = C!Actors, NEW a \in C!Actors, NEW t,
           task' = [task EXCEPT ![a] = t],
           HardwareTyped', hw'.control = hw.control, past'.stale = past.stale,
           past'.unlike = past.unlike,
           ctl'.ready => ctl.ready, ctl'.raw = ctl.raw, ctl'.mismatch = ctl.mismatch,
           a = "ioctl" => /\ ~Asking(t) /\ ~StartsIn(t.steps, {"refresh", "confirm"})
                          /\ ~Confirming(t.steps) /\ ~Unsettled(task[a]),
           a # "ioctl" => ~Asking(task["ioctl"])
    PROVE  ControlStands'
  <1>1. "ioctl" \in C!Actors
    BY DEF C!Actors
  <1>2. /\ a = "ioctl" => task'["ioctl"] = t
        /\ a # "ioctl" => task'["ioctl"] = task["ioctl"]
    BY <1>1
  <1>3. HardwareTyped' /\ (ctl'.ready => hw'.control # C!AnyControl)
    BY DEF ControlStands
  <1>4. ControlOf(task["ioctl"])'
    <2>1. CASE a = "ioctl"
      <3>1. ctl'.ready /\ ~past'.stale => Agrees'
        BY <2>1 DEF ControlStands, ControlOf, KnownTrue, Agrees
      <3>2. ~Asking(t) /\ ~StartsIn(t.steps, {"refresh"})
        BY <2>1 DEF StartsIn
      <3>3. ControlOf(t)'
        BY <2>1, <1>2, <3>1, <3>2 DEF ControlOf, KnownTrue, Asking, StartsIn, Confirming
      <3> QED BY <1>2, <2>1, <3>3
    <2>2. CASE a # "ioctl"
      <3>1. task'["ioctl"] = task["ioctl"]
        BY <1>2, <2>2
      <3> QED BY <2>2, <3>1 DEF ControlStands, ControlOf, KnownTrue, Asking, Agrees
    <2> QED BY <2>1, <2>2
  <1> QED BY <1>3, <1>4 DEF ControlStands

\* Nobody else is at endpoint 1 while a thread is there.
LEMMA AskedAlone ==
    ASSUME BelievedInv, lock.bulk = "none" \/ \E a \in C!Actors \ {"ioctl"} : lock.bulk = a
    PROVE  ~Asking(task["ioctl"])
  <1>1. "ioctl" \in C!Actors /\ "none" \notin C!Actors
    BY DEF C!Actors
  <1> QED BY <1>1 DEF BelievedInv, Placed, Asking

LEMMA RevokeBelieved ==
    ASSUME BelievedInv, NEW a \in C!Actors, C!Revoke(a)
    PROVE  Placed' /\ RateStands' /\ ControlStands'
  <1> USE DEF BelievedInv
  <1> DEFINE u == C!Rest(a)
             t == C!WithSteps(task[a], u)
  <1>1. /\ C!At(a, "revoke") /\ C!Advance(a) /\ past' = past /\ hw' = hw /\ ep1' = ep1
        /\ lock' = [lock EXCEPT !.purge = a] /\ lock.purge = "none"
        /\ ctl' = [ctl EXCEPT !.prepared = FALSE, !.stopRequested = TRUE,
                              !.phase = "none", !.remaining = 0]
    BY DEF C!Revoke, C!OnlyControl, C!Take, C!Free
  <1>2. /\ lock'.config = lock.config /\ lock'.bulk = lock.bulk
        /\ ctl'.configured = ctl.configured /\ ctl'.rate = ctl.rate
        /\ ctl'.ready = ctl.ready /\ ctl'.raw = ctl.raw /\ ctl'.mismatch = ctl.mismatch
    BY <1>1, Domains DEF CtlFields
  <1>3. lock.config = "none"
    BY <1>1, PurgeFreesConfig
  <1>4. "revoke" \notin Elsewhere \cup {"configure", "invalidate"}
    BY DEF Elsewhere, ControlSteps, ConfigHeld
  <1>5. /\ ~StartsIn(task[a].steps, Elsewhere) /\ task[a].sent = "no"
        /\ task[a].control \in RealControls
        /\ a = "pnp" => \A i \in 1 .. Len(u) : u[i] \in ReleaseSteps
        /\ a = "ioctl" => AfterWrite(u)
        /\ Forgets(task[a].steps) => Forgets(u)
        /\ FarFrom(u) /\ DOMAIN task[a] = TaskFields /\ DOMAIN task = C!Actors
        /\ PlaceOf(a, task[a])
    BY <1>1, <1>4, StandsPlaced
  <1>6. a = "pnp" /\ Forgets(task[a].steps)
    BY <1>1, <1>5 DEF PlaceOf, C!At, StartsIn
  <1>7. task' = [task EXCEPT ![a] = t]
    BY <1>1 DEF C!Advance, C!Continue
  <1> HIDE DEF u
  <1>8. PlaceOf(a, t) /\ t.steps = u
    BY <1>5, QuietPlace
  <1> HIDE DEF t
  <1>9. t.sent = "no" /\ ~Changing(task[a]) /\ ~Arrived(t) /\ ~StartsIn(t.steps, ConfigHeld)
    BY <1>5, <1>8, FarScripts DEF Changing, Arrived, FarFrom, PlaceOf
  <1>10. Placed'
    <2>1. LockGoes(lock.bulk, lock'.bulk, a, t.sent # "no")
      BY <1>2, <1>5, <1>9 DEF Placed, LockGoes
    <2>2. LockGoes(lock.config, lock'.config, a, StartsIn(t.steps, ConfigHeld))
      BY <1>2, <1>5, <1>9, FarScripts DEF Placed, LockGoes
    <2> QED BY <1>5, <1>7, <1>8, <2>1, <2>2, PlacedMove
  <1>11. RateStands'
    <2>1. task'["pnp"] = t /\ \A b \in C!Actors : b # a => task'[b] = task[b]
      BY <1>5, <1>6, <1>7
    <2>2. Forgets(task'["pnp"].steps)
      BY <1>5, <1>6, <1>8, <2>1
    <2>3. (\A b \in C!Actors : ~Changing(task'[b])) => \A b \in C!Actors : ~Changing(task[b])
      BY <1>9, <2>1
    <2>4. \A b \in C!Actors : Arrived(task'[b]) => hw'.rate = task'[b].rate
      BY <1>1, <1>6, <1>9, <2>1 DEF RateStands
    <2>5. ctl'.configured /\ ~past'.abandoned /\ (\A b \in C!Actors : ~Changing(task'[b]))
             => hw'.rate = ctl'.rate
      BY <1>1, <1>2, <2>3 DEF RateStands
    <2>6. lock'.config = "none" /\ DOMAIN hw' = {"control", "rate", "replies"}
      BY <1>1, <1>2, <1>3 DEF RateStands
    <2> QED BY <2>2, <2>4, <2>5, <2>6 DEF RateStands
  <1>12. ControlStands'
    BY <1>1, <1>2, <1>5, <1>6, <1>7, ControlMove DEF ControlWords
  <1> QED BY <1>10, <1>11, <1>12

LEMMA StopPipesBelieved ==
    ASSUME BelievedInv, NEW a \in C!Actors, C!StopPipes(a)
    PROVE  Placed' /\ RateStands' /\ ControlStands'
  <1> USE DEF BelievedInv
  <1> DEFINE u == C!Rest(a)
             t == C!WithSteps(task[a], u)
  <1>1. /\ C!At(a, "stopPipes") /\ C!Advance(a) /\ past' = past /\ ctl' = ctl /\ ep1' = ep1
        /\ lock' = lock /\ lock.bulk = "none" /\ hw' = [hw EXCEPT !.replies = <<>>]
    BY DEF C!StopPipes, C!Free
  <1>2. /\ hw'.control = hw.control /\ hw'.rate = hw.rate /\ hw'.replies = <<>>
        /\ DOMAIN hw' = {"control", "rate", "replies"}
    BY <1>1 DEF RateStands
  <1>3. "stopPipes" \notin Elsewhere \cup {"configure", "invalidate"}
    BY DEF Elsewhere, ControlSteps, ConfigHeld
  <1>4. /\ ~StartsIn(task[a].steps, Elsewhere) /\ task[a].sent = "no"
        /\ task[a].control \in RealControls
        /\ a = "pnp" => \A i \in 1 .. Len(u) : u[i] \in ReleaseSteps
        /\ a = "ioctl" => AfterWrite(u)
        /\ Forgets(task[a].steps) => Forgets(u)
        /\ FarFrom(u) /\ DOMAIN task[a] = TaskFields /\ DOMAIN task = C!Actors
    BY <1>1, <1>3, StandsPlaced
  <1>5. task' = [task EXCEPT ![a] = t]
    BY <1>1 DEF C!Advance, C!Continue
  <1> HIDE DEF u
  <1>6. PlaceOf(a, t) /\ t.steps = u
    BY <1>4, QuietPlace
  <1> HIDE DEF t
  <1>7. /\ t.sent = "no" /\ ~Changing(task[a]) /\ ~Arrived(t) /\ ~StartsIn(t.steps, ConfigHeld)
        /\ ~Asking(t) /\ ~StartsIn(t.steps, {"refresh", "confirm"}) /\ ~Confirming(t.steps)
        /\ ~Unsettled(task[a])
    BY <1>4, <1>6, FarScripts DEF Changing, Arrived, FarFrom, PlaceOf, Asking, Unsettled
  <1>8. Placed'
    <2>1. LockGoes(lock.bulk, lock'.bulk, a, t.sent # "no")
      BY <1>1, <1>4, <1>7 DEF Placed, LockGoes
    <2>2. LockGoes(lock.config, lock'.config, a, StartsIn(t.steps, ConfigHeld))
      BY <1>1, <1>4, <1>7, FarScripts DEF Placed, LockGoes
    <2> QED BY <1>4, <1>5, <1>6, <2>1, <2>2, PlacedMove
  <1>9. RateStands'
    <2>1. RateWords /\ lock'.config = lock.config
      BY <1>1, <1>2 DEF RateWords
    <2> QED BY <1>4, <1>5, <1>6, <1>7, <2>1, RateMove
  <1>10. ControlStands'
    <2>1. HardwareTyped'
      BY <1>1, <1>2 DEF HardwareTyped, ControlStands
    <2>2. ~Asking(task["ioctl"])
      BY <1>1, AskedAlone
    <2> QED BY <1>1, <1>2, <1>4, <1>5, <1>7, <2>1, <2>2, ControlAway
  <1> QED BY <1>8, <1>9, <1>10

LEMMA CallbackBelieved ==
    ASSUME BelievedInv, NEW a \in C!Actors, C!Callback(a)
    PROVE  Placed' /\ RateStands' /\ ControlStands'
  <1> USE DEF BelievedInv
  <1>1. CASE C!Run(a)
    <2>1. C!At(a, "run") /\ ctl' = ctl /\ past' = past /\ hw' = hw /\ ep1' = ep1
      BY <1>1 DEF C!Run, C!OnlyControl
    <2>2. CASE C!Take("purge", a) /\ C!Advance(a)
      <3>1. QuietWords
        BY <2>1, <2>2, Domains, SameQuiet DEF C!Take
      <3> QED BY <2>1, <2>2, <3>1, FarSteps, QuietGoes
    <2>3. CASE C!Continue(a, <<>>) /\ UNCHANGED lock
      <3>1. QuietWords
        BY <2>1, <2>3, SameQuiet
      <3> QED BY <2>1, <2>3, <3>1, FarSteps, QuietEnds
    <2> QED BY <1>1, <2>2, <2>3 DEF C!Run
  <1>2. CASE C!Last(a, "activate", C!Activated)
    <2>1. /\ C!Activated.prepared = ctl.prepared /\ C!Activated.ready = ctl.ready
          /\ C!Activated.raw = ctl.raw /\ C!Activated.mismatch = ctl.mismatch
          /\ C!Activated.rate = ctl.rate
          /\ C!Activated.configured = ctl.configured
      BY Domains DEF C!Activated, CtlFields
    <2>2. ctl' = C!Activated /\ C!Last(a, "activate", ctl')
      BY <1>2 DEF C!Last
    <2>3. "activate" \in Giving
      BY DEF Giving
    <2> QED BY <2>1, <2>2, <2>3, FarSteps, LastBelieved
  <1>3. ASSUME NEW x \in {"inactive", "forget"}, C!Sets(a, x, [ctl EXCEPT !.active = FALSE])
        PROVE  Placed' /\ RateStands' /\ ControlStands'
    <2>1. ctl' = [ctl EXCEPT !.active = FALSE] /\ C!Sets(a, x, ctl')
      BY <1>3 DEF C!Sets
    <2>2. /\ ctl'.prepared = ctl.prepared /\ ctl'.ready = ctl.ready /\ ctl'.raw = ctl.raw
          /\ ctl'.mismatch = ctl.mismatch
          /\ ctl'.rate = ctl.rate /\ ctl'.configured = ctl.configured /\ ctl'.worker = ctl.worker
      BY <2>1, Domains DEF CtlFields
    <2>3. x \notin Elsewhere \cup {"configure", "invalidate"}
      BY FarSteps
    <2> QED BY <2>1, <2>2, <2>3, SetsBelieved
  <1> QED BY <1>1, <1>2, <1>3, RevokeBelieved, StopPipesBelieved DEF C!Callback

\* A request at one of the steps about the control state.
LEMMA ControlPlaced ==
    ASSUME BelievedInv, NEW a \in C!Actors, NEW x \in ControlSteps, C!At(a, x)
    PROVE  /\ a = "ioctl" /\ task[a].op \in C!ControlOps /\ PlaceOf(a, task[a])
           /\ task[a].control \in RealControls /\ AfterWrite(task[a].steps)
           /\ AfterWrite(C!Rest(a)) /\ ControlOf(task[a])
           /\ x \in {"refresh", "store", "confirm"} => task[a].sent = "no"
           /\ ~StartsIn(task[a].steps, ConfigHeld) /\ lock.config # a
           /\ ~Changing(task[a]) /\ ~Arrived(task[a])
           /\ DOMAIN task = C!Actors /\ DOMAIN task[a] = TaskFields
           /\ C!Rest(a) # <<>> => Head(C!Rest(a)) \in ControlSteps
           /\ IsScript(task[a].steps) /\ task[a].steps # <<>> /\ Head(task[a].steps) = x
  <1> USE DEF BelievedInv
  <1>1. /\ DOMAIN task[a] = TaskFields /\ IsScript(task[a].steps) /\ task[a].steps # <<>>
        /\ Head(task[a].steps) = x
        /\ C!Rest(a) # <<>> => Joined(x, Head(C!Rest(a)))
    BY Stands
  <1>2. StartsIn(task[a].steps, ControlSteps) /\ PlaceOf(a, task[a])
    BY <1>1 DEF StartsIn, Placed
  <1>3. a = "ioctl" /\ task[a].op \in C!ControlOps /\ AfterWrite(task[a].steps)
        /\ task[a].control \in RealControls
    BY <1>2 DEF PlaceOf
  <1>4. x \in {"refresh", "store", "confirm"} => task[a].sent = "no"
    BY <1>1, <1>2 DEF PlaceOf, StartsIn, C!Commands, C!Settings
  <1>5. ~StartsIn(task[a].steps, ConfigHeld) /\ ~Changing(task[a]) /\ ~Arrived(task[a])
    BY <1>1 DEF StartsIn, ConfigHeld, ControlSteps, Changing, Arrived
  <1>6. lock.config # a
    BY <1>5 DEF Placed
  <1>7. AfterWrite(C!Rest(a))
    BY <1>1, <1>3, TailPlace DEF IsScript, C!Rest
  <1>8. C!Rest(a) # <<>> => Head(C!Rest(a)) \in ControlSteps
    BY <1>1 DEF Joined
  <1>9. ControlOf(task[a])
    BY <1>3 DEF ControlStands
  <1> QED BY <1>1, <1>2, <1>3, <1>4, <1>5, <1>6, <1>7, <1>8, <1>9, Domains

\* Such a request goes on, to such a step or to its end.
LEMMA ControlGoes ==
    ASSUME BelievedInv, NEW a \in C!Actors, NEW x \in ControlSteps, C!At(a, x),
           NEW t, task' = [task EXCEPT ![a] = t],
           t.sent \in {"no", "wait", "out"}, t.control \in RealControls,
           t.steps # <<>> => t.op \in C!ControlOps, AfterWrite(t.steps),
           t.steps # <<>> => Head(t.steps) \in ControlSteps,
           t.sent # "no" => StartsIn(t.steps, C!Commands),
           t.sent = "wait" => StartsIn(t.steps, C!Answered),
           LockGoes(lock.bulk, lock'.bulk, a, t.sent # "no"), lock'.config = lock.config,
           RateWords
    PROVE  Placed' /\ RateStands'
  <1> USE DEF BelievedInv
  <1>1. /\ a = "ioctl" /\ lock.config # a /\ ~Changing(task[a]) /\ DOMAIN task = C!Actors
    BY ControlPlaced
  <1>2. ~StartsIn(t.steps, ConfigHeld) /\ ~StartsIn(t.steps, {"revoke"}) /\ ~Arrived(t)
    BY DEF StartsIn, ConfigHeld, ControlSteps, Arrived
  <1>3. PlaceOf(a, t)
    BY <1>1, <1>2 DEF PlaceOf, StartsIn
  <1>4. LockGoes(lock.config, lock'.config, a, StartsIn(t.steps, ConfigHeld))
    BY <1>1, <1>2 DEF LockGoes
  <1>5. Placed'
    BY <1>1, <1>3, <1>4, PlacedMove
  <1>6. RateStands'
    BY <1>1, <1>2, RateMove
  <1> QED BY <1>5, <1>6

\* The task of a request that goes on.
LEMMA ThreadGoes ==
    ASSUME NEW t, DOMAIN t = TaskFields, NEW s
    PROVE  /\ C!WithSteps(t, s).steps = s
           /\ s # <<>> => /\ C!WithSteps(t, s).op = t.op /\ C!WithSteps(t, s).sent = t.sent
                          /\ C!WithSteps(t, s).control = t.control /\ C!WithSteps(t, s).got = t.got
                          /\ C!WithSteps(t, s).rate = t.rate
           /\ s = <<>> => /\ C!WithSteps(t, s).sent = "no" /\ C!WithSteps(t, s).control \in RealControls
  BY DEF C!WithSteps, C!Resting, TaskFields, C!DefaultControl, RealControls

\* A request that leaves what is known of the control state true.
LEMMA ControlSettles ==
    ASSUME DOMAIN task = C!Actors, NEW t, task' = [task EXCEPT !["ioctl"] = t],
           HardwareTyped', ctl'.ready => hw'.control # C!AnyControl,
           ctl'.ready /\ ~past'.stale => Agrees',
           ~Asking(t), ~StartsIn(t.steps, {"refresh", "confirm"}), ~Confirming(t.steps)
    PROVE  ControlStands'
  <1>1. task'["ioctl"] = t
    BY DEF C!Actors
  <1>2. ~StartsIn(t.steps, {"refresh"})
    BY DEF StartsIn
  <1>3. ControlOf(t)'
    BY <1>2 DEF ControlOf, KnownTrue, Asking, StartsIn, Confirming
  <1> QED BY <1>1, <1>3 DEF ControlStands

\* What is known of the control state after such a step.
LEMMA ControlIs ==
    ASSUME DOMAIN task = C!Actors, NEW t, task' = [task EXCEPT !["ioctl"] = t],
           HardwareTyped', ctl'.ready => hw'.control # C!AnyControl,
           Asking(t) => RepliesTrue', Asking(t) /\ t.sent = "wait" => hw'.control # C!AnyControl,
           StartsIn(t.steps, {"refresh"}) => t.got.content \in RealControls,
           ctl'.ready /\ ~past'.stale =>
              /\ StartsIn(t.steps, {"refresh", "confirm"}) => t.got.content = hw'.control
              /\ ~Unsettled(t) => Agrees'
    PROVE  ControlStands'
  <1>1. task'["ioctl"] = t
    BY DEF C!Actors
  <1>2. ControlOf(t)'
    BY DEF ControlOf, KnownTrue, Asking, Unsettled, StartsIn, Confirming
  <1> QED BY <1>1, <1>2 DEF ControlStands

LEMMA StoreBelieved ==
    ASSUME BelievedInv, NEW a \in C!Actors, C!StoreControlState(a)
    PROVE  Placed' /\ RateStands' /\ ControlStands'
  <1> USE DEF BelievedInv
  <1> DEFINE lifts == task[a].control.lift # ctl.raw.lift
  <1>1. C!At(a, "store") /\ lock' = lock /\ past' = past /\ hw' = hw /\ ep1' = ep1
    BY DEF C!StoreControlState, C!OnlyControl
  <1>2. PICK s \in {<<>>, C!Rest(a)} :
           /\ C!Continue(a, s) /\ ctl' \in {ctl, [ctl EXCEPT !.mismatch = lifts]}
           /\ s = <<>> => ctl' \in {ctl, [ctl EXCEPT !.mismatch = TRUE]}
    <2>1. CASE ctl.worker \/ ctl.streaming
      BY <2>1 DEF C!StoreControlState
    <2>2. CASE ~(ctl.worker \/ ctl.streaming) /\ lifts
      BY <2>2 DEF C!StoreControlState
    <2>3. CASE ~(ctl.worker \/ ctl.streaming) /\ ~lifts
      <3>1. C!Rest(a) # <<>>
        BY <1>1, Stands DEF Unfinished
      <3> QED BY <2>3, <3>1 DEF C!StoreControlState
    <2> QED BY <2>1, <2>2, <2>3
  <1> HIDE DEF lifts
  <1>3. "store" \in ControlSteps
    BY DEF ControlSteps
  <1>4. /\ a = "ioctl" /\ task[a].op \in C!ControlOps /\ task[a].control \in RealControls
        /\ AfterWrite(C!Rest(a)) /\ task[a].sent = "no"
        /\ DOMAIN task = C!Actors /\ DOMAIN task[a] = TaskFields
    BY <1>1, <1>3, ControlPlaced
  <1>5. s # <<>> => Head(s) = "write"
    BY <1>1, <1>2, Stands DEF Joined
  <1>6. AfterWrite(s)
    BY <1>2, <1>4, EmptyPlace
  <1> DEFINE t == C!WithSteps(task[a], s)
  <1>7. task' = [task EXCEPT ![a] = t]
    BY <1>2 DEF C!Continue
  <1>8. /\ t.steps = s /\ t.sent = "no" /\ t.control \in RealControls
        /\ t.steps # <<>> => t.op \in C!ControlOps
    BY <1>4, ThreadGoes
  <1> HIDE DEF t
  <1>9. t.steps # <<>> => Head(t.steps) \in ControlSteps
    BY <1>5, <1>8 DEF ControlSteps
  <1>10. /\ ctl'.prepared = ctl.prepared /\ ctl'.ready = ctl.ready /\ ctl'.raw = ctl.raw
         /\ ctl'.rate = ctl.rate /\ ctl'.configured = ctl.configured /\ ctl'.worker = ctl.worker
         /\ s = <<>> => ctl'.mismatch = ctl.mismatch \/ ctl'.mismatch
    BY <1>2, Domains DEF CtlFields
  <1>11. LockGoes(lock.bulk, lock'.bulk, a, t.sent # "no")
    BY <1>1, <1>4, <1>8 DEF Placed, LockGoes
  <1>12. Placed' /\ RateStands'
    <2>1. RateWords
      BY <1>1, <1>10 DEF RateWords, RateStands
    <2> QED BY <1>1, <1>3, <1>6, <1>7, <1>8, <1>9, <1>11, <2>1, ControlGoes
  <1>13. ~Unsettled(task[a]) /\ (~Unsettled(t) => s = <<>>)
    BY <1>1, <1>5, <1>8 DEF C!At, Unsettled, StartsIn, Confirming
  <1>14. /\ ~StartsIn(t.steps, {"refresh", "confirm"}) /\ ~StartsIn(t.steps, {"refresh"})
         /\ ~Asking(t)
    BY <1>5, <1>8 DEF StartsIn, Asking
  <1>15. ctl'.ready /\ ~past'.stale /\ ~Unsettled(t) => Agrees'
    BY <1>1, <1>4, <1>10, <1>13 DEF ControlStands, ControlOf, KnownTrue, Agrees
  <1>16. HardwareTyped' /\ (ctl'.ready => hw'.control # C!AnyControl)
    BY <1>1, <1>10 DEF ControlStands, HardwareTyped
  <1>17. ControlStands'
    BY <1>4, <1>7, <1>14, <1>15, <1>16, ControlIs
  <1> QED BY <1>12, <1>17

LEMMA RefreshBelieved ==
    ASSUME BelievedInv, NEW a \in C!Actors, C!Refresh(a)
    PROVE  Placed' /\ RateStands' /\ ControlStands'
  <1> USE DEF BelievedInv
  <1> DEFINE s == C!Rest(a)
             lift == task[a].got.content.lift
             r == [task[a] EXCEPT !.control.lift = lift, !.got = C!NoReply]
             t == C!WithSteps(r, s)
  <1>1. /\ C!At(a, "refresh") /\ lock' = lock /\ hw' = hw /\ ep1' = ep1
        /\ past' = [past EXCEPT !.unlike = FALSE]
        /\ ctl' = [ctl EXCEPT !.raw = task[a].got.content]
        /\ task' = [task EXCEPT ![a] = t]
    BY DEF C!Refresh
  <1>2. "refresh" \in ControlSteps
    BY DEF ControlSteps
  <1>3. /\ a = "ioctl" /\ task[a].op \in C!ControlOps /\ task[a].control \in RealControls
        /\ AfterWrite(s) /\ task[a].sent = "no" /\ ControlOf(task[a])
        /\ DOMAIN task = C!Actors /\ DOMAIN task[a] = TaskFields
    BY <1>1, <1>2, ControlPlaced
  <1>4. s # <<>> => Head(s) = "store"
    BY <1>1, Stands DEF Joined
  <1>5. StartsIn(task[a].steps, {"refresh"}) /\ StartsIn(task[a].steps, {"refresh", "confirm"})
    BY <1>1 DEF C!At, StartsIn
  <1>6. task[a].got.content \in RealControls /\ lift \in {"off", "on"}
    <2>1. task[a].got.content \in RealControls
      BY <1>3, <1>5 DEF ControlOf
    <2> QED BY <2>1 DEF RealControls
  <1> HIDE DEF s, lift
  <1>7. DOMAIN r = TaskFields /\ r.op = task[a].op /\ r.sent = "no" /\ r.control \in RealControls
    <2> DEFINE k == [task[a].control EXCEPT !.lift = lift]
    <2>1. k \in RealControls
      BY <1>3, <1>6 DEF RealControls
    <2>2. r = [task[a] EXCEPT !.control = k, !.got = C!NoReply]
      BY <1>3 DEF TaskFields
    <2> HIDE DEF k, r
    <2> QED BY <1>3, <2>1, <2>2 DEF TaskFields
  <1> HIDE DEF r
  <1>8. /\ t.steps = s /\ t.sent = "no" /\ t.control \in RealControls
        /\ t.steps # <<>> => t.op \in C!ControlOps
    BY <1>3, <1>7, ThreadGoes
  <1> HIDE DEF t
  <1>9. t.steps # <<>> => Head(t.steps) \in ControlSteps
    BY <1>4, <1>8 DEF ControlSteps
  <1>10. RateWords
    BY <1>1, Domains DEF RateWords, RateStands, CtlFields
  <1>11. LockGoes(lock.bulk, lock'.bulk, a, t.sent # "no")
    BY <1>1, <1>3, <1>8 DEF Placed, LockGoes
  <1>12. Placed' /\ RateStands'
    BY <1>1, <1>2, <1>3, <1>8, <1>9, <1>10, <1>11, ControlGoes
  <1>13. ctl'.ready = ctl.ready /\ ctl'.raw = task[a].got.content /\ past'.stale = past.stale
    BY <1>1, Domains DEF CtlFields
  <1>14. ctl'.ready /\ ~past'.stale => Agrees'
    BY <1>1, <1>3, <1>5, <1>13 DEF ControlOf, KnownTrue, Agrees
  <1>15. /\ ~Asking(t) /\ ~StartsIn(t.steps, {"refresh", "confirm"}) /\ ~StartsIn(t.steps, {"refresh"})
         /\ ~Confirming(t.steps)
    BY <1>4, <1>8 DEF StartsIn, Confirming, Asking
  <1>16. HardwareTyped' /\ (ctl'.ready => hw'.control # C!AnyControl)
    BY <1>1, <1>13 DEF ControlStands, HardwareTyped
  <1>17. ControlStands'
    BY <1>1, <1>3, <1>14, <1>15, <1>16, ControlSettles
  <1> QED BY <1>12, <1>17

LEMMA ConfirmBelieved ==
    ASSUME BelievedInv, NEW a \in C!Actors, C!Confirm(a)
    PROVE  Placed' /\ RateStands' /\ ControlStands'
  <1> USE DEF BelievedInv
  <1> DEFINE s == C!Rest(a)
             t == C!WithSteps(task[a], s)
             alike == task[a].got.content = task[a].control
             raw == task[a].control
  <1>1. /\ C!At(a, "confirm") /\ lock' = lock /\ hw' = hw /\ ep1' = ep1
        /\ past' = [past EXCEPT !.unlike = ~alike]
        /\ ctl' = (IF alike THEN [ctl EXCEPT !.raw = raw] ELSE [ctl EXCEPT !.mismatch = TRUE])
        /\ task' = [task EXCEPT ![a] = t]
    BY DEF C!Confirm, C!Advance, C!Continue
  <1>2. "confirm" \in ControlSteps
    BY DEF ControlSteps
  <1>3. /\ a = "ioctl" /\ task[a].op \in C!ControlOps /\ task[a].control \in RealControls
        /\ AfterWrite(s) /\ task[a].sent = "no" /\ ControlOf(task[a])
        /\ DOMAIN task = C!Actors /\ DOMAIN task[a] = TaskFields
        /\ IsScript(task[a].steps) /\ task[a].steps # <<>> /\ Head(task[a].steps) = "confirm"
    BY <1>1, <1>2, ControlPlaced
  <1>4. s = <<>>
    BY <1>1, Stands DEF Joined
  <1>5. StartsIn(task[a].steps, {"refresh", "confirm"}) /\ Confirming(task[a].steps)
    <2>1. ~Refreshes(task[a].steps)
      BY <1>3, <1>4, TailPlace, EmptyPlace DEF IsScript, C!Rest
    <2> QED BY <1>3, <2>1 DEF StartsIn, Confirming
  <1>6. ctl.ready /\ ~past.stale /\ alike => raw = hw.control
    BY <1>3, <1>5 DEF ControlOf, KnownTrue
  <1> HIDE DEF s, alike, raw
  <1>7. t.steps = <<>> /\ t.sent = "no" /\ t.control \in RealControls
    BY <1>3, <1>4, ThreadGoes
  <1> HIDE DEF t
  <1>8. RateWords
    BY <1>1, Domains DEF RateWords, RateStands, CtlFields
  <1>9. LockGoes(lock.bulk, lock'.bulk, a, t.sent # "no")
    BY <1>1, <1>3, <1>7 DEF Placed, LockGoes
  <1>10. Placed' /\ RateStands'
    BY <1>1, <1>2, <1>7, <1>8, <1>9, EmptyPlace, ControlGoes
  <1>11. /\ ctl'.ready = ctl.ready /\ past'.stale = past.stale
         /\ alike => ctl'.raw = raw
         /\ ~alike => ctl'.mismatch /\ past'.unlike
    BY <1>1, Domains DEF CtlFields
  <1>12. ~Asking(t) /\ ~StartsIn(t.steps, {"refresh", "confirm"}) /\ ~Confirming(t.steps)
    BY <1>7 DEF StartsIn, Confirming, Asking
  <1>13. ControlStands'
    <2>1. HardwareTyped' /\ (ctl'.ready => hw'.control # C!AnyControl)
      BY <1>1, <1>11 DEF ControlStands, HardwareTyped
    <2>2. ctl'.ready /\ ~past'.stale => Agrees'
      BY <1>1, <1>6, <1>11 DEF Agrees
    <2> QED BY <1>1, <1>3, <1>12, <2>1, <2>2, ControlSettles
  <1> QED BY <1>10, <1>13

LEMMA ClaimBelieved ==
    ASSUME BelievedInv, NEW a \in C!Actors, C!Isolate(a) \/ C!Claim(a)
    PROVE  Placed' /\ RateStands' /\ ControlStands'
  <1> USE DEF BelievedInv
  <1>1. CASE C!Isolate(a)
    <2>1. C!At(a, "isolate") /\ ctl' = ctl /\ past' = past /\ hw' = hw /\ ep1' = ep1
      BY <1>1 DEF C!Isolate, C!OnlyControl
    <2>2. CASE C!Take("purge", a) /\ task' = [task EXCEPT ![a].steps = C!Rest(a), ![a].rate = ctl.format]
      <3>1. QuietWords
        BY <2>1, <2>2, Domains, SameQuiet DEF C!Take
      <3> QED BY <2>1, <2>2, <3>1, FarSteps, QuietClaims
    <2>3. CASE C!Continue(a, <<>>) /\ UNCHANGED lock
      <3>1. QuietWords
        BY <2>1, <2>3, SameQuiet
      <3> QED BY <2>1, <2>3, <3>1, FarSteps, QuietEnds
    <2> QED BY <1>1, <2>2, <2>3 DEF C!Isolate
  <1>2. CASE C!Claim(a)
    <2>1. C!At(a, "claim") /\ past' = past /\ hw' = hw /\ ep1' = ep1 /\ lock.purge = "none"
      BY <1>2 DEF C!Claim, C!OnlyControl, C!Free
    <2>2. CASE /\ C!Take("purge", a)
               /\ ctl' = [ctl EXCEPT !.worker = TRUE, !.stopRequested = FALSE]
               /\ task' = [task EXCEPT ![a].steps = C!Rest(a), ![a].rate = ctl.format]
      <3>1. lock.config = "none"
        BY <2>1, PurgeFreesConfig
      <3>2. /\ ctl'.prepared = ctl.prepared /\ ctl'.ready = ctl.ready /\ ctl'.raw = ctl.raw
            /\ ctl'.mismatch = ctl.mismatch
            /\ ctl'.rate = ctl.rate /\ ctl'.configured = ctl.configured
            /\ lock'.bulk = lock.bulk /\ lock'.config = lock.config
        BY <2>2, Domains DEF CtlFields, C!Take
      <3>3. QuietWords
        BY <2>1, <3>1, <3>2 DEF QuietWords, RateWords, ControlWords, RateStands
      <3> QED BY <2>1, <2>2, <3>3, FarSteps, QuietClaims
    <2>3. CASE /\ ctl' = [ctl EXCEPT !.streaming = ~ctl.oneShot /\ ctl.prepared /\ ~ctl.stopRequested]
               /\ C!Continue(a, <<>>) /\ UNCHANGED lock
      <3>1. QuietWords
        BY <2>1, <2>3, Domains, SameQuiet DEF CtlFields
      <3> QED BY <2>1, <2>3, <3>1, FarSteps, QuietEnds
    <2> QED BY <1>2, <2>2, <2>3 DEF C!Claim
  <1> QED BY <1>1, <1>2

LEMMA RequestBelieved ==
    ASSUME BelievedInv, NEW a \in C!Actors, C!Request(a)
    PROVE  Placed' /\ RateStands' /\ ControlStands'
  <1> USE DEF BelievedInv
  <1>1. CASE C!CheckFormat(a)
    <2>1. C!At(a, "checkFormat") /\ lock' = lock /\ past' = past /\ hw' = hw /\ ep1' = ep1
      BY <1>1 DEF C!CheckFormat, C!OnlyControl
    <2>2. CASE C!Continue(a, <<>>) /\ UNCHANGED ctl
      <3>1. QuietWords
        BY <2>1, <2>2, SameQuiet
      <3> QED BY <2>1, <2>2, <3>1, FarSteps, QuietEnds
    <2>3. CASE C!Advance(a) /\ ctl' = [ctl EXCEPT !.format = task[a].rate]
      <3>1. QuietWords
        BY <2>1, <2>3, Domains, SameQuiet DEF CtlFields
      <3> QED BY <2>1, <2>3, <3>1, FarSteps, QuietGoes
    <2> QED BY <1>1, <2>2, <2>3 DEF C!CheckFormat
  <1>2. CASE C!Halt(a)
    <2>1. /\ C!At(a, "halt") /\ C!Advance(a) /\ past' = past /\ hw' = hw /\ ep1' = ep1
          /\ lock' = [lock EXCEPT !.purge = a] /\ ctl' = [ctl EXCEPT !.stopRequested = TRUE]
      BY <1>2 DEF C!Halt, C!OnlyControl, C!Take
    <2>2. QuietWords
      BY <2>1, Domains, SameQuiet DEF CtlFields
    <2> QED BY <2>1, <2>2, FarSteps, QuietGoes
  <1>3. ASSUME NEW x \in {"unlockPurge", "stream", "rollback"}, C!Last(a, x, ctl'),
               ctl'.prepared = ctl.prepared, ctl'.ready = ctl.ready, ctl'.raw = ctl.raw,
               ctl'.mismatch = ctl.mismatch,
               ctl'.rate = ctl.rate, ctl'.configured = ctl.configured
        PROVE  Placed' /\ RateStands' /\ ControlStands'
    <2>1. x \in Giving /\ x \notin Elsewhere \cup {"configure", "invalidate"}
      BY FarSteps DEF Giving
    <2> QED BY <1>3, <2>1, LastBelieved
  <1>4. CASE C!Last(a, "unlockPurge", ctl)
    <2>1. ctl' = ctl /\ C!Last(a, "unlockPurge", ctl')
      BY <1>4 DEF C!Last
    <2> QED BY <1>3, <2>1
  <1>5. CASE C!Last(a, "stream",
                  [ctl EXCEPT !.streaming = TRUE, !.stopRequested = FALSE, !.queued = TRUE])
    <2>1. /\ ctl' = [ctl EXCEPT !.streaming = TRUE, !.stopRequested = FALSE, !.queued = TRUE]
          /\ C!Last(a, "stream", ctl')
      BY <1>5 DEF C!Last
    <2> QED BY <1>3, <2>1, Domains DEF CtlFields
  <1>6. CASE C!Last(a, "rollback",
                  [ctl EXCEPT !.streaming = FALSE, !.stopRequested = TRUE, !.worker = FALSE])
    <2>1. /\ ctl' = [ctl EXCEPT !.streaming = FALSE, !.stopRequested = TRUE, !.worker = FALSE]
          /\ C!Last(a, "rollback", ctl')
      BY <1>6 DEF C!Last
    <2> QED BY <1>3, <2>1, Domains DEF CtlFields
  <1>7. CASE C!Sets(a, "stopped", [ctl EXCEPT !.streaming = FALSE,
                                           !.stopRequested = @ /\ ctl.worker])
    <2>1. /\ ctl' = [ctl EXCEPT !.streaming = FALSE, !.stopRequested = ctl.stopRequested /\ ctl.worker]
          /\ C!Sets(a, "stopped", ctl')
      BY <1>7 DEF C!Sets
    <2>2. /\ ctl'.prepared = ctl.prepared /\ ctl'.ready = ctl.ready /\ ctl'.raw = ctl.raw
          /\ ctl'.mismatch = ctl.mismatch
          /\ ctl'.rate = ctl.rate /\ ctl'.configured = ctl.configured /\ ctl'.worker = ctl.worker
      BY <2>1, Domains DEF CtlFields
    <2>3. "stopped" \notin Elsewhere \cup {"configure", "invalidate"}
      BY FarSteps
    <2> QED BY <2>1, <2>2, <2>3, SetsBelieved
  <1> QED BY <1>1, <1>2, <1>4, <1>5, <1>6, <1>7, StoreBelieved, RefreshBelieved, ConfirmBelieved,
             ClaimBelieved DEF C!Request

\* A thread at one of the steps under AudioConfigLock.
LEMMA HeldPlaced ==
    ASSUME BelievedInv, NEW a \in C!Actors, NEW x \in ConfigHeld, C!At(a, x)
    PROVE  /\ lock.config = a /\ a # "pnp" /\ ctl.prepared /\ ~(ctl.worker /\ ctl.configured)
           /\ task[a].op \in {"apply", "run", "start"} /\ ~Unsettled(task[a])
           /\ task[a].control \in RealControls /\ (a = "ioctl" => AfterWrite(C!Rest(a)))
           /\ DOMAIN task = C!Actors /\ DOMAIN task[a] = TaskFields
           /\ C!Rest(a) # <<>> /\ Joined(x, Head(C!Rest(a))) /\ PlaceOf(a, task[a])
           /\ x = "commit" => task[a].sent = "no" /\ FarFrom(C!Rest(a))
           /\ \A b \in C!Actors : b # a => ~StartsIn(task[b].steps, ConfigHeld)
  <1> USE DEF BelievedInv
  <1>1. /\ DOMAIN task[a] = TaskFields /\ IsScript(task[a].steps) /\ task[a].steps # <<>>
        /\ Head(task[a].steps) = x /\ x \in Configuring /\ C!Rest(a) # <<>>
        /\ Joined(x, Head(C!Rest(a))) /\ task[a].op \in {"apply", "run", "start"}
    <2>1. x \in Configuring /\ x \in Unfinished
      BY DEF ConfigHeld, Configuring, Unfinished, Keeping
    <2> QED BY <2>1, Stands
  <1>2. StartsIn(task[a].steps, ConfigHeld) /\ PlaceOf(a, task[a])
    BY <1>1 DEF StartsIn, Placed
  <1>3. lock.config = a /\ \A b \in C!Actors : b # a => ~StartsIn(task[b].steps, ConfigHeld)
    BY <1>2 DEF Placed
  <1>4. "none" \notin C!Actors
    BY DEF C!Actors
  <1>5. ctl.prepared /\ ~(ctl.worker /\ ctl.configured)
    BY <1>3, <1>4 DEF RateStands
  <1>6. task[a].steps \in Seq(Steps)
    BY <1>1 DEF IsScript
  <1>7. a # "pnp"
    <2>1. a = "pnp" => Head(task[a].steps) \in ReleaseSteps
      BY <1>1, <1>2, <1>6, TailPlace DEF PlaceOf
    <2> QED BY <1>1, <2>1 DEF ReleaseSteps, ConfigHeld
  <1>8. (a = "ioctl" => AfterWrite(C!Rest(a))) /\ task[a].control \in RealControls
    BY <1>1, <1>2, <1>6, TailPlace DEF PlaceOf, C!Rest
  <1>9. ~Unsettled(task[a])
    BY <1>1 DEF Unsettled, Confirming, StartsIn, ConfigHeld
  <1>10. x = "commit" => task[a].sent = "no" /\ FarFrom(C!Rest(a))
    <2>1. x = "commit" => task[a].sent = "no"
      BY <1>1, <1>2 DEF PlaceOf, StartsIn, C!Commands, C!Settings
    <2>2. x = "commit" => FarFrom(C!Rest(a))
      BY <1>1 DEF FarFrom, StartsIn, Joined, Elsewhere, ControlSteps, ConfigHeld
    <2> QED BY <2>1, <2>2
  <1> QED BY <1>1, <1>2, <1>3, <1>5, <1>7, <1>8, <1>9, <1>10, Domains

\* What a failed configuration still does.
LEMMA FailurePlace ==
    \A op \in {"apply", "run", "start"} : FarFrom(C!OnFailure[op]) /\ AfterWrite(C!OnFailure[op])
  <1> SUFFICES ASSUME NEW op \in {"apply", "run", "start"}
               PROVE  FarFrom(C!OnFailure[op]) /\ AfterWrite(C!OnFailure[op])
    OBVIOUS
  <1> DEFINE s == C!OnFailure[op]
  <1>1. IsScript(s) /\ First(s) \in {"unlockPurge", "rollback"} /\ Len(s) = 1
    BY OnFailureScript DEF PlainOne
  <1> HIDE DEF s
  <1> QED BY <1>1 DEF IsScript, First, FarFrom, StartsIn, Elsewhere, ControlSteps, ConfigHeld, AfterWrite, s

LEMMA JumpPlace ==
    ASSUME NEW s, IsScript(s), s # <<>>, Head(s) = "configure", AfterWrite(s)
    PROVE  AfterWrite(SubSeq(s, 6, Len(s)))
  <1> DEFINE u == SubSeq(s, 6, Len(s))
  <1>1. Len(s) \in Nat /\ Len(u) = Len(s) - 5 /\ \A i \in 1 .. Len(u) : u[i] = s[i + 5]
    BY AfterConfigure
  <1> HIDE DEF u
  <1>2. \A i \in 1 .. Len(u) : i + 5 \in 1 .. Len(s)
    BY <1>1
  <1> SUFFICES ASSUME NEW i \in 1 .. Len(u), NEW j \in 1 .. Len(u), u[i] = "write", i < j
               PROVE  u[j] # "refresh"
    BY DEF AfterWrite, u
  <1>3. i + 5 \in 1 .. Len(s) /\ j + 5 \in 1 .. Len(s) /\ i + 5 < j + 5
    BY <1>1, <1>2
  <1>4. s[i + 5] = "write" /\ u[j] = s[j + 5]
    BY <1>1
  <1> QED BY <1>3, <1>4 DEF AfterWrite

LEMMA ConfigureBelieved ==
    ASSUME BelievedInv, NEW a \in C!Actors, C!ConfigureBegin(a)
    PROVE  Placed' /\ RateStands' /\ ControlStands'
  <1> USE DEF BelievedInv
  <1>1. /\ C!At(a, "configure") /\ past' = past /\ hw' = hw /\ ep1' = ep1 /\ lock.config = "none"
    BY DEF C!ConfigureBegin, C!OnlyControl, C!Free
  <1>2. "configure" \notin Elsewhere \cup ReleaseSteps /\ "configure" \in Configuring
    BY DEF Elsewhere, ControlSteps, ConfigHeld, ReleaseSteps, Configuring
  <1>3. /\ ~StartsIn(task[a].steps, Elsewhere) /\ task[a].sent = "no"
        /\ task[a].control \in RealControls /\ a # "pnp"
        /\ a = "ioctl" => AfterWrite(C!Rest(a))
        /\ DOMAIN task[a] = TaskFields /\ DOMAIN task = C!Actors /\ PlaceOf(a, task[a])
    BY <1>1, <1>2, StandsPlaced
  <1>4. /\ IsScript(task[a].steps) /\ task[a].steps # <<>> /\ Head(task[a].steps) = "configure"
        /\ task[a].op \in {"apply", "run", "start"}
    BY <1>1, <1>2, Stands
  <1>5. CASE /\ ctl' = [ctl EXCEPT !.format = task[a].rate]
             /\ C!Continue(a, SubSeq(task[a].steps, 6, Len(task[a].steps)))
             /\ UNCHANGED lock
    <2> DEFINE s == task[a].steps
               u == SubSeq(s, 6, Len(s))
               t == C!WithSteps(task[a], u)
    <2>1. u \in Seq(Steps) /\ Joined("commit", Head(u))
      BY <1>4, AfterConfigure
    <2>2. a = "ioctl" => AfterWrite(u)
      BY <1>3, <1>4, JumpPlace DEF PlaceOf
    <2>3. task' = [task EXCEPT ![a] = t]
      BY <1>5 DEF C!Continue
    <2> HIDE DEF u
    <2>4. FarFrom(u)
      BY <2>1 DEF FarFrom, StartsIn, Joined, Elsewhere, ControlSteps, ConfigHeld
    <2>5. PlaceOf(a, t) /\ t.steps = u
      BY <1>3, <2>2, <2>4, QuietPlace
    <2> HIDE DEF t
    <2>6. QuietWords
      BY <1>1, <1>5, Domains, SameQuiet DEF CtlFields
    <2> QED BY <1>3, <2>3, <2>4, <2>5, <2>6, QuietBelieved
  <1>6. CASE /\ ctl.prepared /\ ~(ctl.configured /\ ctl.rate = task[a].rate)
             /\ ~C!StreamKeepsItsRate(a) /\ C!Take("config", a) /\ C!Advance(a) /\ UNCHANGED ctl
    <2> DEFINE u == C!Rest(a)
               t == C!WithSteps(task[a], u)
    <2>1. u # <<>> /\ Head(u) = "info"
      BY <1>1, Stands DEF Joined, Unfinished, Keeping
    <2>2. task' = [task EXCEPT ![a] = t] /\ lock' = [lock EXCEPT !.config = a]
      BY <1>6 DEF C!Advance, C!Continue, C!Take
    <2>3. t.steps = u /\ t.sent = "no" /\ t.control \in RealControls
      BY <1>3, <2>1, ThreadGoes
    <2> HIDE DEF u, t
    <2>4. /\ StartsIn(t.steps, ConfigHeld) /\ ~StartsIn(t.steps, ControlSteps)
          /\ ~StartsIn(t.steps, {"revoke"}) /\ ~Arrived(t)
          /\ ~StartsIn(t.steps, {"refresh", "confirm"}) /\ ~Confirming(t.steps)
      BY <2>1, <2>3 DEF StartsIn, ConfigHeld, ControlSteps, Arrived, Confirming
    <2>5. PlaceOf(a, t)
      BY <1>3, <2>3, <2>4 DEF PlaceOf, u
    <2>6. lock'.bulk = lock.bulk /\ lock'.config = a
      BY <2>2, Domains
    <2>7. LockGoes(lock.bulk, lock'.bulk, a, t.sent # "no")
      BY <1>3, <2>3, <2>6 DEF Placed, LockGoes
    <2>8. LockGoes(lock.config, lock'.config, a, StartsIn(t.steps, ConfigHeld))
      BY <1>1, <2>4, <2>6 DEF LockGoes
    <2>9. Placed'
      BY <1>3, <2>2, <2>5, <2>7, <2>8, PlacedMove
    <2>10. ~Changing(task[a]) /\ ~Unsettled(task[a])
      BY <1>3, FarScripts DEF Changing, Unsettled
    <2>11. RateWords /\ ControlWords
      BY <1>1, <1>6 DEF RateWords, ControlWords, RateStands
    <2>12. ctl'.prepared /\ ~(ctl'.worker /\ ctl'.configured)
      BY <1>6 DEF C!StreamKeepsItsRate
    <2>13. RateStands'
      BY <1>3, <2>2, <2>4, <2>10, <2>11, <2>12, RateMove
    <2>14. ControlStands'
      BY <1>3, <2>2, <2>3, <2>4, <2>10, <2>11, ControlMove
    <2> QED BY <2>9, <2>13, <2>14
  <1>7. CASE C!Continue(a, C!OnFailure[task[a].op]) /\ UNCHANGED <<ctl, lock>>
    <2>1. QuietWords
      BY <1>1, <1>7, SameQuiet
    <2> DEFINE s == C!OnFailure[task[a].op]
    <2>2. FarFrom(s) /\ AfterWrite(s)
      BY <1>4, FailurePlace
    <2>3. C!Continue(a, s)
      BY <1>7
    <2> HIDE DEF s
    <2> QED BY <1>1, <1>2, <2>1, <2>2, <2>3, QuietElse
  <1> QED BY <1>5, <1>6, <1>7 DEF C!ConfigureBegin

LEMMA CommitBelieved ==
    ASSUME BelievedInv, NEW a \in C!Actors, C!Commit(a)
    PROVE  Placed' /\ RateStands' /\ ControlStands'
  <1> USE DEF BelievedInv
  <1> DEFINE u == C!Rest(a)
             t == C!WithSteps(task[a], u)
  <1>1. C!At(a, "commit") /\ "commit" \in ConfigHeld
    BY DEF C!Commit, ConfigHeld
  <1>2. /\ lock.config = a /\ a # "pnp" /\ ctl.prepared /\ ~Unsettled(task[a])
        /\ task[a].control \in RealControls /\ (a = "ioctl" => AfterWrite(u))
        /\ DOMAIN task = C!Actors /\ DOMAIN task[a] = TaskFields
        /\ task[a].sent = "no" /\ FarFrom(u)
        /\ \A b \in C!Actors : b # a => ~StartsIn(task[b].steps, ConfigHeld)
    BY <1>1, HeldPlaced
  <1>3. /\ lock' = [lock EXCEPT !.config = "none"] /\ ep1' = ep1 /\ hw' = hw
        /\ ctl' = [ctl EXCEPT !.rate = task[a].rate, !.configured = TRUE, !.format = task[a].rate]
        /\ past' = [past EXCEPT !.abandoned = FALSE]
        /\ task' = [task EXCEPT ![a] = t]
    BY <1>2 DEF C!Commit, C!Give, C!Advance, C!Continue
  <1> HIDE DEF u
  <1>4. PlaceOf(a, t) /\ t.steps = u
    BY <1>2, QuietPlace
  <1> HIDE DEF t
  <1>5. /\ t.sent = "no" /\ ~StartsIn(t.steps, ConfigHeld) /\ ~Arrived(t)
        /\ ~StartsIn(t.steps, {"refresh", "confirm"}) /\ ~Confirming(t.steps)
    BY <1>2, <1>4, FarScripts DEF PlaceOf, FarFrom, Arrived
  <1>6. /\ lock'.bulk = lock.bulk /\ lock'.config = "none" /\ past'.stale = past.stale
        /\ past'.unlike = past.unlike
        /\ ctl'.ready = ctl.ready /\ ctl'.raw = ctl.raw /\ ctl'.mismatch = ctl.mismatch
        /\ ctl'.rate = task[a].rate
        /\ ctl'.prepared = ctl.prepared
    BY <1>3, Domains DEF CtlFields
  <1>7. Placed'
    <2>1. LockGoes(lock.bulk, lock'.bulk, a, t.sent # "no")
      BY <1>2, <1>5, <1>6 DEF Placed, LockGoes
    <2>2. LockGoes(lock.config, lock'.config, a, StartsIn(t.steps, ConfigHeld))
      BY <1>2, <1>5, <1>6 DEF LockGoes
    <2> QED BY <1>2, <1>3, <1>4, <2>1, <2>2, PlacedMove
  <1>8. RateStands'
    <2>1. Arrived(task[a])
      BY <1>1 DEF C!At, Arrived, StartsIn
    <2>2. hw'.rate = ctl'.rate
      BY <1>3, <1>6, <2>1 DEF RateStands
    <2>3. task'[a] = t /\ \A b \in C!Actors : b # a => task'[b] = task[b]
      BY <1>2, <1>3
    <2>4. \A b \in C!Actors : Arrived(task'[b]) => hw'.rate = task'[b].rate
      BY <1>3, <1>5, <2>3 DEF RateStands
    <2> QED BY <1>2, <1>3, <1>6, <2>2, <2>4 DEF RateStands
  <1>9. ControlStands'
    BY <1>2, <1>3, <1>5, <1>6, ControlMove DEF ControlWords
  <1> QED BY <1>7, <1>8, <1>9

LEMMA ParametersBelieved ==
    ASSUME BelievedInv, NEW a \in C!Actors, C!Parameters(a)
    PROVE  Placed' /\ RateStands' /\ ControlStands'
  <1> USE DEF BelievedInv
  <1>1. CASE C!Invalidate(a)
    <2>1. /\ C!At(a, "invalidate") /\ C!Advance(a) /\ lock' = lock /\ past' = past /\ hw' = hw
          /\ ep1' = ep1 /\ ctl' = [ctl EXCEPT !.configured = FALSE, !.rate = "none"]
      BY <1>1 DEF C!Invalidate, C!OnlyControl
    <2>2. QuietWords /\ ~ctl'.configured
      BY <2>1, Domains DEF QuietWords, RateWords, ControlWords, RateStands, CtlFields
    <2>3. "invalidate" \notin Elsewhere \cup {"configure"}
      BY DEF Elsewhere, ControlSteps, ConfigHeld
    <2> QED BY <2>1, <2>2, <2>3, QuietGoes
  <1> QED BY <1>1, ConfigureBelieved, CommitBelieved DEF C!Parameters

(***************************************************************************)
(* The commands of endpoint 1                                              *)
(***************************************************************************)
\* Replies of commands, and those that tell a control state.
RepliesTyped(r) ==
    /\ r \in Seq(Replies)
    /\ \A i \in 1 .. Len(r) : r[i].command = "read" => r[i].content \in RealControls
DeviceState(d) ==
    /\ DOMAIN d = {"control", "rate", "replies"}
    /\ d.control \in RealControls \cup {C!AnyControl} /\ RepliesTyped(d.replies)

LEMMA AnyIsNotReal == C!AnyControl \notin RealControls
  BY DEF C!AnyControl, RealControls

LEMMA AgedTyped ==
    ASSUME DeviceState(hw)
    PROVE  /\ DeviceState(C!Aged) /\ C!Aged.control = hw.control /\ C!Aged.rate = hw.rate
           /\ \A i \in 1 .. Len(C!Aged.replies) : C!Aged.replies[i].old
  <1> DEFINE r == hw.replies
             old == [i \in DOMAIN r |-> [r[i] EXCEPT !.old = TRUE]]
  <1>1. r \in Seq(Replies) /\ \A i \in 1 .. Len(r) : r[i].command = "read" => r[i].content \in RealControls
    BY DEF DeviceState, RepliesTyped
  <1>2. C!Aged = [hw EXCEPT !.replies = old]
    BY DEF C!Aged
  <1>3. \A x \in Replies : DOMAIN x = {"command", "content", "old"} /\ [x EXCEPT !.old = TRUE] \in Replies
    BY DEF Replies
  <1>4. \A i \in 1 .. Len(r) : r[i] \in Replies
    BY <1>1
  <1>5. old \in Seq(Replies) /\ Len(old) = Len(r)
    <2>1. DOMAIN r = 1 .. Len(r) /\ Len(r) \in Nat
      BY <1>1
    <2>2. \A i \in 1 .. Len(r) : [r[i] EXCEPT !.old = TRUE] \in Replies
      BY <1>3, <1>4
    <2> DEFINE n == Len(r)
    <2>3. n \in Nat /\ old \in [1 .. n -> Replies]
      BY <2>1, <2>2
    <2> HIDE DEF old, n
    <2>4. old \in Seq(Replies) /\ Len(old) = n
      BY <2>3
    <2> QED BY <2>4 DEF n
  <1>6. \A i \in 1 .. Len(old) :
           old[i].old /\ old[i].command = r[i].command /\ old[i].content = r[i].content
    <2>1. \A i \in 1 .. Len(r) : DOMAIN r[i] = {"command", "content", "old"}
      BY <1>3, <1>4
    <2>2. DOMAIN r = 1 .. Len(r)
      BY <1>1
    <2> QED BY <1>5, <2>1, <2>2
  <1> HIDE DEF old
  <1>7. /\ DOMAIN C!Aged = {"control", "rate", "replies"} /\ C!Aged.replies = old
        /\ C!Aged.control = hw.control /\ C!Aged.rate = hw.rate
    BY <1>2 DEF DeviceState
  <1>8. \A i \in 1 .. Len(old) : old[i].command = "read" => old[i].content \in RealControls
    BY <1>1, <1>5, <1>6
  <1> QED BY <1>5, <1>6, <1>7, <1>8 DEF DeviceState, RepliesTyped

\* One more reply, of command c.
LEMMA ReplyAdded ==
    ASSUME NEW r, RepliesTyped(r), NEW x \in Replies, x.command = "read" => x.content \in RealControls
    PROVE  /\ RepliesTyped(Append(r, x)) /\ Len(Append(r, x)) = Len(r) + 1
           /\ \A i \in 1 .. Len(Append(r, x)) :
                 Append(r, x)[i] = IF i = Len(r) + 1 THEN x ELSE r[i]
           /\ Len(r) \in Nat
  <1> DEFINE u == Append(r, x)
  <1>1. r \in Seq(Replies) /\ \A i \in 1 .. Len(r) : r[i].command = "read" => r[i].content \in RealControls
    BY DEF RepliesTyped
  <1>2. /\ u \in Seq(Replies) /\ Len(u) = Len(r) + 1 /\ Len(r) \in Nat
        /\ u[Len(r) + 1] = x
    BY <1>1
  <1>3. \A i \in 1 .. Len(r) : u[i] = r[i]
    BY <1>1
  <1> HIDE DEF u
  <1>4. \A i \in 1 .. Len(u) : i = Len(r) + 1 \/ i \in 1 .. Len(r)
    BY <1>2
  <1>5. \A i \in 1 .. Len(u) : u[i] = IF i = Len(r) + 1 THEN x ELSE r[i]
    BY <1>2, <1>3, <1>4
  <1>6. RepliesTyped(u)
    BY <1>1, <1>2, <1>4, <1>5 DEF RepliesTyped
  <1> QED BY <1>2, <1>5, <1>6 DEF u

\* The device after a command that it received.
LEMMA CarriedOut ==
    ASSUME NEW c \in C!Commands, NEW t, t.control \in RealControls, NEW d, DeviceState(d),
           NEW h \in C!Received(c, t, d)
    PROVE  /\ DeviceState(h)
           /\ c \notin {"read", "write"} => h.control = d.control
           /\ c \in {"read", "write"} => h.control \in RealControls
           /\ c # "write" /\ d.control # C!AnyControl => h.control = d.control
           /\ c \notin {"reset", "set"} => h.rate = d.rate
           /\ c = "set" => h.rate = t.rate
           /\ Len(d.replies) \in Nat
           /\ \A i \in 1 .. Len(h.replies) :
                 \/ i \in 1 .. Len(d.replies) /\ h.replies[i] = d.replies[i]
                 \/ c = "read" /\ h.replies[i].content = h.control
                 \/ c # "read" /\ h.replies[i].command # "read"
  <1>1. PICK state \in (IF c = "write" THEN UNION {C!TakenOver(t.control, s) : s \in C!StatesOf(d)}
                        ELSE C!StatesOf(d)) :
           h = C!Carries(c, t, d, state)
    BY DEF C!Received
  <1>2. c # "write" /\ d.control # C!AnyControl => state = d.control
    BY <1>1 DEF C!StatesOf
  <1>3. C!StatesOf(d) \subseteq RealControls
    BY DEF C!StatesOf, DeviceState, C!Controls, RealControls
  <1>4. state \in RealControls
    <2>1. ASSUME NEW s \in RealControls PROVE C!TakenOver(t.control, s) \subseteq RealControls
      BY DEF C!TakenOver, RealControls
    <2> QED BY <1>1, <1>3, <2>1
  <1> DEFINE x == IF c = "read" THEN C!ReplyTo(c, state) ELSE C!ReplyTo(c, c)
  <1>5. c \in C!Answered => /\ x \in Replies /\ (c = "read" => x.command = "read" /\ x.content = state)
                            /\ (c # "read" => x.command # "read")
    BY <1>4 DEF C!Answered, C!Settings, C!ReplyTo, C!Code, Replies
  <1>6. h.replies = IF c \in C!Answered THEN Append(d.replies, x) ELSE d.replies
    BY <1>1 DEF C!Carries, C!Answered
  <1>7. /\ DOMAIN h = {"control", "rate", "replies"}
        /\ h.control = IF c \in {"read", "write"} THEN state ELSE d.control
        /\ c \notin {"reset", "set"} => h.rate = d.rate
        /\ c = "set" => h.rate = t.rate
    BY <1>1 DEF C!Carries
  <1> HIDE DEF x
  <1>8. RepliesTyped(d.replies) /\ Len(d.replies) \in Nat
    BY DEF DeviceState, RepliesTyped
  <1>9. CASE c \in C!Answered
    <2>1. /\ RepliesTyped(h.replies)
          /\ \A i \in 1 .. Len(h.replies) :
                /\ h.replies[i] = IF i = Len(d.replies) + 1 THEN x ELSE d.replies[i]
                /\ i \in 1 .. Len(d.replies) + 1
      <3>1. x \in Replies /\ (x.command = "read" => x.content \in RealControls)
        BY <1>4, <1>5, <1>9
      <3>2. h.replies = Append(d.replies, x)
        BY <1>6, <1>9
      <3>3. /\ RepliesTyped(Append(d.replies, x))
            /\ Len(Append(d.replies, x)) = Len(d.replies) + 1
            /\ \A i \in 1 .. Len(Append(d.replies, x)) :
                  Append(d.replies, x)[i] = IF i = Len(d.replies) + 1 THEN x ELSE d.replies[i]
        BY <1>8, <3>1, ReplyAdded
      <3> QED BY <1>8, <3>2, <3>3
    <2>2. h.control \in RealControls \cup {C!AnyControl}
      BY <1>4, <1>7 DEF DeviceState
    <2>3. DeviceState(h)
      BY <1>7, <2>1, <2>2 DEF DeviceState
    <2>4. ASSUME NEW i \in 1 .. Len(h.replies)
          PROVE  \/ i \in 1 .. Len(d.replies) /\ h.replies[i] = d.replies[i]
                 \/ c = "read" /\ h.replies[i].content = h.control
                 \/ c # "read" /\ h.replies[i].command # "read"
      <3>1. i = Len(d.replies) + 1 => h.replies[i] = x
        BY <2>1
      <3>2. i # Len(d.replies) + 1 => i \in 1 .. Len(d.replies) /\ h.replies[i] = d.replies[i]
        BY <1>8, <2>1
      <3> QED BY <1>5, <1>7, <1>9, <3>1, <3>2
    <2>5. c # "write"
      BY <1>9 DEF C!Answered, C!Settings
    <2> QED BY <1>2, <1>4, <1>7, <1>8, <2>3, <2>4, <2>5
  <1>10. CASE c \notin C!Answered
    <2>1. h.replies = d.replies /\ c # "read"
      BY <1>6, <1>10 DEF C!Answered
    <2>2. DeviceState(h)
      BY <1>4, <1>7, <1>8, <2>1 DEF DeviceState
    <2> QED BY <1>4, <1>7, <1>8, <2>1, <2>2
  <1> QED BY <1>9, <1>10

LEMMA TypedDevice == HardwareTyped /\ RateStands => DeviceState(hw)
  BY DEF HardwareTyped, RateStands, DeviceState, RepliesTyped

LEMMA TypedAgain ==
    ASSUME HardwareTyped,
           DeviceState(hw'), ep1'.reply.command = "read" => ep1'.reply = ep1.reply,
           DOMAIN ep1' = {"pending", "reply"}
    PROVE  HardwareTyped'
  BY DEF HardwareTyped, DeviceState, RepliesTyped

\* What a thread at a command may still have: endpoint 1, or nobody has it.
AtBulk(a) == lock.bulk = a \/ (lock.bulk = "none" /\ task[a].sent = "no")

LEMMA BulkAlone ==
    ASSUME BelievedInv, NEW a \in C!Actors, AtBulk(a)
    PROVE  /\ lock.bulk \in {a, "none"}
           /\ a # "ioctl" => ~Asking(task["ioctl"])
  <1>1. lock.bulk \in {a, "none"}
    BY DEF AtBulk
  <1>2. a # "ioctl" => lock.bulk = "none" \/ \E b \in C!Actors \ {"ioctl"} : lock.bulk = b
    BY <1>1
  <1> QED BY <1>1, <1>2, AskedAlone

\* The words that a command leaves alone.
SettingWords ==
    /\ HardwareTyped' /\ DOMAIN hw' = {"control", "rate", "replies"}
    /\ hw'.control = hw.control /\ past'.stale = past.stale /\ past'.unlike = past.unlike
    /\ ctl'.ready => ctl.ready
    /\ ctl'.raw = ctl.raw /\ ctl'.mismatch = ctl.mismatch /\ ctl'.prepared = ctl.prepared
    /\ ctl'.worker = ctl.worker
    /\ ctl'.configured = ctl.configured /\ ctl'.rate = ctl.rate

\* A command of a configuration is sent, succeeds or fails.
LEMMA HeldGoes ==
    ASSUME BelievedInv, NEW a \in C!Actors, NEW c \in C!Settings, C!At(a, c), AtBulk(a),
           NEW t, task' = [task EXCEPT ![a] = t], SettingWords,
           t.sent \in {"no", "wait", "out"}, t.control \in RealControls,
           t.sent # "no" => t.steps = task[a].steps,
           t.sent = "no" => t.steps = C!Rest(a) \/ t.steps = C!OnFailure[task[a].op],
           t.steps = task[a].steps \/ t.steps = C!Rest(a) => lock'.config = lock.config,
           t.steps = C!OnFailure[task[a].op] => lock'.config = "none",
           lock'.bulk = IF t.sent # "no" THEN a ELSE "none",
           \/ hw'.rate = hw.rate /\ ~Changing(task[a]) /\ (past.abandoned => past'.abandoned)
           \/ Changing(t) \/ past'.abandoned,
           Arrived(t) => hw'.rate = t.rate
    PROVE  Placed' /\ RateStands' /\ ControlStands'
  <1> USE DEF BelievedInv
  <1>1. c \in ConfigHeld /\ c # "commit" /\ c \in C!Commands /\ c \in C!Answered
    BY DEF C!Settings, ConfigHeld, C!Commands, C!Answered
  <1>2. /\ lock.config = a /\ a # "pnp" /\ ctl.prepared /\ ~(ctl.worker /\ ctl.configured)
        /\ task[a].op \in {"apply", "run", "start"} /\ ~Unsettled(task[a])
        /\ (a = "ioctl" => AfterWrite(C!Rest(a)))
        /\ DOMAIN task = C!Actors
        /\ C!Rest(a) # <<>> /\ Joined(c, Head(C!Rest(a))) /\ PlaceOf(a, task[a])
        /\ \A b \in C!Actors : b # a => ~StartsIn(task[b].steps, ConfigHeld)
    BY <1>1, HeldPlaced
  <1>3. StartsIn(C!Rest(a), ConfigHeld) /\ ~StartsIn(C!Rest(a), ControlSteps) /\ ~StartsIn(C!Rest(a), {"revoke"})
    BY <1>2 DEF Joined, StartsIn, ConfigHeld, C!Settings, ControlSteps
  <1>4. StartsIn(task[a].steps, ConfigHeld) /\ ~StartsIn(task[a].steps, ControlSteps)
        /\ ~StartsIn(task[a].steps, {"revoke"}) /\ StartsIn(task[a].steps, C!Answered)
        /\ StartsIn(task[a].steps, C!Commands) /\ ~StartsIn(task[a].steps, {"read"})
    BY <1>1 DEF C!At, StartsIn, C!Settings, ControlSteps
  <1> DEFINE f == C!OnFailure[task[a].op]
  <1>5. FarFrom(f) /\ AfterWrite(f)
    BY <1>2, FailurePlace
  <1> HIDE DEF f
  <1>6. ~StartsIn(f, ConfigHeld) /\ ~StartsIn(f, ControlSteps) /\ ~StartsIn(f, {"revoke"})
    BY <1>5, FarScripts DEF FarFrom
  <1>7. PlaceOf(a, t)
    <2>1. a = "ioctl" => AfterWrite(t.steps)
      BY <1>2, <1>5 DEF PlaceOf, f
    <2> QED BY <1>2, <1>3, <1>4, <1>6, <2>1 DEF PlaceOf, f
  <1>8. Placed'
    <2>1. LockGoes(lock.bulk, lock'.bulk, a, t.sent # "no")
      BY BulkAlone DEF LockGoes
    <2>2. LockGoes(lock.config, lock'.config, a, StartsIn(t.steps, ConfigHeld))
      BY <1>2, <1>3, <1>4, <1>6 DEF LockGoes, f
    <2> QED BY <1>2, <1>7, <2>1, <2>2, PlacedMove
  <1>9. RateStands'
    <2>1. task'[a] = t /\ \A b \in C!Actors : b # a => task'[b] = task[b]
      BY <1>2
    <2>2. \A b \in C!Actors : b # a => ~Changing(task[b]) /\ ~Arrived(task[b])
      BY <1>2 DEF Changing, Arrived, StartsIn, ConfigHeld
    <2>3. \A b \in C!Actors : Arrived(task'[b]) => hw'.rate = task'[b].rate
      BY <2>1, <2>2
    <2>4. ctl'.configured /\ ~past'.abandoned /\ (\A b \in C!Actors : ~Changing(task'[b]))
             => hw'.rate = ctl'.rate
      <3>1. SUFFICES ASSUME ctl'.configured, ~past'.abandoned, \A b \in C!Actors : ~Changing(task'[b])
                     PROVE  hw'.rate = ctl'.rate
        OBVIOUS
      <3>2. hw'.rate = hw.rate /\ ~Changing(task[a]) /\ (past.abandoned => past'.abandoned)
        BY <2>1, <3>1
      <3>3. \A b \in C!Actors : ~Changing(task[b])
        BY <2>2, <3>2
      <3> QED BY <3>1, <3>2, <3>3 DEF RateStands, SettingWords
    <2> QED BY <1>2, <2>3, <2>4 DEF RateStands, SettingWords
  <1>10. ControlStands'
    <2>1. /\ ~StartsIn(t.steps, {"refresh", "confirm"}) /\ ~Confirming(t.steps)
          /\ ~StartsIn(t.steps, {"read"})
      <3>1. ~StartsIn(t.steps, ControlSteps)
        BY <1>3, <1>4, <1>6 DEF f
      <3> QED BY <3>1 DEF StartsIn, ControlSteps, Confirming
    <2> QED BY <1>2, <2>1, BulkAlone, ControlAway DEF Asking, SettingWords
  <1> QED BY <1>8, <1>9, <1>10

LEMMA HeldSends ==
    ASSUME BelievedInv, NEW a \in C!Actors, NEW c \in C!Settings, C!At(a, c), AtBulk(a),
           NEW sent \in {"wait", "out"}, NEW tries, C!Sending(a, sent, tries),
           lock' = [lock EXCEPT !.bulk = a], ctl' = ctl, past' = past, SettingWords,
           c = "info" => hw'.rate = hw.rate,
           c = "set" /\ sent = "wait" => hw'.rate = task[a].rate
    PROVE  Placed' /\ RateStands' /\ ControlStands'
  <1> DEFINE t == [task[a] EXCEPT !.sent = sent, !.tries = tries]
  <1>1. c \in ConfigHeld
    BY DEF C!Settings, ConfigHeld
  <1>2. /\ DOMAIN task = C!Actors /\ DOMAIN task[a] = TaskFields /\ task[a].control \in RealControls
        /\ C!Rest(a) # <<>>
    BY <1>1, HeldPlaced
  <1>3. task' = [task EXCEPT ![a] = t]
    BY <1>2 DEF C!Sending
  <1>4. /\ t.sent = sent /\ t.control \in RealControls /\ t.steps = task[a].steps
        /\ t.rate = task[a].rate
    BY <1>2 DEF TaskFields
  <1> HIDE DEF t
  <1>5. C!At(a, c) /\ task[a].steps # <<>> /\ Head(task[a].steps) = c
    BY DEF C!At
  <1>6. lock'.bulk = a /\ lock'.config = lock.config
    BY Domains DEF BelievedInv
  <1>7. t.steps # C!OnFailure[task[a].op]
    <2>1. FarFrom(C!OnFailure[task[a].op])
      BY <1>1, HeldPlaced, FailurePlace
    <2>2. ~StartsIn(C!OnFailure[task[a].op], ConfigHeld)
      BY <2>1, FarScripts DEF FarFrom
    <2> QED BY <1>1, <1>4, <1>5, <2>2 DEF StartsIn
  <1>8. \/ hw'.rate = hw.rate /\ ~Changing(task[a]) /\ (past.abandoned => past'.abandoned)
        \/ Changing(t)
    <2>1. c = "info" => ~Changing(task[a])
      BY <1>5 DEF Changing, StartsIn
    <2>2. c \in {"reset", "set"} => Changing(t)
      BY <1>4, <1>5 DEF Changing, StartsIn
    <2> QED BY <2>1, <2>2 DEF C!Settings
  <1>9. Arrived(t) => hw'.rate = t.rate
    BY <1>4, <1>5 DEF Arrived, StartsIn, C!Settings
  <1>10. t.sent # "no"
    BY <1>4
  <1> QED BY <1>3, <1>4, <1>6, <1>7, <1>8, <1>9, <1>10, HeldGoes

\* The task of a thread after a command.
LEMMA NextTask ==
    ASSUME NEW t, DOMAIN t = TaskFields, NEW s, NEW rounds, NEW got
    PROVE  /\ C!NextCommand(t, s, rounds, got).steps = s
           /\ C!NextCommand(t, s, rounds, got).sent = "no"
           /\ t.control \in RealControls => C!NextCommand(t, s, rounds, got).control \in RealControls
           /\ s # <<>> => /\ C!NextCommand(t, s, rounds, got).op = t.op
                          /\ C!NextCommand(t, s, rounds, got).rate = t.rate
                          /\ C!NextCommand(t, s, rounds, got).control = t.control
                          /\ C!NextCommand(t, s, rounds, got).got = got
  <1> DEFINE u == [t EXCEPT !.sent = "no", !.tries = 0, !.rounds = rounds, !.got = got]
  <1>1. /\ DOMAIN u = TaskFields /\ u.sent = "no" /\ u.op = t.op /\ u.rate = t.rate
        /\ u.control = t.control /\ u.got = got
    BY DEF TaskFields
  <1>2. C!NextCommand(t, s, rounds, got) = C!WithSteps(u, s)
    BY DEF C!NextCommand
  <1> HIDE DEF u
  <1>3. /\ C!WithSteps(u, s).steps = s
        /\ s # <<>> => /\ C!WithSteps(u, s).op = u.op /\ C!WithSteps(u, s).sent = u.sent
                       /\ C!WithSteps(u, s).control = u.control /\ C!WithSteps(u, s).got = u.got
                       /\ C!WithSteps(u, s).rate = u.rate
        /\ s = <<>> => /\ C!WithSteps(u, s).sent = "no" /\ C!WithSteps(u, s).control \in RealControls
    BY <1>1, ThreadGoes
  <1> QED BY <1>1, <1>2, <1>3

LEMMA HeldSucceeds ==
    ASSUME BelievedInv, NEW a \in C!Actors, NEW c \in C!Settings, C!At(a, c), AtBulk(a),
           NEW got, C!Succeeds(a, c, got), task[a].sent = "wait", hw' = hw, HardwareTyped'
    PROVE  Placed' /\ RateStands' /\ ControlStands'
  <1> DEFINE rounds == IF c = "read" THEN 0 ELSE task[a].rounds
             t == C!NextCommand(task[a], C!Rest(a), rounds, got)
  <1>1. c \in ConfigHeld
    BY DEF C!Settings, ConfigHeld
  <1>2. /\ DOMAIN task = C!Actors /\ DOMAIN task[a] = TaskFields /\ task[a].control \in RealControls
        /\ C!Rest(a) # <<>> /\ Joined(c, Head(C!Rest(a))) /\ task[a].op \in {"apply", "run", "start"}
    BY <1>1, HeldPlaced
  <1>3. task' = [task EXCEPT ![a] = t]
    BY <1>2 DEF C!Succeeds
  <1> HIDE DEF rounds
  <1>4. /\ t.sent = "no" /\ t.control \in RealControls /\ t.steps = C!Rest(a) /\ t.rate = task[a].rate
    BY <1>2, NextTask
  <1> HIDE DEF t
  <1>5. /\ lock' = [lock EXCEPT !.bulk = "none"] /\ past' = past
        /\ ctl' = [ctl EXCEPT !.ready = ctl.ready \/ c = "read"] /\ c # "read"
    BY DEF C!Succeeds, C!Give, C!Settings
  <1>6. SettingWords
    BY <1>5, Domains DEF SettingWords, BelievedInv, RateStands, CtlFields
  <1>7. lock'.bulk = "none" /\ lock'.config = lock.config
    BY <1>5, Domains DEF BelievedInv
  <1>8. t.steps # C!OnFailure[task[a].op]
    <2>1. FarFrom(C!OnFailure[task[a].op])
      BY <1>2, FailurePlace
    <2>2. ~StartsIn(C!OnFailure[task[a].op], ConfigHeld)
      BY <2>1, FarScripts DEF FarFrom
    <2>3. StartsIn(C!Rest(a), ConfigHeld)
      BY <1>2 DEF Joined, StartsIn, C!Settings, ConfigHeld
    <2> QED BY <1>4, <2>2, <2>3
  <1>9. C!At(a, c) /\ task[a].steps # <<>> /\ Head(task[a].steps) = c
    BY DEF C!At
  <1>10. \/ hw'.rate = hw.rate /\ ~Changing(task[a]) /\ (past.abandoned => past'.abandoned)
         \/ Changing(t)
    <2>1. c = "info" => ~Changing(task[a])
      BY <1>9 DEF Changing, StartsIn
    <2>2. c \in {"reset", "set"} => Changing(t)
      BY <1>2, <1>4 DEF Changing, StartsIn, Joined
    <2> QED BY <1>5, <2>1, <2>2 DEF C!Settings
  <1>11. Arrived(t) => hw'.rate = t.rate
    <2>1. Arrived(t) => c = "set"
      BY <1>2, <1>4 DEF Arrived, StartsIn, Joined, C!Settings
    <2>2. c = "set" => Arrived(task[a])
      BY <1>9 DEF Arrived, StartsIn
    <2> QED BY <1>4, <2>1, <2>2 DEF BelievedInv, RateStands
  <1> QED BY <1>3, <1>4, <1>6, <1>7, <1>8, <1>10, <1>11, HeldGoes

LEMMA HeldFails ==
    ASSUME BelievedInv, NEW a \in C!Actors, NEW c \in C!Settings, C!At(a, c), AtBulk(a), C!Fails(a, c),
           HardwareTyped', DOMAIN hw' = {"control", "rate", "replies"}, hw'.control = hw.control,
           c = "info" => hw'.rate = hw.rate
    PROVE  Placed' /\ RateStands' /\ ControlStands'
  <1> DEFINE f == C!OnFailure[task[a].op]
             rounds == task[a].rounds + 1
             t == C!NextCommand(task[a], f, rounds, C!NoReply)
  <1>1. c \in ConfigHeld /\ c \notin {"auto", "read", "write"}
    BY DEF C!Settings, ConfigHeld
  <1>2. /\ DOMAIN task = C!Actors /\ DOMAIN task[a] = TaskFields /\ task[a].control \in RealControls
        /\ task[a].op \in {"apply", "run", "start"} /\ C!Rest(a) # <<>> /\ Joined(c, Head(C!Rest(a)))
    BY <1>1, HeldPlaced
  <1>3. task' = [task EXCEPT ![a] = t]
    BY <1>1, <1>2 DEF C!Fails
  <1> HIDE DEF rounds, f
  <1>4. /\ t.sent = "no" /\ t.control \in RealControls /\ t.steps = f
    BY <1>2, NextTask
  <1> HIDE DEF t
  <1>5. /\ lock' = [lock EXCEPT !.bulk = "none", !.config = "none"]
        /\ past' = [past EXCEPT !.abandoned = past.abandoned \/ c \in {"reset", "set"}]
        /\ ctl' = [ctl EXCEPT !.ready = ctl.ready /\ TRUE]
    BY <1>1 DEF C!Fails
  <1>6. /\ lock'.bulk = "none" /\ lock'.config = "none" /\ past'.stale = past.stale
        /\ past'.unlike = past.unlike
        /\ c \in {"reset", "set"} => past'.abandoned
        /\ c = "info" /\ past.abandoned => past'.abandoned
    BY <1>5, Domains DEF BelievedInv
  <1>7. SettingWords
    BY <1>5, <1>6, Domains DEF SettingWords, BelievedInv, CtlFields
  <1>8. FarFrom(f) /\ f # C!Rest(a) /\ f # task[a].steps
    <2>1. FarFrom(f)
      BY <1>2, FailurePlace DEF f
    <2>2. ~StartsIn(f, ConfigHeld)
      BY <2>1, FarScripts DEF FarFrom
    <2>3. StartsIn(C!Rest(a), ConfigHeld) /\ StartsIn(task[a].steps, ConfigHeld)
      BY <1>1, <1>2 DEF Joined, StartsIn, C!Settings, ConfigHeld, C!At
    <2> QED BY <2>1, <2>2, <2>3
  <1>9. ~Arrived(t)
    BY <1>4, <1>8, FarScripts DEF FarFrom, Arrived
  <1>10. \/ hw'.rate = hw.rate /\ ~Changing(task[a]) /\ (past.abandoned => past'.abandoned)
         \/ past'.abandoned
    <2>1. c = "info" => ~Changing(task[a])
      BY DEF C!At, Changing, StartsIn
    <2> QED BY <1>6, <2>1 DEF C!Settings
  <1> QED BY <1>3, <1>4, <1>6, <1>7, <1>8, <1>9, <1>10, HeldGoes DEF f

LEMMA BulkPlaces ==
    ASSUME BelievedInv, NEW a \in C!Actors,
           \/ task[a].sent = "no" /\ lock.bulk = "none"
           \/ task[a].sent \in {"wait", "out"}
    PROVE  AtBulk(a)
  BY DEF BelievedInv, Placed, AtBulk

\* What a write comes to: an answer to wait for, the next step, another attempt or a failure.
LEMMA WriteOf ==
    ASSUME NEW a \in C!Actors, NEW c \in C!Commands, C!BulkWrite(a, c),
           NEW device, device = (IF task[a].sent = "no" THEN C!Aged ELSE hw),
           NEW pending, pending = (IF task[a].sent = "no" THEN C!Registered(c) ELSE ep1)
    PROVE  /\ (task[a].sent = "no" /\ lock.bulk = "none") \/ task[a].sent = "out"
           /\ \/ /\ hw' \in C!Received(c, task[a], device) /\ ep1' = pending /\ c \in C!Answered
                 /\ lock' = [lock EXCEPT !.bulk = a] /\ C!Sending(a, "wait", 0)
                 /\ ctl' = ctl /\ past' = past
              \/ /\ hw' \in C!Received(c, task[a], device) /\ ep1' = pending /\ c \notin C!Answered
                 /\ C!Succeeds(a, c, C!NoReply)
              \/ /\ hw' \in {device} \cup C!Received(c, task[a], device) /\ ep1' = pending
                 /\ lock' = [lock EXCEPT !.bulk = a] /\ C!Sending(a, "out", task[a].tries + 1)
                 /\ ctl' = ctl /\ past' = past
              \/ /\ hw' \in {device} \cup C!Received(c, task[a], device)
                 /\ ep1' = [ep1 EXCEPT !.pending = "none"] /\ C!Fails(a, c)
  BY DEF C!BulkWrite, C!Free, C!Take, C!GiveUp

\* The device and the pending command after it.
LEMMA WriteDevice ==
    ASSUME BelievedInv, NEW a \in C!Actors, NEW c \in C!Commands, task[a].control \in RealControls,
           NEW device, device \in {hw, C!Aged},
           hw' \in {device} \cup C!Received(c, task[a], device)
    PROVE  /\ DeviceState(hw') /\ DeviceState(device) /\ device.control = hw.control
           /\ device.rate = hw.rate
           /\ c \notin {"read", "write"} => hw'.control = hw.control
           /\ c = "write" => hw'.control \in {hw.control} \cup RealControls
           /\ c # "write" /\ hw.control # C!AnyControl => hw'.control = hw.control
           /\ c \notin {"reset", "set"} => hw'.rate = hw.rate
           /\ hw' \in C!Received(c, task[a], device) =>
                 /\ c \in {"read", "write"} => hw'.control \in RealControls
                 /\ c = "set" => hw'.rate = task[a].rate
  <1>1. DeviceState(hw)
    BY TypedDevice DEF BelievedInv, ControlStands
  <1>2. DeviceState(device) /\ device.control = hw.control /\ device.rate = hw.rate
    BY <1>1, AgedTyped
  <1>3. CASE hw' = device
    BY <1>2, <1>3, CarriedOut
  <1>4. CASE hw' \in C!Received(c, task[a], device)
    <2> DEFINE h == hw'
               t == task[a]
    <2>1. h \in C!Received(c, t, device) /\ t.control \in RealControls
      BY <1>4
    <2> HIDE DEF h, t
    <2>2. /\ DeviceState(h)
          /\ c \notin {"read", "write"} => h.control = device.control
          /\ c \in {"read", "write"} => h.control \in RealControls
          /\ c # "write" /\ device.control # C!AnyControl => h.control = device.control
          /\ c \notin {"reset", "set"} => h.rate = device.rate
          /\ c = "set" => h.rate = t.rate
      BY <1>2, <2>1, CarriedOut
    <2> QED BY <1>2, <2>2 DEF h, t
  <1> QED BY <1>3, <1>4

LEMMA WritePending ==
    ASSUME BelievedInv, NEW c \in C!Commands,
           ep1' \in {ep1, C!Registered(c), [ep1 EXCEPT !.pending = "none"], [ep1 EXCEPT !.reply = C!NoReply]},
           DeviceState(hw')
    PROVE  HardwareTyped'
  <1>1. DOMAIN ep1' = {"pending", "reply"} /\ (ep1'.reply.command = "read" => ep1'.reply = ep1.reply)
    BY DEF BelievedInv, ControlStands, HardwareTyped, C!Registered, C!NoReply
  <1> QED BY <1>1, TypedAgain DEF BelievedInv, ControlStands

LEMMA HeldBulk ==
    ASSUME BelievedInv, NEW a \in C!Actors, NEW c \in C!Settings, C!At(a, c),
           C!BulkRefused(a, c) \/ C!BulkWrite(a, c) \/ C!BulkRevoked(a, c) \/ C!BulkWait(a, c)
    PROVE  Placed' /\ RateStands' /\ ControlStands'
  <1>1. c \in ConfigHeld /\ c \in C!Commands /\ c \in C!Answered /\ c \notin {"read", "write"}
    BY DEF C!Settings, ConfigHeld, C!Commands, C!Answered
  <1>2. task[a].control \in RealControls
    BY <1>1, HeldPlaced
  <1>3. DeviceState(hw) /\ DOMAIN hw = {"control", "rate", "replies"}
    BY TypedDevice DEF BelievedInv, ControlStands, RateStands
  <1>4. CASE C!BulkRefused(a, c)
    <2>1. AtBulk(a) /\ C!Fails(a, c) /\ hw' = hw /\ ep1' = ep1
      BY <1>4, BulkPlaces DEF C!BulkRefused, C!Free
    <2>2. HardwareTyped'
      BY <1>1, <1>3, <2>1, WritePending
    <2> QED BY <1>3, <2>1, <2>2, HeldFails
  <1>5. CASE C!BulkWrite(a, c)
    <2> DEFINE device == IF task[a].sent = "no" THEN C!Aged ELSE hw
               pending == IF task[a].sent = "no" THEN C!Registered(c) ELSE ep1
    <2>1. device \in {hw, C!Aged} /\ pending \in {ep1, C!Registered(c)}
      OBVIOUS
    <2>2. /\ (task[a].sent = "no" /\ lock.bulk = "none") \/ task[a].sent = "out"
          /\ \/ /\ hw' \in C!Received(c, task[a], device) /\ ep1' = pending
                /\ lock' = [lock EXCEPT !.bulk = a] /\ C!Sending(a, "wait", 0)
                /\ ctl' = ctl /\ past' = past
             \/ /\ hw' \in {device} \cup C!Received(c, task[a], device) /\ ep1' = pending
                /\ lock' = [lock EXCEPT !.bulk = a] /\ C!Sending(a, "out", task[a].tries + 1)
                /\ ctl' = ctl /\ past' = past
             \/ /\ hw' \in {device} \cup C!Received(c, task[a], device)
                /\ ep1' = [ep1 EXCEPT !.pending = "none"] /\ C!Fails(a, c)
      BY <1>1, <1>5, WriteOf
    <2> HIDE DEF device, pending
    <2>3. AtBulk(a)
      BY <2>2, BulkPlaces
    <2>4. hw' \in {device} \cup C!Received(c, task[a], device)
      BY <2>2
    <2>5. /\ DeviceState(hw') /\ hw'.control = hw.control
          /\ c \notin {"reset", "set"} => hw'.rate = hw.rate
          /\ hw' \in C!Received(c, task[a], device) => (c = "set" => hw'.rate = task[a].rate)
      BY <1>1, <1>2, <2>1, <2>4, WriteDevice
    <2>6. HardwareTyped' /\ DOMAIN hw' = {"control", "rate", "replies"}
      BY <1>1, <2>1, <2>2, <2>5, WritePending DEF DeviceState
    <2>7. CASE C!Fails(a, c)
      BY <2>3, <2>5, <2>6, <2>7, HeldFails
    <2>8. ASSUME lock' = [lock EXCEPT !.bulk = a], ctl' = ctl, past' = past
          PROVE  SettingWords
      BY <2>5, <2>6, <2>8 DEF SettingWords
    <2>9. CASE /\ hw' \in C!Received(c, task[a], device) /\ lock' = [lock EXCEPT !.bulk = a]
               /\ C!Sending(a, "wait", 0) /\ ctl' = ctl /\ past' = past
      BY <2>3, <2>5, <2>8, <2>9, HeldSends
    <2>10. CASE /\ lock' = [lock EXCEPT !.bulk = a] /\ C!Sending(a, "out", task[a].tries + 1)
                /\ ctl' = ctl /\ past' = past
      <3> DEFINE tries == task[a].tries + 1
      <3>1. C!Sending(a, "out", tries)
        BY <2>10
      <3> HIDE DEF tries
      <3> QED BY <2>3, <2>5, <2>8, <2>10, <3>1, HeldSends
    <2> QED BY <2>2, <2>7, <2>9, <2>10
  <1>6. CASE C!BulkRevoked(a, c)
    <2>1. /\ AtBulk(a) /\ C!Fails(a, c) /\ hw' = hw /\ ep1' = [ep1 EXCEPT !.pending = "none"]
      BY <1>6, BulkPlaces DEF C!BulkRevoked, C!GiveUp
    <2>2. HardwareTyped'
      BY <1>1, <1>3, <2>1, WritePending
    <2> QED BY <1>3, <2>1, <2>2, HeldFails
  <1>7. CASE C!BulkWait(a, c)
    <2>1. /\ AtBulk(a) /\ hw' = hw /\ task[a].sent = "wait"
          /\ ep1' \in {[ep1 EXCEPT !.pending = "none"], [ep1 EXCEPT !.reply = C!NoReply]}
          /\ C!Fails(a, c) \/ C!Succeeds(a, c, ep1.reply)
      BY <1>7, BulkPlaces DEF C!BulkWait, C!GiveUp
    <2>2. HardwareTyped'
      BY <1>1, <1>3, <2>1, WritePending
    <2>3. CASE C!Fails(a, c)
      BY <1>3, <2>1, <2>2, <2>3, HeldFails
    <2>4. CASE C!Succeeds(a, c, ep1.reply)
      BY <2>1, <2>2, <2>4, HeldSucceeds
    <2> QED BY <2>1, <2>3, <2>4
  <1> QED BY <1>4, <1>5, <1>6, <1>7

(***************************************************************************)
(* The commands that read and write the control state                      *)
(***************************************************************************)
Asks == {"auto", "read", "write"}

\* A request at such a command goes on, with its task t.
LEMMA AskMoves ==
    ASSUME BelievedInv, NEW a \in C!Actors, NEW c \in Asks, C!At(a, c), AtBulk(a),
           NEW t, task' = [task EXCEPT ![a] = t],
           t.sent \in {"no", "wait", "out"}, t.control \in RealControls,
           t.sent # "no" => t.steps = task[a].steps,
           t.sent = "wait" => c = "read",
           t.steps # <<>> => /\ t.op = task[a].op /\ Head(t.steps) \in ControlSteps,
           AfterWrite(t.steps),
           lock'.config = lock.config, lock'.bulk = IF t.sent # "no" THEN a ELSE "none",
           hw'.rate = hw.rate, DOMAIN hw' = {"control", "rate", "replies"},
           ctl'.prepared = ctl.prepared, ctl'.configured = ctl.configured, ctl'.rate = ctl.rate,
           ctl'.worker = ctl.worker, past.abandoned => past'.abandoned
    PROVE  Placed' /\ RateStands'
  <1>1. c \in ControlSteps /\ c \in C!Commands
    BY DEF Asks, ControlSteps, C!Commands
  <1>2. task[a].op \in C!ControlOps
    BY <1>1, ControlPlaced
  <1>3. /\ t.sent # "no" => StartsIn(t.steps, C!Commands)
        /\ t.sent = "wait" => StartsIn(t.steps, C!Answered)
    BY <1>1 DEF C!At, StartsIn, C!Answered
  <1>4. LockGoes(lock.bulk, lock'.bulk, a, t.sent # "no")
    BY BulkAlone DEF LockGoes
  <1>5. RateWords
    BY DEF RateWords
  <1> QED BY <1>1, <1>2, <1>3, <1>4, <1>5, ControlGoes

LEMMA AskSends ==
    ASSUME BelievedInv, NEW a \in C!Actors, NEW c \in Asks, C!At(a, c), AtBulk(a),
           NEW sent \in {"wait", "out"}, NEW tries, C!Sending(a, sent, tries),
           lock' = [lock EXCEPT !.bulk = a], ctl' = ctl, past' = past,
           HardwareTyped', DOMAIN hw' = {"control", "rate", "replies"}, hw'.rate = hw.rate,
           c = "write" => hw'.control \in {hw.control} \cup RealControls,
           c # "write" /\ hw.control # C!AnyControl => hw'.control = hw.control,
           c = "read" => RepliesTrue',
           sent = "wait" => c = "read" /\ hw'.control # C!AnyControl
    PROVE  Placed' /\ RateStands' /\ ControlStands'
  <1> DEFINE t == [task[a] EXCEPT !.sent = sent, !.tries = tries]
  <1>1. c \in ControlSteps
    BY DEF Asks, ControlSteps
  <1>2. /\ a = "ioctl" /\ DOMAIN task = C!Actors /\ DOMAIN task[a] = TaskFields
        /\ task[a].control \in RealControls /\ AfterWrite(task[a].steps) /\ ControlOf(task[a])
        /\ task[a].steps # <<>> /\ Head(task[a].steps) = c
    BY <1>1, ControlPlaced
  <1>3. task' = [task EXCEPT ![a] = t]
    BY <1>2 DEF C!Sending
  <1>4. /\ t.sent = sent /\ t.control = task[a].control /\ t.steps = task[a].steps
        /\ t.op = task[a].op
    BY <1>2 DEF TaskFields
  <1> HIDE DEF t
  <1>5. lock'.bulk = a /\ lock'.config = lock.config
    BY Domains DEF BelievedInv
  <1>6. Placed' /\ RateStands'
    <2>1. /\ t.sent \in {"no", "wait", "out"} /\ t.sent # "no"
          /\ lock'.bulk = IF t.sent # "no" THEN a ELSE "none"
      BY <1>4, <1>5
    <2>2. /\ t.control \in RealControls /\ t.steps = task[a].steps /\ AfterWrite(t.steps)
          /\ t.sent = "wait" => c = "read"
          /\ t.steps # <<>> => t.op = task[a].op /\ Head(t.steps) \in ControlSteps
      BY <1>1, <1>2, <1>4
    <2> QED BY <1>3, <1>5, <2>1, <2>2, AskMoves
  <1>7. /\ ~StartsIn(t.steps, {"refresh", "confirm"}) /\ ~StartsIn(t.steps, {"refresh"})
        /\ Asking(t) => c = "read"
        /\ c = "write" => Unsettled(t)
        /\ c # "write" => (Unsettled(task[a]) <=> Confirming(task[a].steps))
        /\ c # "write" => (Unsettled(t) <=> Confirming(task[a].steps))
    BY <1>2, <1>4 DEF StartsIn, Asks, Asking, Confirming, Unsettled
  <1>8. ctl.ready => hw.control # C!AnyControl
    BY DEF BelievedInv, ControlStands
  <1>9. ctl'.ready => hw'.control # C!AnyControl
    BY <1>2, <1>8, AnyIsNotReal
  <1>10. ctl'.ready /\ ~past'.stale /\ ~Unsettled(t) => Agrees'
    BY <1>2, <1>7, <1>8 DEF ControlOf, KnownTrue, Agrees
  <1>11. ControlStands'
    BY <1>2, <1>3, <1>4, <1>7, <1>9, <1>10, ControlIs
  <1> QED BY <1>6, <1>11

LEMMA AskSucceeds ==
    ASSUME BelievedInv, NEW a \in C!Actors, NEW c \in Asks, C!At(a, c), AtBulk(a),
           NEW got, C!Succeeds(a, c, got),
           HardwareTyped', DOMAIN hw' = {"control", "rate", "replies"}, hw'.rate = hw.rate,
           c # "write" => hw'.control = hw.control,
           c = "write" => hw'.control \in RealControls,
           c = "read" => /\ got.content \in RealControls /\ hw.control # C!AnyControl
                         /\ ~past.stale => got.content = hw.control
    PROVE  Placed' /\ RateStands' /\ ControlStands'
  <1> DEFINE rounds == IF c = "read" THEN 0 ELSE task[a].rounds
             s == C!Rest(a)
             t == C!NextCommand(task[a], s, rounds, got)
  <1>1. c \in ControlSteps /\ c \in Unfinished
    BY DEF Asks, ControlSteps, Unfinished
  <1>2. /\ a = "ioctl" /\ DOMAIN task = C!Actors /\ DOMAIN task[a] = TaskFields
        /\ task[a].control \in RealControls /\ AfterWrite(task[a].steps) /\ ControlOf(task[a])
        /\ task[a].steps # <<>> /\ Head(task[a].steps) = c /\ AfterWrite(s)
        /\ IsScript(task[a].steps)
    BY <1>1, ControlPlaced
  <1>3. s # <<>> /\ Joined(c, Head(s)) /\ IsScript(s)
    BY <1>1, Stands DEF BelievedInv
  <1>4. /\ c = "auto" => Head(s) = "read"
        /\ c = "read" => Head(s) \in {"refresh", "confirm"}
        /\ c = "write" => Head(s) = "auto"
    BY <1>3 DEF Joined
  <1>5. task' = [task EXCEPT ![a] = t]
    BY <1>2 DEF C!Succeeds
  <1>6. /\ c = "write" => ~Refreshes(s)
        /\ c # "refresh" => (Refreshes(task[a].steps) <=> Refreshes(s))
    BY <1>2, TailPlace DEF IsScript, C!Rest
  <1>7. Head(s) = "confirm" => ~Refreshes(s)
    <2>1. Head(s) = "confirm" => Tail(s) = <<>>
      <3> HIDE DEF s
      <3> QED BY <1>3, TailScript DEF Joined
    <2> HIDE DEF s
    <2> QED BY <1>3, <2>1, TailPlace, EmptyPlace DEF IsScript
  <1> HIDE DEF rounds, s
  <1>8. /\ t.sent = "no" /\ t.control = task[a].control /\ t.steps = s /\ t.op = task[a].op
        /\ t.got = got
    BY <1>2, <1>3, NextTask
  <1> HIDE DEF t
  <1>9. /\ lock' = [lock EXCEPT !.bulk = "none"] /\ past' = past
        /\ ctl' = [ctl EXCEPT !.ready = ctl.ready \/ c = "read"]
    BY DEF C!Succeeds, C!Give
  <1>10. /\ lock'.bulk = "none" /\ lock'.config = lock.config /\ ctl'.raw = ctl.raw
         /\ ctl'.mismatch = ctl.mismatch
         /\ ctl'.prepared = ctl.prepared /\ ctl'.configured = ctl.configured
         /\ ctl'.rate = ctl.rate /\ ctl'.worker = ctl.worker
         /\ ctl'.ready => ctl.ready \/ c = "read"
    BY <1>9, Domains DEF BelievedInv, CtlFields
  <1>11. Head(s) \in ControlSteps
    BY <1>1, <1>3 DEF Joined
  <1>12. Placed' /\ RateStands'
    BY <1>2, <1>5, <1>8, <1>9, <1>10, <1>11, AskMoves
  <1>13. ctl.ready => hw.control # C!AnyControl
    BY DEF BelievedInv, ControlStands
  <1>14. ctl'.ready => hw'.control # C!AnyControl
    BY <1>2, <1>10, <1>13, AnyIsNotReal
  <1>15. ~Asking(t)
    BY <1>8 DEF Asking
  <1>16. /\ StartsIn(t.steps, {"refresh"}) => c = "read"
         /\ StartsIn(t.steps, {"refresh", "confirm"}) => c = "read"
         /\ c = "read" => Unsettled(t)
         /\ c = "write" => Unsettled(t)
         /\ c = "auto" /\ ~Unsettled(t) => ~Unsettled(task[a])
    BY <1>2, <1>3, <1>4, <1>6, <1>7, <1>8 DEF Asks, StartsIn, Confirming, Unsettled
  <1>17. ctl'.ready /\ ~past'.stale =>
            /\ StartsIn(t.steps, {"refresh", "confirm"}) => t.got.content = hw'.control
            /\ ~Unsettled(t) => Agrees'
    BY <1>2, <1>8, <1>9, <1>10, <1>16 DEF ControlOf, KnownTrue, Asks, Agrees
  <1>18. ControlStands'
    BY <1>2, <1>5, <1>8, <1>14, <1>15, <1>16, <1>17, ControlIs
  <1> QED BY <1>12, <1>18

\* A round of reads again.
LEMMA ReadAgain ==
    ASSUME NEW s \in Seq(Steps), s # <<>>, AfterWrite(s)
    PROVE  /\ C!Read \o s # <<>> /\ Head(C!Read \o s) = "auto" /\ AfterWrite(C!Read \o s)
           /\ Refreshes(C!Read \o s) <=> Refreshes(s)
  <1> DEFINE u == C!Read \o s
  <1>1. /\ C!Read \in Seq(Steps) /\ Len(C!Read) = 2 /\ C!Read[1] = "auto" /\ C!Read[2] = "read"
    BY DEF C!Read, Steps, Others
  <1>2. /\ u \in Seq(Steps) /\ Len(u) = Len(C!Read) + Len(s) /\ Len(s) \in Nat
        /\ \A i \in 1 .. Len(C!Read) : u[i] = C!Read[i]
        /\ \A i \in 1 .. Len(C!Read) + Len(s) : i > Len(C!Read) => u[i] = s[i - Len(C!Read)]
    BY <1>1, Joins
  <1> HIDE DEF u
  <1>3. u # <<>> /\ Head(u) = "auto"
    BY <1>1, <1>2
  <1>4. \A i \in 1 .. Len(u) : u[i] \in {"auto", "read"} \/ (i - 2 \in 1 .. Len(s) /\ u[i] = s[i - 2])
    <2> SUFFICES ASSUME NEW i \in 1 .. Len(u)
                 PROVE  u[i] \in {"auto", "read"} \/ (i - 2 \in 1 .. Len(s) /\ u[i] = s[i - 2])
      OBVIOUS
    <2>1. i <= 2 => u[i] \in {"auto", "read"}
      <3>1. i <= 2 => i = 1 \/ i = 2
        BY <1>2
      <3> QED BY <1>1, <1>2, <3>1
    <2>2. i > 2 => i - 2 \in 1 .. Len(s) /\ u[i] = s[i - 2]
      BY <1>1, <1>2
    <2> QED BY <1>2, <2>1, <2>2
  <1>5. \A i \in 1 .. Len(s) : i + 2 \in 1 .. Len(u) /\ u[i + 2] = s[i]
    BY <1>1, <1>2
  <1>6. Refreshes(u) <=> Refreshes(s)
    <2>1. Refreshes(s) => Refreshes(u)
      BY <1>5 DEF Refreshes
    <2>2. Refreshes(u) => Refreshes(s)
      BY <1>4 DEF Refreshes
    <2> QED BY <2>1, <2>2
  <1>7. AfterWrite(u)
    <2> SUFFICES ASSUME NEW i \in 1 .. Len(u), NEW j \in 1 .. Len(u), u[i] = "write", i < j,
                        u[j] = "refresh"
                 PROVE  FALSE
      BY DEF AfterWrite
    <2>1. i - 2 \in 1 .. Len(s) /\ s[i - 2] = "write" /\ j - 2 \in 1 .. Len(s) /\ s[j - 2] = "refresh"
      BY <1>4
    <2>2. i - 2 < j - 2
      BY <1>2
    <2> QED BY <2>1, <2>2 DEF AfterWrite
  <1> QED BY <1>3, <1>6, <1>7 DEF u

LEMMA AskFails ==
    ASSUME BelievedInv, NEW a \in C!Actors, NEW c \in Asks, C!At(a, c), AtBulk(a), C!Fails(a, c),
           HardwareTyped', DOMAIN hw' = {"control", "rate", "replies"}, hw'.rate = hw.rate,
           c # "write" /\ hw.control # C!AnyControl => hw'.control = hw.control
    PROVE  Placed' /\ RateStands' /\ ControlStands'
  <1> DEFINE again == c \in {"auto", "read"} /\ task[a].rounds + 1 < ReadRounds
             after == IF c = "auto" THEN Tail(C!Rest(a)) ELSE C!Rest(a)
             u == C!Read \o after
             s == IF again THEN u ELSE <<>>
             rounds == task[a].rounds + 1
             t == C!NextCommand(task[a], s, rounds, C!NoReply)
  <1>1. c \in ControlSteps /\ c \in Unfinished /\ c \notin C!Settings /\ c \notin {"reset", "set"}
    BY DEF Asks, ControlSteps, Unfinished, C!Settings
  <1>2. /\ a = "ioctl" /\ DOMAIN task = C!Actors /\ DOMAIN task[a] = TaskFields
        /\ task[a].control \in RealControls /\ AfterWrite(task[a].steps) /\ ControlOf(task[a])
        /\ task[a].steps # <<>> /\ Head(task[a].steps) = c /\ AfterWrite(C!Rest(a))
        /\ IsScript(task[a].steps)
    BY <1>1, ControlPlaced
  <1>3. C!Rest(a) # <<>> /\ Joined(c, Head(C!Rest(a))) /\ IsScript(C!Rest(a))
    BY <1>1, Stands DEF BelievedInv
  <1>4. /\ c = "auto" => Head(C!Rest(a)) = "read"
        /\ c \in {"auto", "read"} => (Refreshes(task[a].steps) <=> Refreshes(C!Rest(a)))
    BY <1>2, <1>3, TailPlace DEF Joined, IsScript, C!Rest
  <1>5. /\ after \in Seq(Steps) /\ after # <<>> /\ AfterWrite(after)
        /\ c \in {"auto", "read"} => (Refreshes(after) <=> Refreshes(task[a].steps))
    <2> DEFINE r == C!Rest(a)
    <2>1. IsScript(r) /\ r # <<>> /\ AfterWrite(r) /\ (c = "auto" => Head(r) = "read")
      BY <1>2, <1>3, <1>4
    <2> HIDE DEF r
    <2>2. c = "auto" => /\ Tail(r) \in Seq(Steps) /\ Tail(r) # <<>>
                        /\ AfterWrite(Tail(r)) /\ (Refreshes(Tail(r)) <=> Refreshes(r))
      BY <2>1, TailScript, TailPlace DEF IsScript, Unfinished
    <2> QED BY <1>4, <2>1, <2>2 DEF r, IsScript
  <1>6. /\ task' = [task EXCEPT ![a] = t]
        /\ ctl' = [ctl EXCEPT !.ready = ctl.ready /\ (again \/ FALSE)]
        /\ lock' = [lock EXCEPT !.bulk = "none", !.config = lock.config]
        /\ past' = [past EXCEPT !.abandoned = past.abandoned \/ FALSE]
    BY <1>1, <1>2 DEF C!Fails
  <1>7. again => c \in {"auto", "read"}
    OBVIOUS
  <1> HIDE DEF rounds, again, after
  <1>8. u # <<>> /\ Head(u) = "auto" /\ AfterWrite(u) /\ (Refreshes(u) <=> Refreshes(after))
    BY <1>5, ReadAgain
  <1> HIDE DEF u
  <1>9. AfterWrite(s) /\ (s # <<>> => Head(s) = "auto" /\ again)
    BY <1>8, EmptyPlace
  <1>10. s # <<>> => (Refreshes(s) <=> Refreshes(task[a].steps))
    BY <1>5, <1>7, <1>8
  <1> HIDE DEF s
  <1>11. /\ t.sent = "no" /\ t.control \in RealControls /\ t.steps = s
         /\ s # <<>> => t.op = task[a].op /\ t.control = task[a].control
    BY <1>2, NextTask
  <1> HIDE DEF t
  <1>12. /\ lock'.bulk = "none" /\ lock'.config = lock.config /\ ctl'.raw = ctl.raw
         /\ ctl'.mismatch = ctl.mismatch
         /\ ctl'.prepared = ctl.prepared /\ ctl'.configured = ctl.configured
         /\ ctl'.rate = ctl.rate /\ ctl'.worker = ctl.worker
         /\ ctl'.ready => ctl.ready /\ again
         /\ past'.stale = past.stale /\ past'.unlike = past.unlike
         /\ (past.abandoned => past'.abandoned)
    BY <1>6, Domains DEF BelievedInv, CtlFields
  <1>13. t.steps # <<>> => Head(t.steps) \in ControlSteps
    BY <1>9, <1>11 DEF ControlSteps
  <1>14. Placed' /\ RateStands'
    BY <1>2, <1>6, <1>9, <1>11, <1>12, <1>13, AskMoves
  <1>15. ctl.ready => hw.control # C!AnyControl
    BY DEF BelievedInv, ControlStands
  <1>16. ctl'.ready => hw'.control # C!AnyControl /\ hw'.control = hw.control
    BY <1>7, <1>12, <1>15
  <1>17. /\ ~Asking(t) /\ ~StartsIn(t.steps, {"refresh"}) /\ ~StartsIn(t.steps, {"refresh", "confirm"})
         /\ c \in {"auto", "read"} /\ t.steps # <<>> /\ ~Unsettled(t) => ~Unsettled(task[a])
    BY <1>2, <1>7, <1>9, <1>10, <1>11 DEF Asking, StartsIn, Confirming, Unsettled
  <1>18. ctl'.ready => t.steps # <<>>
    BY <1>8, <1>11, <1>12 DEF s
  <1>19. ctl'.ready /\ ~past'.stale /\ ~Unsettled(t) => Agrees'
    BY <1>2, <1>7, <1>12, <1>16, <1>17, <1>18 DEF ControlOf, KnownTrue, Agrees
  <1>20. ControlStands'
    BY <1>2, <1>6, <1>16, <1>17, <1>19, ControlIs
  <1> QED BY <1>14, <1>20

\* While a request asks, the replies tell the control state of the device.
LEMMA ReadWrites ==
    ASSUME BelievedInv, NEW a \in C!Actors, C!At(a, "read"), task[a].control \in RealControls,
           NEW device, device = (IF task[a].sent = "no" THEN C!Aged ELSE hw),
           NEW pending, pending = (IF task[a].sent = "no" THEN C!Registered("read") ELSE ep1),
           task[a].sent \in {"no", "out"},
           hw' \in {device} \cup C!Received("read", task[a], device), ep1' = pending, past' = past
    PROVE  RepliesTrue'
  <1>1. a = "ioctl" /\ ControlOf(task[a])
    BY ControlPlaced DEF ControlSteps
  <1>2. task[a].sent = "out" => RepliesTrue
    BY <1>1 DEF ControlOf, Asking, C!At, StartsIn
  <1>3. DeviceState(hw) /\ HardwareTyped
    BY TypedDevice DEF BelievedInv, ControlStands
  <1>4. /\ DeviceState(device) /\ device.control = hw.control
        /\ task[a].sent = "no" => \A i \in 1 .. Len(device.replies) : device.replies[i].old
    BY <1>3, AgedTyped
  <1>5. \A i \in 1 .. Len(device.replies) :
           device.replies[i].command = "read" /\ ~device.replies[i].old
              => device.replies[i].content = hw.control /\ hw.control # C!AnyControl
    <2> SUFFICES ASSUME NEW i \in 1 .. Len(device.replies), device.replies[i].command = "read",
                        ~device.replies[i].old
                 PROVE  device.replies[i].content = hw.control /\ hw.control # C!AnyControl
      OBVIOUS
    <2>1. device = hw /\ RepliesTrue
      BY <1>2, <1>4
    <2>2. device.replies[i].content = hw.control
      BY <2>1 DEF RepliesTrue
    <2>3. device.replies[i].content \in RealControls
      BY <1>4 DEF DeviceState, RepliesTyped
    <2> QED BY <2>2, <2>3, AnyIsNotReal
  <1>6. /\ ep1'.pending \in {"none", "read"} /\ ep1'.reply.command \in {"none", "read"}
        /\ ep1'.reply.command = "read" /\ ~past'.stale
              => ep1'.reply.content = hw.control /\ hw.control # C!AnyControl
    <2>1. CASE task[a].sent = "no"
      BY <2>1 DEF C!Registered, C!Answered, C!Code, C!NoReply
    <2>2. CASE task[a].sent = "out"
      <3>1. RepliesTrue /\ ep1' = ep1
        BY <1>2, <2>2
      <3>2. ep1.reply.command = "read" => ep1.reply.content \in RealControls
        BY <1>3 DEF HardwareTyped
      <3> QED BY <3>1, <3>2, AnyIsNotReal DEF RepliesTrue
    <2> QED BY <2>1, <2>2
  <1>7. hw.control # C!AnyControl => hw'.control = hw.control
    BY <1>4, WriteDevice DEF C!Commands
  <1>8. \A i \in 1 .. Len(hw'.replies) :
           hw'.replies[i].command = "read" /\ ~hw'.replies[i].old
              => hw'.replies[i].content = hw'.control
    <2>1. CASE hw' = device
      BY <1>5, <1>7, <2>1
    <2>2. CASE hw' \in C!Received("read", task[a], device)
      <3> DEFINE h == hw'
                 t == task[a]
      <3>1. h \in C!Received("read", t, device) /\ t.control \in RealControls /\ "read" \in C!Commands
        BY <2>2 DEF C!Commands
      <3> HIDE DEF h, t
      <3>2. \A i \in 1 .. Len(h.replies) :
               \/ i \in 1 .. Len(device.replies) /\ h.replies[i] = device.replies[i]
               \/ h.replies[i].content = h.control
        BY <1>4, <3>1, CarriedOut
      <3>3. \A i \in 1 .. Len(h.replies) :
               h.replies[i].command = "read" /\ ~h.replies[i].old => h.replies[i].content = h.control
        BY <1>5, <1>7, <3>2 DEF h
      <3> QED BY <3>3 DEF h
    <2> QED BY <2>1, <2>2
  <1> QED BY <1>6, <1>7, <1>8 DEF RepliesTrue

LEMMA AskBulk ==
    ASSUME BelievedInv, NEW a \in C!Actors, NEW c \in Asks, C!At(a, c),
           C!BulkRefused(a, c) \/ C!BulkWrite(a, c) \/ C!BulkRevoked(a, c) \/ C!BulkWait(a, c)
    PROVE  Placed' /\ RateStands' /\ ControlStands'
  <1>1. c \in ControlSteps /\ c \in C!Commands /\ (c \in C!Answered <=> c = "read")
        /\ c \notin {"reset", "set"}
    BY DEF Asks, ControlSteps, C!Commands, C!Answered, C!Settings
  <1>2. /\ a = "ioctl" /\ task[a].control \in RealControls /\ ControlOf(task[a])
        /\ PlaceOf(a, task[a]) /\ task[a].steps # <<>> /\ Head(task[a].steps) = c
    BY <1>1, ControlPlaced
  <1>3. DeviceState(hw) /\ DOMAIN hw = {"control", "rate", "replies"}
    BY TypedDevice DEF BelievedInv, ControlStands, RateStands
  <1>4. CASE C!BulkRefused(a, c)
    <2>1. AtBulk(a) /\ C!Fails(a, c) /\ hw' = hw /\ ep1' = ep1
      BY <1>4, BulkPlaces DEF C!BulkRefused, C!Free
    <2>2. HardwareTyped'
      BY <1>1, <1>3, <2>1, WritePending
    <2> QED BY <1>3, <2>1, <2>2, AskFails
  <1>5. CASE C!BulkWrite(a, c)
    <2> DEFINE device == IF task[a].sent = "no" THEN C!Aged ELSE hw
               pending == IF task[a].sent = "no" THEN C!Registered(c) ELSE ep1
    <2>1. device \in {hw, C!Aged} /\ pending \in {ep1, C!Registered(c)}
      OBVIOUS
    <2>2. /\ (task[a].sent = "no" /\ lock.bulk = "none") \/ task[a].sent = "out"
          /\ \/ /\ hw' \in C!Received(c, task[a], device) /\ ep1' = pending /\ c \in C!Answered
                /\ lock' = [lock EXCEPT !.bulk = a] /\ C!Sending(a, "wait", 0)
                /\ ctl' = ctl /\ past' = past
             \/ /\ hw' \in C!Received(c, task[a], device) /\ ep1' = pending /\ c \notin C!Answered
                /\ C!Succeeds(a, c, C!NoReply)
             \/ /\ hw' \in {device} \cup C!Received(c, task[a], device) /\ ep1' = pending
                /\ lock' = [lock EXCEPT !.bulk = a] /\ C!Sending(a, "out", task[a].tries + 1)
                /\ ctl' = ctl /\ past' = past
             \/ /\ hw' \in {device} \cup C!Received(c, task[a], device)
                /\ ep1' = [ep1 EXCEPT !.pending = "none"] /\ C!Fails(a, c)
      BY <1>1, <1>5, WriteOf
    <2>3. AtBulk(a)
      BY <2>2, BulkPlaces
    <2>4. c = "read" /\ ep1' = pending /\ past' = past => RepliesTrue'
      BY <1>2, <2>2, ReadWrites
    <2> HIDE DEF device, pending
    <2>5. hw' \in {device} \cup C!Received(c, task[a], device)
      BY <2>2
    <2>6. /\ DeviceState(hw') /\ hw'.rate = hw.rate
          /\ c \notin {"read", "write"} => hw'.control = hw.control
          /\ c = "write" => hw'.control \in {hw.control} \cup RealControls
          /\ c # "write" /\ hw.control # C!AnyControl => hw'.control = hw.control
          /\ hw' \in C!Received(c, task[a], device) =>
                (c \in {"read", "write"} => hw'.control \in RealControls)
      BY <1>1, <1>2, <2>1, <2>5, WriteDevice
    <2>7. HardwareTyped' /\ DOMAIN hw' = {"control", "rate", "replies"}
      BY <1>1, <2>1, <2>2, <2>6, WritePending DEF DeviceState
    <2>8. CASE C!Fails(a, c)
      BY <2>3, <2>6, <2>7, <2>8, AskFails
    <2>9. CASE /\ hw' \in C!Received(c, task[a], device) /\ c \in C!Answered /\ ep1' = pending
               /\ lock' = [lock EXCEPT !.bulk = a] /\ C!Sending(a, "wait", 0)
               /\ ctl' = ctl /\ past' = past
      <3>1. c = "read" /\ hw'.control # C!AnyControl
        BY <1>1, <2>6, <2>9, AnyIsNotReal
      <3> QED BY <2>3, <2>4, <2>6, <2>7, <2>9, <3>1, AskSends
    <2>10. CASE /\ lock' = [lock EXCEPT !.bulk = a] /\ C!Sending(a, "out", task[a].tries + 1)
                /\ ctl' = ctl /\ past' = past /\ ep1' = pending
      <3> DEFINE tries == task[a].tries + 1
      <3>1. C!Sending(a, "out", tries)
        BY <2>10
      <3> HIDE DEF tries
      <3> QED BY <2>3, <2>4, <2>6, <2>7, <2>10, <3>1, AskSends
    <2>11. CASE /\ hw' \in C!Received(c, task[a], device) /\ c \notin C!Answered
                /\ C!Succeeds(a, c, C!NoReply)
      <3>1. c # "read"
        BY <1>1, <2>11
      <3> QED BY <2>3, <2>6, <2>7, <2>11, <3>1, AskSucceeds
    <2> QED BY <2>2, <2>8, <2>9, <2>10, <2>11
  <1>6. CASE C!BulkRevoked(a, c)
    <2>1. /\ AtBulk(a) /\ C!Fails(a, c) /\ hw' = hw /\ ep1' = [ep1 EXCEPT !.pending = "none"]
      BY <1>6, BulkPlaces DEF C!BulkRevoked, C!GiveUp
    <2>2. HardwareTyped'
      BY <1>1, <1>3, <2>1, WritePending
    <2> QED BY <1>3, <2>1, <2>2, AskFails
  <1>7. CASE C!BulkWait(a, c)
    <2>1. /\ AtBulk(a) /\ hw' = hw /\ task[a].sent = "wait"
          /\ ep1' \in {[ep1 EXCEPT !.pending = "none"], [ep1 EXCEPT !.reply = C!NoReply]}
          /\ C!Fails(a, c) \/ (C!Succeeds(a, c, ep1.reply) /\ ep1.reply.command # "none")
      BY <1>7, BulkPlaces DEF C!BulkWait, C!GiveUp
    <2>2. HardwareTyped'
      BY <1>1, <1>3, <2>1, WritePending
    <2>3. CASE C!Fails(a, c)
      BY <1>3, <2>1, <2>2, <2>3, AskFails
    <2>4. CASE C!Succeeds(a, c, ep1.reply) /\ ep1.reply.command # "none"
      <3>1. c = "read"
        BY <1>1, <1>2, <2>1 DEF PlaceOf, StartsIn
      <3>2. Asking(task[a])
        BY <1>2, <2>1, <3>1 DEF Asking, StartsIn
      <3>3. RepliesTrue /\ hw.control # C!AnyControl
        BY <1>2, <2>1, <3>2 DEF ControlOf
      <3>4. /\ ep1.reply.content \in RealControls
            /\ ~past.stale => ep1.reply.content = hw.control
        BY <2>4, <3>3 DEF RepliesTrue, HardwareTyped, BelievedInv, ControlStands
      <3> QED BY <1>3, <2>1, <2>2, <2>4, <3>1, <3>3, <3>4, AskSucceeds
    <2> QED BY <2>1, <2>3, <2>4
  <1> QED BY <1>4, <1>5, <1>6, <1>7

LEMMA BulkBelieved ==
    ASSUME BelievedInv, NEW a \in C!Actors, C!Bulk(a)
    PROVE  Placed' /\ RateStands' /\ ControlStands'
  <1>1. PICK c \in C!Commands :
           /\ C!At(a, c)
           /\ C!BulkRefused(a, c) \/ C!BulkWrite(a, c) \/ C!BulkRevoked(a, c) \/ C!BulkWait(a, c)
    BY DEF C!Bulk
  <1>2. c \in C!Settings \/ c \in Asks
    BY DEF C!Commands, Asks
  <1> QED BY <1>1, <1>2, HeldBulk, AskBulk

\* The reader delivers a reply.
LEMMA ReplyBelieved ==
    ASSUME BelievedInv, C!Ep1ReadComplete
    PROVE  Placed' /\ RateStands' /\ ControlStands'
  <1> USE DEF BelievedInv
  <1> DEFINE r == hw.replies
             x == Head(r)
             taken == ep1.pending = x.command
  <1>1. /\ r # <<>> /\ hw' = [hw EXCEPT !.replies = Tail(r)]
        /\ ep1' = (IF taken THEN [pending |-> "none", reply |-> x] ELSE ep1)
        /\ past' = [past EXCEPT !.stale = past.stale \/ (taken /\ x.old)]
        /\ task' = task /\ ctl' = ctl /\ lock' = lock
    BY DEF C!Ep1ReadComplete
  <1>2. DeviceState(hw) /\ HardwareTyped /\ (ctl.ready => hw.control # C!AnyControl)
        /\ ControlOf(task["ioctl"])
    BY TypedDevice DEF ControlStands
  <1>3. /\ r \in Seq(Replies) /\ \A i \in 1 .. Len(r) : r[i].command = "read" => r[i].content \in RealControls
    BY <1>2 DEF DeviceState, RepliesTyped
  <1>4. /\ x = r[1] /\ 1 \in 1 .. Len(r) /\ x \in Replies /\ Tail(r) \in Seq(Replies)
        /\ \A i \in 1 .. Len(Tail(r)) : Tail(r)[i] = r[i + 1] /\ i + 1 \in 1 .. Len(r)
    <2>1. Tail(r) \in Seq(Replies) /\ x = r[1] /\ Len(r) \in Nat /\ Len(r) >= 1
      BY <1>1, <1>3, TailOf
    <2>2. Len(Tail(r)) = Len(r) - 1 /\ \A i \in 1 .. Len(Tail(r)) : Tail(r)[i] = r[i + 1]
      BY <1>1, <1>3, TailOf
    <2>3. r[1] \in Replies
      BY <1>3, <2>1
    <2> QED BY <2>1, <2>2, <2>3
  <1> DEFINE u == Tail(r)
  <1>5. x.command \in {"info", "params", "read"} /\ (x.command = "read" => x.content \in RealControls)
    BY <1>3, <1>4 DEF Replies
  <1>6. /\ DOMAIN hw' = {"control", "rate", "replies"} /\ hw'.replies = u
        /\ hw'.control = hw.control /\ hw'.rate = hw.rate
    BY <1>1 DEF RateStands
  <1>7. /\ past'.abandoned = past.abandoned /\ past'.unlike = past.unlike
        /\ ~past'.stale => ~past.stale /\ ~(taken /\ x.old)
    BY <1>1, Domains
  <1>8. \A i \in 1 .. Len(u) : u[i] = r[i + 1] /\ i + 1 \in 1 .. Len(r)
    BY <1>4
  <1>9. u \in Seq(Replies)
    BY <1>4
  <1> HIDE DEF u, x
  <1>10. HardwareTyped'
    <2>1. \A i \in 1 .. Len(u) : u[i].command = "read" => u[i].content \in RealControls
      BY <1>3, <1>8
    <2>2. DeviceState(hw')
      BY <1>2, <1>6, <1>9, <2>1 DEF DeviceState, RepliesTyped
    <2>3. DOMAIN ep1' = {"pending", "reply"}
      BY <1>1, <1>2 DEF HardwareTyped
    <2>4. ep1'.reply.command = "read" => ep1'.reply.content \in RealControls
      BY <1>1, <1>2, <1>5 DEF HardwareTyped
    <2> QED BY <2>2, <2>3, <2>4 DEF HardwareTyped, DeviceState, RepliesTyped
  <1>11. RepliesTrue => RepliesTrue'
    <2> SUFFICES ASSUME RepliesTrue PROVE RepliesTrue'
      OBVIOUS
    <2>1. taken => x.command = "read"
      BY <1>5 DEF RepliesTrue
    <2>2. taken /\ ~past'.stale => x.content = hw.control
      BY <1>4, <1>7, <2>1 DEF RepliesTrue
    <2>3. ep1'.pending \in {"none", "read"} /\ ep1'.reply.command \in {"none", "read"}
      BY <1>1, <2>1 DEF RepliesTrue
    <2>4. ep1'.reply.command = "read" /\ ~past'.stale => ep1'.reply.content = hw'.control
      BY <1>1, <1>6, <1>7, <2>2 DEF RepliesTrue
    <2>5. \A i \in 1 .. Len(u) : u[i].command = "read" /\ ~u[i].old => u[i].content = hw'.control
      BY <1>6, <1>8 DEF RepliesTrue
    <2> QED BY <1>6, <2>3, <2>4, <2>5 DEF RepliesTrue
  <1>12. Placed'
    BY <1>1 DEF Placed
  <1>13. RateStands'
    BY <1>1, <1>6, <1>7 DEF RateStands
  <1>14. ControlOf(task["ioctl"])'
    BY <1>1, <1>2, <1>6, <1>7, <1>11 DEF ControlOf, KnownTrue, Agrees
  <1>15. ctl'.ready => hw'.control # C!AnyControl
    BY <1>1, <1>2, <1>6
  <1> QED BY <1>10, <1>12, <1>13, <1>14, <1>15 DEF ControlStands

\* What a thread may find in its script as it begins.
Unwritten == Steps \ {"write"}
Unrefreshed == Steps \ {"refresh"}

LEMMA WritesLast ==
    ASSUME NEW s \in Seq(Unwritten), NEW u \in Seq(Unrefreshed)
    PROVE  AfterWrite(s \o u) /\ AfterWrite(s) /\ AfterWrite(u)
  <1> DEFINE w == s \o u
  <1>1. /\ s \in Seq(Steps) /\ u \in Seq(Steps)
        /\ (\A i \in 1 .. Len(s) : s[i] # "write") /\ (\A i \in 1 .. Len(u) : u[i] # "refresh")
    <2>1. \A i \in 1 .. Len(s) : s[i] \in Unwritten
      OBVIOUS
    <2>2. \A i \in 1 .. Len(u) : u[i] \in Unrefreshed
      OBVIOUS
    <2>3. Seq(Unwritten) \subseteq Seq(Steps) /\ Seq(Unrefreshed) \subseteq Seq(Steps)
      BY DEF Unwritten, Unrefreshed
    <2> QED BY <2>1, <2>2, <2>3 DEF Unwritten, Unrefreshed
  <1>2. /\ Len(s) \in Nat /\ Len(u) \in Nat /\ Len(w) = Len(s) + Len(u)
        /\ \A i \in 1 .. Len(s) : w[i] = s[i]
        /\ \A i \in 1 .. Len(s) + Len(u) : i > Len(s) => w[i] = u[i - Len(s)]
    BY <1>1, Joins
  <1> HIDE DEF w
  <1>3. AfterWrite(w)
    <2> SUFFICES ASSUME NEW i \in 1 .. Len(w), NEW j \in 1 .. Len(w), w[i] = "write", i < j
                 PROVE  w[j] # "refresh"
      BY DEF AfterWrite
    <2>1. i > Len(s)
      <3>1. i \in 1 .. Len(s) => w[i] # "write"
        BY <1>1, <1>2
      <3> QED BY <1>2, <3>1
    <2>2. w[j] = u[j - Len(s)] /\ j - Len(s) \in 1 .. Len(u)
      BY <1>2, <2>1
    <2> QED BY <1>1, <2>2
  <1>4. AfterWrite(s) /\ AfterWrite(u)
    BY <1>1 DEF AfterWrite
  <1> QED BY <1>3, <1>4 DEF w

LEMMA FoundBehind ==
    ASSUME NEW s \in Seq(Steps), NEW u \in Seq(Steps)
    PROVE  /\ Forgets(u) => Forgets(s \o u)
           /\ Refreshes(u) => Refreshes(s \o u)
           /\ Refreshes(s) => Refreshes(s \o u)
  <1> DEFINE w == s \o u
  <1>1. /\ Len(s) \in Nat /\ Len(u) \in Nat /\ Len(w) = Len(s) + Len(u)
        /\ \A i \in 1 .. Len(s) : w[i] = s[i]
        /\ \A i \in 1 .. Len(s) + Len(u) : i > Len(s) => w[i] = u[i - Len(s)]
    BY Joins
  <1> HIDE DEF w
  <1>2. \A i \in 1 .. Len(s) : i \in 1 .. Len(w)
    BY <1>1
  <1>3. \A i \in 1 .. Len(u) : Len(s) + i \in 1 .. Len(w) /\ w[Len(s) + i] = u[i]
    <2> SUFFICES ASSUME NEW i \in 1 .. Len(u)
                 PROVE  Len(s) + i \in 1 .. Len(w) /\ w[Len(s) + i] = u[i]
      OBVIOUS
    <2> DEFINE k == Len(s) + i
    <2>1. k \in 1 .. Len(s) + Len(u) /\ k > Len(s) /\ k - Len(s) = i
      BY <1>1
    <2> HIDE DEF k
    <2>2. w[k] = u[k - Len(s)]
      BY <1>1, <2>1
    <2>3. k \in 1 .. Len(w) /\ w[k] = u[i]
      BY <1>1, <2>1, <2>2
    <2> QED BY <2>3 DEF k
  <1>4. Forgets(u) => Forgets(w)
    BY <1>3 DEF Forgets
  <1>5. Refreshes(u) => Refreshes(w)
    BY <1>3 DEF Refreshes
  <1>6. Refreshes(s) => Refreshes(w)
    BY <1>1, <1>2 DEF Refreshes
  <1> QED BY <1>4, <1>5, <1>6 DEF w

LEMMA ScriptsWrite ==
    /\ \A op \in {"get", "format", "apply", "start", "stop", "arm", "disarm", "snapshot", "pulse",
                  "burst"} : AfterWrite(C!Script[op])
    /\ AfterWrite(C!Script.set) /\ AfterWrite(C!Script.profile)
    /\ Refreshes(C!Script.get) /\ Refreshes(C!Script.profile)
  <1> DEFINE U == Seq(Unwritten)
  <1>1. \A s, u : s \in U /\ u \in U => s \o u \in U
    OBVIOUS
  <1>2. /\ C!Read \in U /\ C!Purge \in U /\ C!Configure \in U
        /\ <<"refresh">> \in U /\ <<"checkFormat", "invalidate">> \in U
        /\ <<"consumeRead", "isolate">> \in U /\ <<"unlockPurge">> \in U
        /\ <<"consumeStreaming", "claim">> \in U /\ <<"stream">> \in U
        /\ <<"halt">> \in U /\ <<"flushWork", "stopped">> \in U /\ <<"checkArm", "arm">> \in U
        /\ <<"disarm">> \in U /\ <<"flushWork">> \in U /\ <<"endOneShot">> \in U
    BY DEF C!Read, C!Purge, C!Configure, Unwritten, Steps, Holding, Keeping, Giving, Taking, Others
  <1>3. /\ <<"beginOneShot", "checkOneShot", "capture">> \in U
        /\ <<"beginOneShot", "checkOneShot", "capture", "output">> \in U
        /\ <<"beginOneShot", "checkOneShot", "capture", "output", "capture", "output">> \in U
    BY DEF Unwritten, Steps, Holding, Keeping, Giving, Taking, Others
  <1>4. C!EndOneShot \in U
    BY <1>1, <1>2 DEF C!EndOneShot
  <1> HIDE DEF U
  <1>5. /\ C!Script.get \in U /\ C!Script.format \in U /\ C!Script.arm \in U
        /\ C!Script.snapshot \in U /\ C!Script.pulse \in U /\ C!Script.burst \in U
    BY <1>1, <1>2, <1>3, <1>4 DEF C!Script
  <1>6. C!Script.apply \in U /\ C!Script.start \in U
    BY <1>1, <1>2 DEF C!Script
  <1>7. C!Script.stop \in U /\ C!Script.disarm \in U
    BY <1>1, <1>2 DEF C!Script
  <1>8. \A s \in U : AfterWrite(s)
    <2> SUFFICES ASSUME NEW s \in Seq(Unwritten) PROVE AfterWrite(s)
      BY DEF U
    <2>1. <<>> \in Seq(Unrefreshed)
      OBVIOUS
    <2> QED BY <2>1, WritesLast
  <1>9. /\ C!Read \in Seq(Unrefreshed) /\ <<"store", "write">> \in Seq(Unrefreshed)
        /\ <<"confirm">> \in Seq(Unrefreshed)
    BY DEF C!Read, Unrefreshed, Steps, Others
  <1>10. C!Store \in Seq(Unrefreshed)
    BY <1>9 DEF C!Store
  <1>11. C!Read \o <<"refresh">> \in Seq(Unwritten)
    BY <1>1, <1>2 DEF U
  <1>12. AfterWrite(C!Script.set) /\ AfterWrite(C!Script.profile)
    BY <1>10, <1>11, WritesLast DEF C!Script
  <1>13. Refreshes(<<"refresh">>)
    <2>1. Len(<<"refresh">>) = 1 /\ <<"refresh">>[1] = "refresh" /\ 1 \in 1 .. 1
      OBVIOUS
    <2> QED BY <2>1 DEF Refreshes
  <1>14. /\ C!Read \in Seq(Steps) /\ <<"refresh">> \in Seq(Steps) /\ C!Store \in Seq(Steps)
         /\ C!Read \o <<"refresh">> \in Seq(Steps)
    <2>1. C!Read \in Seq(Steps) /\ <<"refresh">> \in Seq(Steps)
      BY DEF C!Read, Steps, Others
    <2>2. Seq(Unrefreshed) \subseteq Seq(Steps)
      BY DEF Unrefreshed
    <2> QED BY <1>10, <2>1, <2>2
  <1>15. Refreshes(C!Read \o <<"refresh">>)
    BY <1>13, <1>14, FoundBehind
  <1>16. Refreshes(C!Script.get) /\ Refreshes(C!Script.profile)
    BY <1>14, <1>15, FoundBehind DEF C!Script
  <1> QED BY <1>5, <1>6, <1>7, <1>8, <1>12, <1>16

LEMMA ReleaseScript ==
    Forgets(C!Script.release) /\ \A i \in 1 .. Len(C!Script.release) : C!Script.release[i] \in ReleaseSteps
  <1> DEFINE ends == <<"flushWork", "flushStop", "forget", "invalidate", "streamingOff">>
             s == <<"revoke", "stopPipes">> \o C!Purge
  <1>1. /\ C!Purge \in Seq(ReleaseSteps) /\ ends \in Seq(ReleaseSteps)
        /\ <<"revoke", "stopPipes">> \in Seq(ReleaseSteps)
    BY DEF C!Purge, ReleaseSteps
  <1>2. s \in Seq(ReleaseSteps)
    BY <1>1
  <1>3. Forgets(ends)
    <2>1. Len(ends) = 5 /\ ends[4] = "invalidate" /\ 4 \in 1 .. 5
      OBVIOUS
    <2> HIDE DEF ends
    <2> QED BY <2>1 DEF Forgets
  <1>4. ReleaseSteps \subseteq Steps
    BY DEF ReleaseSteps, Steps, Holding, Keeping, Giving, Taking, Others
  <1>5. C!Script.release = s \o ends
    BY DEF C!Script
  <1> HIDE DEF s, ends
  <1>6. Seq(ReleaseSteps) \subseteq Seq(Steps)
    BY <1>4
  <1>7. Forgets(s \o ends)
    BY <1>1, <1>2, <1>3, <1>6, FoundBehind
  <1>8. s \o ends \in Seq(ReleaseSteps)
    BY <1>1, <1>2
  <1> QED BY <1>5, <1>7, <1>8

\* A thread begins.
LEMMA BeginsPlaced ==
    ASSUME BelievedInv, NEW a \in C!Actors, C!IsResting(a), NEW t, task' = [task EXCEPT ![a] = t],
           QuietWords, PlaceOf(a, t), t.sent = "no", ~StartsIn(t.steps, ConfigHeld),
           ~StartsIn(t.steps, {"refresh", "confirm"}), ~Confirming(t.steps)
    PROVE  Placed' /\ RateStands' /\ ControlStands'
  <1> USE DEF BelievedInv
  <1>1. DOMAIN task = C!Actors /\ task[a].steps = <<>>
    BY Domains DEF C!IsResting
  <1>2. /\ ~StartsIn(task[a].steps, ConfigHeld) /\ ~StartsIn(task[a].steps, C!Commands)
        /\ ~Changing(task[a]) /\ ~Unsettled(task[a]) /\ ~Forgets(task[a].steps)
    BY <1>1, EmptyPlace DEF Changing, Unsettled, Confirming
  <1>3. task[a].sent = "no"
    BY <1>2 DEF Placed, PlaceOf
  <1>4. LockGoes(lock.bulk, lock'.bulk, a, t.sent # "no")
    BY <1>3 DEF Placed, LockGoes, QuietWords
  <1>5. LockGoes(lock.config, lock'.config, a, StartsIn(t.steps, ConfigHeld))
    BY <1>2 DEF Placed, LockGoes, QuietWords
  <1>6. Placed'
    BY <1>1, <1>4, <1>5, PlacedMove
  <1>7. ~Arrived(t)
    BY DEF Arrived, StartsIn, ConfigHeld
  <1>8. RateStands'
    BY <1>1, <1>2, <1>7, RateMove DEF QuietWords
  <1>9. ControlStands'
    BY <1>1, <1>2, ControlMove DEF QuietWords
  <1> QED BY <1>6, <1>8, <1>9

LEMMA BeginsFar ==
    ASSUME BelievedInv, NEW a \in C!Actors, a # "pnp", C!IsResting(a),
           NEW t, task' = [task EXCEPT ![a] = t], QuietWords,
           t.sent = "no", t.control \in RealControls, NEW s, t.steps = s, IsScript(s),
           First(s) \notin Elsewhere \cup {"revoke"}, a = "ioctl" => AfterWrite(s)
    PROVE  Placed' /\ RateStands' /\ ControlStands'
  <1>1. s # <<>> => Head(s) = First(s)
    BY DEF IsScript, First
  <1>2. ~StartsIn(s, Elsewhere) /\ ~StartsIn(s, {"revoke"})
    BY <1>1 DEF StartsIn
  <1>3. PlaceOf(a, t)
    BY <1>2, FarScripts DEF PlaceOf
  <1> QED BY <1>2, <1>3, FarScripts, BeginsPlaced

LEMMA BeginsControl ==
    ASSUME BelievedInv, C!IsResting("ioctl"),
           NEW t, task' = [task EXCEPT !["ioctl"] = t], QuietWords,
           t.sent = "no", t.control \in RealControls, NEW s, t.steps = s, IsScript(s),
           t.op \in C!ControlOps, AfterWrite(s),
           First(s) = "store" \/ (First(s) = "auto" /\ Refreshes(s))
    PROVE  Placed' /\ RateStands' /\ ControlStands'
  <1>1. s # <<>> => Head(s) = First(s)
    BY DEF IsScript, First
  <1>2. ~StartsIn(s, ConfigHeld) /\ ~StartsIn(s, {"refresh", "confirm"}) /\ ~StartsIn(s, {"revoke"})
    BY <1>1 DEF StartsIn, ConfigHeld
  <1>3. ~Confirming(s)
    BY <1>1 DEF StartsIn, Confirming
  <1>4. PlaceOf("ioctl", t)
    BY <1>2 DEF PlaceOf
  <1> QED BY <1>2, <1>3, <1>4, BeginsPlaced DEF C!Actors

LEMMA RequestArrivesBelieved ==
    ASSUME BelievedInv, C!RequestArrives
    PROVE  Placed' /\ RateStands' /\ ControlStands'
  <1> USE DEF BelievedInv
  <1>1. /\ ctl' = ctl /\ lock' = lock /\ past' = past /\ hw' = hw /\ ep1' = ep1
        /\ "ioctl" \in C!Actors /\ "ioctl" # "pnp"
    BY DEF C!RequestArrives, C!Actors
  <1>2. QuietWords
    BY <1>1, SameQuiet
  <1>3. ASSUME NEW r, DOMAIN r = TaskFields, r.sent = "no", r.control \in RealControls,
               NEW op \in {"apply", "start", "stop", "disarm", "format", "arm", "snapshot", "pulse",
                           "burst"}, C!Begins("ioctl", op, r)
        PROVE  Placed' /\ RateStands' /\ ControlStands'
    <2> DEFINE s == C!Script[op]
               t == [r EXCEPT !.op = op, !.steps = s]
    <2>1. C!IsResting("ioctl") /\ task' = [task EXCEPT !["ioctl"] = t]
      BY <1>3 DEF C!Begins
    <2>2. t.sent = "no" /\ t.control \in RealControls /\ t.steps = s
      BY <1>3 DEF TaskFields
    <2>3. IsScript(s) /\ First(s) \in {"consumeRead", "consumeStreaming", "halt", "disarm",
                                       "checkFormat", "checkArm", "beginOneShot"}
      BY <1>3, ScriptApply, ScriptStart, ScriptStop, ScriptDisarm, ScriptFormat, ScriptArm,
         ScriptSnapshot, ScriptPulse, ScriptBurst DEF PlainOne, AloneOne
    <2>4. AfterWrite(s)
      BY <1>3, ScriptsWrite
    <2> HIDE DEF s, t
    <2>5. First(s) \notin Elsewhere \cup {"revoke"}
      BY <2>3 DEF Elsewhere, ControlSteps, ConfigHeld
    <2> QED BY <1>1, <1>2, <2>1, <2>2, <2>3, <2>4, <2>5, BeginsFar
  <1>4. ASSUME NEW r, DOMAIN r = TaskFields, r.sent = "no", r.control \in RealControls,
               NEW op \in C!ControlOps, C!Begins("ioctl", op, r)
        PROVE  Placed' /\ RateStands' /\ ControlStands'
    <2> DEFINE s == C!Script[op]
               t == [r EXCEPT !.op = op, !.steps = s]
    <2>1. C!IsResting("ioctl") /\ task' = [task EXCEPT !["ioctl"] = t]
      BY <1>4 DEF C!Begins
    <2>2. t.sent = "no" /\ t.control \in RealControls /\ t.steps = s /\ t.op \in C!ControlOps
      BY <1>4 DEF TaskFields
    <2>3. IsScript(s) /\ AfterWrite(s) /\ (First(s) = "store" \/ (First(s) = "auto" /\ Refreshes(s)))
      BY <1>4, ScriptsWrite, ScriptGet, ScriptSet, ScriptProfile DEF C!ControlOps, PlainOne
    <2> HIDE DEF s, t
    <2> QED BY <1>2, <2>1, <2>2, <2>3, BeginsControl
  <1>5. DOMAIN C!Resting = TaskFields
    BY DEF C!Resting, TaskFields
  <1>6. CASE \E op \in {"get", "apply", "start", "stop", "disarm"} : C!Begins("ioctl", op, C!Resting)
    <2>1. C!Resting.sent = "no" /\ C!Resting.control \in RealControls
      BY DEF C!Resting, RealControls, C!DefaultControl
    <2> QED BY <1>3, <1>4, <1>5, <1>6, <2>1 DEF C!ControlOps
  <1>7. CASE \E c \in C!Controls : C!Begins("ioctl", "set", [C!Resting EXCEPT !.control = c])
    <2>1. PICK c \in C!Controls : C!Begins("ioctl", "set", [C!Resting EXCEPT !.control = c])
      BY <1>7
    <2> DEFINE r == [C!Resting EXCEPT !.control = c]
    <2>2. DOMAIN r = TaskFields /\ r.sent = "no" /\ r.control \in RealControls
      BY DEF C!Resting, TaskFields, C!Controls, RealControls
    <2> HIDE DEF r
    <2>3. C!Begins("ioctl", "set", r)
      BY <2>1 DEF r
    <2> QED BY <1>4, <2>2, <2>3 DEF C!ControlOps
  <1>8. CASE \E m \in Modes : C!Begins("ioctl", "profile", [C!Resting EXCEPT !.control.mode = m])
    <2>1. PICK m \in Modes : C!Begins("ioctl", "profile", [C!Resting EXCEPT !.control.mode = m])
      BY <1>8
    <2> DEFINE r == [C!Resting EXCEPT !.control.mode = m]
    <2>2. DOMAIN r = TaskFields /\ r.sent = "no" /\ r.control \in RealControls
      BY DEF C!Resting, TaskFields, RealControls, C!DefaultControl
    <2> HIDE DEF r
    <2>3. C!Begins("ioctl", "profile", r)
      BY <2>1 DEF r
    <2> QED BY <1>4, <2>2, <2>3 DEF C!ControlOps
  <1>9. CASE \E r \in Rates : C!Begins("ioctl", "format", [C!Resting EXCEPT !.rate = r])
    <2>1. PICK f \in Rates : C!Begins("ioctl", "format", [C!Resting EXCEPT !.rate = f])
      BY <1>9
    <2> DEFINE r == [C!Resting EXCEPT !.rate = f]
    <2>2. DOMAIN r = TaskFields /\ r.sent = "no" /\ r.control \in RealControls
      BY DEF C!Resting, TaskFields, RealControls, C!DefaultControl
    <2> HIDE DEF r
    <2>3. C!Begins("ioctl", "format", r)
      BY <2>1 DEF r
    <2> QED BY <1>3, <2>2, <2>3
  <1>10. ASSUME NEW p, NEW op \in {"arm", "snapshot", "pulse", "burst"},
                C!Begins("ioctl", op, [C!Resting EXCEPT !.phase = p])
         PROVE  Placed' /\ RateStands' /\ ControlStands'
    <2> DEFINE r == [C!Resting EXCEPT !.phase = p]
    <2>1. DOMAIN r = TaskFields /\ r.sent = "no" /\ r.control \in RealControls
      BY DEF C!Resting, TaskFields, RealControls, C!DefaultControl
    <2> HIDE DEF r
    <2>2. C!Begins("ioctl", op, r)
      BY <1>10 DEF r
    <2> QED BY <1>3, <2>1, <2>2
  <1>11. \/ \E p \in C!Phases : C!Begins("ioctl", "arm", [C!Resting EXCEPT !.phase = p])
         \/ C!Begins("ioctl", "snapshot", [C!Resting EXCEPT !.phase = "capture"])
         \/ \E op \in {"pulse", "burst"} : C!Begins("ioctl", op, [C!Resting EXCEPT !.phase = "output"])
         => \E p, op : op \in {"arm", "snapshot", "pulse", "burst"}
                       /\ C!Begins("ioctl", op, [C!Resting EXCEPT !.phase = p])
    OBVIOUS
  <1> QED BY <1>6, <1>7, <1>8, <1>9, <1>10, <1>11 DEF C!RequestArrives

LEMMA CallbackArrivesBelieved ==
    ASSUME BelievedInv, C!CallbackArrives
    PROVE  Placed' /\ RateStands' /\ ControlStands'
  <1> USE DEF BelievedInv
  <1>1. lock' = lock /\ past' = past /\ hw' = hw /\ ep1' = ep1 /\ "acx" \in C!Actors
    BY DEF C!CallbackArrives, C!Actors
  <1>2. QuietWords
    <2>1. /\ ctl'.prepared = ctl.prepared /\ ctl'.ready = ctl.ready /\ ctl'.raw = ctl.raw
          /\ ctl'.mismatch = ctl.mismatch
          /\ ctl'.rate = ctl.rate /\ ctl'.configured = ctl.configured /\ ctl'.worker = ctl.worker
      BY Domains DEF C!CallbackArrives, CtlFields
    <2> QED BY <1>1, <2>1, SameQuiet
  <1>3. ASSUME NEW r, DOMAIN r = TaskFields, r.sent = "no", r.control \in RealControls,
               NEW op \in {"run", "pause", "free"}, C!Begins("acx", op, r)
        PROVE  Placed' /\ RateStands' /\ ControlStands'
    <2> DEFINE s == C!Script[op]
               t == [r EXCEPT !.op = op, !.steps = s]
    <2>1. C!IsResting("acx") /\ task' = [task EXCEPT !["acx"] = t]
      BY <1>3 DEF C!Begins
    <2>2. t.sent = "no" /\ t.control \in RealControls /\ t.steps = s
      BY <1>3 DEF TaskFields
    <2>3. IsScript(s) /\ First(s) \in {"run", "inactive"}
      BY <1>3, ScriptRun, ScriptPause, ScriptFree DEF PlainOne
    <2> HIDE DEF s, t
    <2>4. First(s) \notin Elsewhere \cup {"revoke"}
      BY <2>3 DEF Elsewhere, ControlSteps, ConfigHeld
    <2> QED BY <1>1, <1>2, <2>1, <2>2, <2>3, <2>4, BeginsFar
  <1>4. CASE \E r \in Rates : C!Begins("acx", "run", [C!Resting EXCEPT !.rate = r])
    <2>1. PICK f \in Rates : C!Begins("acx", "run", [C!Resting EXCEPT !.rate = f])
      BY <1>4
    <2> DEFINE r == [C!Resting EXCEPT !.rate = f]
    <2>2. DOMAIN r = TaskFields /\ r.sent = "no" /\ r.control \in RealControls
      BY DEF C!Resting, TaskFields, RealControls, C!DefaultControl
    <2> HIDE DEF r
    <2>3. C!Begins("acx", "run", r)
      BY <2>1 DEF r
    <2> QED BY <1>3, <2>2, <2>3
  <1>5. CASE C!Begins("acx", "pause", C!Resting) \/ C!Begins("acx", "free", C!Resting)
    <2>1. DOMAIN C!Resting = TaskFields /\ C!Resting.sent = "no" /\ C!Resting.control \in RealControls
      BY DEF C!Resting, TaskFields, RealControls, C!DefaultControl
    <2> QED BY <1>3, <1>5, <2>1
  <1> QED BY <1>4, <1>5 DEF C!CallbackArrives

LEMMA WorkBelieved ==
    ASSUME BelievedInv, C!WorkBegins \/ C!StopBegins
    PROVE  Placed' /\ RateStands' /\ ControlStands'
  <1> USE DEF BelievedInv
  <1>1. lock' = lock /\ past' = past /\ hw' = hw /\ ep1' = ep1 /\ {"work", "stop"} \subseteq C!Actors
    BY DEF C!WorkBegins, C!StopBegins, C!OnlyControl, C!Actors
  <1>2. QuietWords
    <2>1. /\ ctl'.prepared = ctl.prepared /\ ctl'.ready = ctl.ready /\ ctl'.raw = ctl.raw
          /\ ctl'.mismatch = ctl.mismatch
          /\ ctl'.rate = ctl.rate /\ ctl'.configured = ctl.configured /\ ctl'.worker = ctl.worker
      BY Domains DEF C!WorkBegins, C!StopBegins, CtlFields
    <2> QED BY <1>1, <2>1, SameQuiet
  <1>3. ASSUME NEW a \in {"work", "stop"}, NEW op \in {"work", "stopWork"}, C!IsResting(a),
               task' = [task EXCEPT ![a].op = op, ![a].steps = C!Script[op]]
        PROVE  Placed' /\ RateStands' /\ ControlStands'
    <2> DEFINE s == C!Script[op]
               t == [task[a] EXCEPT !.op = op, !.steps = s]
    <2>1. DOMAIN task = C!Actors /\ a \in C!Actors /\ DOMAIN task[a] = TaskFields
      BY <1>1, Domains
    <2>2. task' = [task EXCEPT ![a] = t]
      BY <1>3, <2>1
    <2>3. task[a].sent = "no" /\ task[a].control \in RealControls
      BY <1>3, <2>1, EmptyPlace DEF Placed, PlaceOf, C!IsResting
    <2>4. t.sent = "no" /\ t.control \in RealControls /\ t.steps = s
      BY <2>1, <2>3 DEF TaskFields
    <2>5. IsScript(s) /\ First(s) \in {"look", "stopActive"}
      BY <1>3, ScriptWork, ScriptStopWork DEF PlainOne
    <2> HIDE DEF s, t
    <2>6. First(s) \notin Elsewhere \cup {"revoke"}
      BY <2>5 DEF Elsewhere, ControlSteps, ConfigHeld
    <2> QED BY <1>2, <1>3, <2>1, <2>2, <2>4, <2>5, <2>6, BeginsFar
  <1>4. CASE C!WorkBegins
    BY <1>3, <1>4 DEF C!WorkBegins
  <1>5. CASE C!StopBegins
    BY <1>3, <1>5 DEF C!StopBegins
  <1> QED BY <1>4, <1>5

LEMMA ReleaseBelieved ==
    ASSUME BelievedInv, C!ReleaseHardware
    PROVE  Placed' /\ RateStands' /\ ControlStands'
  <1> USE DEF BelievedInv
  <1> DEFINE s == C!Script["release"]
             t == [C!Resting EXCEPT !.op = "release", !.steps = s]
  <1>1. /\ ctl' = ctl /\ lock' = lock /\ past' = past /\ hw' = hw /\ ep1' = ep1
        /\ "pnp" \in C!Actors /\ C!IsResting("pnp") /\ task' = [task EXCEPT !["pnp"] = t]
    BY DEF C!ReleaseHardware, C!Begins, C!Actors
  <1>2. QuietWords
    BY <1>1, SameQuiet
  <1>3. t.sent = "no" /\ t.control \in RealControls /\ t.steps = s
    BY DEF C!Resting, RealControls, C!DefaultControl
  <1>4. /\ IsScript(s) /\ First(s) = "revoke" /\ Forgets(s)
        /\ \A i \in 1 .. Len(s) : s[i] \in ReleaseSteps
    BY ScriptRelease, ReleaseScript DEF PlainOne
  <1> HIDE DEF s, t
  <1>5. s # <<>> => Head(s) = First(s)
    BY <1>4 DEF IsScript, First
  <1>6. ~StartsIn(s, Elsewhere)
    BY <1>4, <1>5 DEF StartsIn, Elsewhere, ControlSteps, ConfigHeld
  <1>7. PlaceOf("pnp", t)
    BY <1>3, <1>4, <1>6, FarScripts DEF PlaceOf
  <1> QED BY <1>1, <1>2, <1>3, <1>6, <1>7, FarScripts, BeginsPlaced

\* The device and the process work item move no thread.
LEMMA NobodyMoves ==
    ASSUME BelievedInv, task' = task, QuietWords
    PROVE  Placed' /\ RateStands' /\ ControlStands'
  <1> USE DEF BelievedInv
  <1>1. Placed'
    BY DEF Placed, QuietWords
  <1>2. RateStands'
    <2>1. lock'.config # "none" => ctl'.prepared /\ ~(ctl'.worker /\ ctl'.configured)
      BY DEF RateStands, QuietWords, RateWords
    <2>2. ~ctl'.prepared /\ ctl'.configured => Forgets(task'["pnp"].steps)
      BY DEF RateStands, QuietWords, RateWords
    <2>3. ctl'.configured /\ ~past'.abandoned /\ (\A a \in C!Actors : ~Changing(task'[a]))
             => hw'.rate = ctl'.rate
      BY DEF RateStands, QuietWords, RateWords
    <2>4. \A a \in C!Actors : Arrived(task'[a]) => hw'.rate = task'[a].rate
      BY DEF RateStands, QuietWords, RateWords
    <2>5. DOMAIN hw' = {"control", "rate", "replies"}
      BY DEF QuietWords, RateWords
    <2> QED BY <2>1, <2>2, <2>3, <2>4, <2>5 DEF RateStands
  <1>3. HardwareTyped' /\ (ctl'.ready => hw'.control # C!AnyControl)
    BY DEF ControlStands, QuietWords, ControlWords, HardwareTyped
  <1>4. RepliesTrue => RepliesTrue'
    BY DEF QuietWords, ControlWords, RepliesTrue
  <1>5. ControlOf(task["ioctl"])'
    BY <1>4 DEF ControlStands, ControlOf, QuietWords, ControlWords, KnownTrue, Agrees
  <1> QED BY <1>1, <1>2, <1>3, <1>5 DEF ControlStands

LEMMA EngineFailsBelieved ==
    ASSUME BelievedInv, C!EngineFails
    PROVE  Placed' /\ RateStands' /\ ControlStands'
  <1> USE DEF BelievedInv
  <1>1. /\ ctl' = C!FatalStop(ctl) /\ lock' = lock /\ past' = past /\ hw' = hw /\ ep1' = ep1
        /\ task' = task
    BY DEF C!EngineFails
  <1>2. QuietWords
    BY <1>1, Domains, SameQuiet DEF C!FatalStop, CtlFields
  <1> QED BY <1>1, <1>2, NobodyMoves

\* A device that arrives is asked for its rate and its controls before they count.
LEMMA PrepareBelieved ==
    ASSUME BelievedInv, C!PrepareHardware
    PROVE  Placed' /\ RateStands' /\ ControlStands'
  <1> USE DEF BelievedInv
  <1>1. /\ task' = task /\ ep1' = ep1 /\ lock' = lock /\ ~ctl.prepared /\ ctl' = C!Prepared
        /\ hw' = [control |-> C!AnyControl, rate |-> "none", replies |-> <<>>]
        /\ C!IsResting("pnp") /\ C!IsResting("ioctl") /\ {"pnp", "ioctl"} \subseteq C!Actors
    BY DEF C!PrepareHardware, C!Actors
  <1>2. /\ ctl'.prepared /\ ~ctl'.ready /\ ctl'.configured = ctl.configured
        /\ DOMAIN hw' = {"control", "rate", "replies"} /\ hw'.control = C!AnyControl
        /\ hw'.replies = <<>>
    BY <1>1, Domains DEF C!Prepared, CtlFields
  <1>3. lock.config = "none"
    BY <1>1 DEF RateStands
  <1>4. ~ctl.configured
    BY <1>1, EmptyPlace DEF RateStands, C!IsResting
  <1>5. \A a \in C!Actors : ~Arrived(task[a])
    <2>1. "none" \notin C!Actors
      BY DEF C!Actors
    <2>2. \A a \in C!Actors : ~StartsIn(task[a].steps, ConfigHeld)
      BY <1>3, <2>1 DEF Placed
    <2> QED BY <2>2 DEF Arrived, StartsIn, ConfigHeld
  <1>6. Placed'
    BY <1>1 DEF Placed
  <1>7. RateStands'
    BY <1>1, <1>2, <1>3, <1>4, <1>5 DEF RateStands
  <1>8. HardwareTyped'
    <2>1. hw'.replies \in Seq(Replies) /\ Len(hw'.replies) = 0
      BY <1>2
    <2> QED BY <1>1, <1>2, <2>1 DEF ControlStands, HardwareTyped
  <1>9. ControlOf(task["ioctl"])'
    BY <1>1, <1>2, EmptyPlace DEF ControlOf, Asking, Confirming, C!IsResting
  <1> QED BY <1>2, <1>6, <1>7, <1>8, <1>9 DEF ControlStands

LEMMA BelievedInit ==
    ASSUME C!Init
    PROVE  BelievedInv
  <1>1. (\A a \in C!Actors : task[a] = C!Resting) /\ "none" \notin C!Actors /\ "ioctl" \in C!Actors
    BY DEF C!Init, C!Actors
  <1>2. C!Resting.steps = <<>> /\ C!Resting.sent = "no" /\ C!Resting.control \in RealControls
    BY DEF C!Resting, RealControls, C!DefaultControl
  <1>3. \A a \in C!Actors : PlaceOf(a, C!Resting)
    BY <1>2, EmptyPlace DEF PlaceOf
  <1>4. lock.bulk = "none" /\ lock.config = "none"
    BY DEF C!Init
  <1>5. Placed
    BY <1>1, <1>2, <1>3, <1>4, EmptyPlace DEF Placed
  <1>6. /\ ~ctl.configured /\ ~ctl.ready /\ DOMAIN hw = {"control", "rate", "replies"}
        /\ hw.control = C!AnyControl /\ hw.replies = <<>>
        /\ DOMAIN ep1 = {"pending", "reply"} /\ ep1.reply = C!NoReply
    BY DEF C!Init
  <1>7. ~Arrived(C!Resting) /\ ~Asking(C!Resting)
    BY <1>2, EmptyPlace DEF Arrived, Asking
  <1>8. RateStands
    BY <1>1, <1>4, <1>6, <1>7 DEF RateStands
  <1>9. HardwareTyped
    <2>1. hw.replies \in Seq(Replies) /\ Len(hw.replies) = 0
      BY <1>6
    <2>2. ep1.reply.command # "read"
      BY <1>6 DEF C!NoReply
    <2> QED BY <1>6, <2>1, <2>2 DEF HardwareTyped
  <1>10. ControlOf(task["ioctl"])
    BY <1>1, <1>2, <1>6, <1>7, EmptyPlace DEF ControlOf, Confirming
  <1> QED BY <1>5, <1>6, <1>8, <1>9, <1>10, AloneInit DEF BelievedInv, ControlStands

LEMMA BelievedStep ==
    ASSUME BelievedInv, C!Next
    PROVE  BelievedInv'
  <1>1. SUFFICES Placed' /\ RateStands' /\ ControlStands'
    BY AloneStep DEF BelievedInv
  <1>2. ASSUME NEW a \in C!Actors, C!Step(a)
        PROVE  Placed' /\ RateStands' /\ ControlStands'
    BY <1>2, BulkBelieved, ParametersBelieved, EngineBelieved, FlushBelieved, CanaryBelieved,
       RequestBelieved, CallbackBelieved DEF C!Step
  <1>3. CASE C!RequestArrives \/ C!CallbackArrives
    BY <1>3, RequestArrivesBelieved, CallbackArrivesBelieved
  <1>4. CASE C!WorkBegins \/ C!StopBegins \/ C!ReleaseHardware
    BY <1>4, WorkBelieved, ReleaseBelieved
  <1>5. CASE C!EngineFails \/ C!Ep1ReadComplete \/ C!PrepareHardware
    BY <1>5, EngineFailsBelieved, ReplyBelieved, PrepareBelieved
  <1> QED BY <1>2, <1>3, <1>4, <1>5 DEF C!Next, C!Progress

LEMMA BelievedStutter ==
    ASSUME BelievedInv, UNCHANGED C!cvars
    PROVE  BelievedInv'
  <1> USE DEF BelievedInv
  <1>1. /\ task' = task /\ ctl' = ctl /\ lock' = lock /\ past' = past /\ hw' = hw /\ ep1' = ep1
    BY DEF C!cvars
  <1>2. QuietWords
    BY <1>1, SameQuiet
  <1>3. AloneInv'
    BY AloneStutter
  <1> QED BY <1>1, <1>2, <1>3, NobodyMoves

\* No configuration goes on that a claimed worker would see, and no request is at the control state.
LEMMA BelievedMeans ==
    ASSUME BelievedInv
    PROVE  C!RateTrue /\ C!ControlStateTrue
  <1> USE DEF BelievedInv
  <1>1. C!RateTrue
    <2> SUFFICES ASSUME ctl.configured, lock.config = "none" \/ ctl.worker, ~past.abandoned
                 PROVE  hw.rate = ctl.rate
      BY DEF C!RateTrue
    <2>1. lock.config = "none"
      BY DEF RateStands
    <2>2. "none" \notin C!Actors
      BY DEF C!Actors
    <2>3. \A a \in C!Actors : ~StartsIn(task[a].steps, ConfigHeld)
      BY <2>1, <2>2 DEF Placed
    <2>4. \A a \in C!Actors : ~Changing(task[a])
      BY <2>3 DEF Changing, StartsIn, ConfigHeld
    <2> QED BY <2>4 DEF RateStands
  <1>2. C!ControlStateTrue
    <2> SUFFICES ASSUME ctl.ready, ~past.stale, task["ioctl"].op \notin C!ControlOps
                 PROVE  Agrees
      BY DEF C!ControlStateTrue, C!NotTakenOver, Agrees
    <2>1. "ioctl" \in C!Actors
      BY DEF C!Actors
    <2>2. ~StartsIn(task["ioctl"].steps, ControlSteps)
      BY <2>1 DEF Placed, PlaceOf
    <2>3. ~Unsettled(task["ioctl"])
      BY <2>2 DEF Unsettled, Confirming, StartsIn, ControlSteps
    <2> QED BY <2>3 DEF ControlStands, ControlOf, KnownTrue
  <1> QED BY <1>1, <1>2

\* Each view goes its own way, and the other stands still meanwhile.
LEMMA BothViews == DriverSpec => Spec /\ C!Spec
  <1>1. DriverInit => Init /\ C!Init
    BY DEF DriverInit
  <1>2. [DriverNext]_<<vars, controlVars>> => [Next]_vars /\ [C!Next]_C!cvars
    BY DEF DriverNext, HasStreams, HasRequests, controlVars, C!cvars
  <1> QED BY <1>1, <1>2, PTL DEF DriverSpec, Spec, C!Spec

\* The lock is with the thread whose script says so, whatever fails (BeginIsoOneShot,
\* EndIsoOneShot and every holder of IsoPurgeLock).
THEOREM LockFollowsScripts == DriverSpec => []AloneInv
  <1>1. C!Init => AloneInv
    BY AloneInit
  <1>2. AloneInv /\ [C!Next]_C!cvars => AloneInv'
    BY AloneStep, AloneStutter
  <1>3. C!Spec => []AloneInv
    BY <1>1, <1>2, PTL DEF C!Spec
  <1> QED BY <1>3, BothViews, PTL

\* A one-shot transfer has the bus for itself, and no operation runs that was not armed, for any
\* rates, modes, attempts and budgets (BeginIsoOneShot, StartPersistentIsoEngine).
THEOREM OneShotsHaveTheBus == DriverSpec => []OneShotsAlone
  <1>1. AloneInv => OneShotsAlone
    BY AloneMeans DEF OneShotsAlone
  <1> QED BY <1>1, LockFollowsScripts, PTL

\* Endpoint 1 and AudioConfigLock are with the threads whose scripts say so, the rate of the
\* device is that of the parameters while nobody changes it, and while nobody reads or writes it
\* the control state is the device's, or the driver says that it did not take over the last write
\* (ConfigureAudioParams, SendBulkCommand, ReadHardwareControlState, WriteHardwareControlState).
THEOREM BelievedInvariant == DriverSpec => []BelievedInv
  <1>1. C!Init => BelievedInv
    BY BelievedInit
  <1>2. BelievedInv /\ [C!Next]_C!cvars => BelievedInv'
    BY BelievedStep, BelievedStutter
  <1>3. C!Spec => []BelievedInv
    BY <1>1, <1>2, PTL DEF C!Spec
  <1> QED BY <1>3, BothViews, PTL

\* The parameters that count as configured are the device's, and so is the control state that
\* counts as known unless the driver says that the device did not take over the last write,
\* whatever fails and whatever the device takes over, in any order of requests, callbacks and
\* replies (ConfigureAudioParams, RefreshHardwareControlState, WriteHardwareControlState).
THEOREM DeviceIsAsBelieved == DriverSpec => []DeviceAsBelieved
  <1>1. BelievedInv => DeviceAsBelieved
    BY BelievedMeans DEF DeviceAsBelieved
  <1> QED BY <1>1, BelievedInvariant, PTL
=============================================================================
