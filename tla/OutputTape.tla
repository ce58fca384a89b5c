----------------------------- MODULE OutputTape -----------------------------
(***************************************************************************)
(* What the output timeline of the macOS engine promises, without a ring: a *)
(* tape with one cycle's sample for each frame that was written and not yet *)
(* passed by the head.  A sample written in time stays until the head comes *)
(* to it or a later cycle overwrites it; the head only moves forward, and   *)
(* leaves frames out only when too much lies ahead of it; the tape is begun *)
(* anew only for a write that does not meet the one that is there.          *)
(***************************************************************************)
EXTENDS Integers, FiniteSets

CONSTANTS
    Cycles,      \* the I/O cycles
    Times,       \* the frame numbers that a cycle may start at
    Longest,     \* the most frames of a cycle
    Batch,       \* how many frames a read takes
    MaxLead,     \* how far before its first sample a tape may begin
    MaxAhead,    \* a write leaves out frames when more than this lies ahead of the head
    ReadAhead,   \* and so does a read
    Jump         \* a write that starts further ahead than this may begin a new tape

VARIABLES
    begun,   \* there is a tape
    tape,    \* the samples still to come, [frame, cycle]
    head,    \* the frame that is read next
    given    \* what the last read took: samples, or Nothing

vars == <<begun, tape, head, given>>

Nothing == [frame |-> 0, cycle |-> 0]
Ahead(samples, frame) == {s \in samples : s.frame >= frame}
Crowded(samples, frame, limit) == \E s \in samples : s.frame - frame > limit

Init == /\ begun = FALSE
        /\ tape = {}
        /\ head = 0
        /\ given = [i \in 1 .. Batch |-> Nothing]

Clear ==
    /\ begun' = FALSE
    /\ tape' = {}
    /\ head' = 0
    /\ UNCHANGED given

\* A cycle's samples on the tape `old' with its head at `from'.
Put(cycle, frames, old, from) ==
    LET new == {[frame |-> f, cycle |-> cycle] : f \in frames}
        all == Ahead({s \in old : s.frame \notin frames} \cup new, from)
    IN  /\ begun' = TRUE
        /\ UNCHANGED given
        /\ head' = from \/ (Crowded(all, from, MaxAhead) /\ head' > from)
        /\ tape' = Ahead(all, head')

Misses(first, last) == ~begun \/ last < head \/ first - head > Jump
Write(cycle) ==
    \E first \in Times : \E last \in first .. first + Longest - 1 :
        \/ begun /\ Put(cycle, first .. last, tape, head)
        \/ /\ Misses(first, last)
           /\ \E lead \in 0 .. MaxLead : Put(cycle, first .. last, {}, first - lead)

\* A read takes Batch frames in order, and what it takes is what is on the tape there.
SampleAt(frame) ==
    IF \E s \in tape : s.frame = frame THEN CHOOSE s \in tape : s.frame = frame ELSE Nothing
InOrder(pos) ==
    \A i \in 1 .. Batch :
        LET due == IF i = 1 THEN head ELSE pos[i - 1] + 1 IN
        pos[i] = due \/ (pos[i] > due /\ Crowded(tape, due, ReadAhead))
Read ==
    /\ begun
    /\ UNCHANGED begun
    /\ \E pos \in [1 .. Batch -> head .. head' - 1] :
          /\ InOrder(pos)
          /\ pos[Batch] = head' - 1
          /\ given' = [i \in 1 .. Batch |-> SampleAt(pos[i])]
    /\ tape' = Ahead(tape, head')
ReadNothing ==
    /\ ~begun
    /\ given' = [i \in 1 .. Batch |-> Nothing]
    /\ UNCHANGED <<begun, tape, head>>

Next == Clear \/ (\E cycle \in Cycles : Write(cycle)) \/ Read \/ ReadNothing

Spec == Init /\ [][Next]_vars
=============================================================================
