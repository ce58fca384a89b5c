----------------------------- MODULE PoolOwners -----------------------------
(***************************************************************************)
(* The five classes that own a request pool: PreparedUsbAsyncRuntime in the *)
(* macOS plug-in, AudioDriverSkeleton in the DriverKit extension, and       *)
(* PersistentUsbTransport, PreparedUsbRuntimeSubmitter and                  *)
(* PlaybackSchedulerRuntimeBinding in the tools.  No process has two, so    *)
(* one run checks a process that starts any of them, and states what they   *)
(* all owe their pool once.                                                 *)
(***************************************************************************)
EXTENDS PreparedUsbAsyncRuntime

CONSTANTS
    SubmitterConfigs, DriverConfigs, LeadConfigs,
    MaxCompletions, MaxFailures, MaxDescriptors, MaxStreams, MaxQueued, MaxPeriods

\* What a configuration is made of; start() refuses the ones that are not valid.
SubmitterType == [batch : Nat, slots : Nat, limit : Nat, retain : BOOLEAN]
DriverType == [persistent : BOOLEAN, retain : BOOLEAN, batch : Nat, slots : Nat, depth : Nat,
               capture : Nat, playback : Nat]
LeadType == [target : Nat, low : Nat, high : Nat, batch : Nat, slots : Nat, gap : Nat,
             everyPeriod : BOOLEAN]
ASSUME OwnersConstants ==
    /\ SubmitterConfigs \subseteq SubmitterType
    /\ DriverConfigs \subseteq DriverType
    /\ LeadConfigs \subseteq LeadType
    /\ MaxDescriptors \in Nat /\ MaxDescriptors >= 2

\* The configurations that the run tries: batches of one and two, depths and limits from one
\* to past the number of slots, leads that start above, at and below the watermarks.
SomeSubmitterConfigs == [batch : 1 .. 2, slots : {2}, limit : 1 .. 3, retain : BOOLEAN]
SomePlannedConfigs ==
    [persistent : {FALSE}, retain : BOOLEAN, batch : {1, 2}, slots : {2}, depth : 1 .. 2,
     capture : {1}, playback : {2}]
SomePersistentConfigs ==
    [persistent : {TRUE}, retain : {FALSE}, batch : {1}, slots : {MaxSlots}, depth : {1},
     capture : {2, 3}, playback : {1, 2}]
SomeDriverConfigs == SomePlannedConfigs \cup SomePersistentConfigs
SomeLeadConfigs ==
    [target : 2 .. 4, low : 1 .. 2, high : {3}, batch : 1 .. 2, slots : {3}, gap : 1 .. 2,
     everyPeriod : BOOLEAN]

VARIABLES transport, driver, streams, submitter, scheduler, binding, heldBack

T == INSTANCE PersistentUsbTransport
D == INSTANCE DriverKitDevice
S == INSTANCE PreparedUsbRuntimeSubmitter
L == INSTANCE PlaybackSchedulerRuntime

deviceVars == <<driver, streams>>
leadVars == <<scheduler, binding, heldBack>>

OwnersInit == RuntimeInit /\ T!Init /\ D!Init /\ S!Init /\ L!Init

HasRuntime ==
    /\ T!Init /\ D!Init /\ S!Init /\ L!Init
    /\ RuntimeNext
    /\ UNCHANGED <<transport, deviceVars, submitter, leadVars>>
HasTransport ==
    /\ RuntimeInit /\ D!Init /\ S!Init /\ L!Init
    /\ T!Next
    /\ UNCHANGED <<runtimeVars, deviceVars, submitter, leadVars>>
HasDriver ==
    /\ RuntimeInit /\ T!Init /\ S!Init /\ L!Init
    /\ D!Next
    /\ UNCHANGED <<runtimeVars, transport, submitter, leadVars>>
HasSubmitter ==
    /\ RuntimeInit /\ T!Init /\ D!Init /\ L!Init
    /\ S!Next
    /\ UNCHANGED <<runtimeVars, transport, deviceVars, leadVars>>
HasScheduler ==
    /\ RuntimeInit /\ T!Init /\ D!Init /\ S!Init
    /\ L!Next
    /\ UNCHANGED <<runtimeVars, transport, deviceVars, submitter>>

OwnersNext == HasRuntime \/ HasTransport \/ HasDriver \/ HasSubmitter \/ HasScheduler
OwnersSpec ==
    OwnersInit /\ [][OwnersNext]_<<runtimeVars, transport, deviceVars, submitter, leadVars>>

\* What an owner counts or queues as live is what its pool has live, through refusals,
\* completions in any order, partial batches, drains and restarts; and an owner that has
\* stopped leaves nothing live.
OwnersMatchTheirPool ==
    /\ LifecycleOwned
    /\ T!QueuesOwnThePool
    /\ D!RequestsOwned
    /\ S!RequestsOwned

\* Where slots are gathered into requests, every slot waits, or was submitted once and in
\* order, or its loss is counted: by the planner's two owners, and by the scheduler's binding.
SlotsSubmittedOnce ==
    /\ D!SlotsSubmittedOnce
    /\ S!SlotsSubmittedOnce
    /\ L!SlotsSubmittedOnce

\* The two directions of a DriverKit stream advance together.
DirectionsInStep == D!DirectionsInStep

\* What safety() promises of a session in which nothing was forced to fail: a primed
\* transport that is drained is product_safe, and the playback lead is never below its low
\* watermark.
SafetyReportsHold == T!DrainedIsProductSafe /\ L!LeadHolds
=============================================================================
