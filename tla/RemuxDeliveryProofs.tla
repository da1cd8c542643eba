------------------------ MODULE RemuxDeliveryProofs ------------------------
(***************************************************************************)
(* What holds of RemuxDelivery for every bound on files, versions and lost  *)
(* writes, and for every set of interrupts: the invariant of                *)
(* RemuxDeliveryLemmas holds at the start and every step keeps it.          *)
(***************************************************************************)
EXTENDS RemuxDeliveryLemmas

LEMMA Initially == Init => IInv
  <1> SUFFICES ASSUME NEW f, NEW l, Initial(f, l), f \in {NoFile, 1},
                      \/ f = NoFile /\ l = NoLink
                      \/ f = 1 /\ l = NoLink
                      \/ f = 1 /\ l = [at |-> TRUE, stamp |-> 1, source |-> 1]
                      \/ f = 1 /\ l = [at |-> TRUE, stamp |-> NoFile, source |-> NoIso]
               PROVE  IInv
    BY DEF Init
  <1>1. /\ target \in {NoFile, 1} /\ partial = NoFile /\ stage = NoFile /\ kept = NoFile
        /\ used = (IF target = NoFile THEN 0 ELSE 1) /\ iso = 1 /\ lost = 0
        /\ placed = {} /\ pc = "idle" /\ run = NoRun /\ job = NoJob /\ disk = NoJob
        /\ sidecar = NoSidecar /\ ~sidecar.at /\ link = l /\ link.stamp \in {NoFile, 1}
        /\ (link.stamp = 1 => target = 1 /\ link.at /\ link.source = 1)
        /\ (link.at => target = 1)
        /\ muxed = [g \in Files |-> IF g = 1 /\ l.at THEN 1 ELSE NoIso]
        /\ ~arrived /\ ~released /\ ~granted /\ ~cancelled /\ ~stopping /\ ~asked
        /\ arrived = FALSE /\ released = FALSE /\ granted = FALSE /\ cancelled = FALSE
        /\ stopping = FALSE /\ asked = FALSE /\ yielded = "none"
    BY DEF Initial, NoSidecar, NoLink, NoFile
  <1>2. /\ used \in 0 .. MaxFile /\ 1 \in Files /\ 1 # NoFile /\ 1 # NoIso /\ iso \in Isos
        /\ lost \in 0 .. MaxLost /\ 1 \in Versions /\ NoIso \in Versions /\ NoFile \in Known
        /\ target \in Known /\ NoIso \in 0 .. Mixed /\ 1 \in 0 .. Mixed
    BY SMT, <1>1, MaxFileAssumption, MaxIsoAssumption, MaxLostAssumption
    DEF Files, NoFile, NoIso, Isos, Versions, Known, Mixed
  <1>3. NoJob \in Records /\ NoRun \in Runs /\ NoSidecar \in Sidecars /\ "idle" \in Places
    BY <1>2, NamesTyped DEF NoJob, Records, NoRun, Runs, NoSidecar, Sidecars, Places
  <1>4. link \in Links
    <2>1. /\ NoLink \in Links
          /\ target = 1 => [at |-> TRUE, stamp |-> 1, source |-> 1] \in Links
          /\ [at |-> TRUE, stamp |-> NoFile, source |-> NoIso] \in Links
      BY <1>2 DEF Links, NoLink
    <2>2. f = 1 => target = 1
      BY DEF Initial
    <2> QED
      BY <1>1, <2>1, <2>2
  <1>5. muxed \in [Files -> 0 .. Mixed]
    BY <1>1, <1>2
  <1>6. Shape
    BY <1>1, <1>2, <1>3, <1>4, <1>5
    DEF Shape, Counters, FilesTyped, PlacedTyped, StopsTyped
  <1>7. RecordGood(job) /\ RecordGood(disk)
    BY <1>1, <1>6, NoJobGood
  <1>8. Control /\ Synced /\ Judged /\ Delivery
    BY <1>1 DEF Control, Synced, Judged, Delivery, Running, Planning, Delivering, NoRun
  <1>9. Truth
    BY <1>1, <1>2
    DEF Truth, AllMuxed, Muxed, RunMuxed, MadeTrue, CopyTrue, LinkTrue, LinkTellsTheTruth, Delivering,
        NoRun
  <1>10. PlacedNow /\ OursNow
    BY <1>1
    DEF PlacedNow, KeptSafe, BeforeSafe, BaselineApart, TargetNew, Captured, HasPlaced,
        LandedHasPlaced, StillCurrent, OursNow, Delivering, Planning, NoRun
  <1>11. Offers
    BY <1>1 DEF Offers, Pair, NoJob
  <1> QED
    BY <1>6, <1>7, <1>8, <1>9, <1>10, <1>11 DEF IInv

-----------------------------------------------------------------------------
(* Every step keeps every part of the invariant *)

\* The web's two ways to add the row, and what may take the slot from a run.
Adds == \E replace \in BOOLEAN : Add(replace) \/ AddFresh(replace)
Yields == \E why \in Interrupts \ {"cancelled"} : Yield(why)

\* A run that starts on the planned ISO has compared the source with the plan.
LEMMA StartRunCurrent ==
    ASSUME IInv, StartRun
    PROVE  StillCurrent'
  <1>1. UNCHANGED <<job, placed, iso, link>>
    BY DEF StartRun, StepUnchanged, FilesUnchanged, library, queue
  <1>2. \/ pc' \in {"finish", "resume"}
        \/ pc' = "scan" /\ (run'.current <=> iso = job.source)
    <2>1. run \in Runs
      BY Typed DEF IInv
    <2> QED
      BY <2>1 DEF StartRun, End, FailRun, Goto, Runs
  <1>3. job.owned = NotCaptured /\ iso = job.source => placed = {} /\ job.landing = NoFile
    BY DEF IInv, RecordGood, RecordPlaced
  <1> QED
    BY <1>1, <1>2, <1>3 DEF StillCurrent, Planning

\* Every step keeps it that the landing a run has recorded was muxed.
LEMMA RunMuxedStep ==
    ASSUME IInv, Next
    PROVE  RunMuxed'
  <1>0. /\ job \in Records /\ disk \in Records /\ run \in Runs
        /\ sidecar \in Sidecars /\ link \in Links
    BY Typed DEF IInv
  <1>1. CASE Adds \/ RetryStagedNow \/ DiscardKept \/ RemoveQueued \/ ClearFinished
             \/ StopAllClear \/ StopAllCancel
    BY Zenon, <1>0, <1>1
    DEF IInv, Truth, RunMuxed, Muxed, Adds, RetryStagedNow, DiscardKept, RemoveQueued,
        ClearFinished, StopAllClear, StopAllCancel, Add, AddFresh, Up, Save, UserQueued,
        WebUnchanged, staging, NoJob, NoSidecar, Unqueued, queue, NewJob, HoldsSource, library,
        SaveOk
  <1>2. CASE Intrude \/ RemoveTarget \/ ReplaceIso \/ Yields
    BY SMT, <1>0, <1>2
    DEF IInv, Truth, RunMuxed, Muxed, Intrude, RemoveTarget, ReplaceIso, Yields,
        OutsideUnchanged, Yield, staging, queue, stops, Looks, library
  <1>3. CASE Claim
    BY SMT, <1>0, <1>3
    DEF IInv, Truth, RunMuxed, Muxed, Claim, NoRun, library, staging, stops
  <1>4. CASE FreezePlan
    BY Zenon, <1>0, <1>4
    DEF IInv, Truth, RunMuxed, Muxed, FreezePlan, SaveOk, Goto, FailRun, StepUnchanged,
        FilesUnchanged, End, stops, library, staging, NoRun
  <1>5. CASE StartRun
    BY Zenon, <1>0, <1>5
    DEF IInv, Truth, RunMuxed, Muxed, StartRun, End, Goto, FailRun, StepUnchanged,
        FilesUnchanged, queue, NoRun, stops, library, staging, Records, Sidecars, Links, Runs
  <1>6. CASE Validate \/ CaptureOwned \/ Admit
    BY Zenon, <1>0, <1>6
    DEF IInv, Truth, RunMuxed, Muxed, Validate, CaptureOwned, Admit, Goto, StepUnchanged,
        FilesUnchanged, queue, SaveOk, FailRun, stops, library, staging, End, NoRun, Records,
        Sidecars, Links, Runs
  <1>7. CASE BeginOutput \/ LinkDone \/ Look \/ LinkLanded \/ Permit
    BY Zenon, <1>0, <1>7
    DEF IInv, Truth, RunMuxed, Muxed, BeginOutput, LinkDone, Look, LinkLanded, Permit, End,
        queue, Goto, Save, StepUnchanged, FilesUnchanged, FailRun, NoRun, stops, library,
        staging, Records, Sidecars, Links, Runs
  <1>8. CASE Stage \/ Resume \/ Recheck \/ Land \/ Clear
             \/ Landed \/ Link \/ Undo \/ Keep \/ KeepSidecar
    BY Zenon, <1>0, <1>8
    DEF IInv, Truth, RunMuxed, Muxed, Stage, Resume, Recheck, Land, Clear, Landed, Link, Undo,
        Keep, KeepSidecar, Goto, StepUnchanged, library, queue, staging, NoSidecar, Fault,
        FilesUnchanged, NoRun, Save, FailRun, stops, End, Records, Sidecars, Links, Runs
  <1>9. CASE Mux
    BY <1>0, <1>9, MuxMakes, Typed
    DEF IInv, Truth, PlacedNow, RecordGood, RunMuxed, Muxed, Carried
  <1>10. CASE Copy
    BY <1>0, <1>10, CopyMakes, Typed
    DEF IInv, Truth, PlacedNow, RecordGood, RunMuxed, Muxed, Carried
  <1>11. CASE BeforeLanding
    BY <1>0, <1>11, BeforeLandingMakes
    DEF IInv, Truth, PlacedNow, RecordGood, RunMuxed, AllMuxed, Muxed
  <1>12. CASE ArmSourceChanged \/ ArmRefused \/ ArmOther \/ ArmBare
    BY Zenon, <1>0, <1>12
    DEF IInv, Truth, RunMuxed, Muxed, ArmSourceChanged, ArmRefused, ArmOther, ArmBare, Save,
        SaveOk, Unkept, StepUnchanged, library, FilesUnchanged, End, queue, NoRun, stops, staging
  <1>13. CASE Settle
    BY SMT, <1>0, <1>13
    DEF IInv, Truth, RunMuxed, Muxed, Settle, End, StepUnchanged, FilesUnchanged, queue, NoRun,
        stops, library, staging
  <1>14. CASE Finish
    BY SMT, <1>0, <1>14
    DEF IInv, Truth, RunMuxed, Muxed, Finish, NoRun, FinishDone, FinishCancelled, Save, Requeued,
        FinishFailed, library, staging, Failed, NoJob
  <1>15. CASE Crash \/ Startup
    BY SMT, <1>0, <1>15
    DEF IInv, Truth, RunMuxed, Muxed, Crash, Startup, Up, NoRun, Loaded, staging, Pair,
        NoSidecar, Save, Adopted, stops, Requeued, SetStaged, Failed, NoJob
  <1> QED
    BY <1>1, <1>2, <1>3, <1>4, <1>5, <1>6, <1>7, <1>8, <1>9, <1>10, <1>11, <1>12, <1>13, <1>14,
        <1>15
    DEF Next, Web, Outside, Worker, Adds, Yields

\* Every step keeps it that a place in the code says what it says of the record and of the run.
LEMMA ControlStep ==
    ASSUME IInv, Next
    PROVE  Control'
  <1>0. /\ job \in Records /\ disk \in Records /\ run \in Runs
        /\ sidecar \in Sidecars /\ link \in Links
    BY Typed DEF IInv
  <1>1. CASE Adds \/ RetryStagedNow \/ DiscardKept \/ RemoveQueued \/ ClearFinished
             \/ StopAllClear \/ StopAllCancel
    BY Zenon, <1>0, <1>1
    DEF IInv, RecordGood, Truth, PlacedNow, Control, Running, Loaded, Planned, Planning,
        Delivering, Places, Requeued, Adds, RetryStagedNow, DiscardKept, RemoveQueued,
        ClearFinished, StopAllClear, StopAllCancel, Add, AddFresh, Up, Save, UserQueued,
        WebUnchanged, staging, NoJob, SetStaged, NoSidecar, Unqueued, Pair, queue, NewJob,
        Appended, HoldsSource, AppendedFresh, library, SaveOk
  <1>2. CASE Intrude \/ RemoveTarget \/ ReplaceIso \/ Yields
    BY SMT, <1>0, <1>2
    DEF IInv, Control, Running, Loaded, Planned, Planning, Delivering, Places, Requeued, Intrude,
        RemoveTarget, ReplaceIso, Yields, OutsideUnchanged, Yield, staging, queue, stops, Looks,
        library
  <1>3. CASE Claim
    BY SMT, <1>0, <1>3
    DEF IInv, Control, Running, Loaded, Planned, Planning, Delivering, Places, Requeued, Claim,
        NoRun, library, staging, stops
  <1>4. CASE FreezePlan
    BY SMT, <1>0, <1>4
    DEF IInv, RecordGood, Truth, PlacedNow, Control, Running, Loaded, Planned, Planning,
        Delivering, Places, Requeued, NoIso, FreezePlan, SaveOk, Goto, SaveError, FailRun,
        StepUnchanged, FilesUnchanged, queue, End, stops, library, staging, NoRun, NoFile, Shape,
        Counters, FilesTyped, PlacedTyped, Known, Versions, Isos, Records, Sidecars, Links, Runs,
        NotCaptured, Mixed, Files
  <1>5. CASE StartRun
    BY Zenon, <1>0, <1>5
    DEF IInv, Control, Running, Loaded, Planned, Planning, Delivering, Places, Requeued,
        StartRun, End, Goto, FailRun, LandedBefore, StepUnchanged, FilesUnchanged, queue, NoRun,
        stops, library, staging, Records, Sidecars, Links, Runs
  <1>6. CASE Validate \/ CaptureOwned \/ Admit
    BY SMT, <1>0, <1>6
    DEF IInv, Control, Running, Loaded, Planned, Planning, Delivering, Places, Requeued,
        Validate, CaptureOwned, Admit, Goto, StepUnchanged, FilesUnchanged, queue, SaveOk,
        SaveError, FailRun, Refused, stops, library, staging, End, LandedByThisJob, LandedBefore,
        Unowned, NoRun, Records, Sidecars, Links, Runs
  <1>7. CASE BeginOutput \/ LinkDone \/ Look \/ LinkLanded \/ Permit
    BY Zenon, <1>0, <1>7
    DEF IInv, Control, Running, Loaded, Planned, Planning, Delivering, Places, Requeued, NoIso,
        BeginOutput, LinkDone, Look, LinkLanded, Permit, End, queue, Goto, Save, StepUnchanged,
        FilesUnchanged, LandedByThisJob, NoFile, FailRun, LandedBefore, FinishOutput, Unowned,
        NoRun, stops, library, staging, Records, Sidecars, Links, Runs, NotCaptured
  <1>8. CASE Stage \/ Mux \/ Resume \/ Copy \/ BeforeLanding \/ Recheck \/ Land
    BY Zenon, <1>0, <1>8
    DEF IInv, RecordGood, Truth, PlacedNow, Control, Running, Loaded, Planned, Planning,
        Delivering, Places, Requeued, NoIso, Stage, Mux, Resume, Copy, BeforeLanding, Recheck,
        Land, NoFile, Goto, StepUnchanged, library, queue, Mixed, Pair, staging, NoSidecar,
        Fault, Local, SaveOk, SaveError, FilesUnchanged, stops, Records, Sidecars, Links, Runs,
        NotCaptured
  <1>9. CASE Clear \/ Landed \/ Link \/ Undo \/ Keep \/ KeepSidecar
    BY Zenon, <1>0, <1>9
    DEF IInv, RecordGood, Truth, PlacedNow, Control, Running, Loaded, Planned, Planning,
        Delivering, Places, Requeued, NoIso, Clear, Landed, Link, Undo, Keep, KeepSidecar, Goto,
        NoRun, NoFile, NoSidecar, staging, StepUnchanged, library, queue, Save, SetStaged,
        FilesUnchanged, FinishOutput, FailRun, stops, End, Records, Sidecars, Links, Runs,
        NotCaptured
  <1>10. CASE ArmSourceChanged
    BY Zenon, <1>0, <1>10
    DEF IInv, Control, Running, Loaded, Planned, Planning, Delivering, Places, Requeued,
        ArmSourceChanged, SetStaged, Save, OutputFailed, SaveOk, Unkept, StepUnchanged, library,
        FinishOutput, NoRun, stops, Records, Sidecars, Links, Runs
  <1>11. CASE ArmRefused
    BY SMT, <1>0, <1>11
    DEF IInv, Control, Running, Loaded, Planned, Planning, Delivering, Places, Requeued,
        ArmRefused, Save, OutputFailed, Unkept, StepUnchanged, FilesUnchanged, FinishOutput,
        NoRun, stops, library, staging
  <1>12. CASE ArmOther \/ ArmBare
    BY Zenon, <1>0, <1>12
    DEF IInv, RecordGood, Truth, PlacedNow, Control, Running, Loaded, Planned, Planning,
        Delivering, Places, Requeued, NoIso, ArmOther, ArmBare, KeepStaged, Unkept, End,
        StepUnchanged, FilesUnchanged, queue, SetStaged, Pair, Save, OutputFailed, NoRun, stops,
        library, staging, NoFile, FinishOutput, Records, Sidecars, Links, Runs, NotCaptured
  <1>13. CASE Settle \/ Finish \/ Crash \/ Startup
    BY SMT, <1>0, <1>13
    DEF IInv, Control, Running, Loaded, Planned, Planning, Delivering, Places, Requeued, Settle,
        Finish, Crash, Startup, End, StepUnchanged, FilesUnchanged, queue, NoRun, FinishDone,
        FinishCancelled, Save, FinishFailed, library, staging, Up, Pair, NoSidecar, Adopted,
        stops, SetStaged, Failed, NoJob
  <1> QED
    BY <1>1, <1>2, <1>3, <1>4, <1>5, <1>6, <1>7, <1>8, <1>9, <1>10, <1>11, <1>12, <1>13
    DEF Next, Web, Outside, Worker, Adds, Yields

\* Every step keeps it that what the run does not touch of its record is in the queue file.
LEMMA SyncedStep ==
    ASSUME IInv, Next
    PROVE  Synced'
  <1>0. /\ job \in Records /\ disk \in Records /\ run \in Runs
        /\ sidecar \in Sidecars /\ link \in Links
    BY Typed DEF IInv
  <1>1. CASE Adds \/ RetryStagedNow \/ DiscardKept \/ RemoveQueued \/ ClearFinished
             \/ StopAllClear \/ StopAllCancel
    BY Zenon, <1>0, <1>1
    DEF IInv, Synced, Running, Places, Control, Loaded, Planning, Delivering, Requeued, Adds,
        RetryStagedNow, DiscardKept, RemoveQueued, ClearFinished, StopAllClear, StopAllCancel,
        Add, AddFresh, Up, Save, UserQueued, WebUnchanged, staging, NoJob, NoSidecar, Unqueued,
        queue, NewJob, HoldsSource, library, SaveOk
  <1>2. CASE Intrude \/ RemoveTarget \/ ReplaceIso \/ Yields
    BY SMT, <1>0, <1>2
    DEF IInv, Synced, Running, Places, Intrude, RemoveTarget, ReplaceIso, Yields,
        OutsideUnchanged, Yield, staging, queue, stops, Looks, library
  <1>3. CASE Claim \/ FreezePlan \/ StartRun \/ Validate \/ CaptureOwned
             \/ Admit \/ BeginOutput \/ LinkDone \/ Look \/ LinkLanded
             \/ Permit
    BY SMT, <1>0, <1>3
    DEF IInv, Synced, Running, Places, Claim, FreezePlan, StartRun, Validate, CaptureOwned,
        Admit, BeginOutput, LinkDone, Look, LinkLanded, Permit, NoRun, library, staging, stops,
        SaveOk, Goto, FailRun, StepUnchanged, FilesUnchanged, End, queue, Save, Records,
        Sidecars, Links, Runs
  <1>4. CASE Stage \/ Mux \/ Resume \/ Copy \/ BeforeLanding
             \/ Recheck \/ Land \/ Clear \/ Landed \/ Link
             \/ Undo \/ Keep \/ KeepSidecar
    BY Zenon, <1>0, <1>4
    DEF IInv, Synced, Running, Places, Stage, Mux, Resume, Copy, BeforeLanding, Recheck, Land,
        Clear, Landed, Link, Undo, Keep, KeepSidecar, Goto, StepUnchanged, library, queue, Mixed,
        Pair, staging, NoSidecar, Fault, Local, Planned, SaveOk, SaveError, FilesUnchanged,
        NoRun, Save, SetStaged, FinishOutput, FailRun, stops, End, Records, Sidecars, Links, Runs
  <1>5. CASE ArmSourceChanged \/ ArmRefused \/ ArmOther \/ ArmBare \/ Settle
             \/ Finish \/ Crash \/ Startup
    BY Zenon, <1>0, <1>5
    DEF IInv, Synced, Running, Places, ArmSourceChanged, ArmRefused, ArmOther, ArmBare, Settle,
        Finish, Crash, Startup, Save, SaveOk, Unkept, StepUnchanged, library, FilesUnchanged,
        End, queue, NoRun, FinishDone, FinishCancelled, Requeued, FinishFailed, staging, Up,
        Loaded, NoSidecar, stops, Failed, NoJob
  <1> QED
    BY <1>1, <1>2, <1>3, <1>4, <1>5
    DEF Next, Web, Outside, Worker, Adds, Yields

\* Every step keeps it that a run knows what it has found of its source.
LEMMA JudgedStep ==
    ASSUME IInv, Next
    PROVE  Judged'
  <1>0. /\ job \in Records /\ disk \in Records /\ run \in Runs
        /\ sidecar \in Sidecars /\ link \in Links
    BY Typed DEF IInv
  <1>1. CASE Adds \/ RetryStagedNow \/ DiscardKept \/ RemoveQueued \/ ClearFinished
             \/ StopAllClear \/ StopAllCancel
    BY Zenon, <1>0, <1>1
    DEF IInv, Judged, Planning, Control, Running, Loaded, Delivering, Places, Requeued, Adds,
        RetryStagedNow, DiscardKept, RemoveQueued, ClearFinished, StopAllClear, StopAllCancel,
        Add, AddFresh, Up, Save, UserQueued, WebUnchanged, staging, NoJob, NoSidecar, Unqueued,
        queue, NewJob, HoldsSource, library, SaveOk
  <1>2. CASE Intrude \/ RemoveTarget \/ Yields
    BY SMT, <1>0, <1>2
    DEF IInv, Judged, Planning, Intrude, RemoveTarget, Yields, OutsideUnchanged, Yield, staging,
        queue, stops, Looks, library
  <1>3. CASE ReplaceIso
    BY <1>0, <1>3, Typed, NewIsoApart
    DEF IInv, Truth, PlacedNow, RecordGood, Judged, ReplaceIso, OutsideUnchanged, Delivering,
        Planning, queue, stops, Planned
  <1>4. CASE Claim \/ FreezePlan \/ StartRun
    BY Zenon, <1>0, <1>4
    DEF IInv, Judged, Planning, Claim, FreezePlan, StartRun, NoRun, library, staging, stops,
        SaveOk, Goto, FailRun, StepUnchanged, FilesUnchanged, End, queue, Records, Sidecars,
        Links, Runs
  <1>5. CASE Validate \/ CaptureOwned \/ Admit
    BY SMT, <1>0, <1>5
    DEF IInv, Judged, Planning, Validate, CaptureOwned, Admit, Goto, StepUnchanged,
        FilesUnchanged, queue, SaveOk, FailRun, stops, library, staging, End, NoRun, Records,
        Sidecars, Links, Runs
  <1>6. CASE BeginOutput \/ LinkDone \/ Look \/ LinkLanded \/ Permit
    BY SMT, <1>0, <1>6
    DEF IInv, Judged, Planning, BeginOutput, LinkDone, Look, LinkLanded, Permit, End, queue,
        Goto, Save, StepUnchanged, FilesUnchanged, FailRun, NoRun, stops, library, staging,
        Records, Sidecars, Links, Runs
  <1>7. CASE Stage \/ Mux \/ Resume \/ Copy \/ BeforeLanding
             \/ Recheck \/ Land \/ Clear \/ Landed \/ Link
             \/ Undo \/ Keep \/ KeepSidecar
    BY Zenon, <1>0, <1>7
    DEF IInv, Judged, Planning, Stage, Mux, Resume, Copy, BeforeLanding, Recheck, Land, Clear,
        Landed, Link, Undo, Keep, KeepSidecar, Goto, StepUnchanged, library, queue, Mixed,
        staging, NoSidecar, Fault, SaveOk, FilesUnchanged, NoRun, Save, FailRun, stops, End
  <1>8. CASE ArmSourceChanged \/ ArmRefused \/ ArmOther \/ ArmBare \/ Settle
             \/ Finish \/ Crash \/ Startup
    BY Zenon, <1>0, <1>8
    DEF IInv, Judged, Planning, ArmSourceChanged, ArmRefused, ArmOther, ArmBare, Settle, Finish,
        Crash, Startup, Save, SaveOk, Unkept, StepUnchanged, library, FilesUnchanged, End, queue,
        NoRun, FinishDone, FinishCancelled, Requeued, FinishFailed, staging, Up, Loaded,
        NoSidecar, stops, Failed, NoJob
  <1> QED
    BY <1>1, <1>2, <1>3, <1>4, <1>5, <1>6, <1>7, <1>8
    DEF Next, Web, Outside, Worker, Adds, Yields

\* Every step keeps it that a delivery has its files, and its landing on record before the rename.
LEMMA DeliveryStep ==
    ASSUME IInv, Next
    PROVE  Delivery'
  <1>0. /\ job \in Records /\ disk \in Records /\ run \in Runs
        /\ sidecar \in Sidecars /\ link \in Links
    BY Typed DEF IInv
  <1>1. CASE Adds \/ RetryStagedNow \/ DiscardKept \/ RemoveQueued
    BY Zenon, <1>0, <1>1
    DEF IInv, Delivery, Delivering, Control, Running, Loaded, Planning, Places, Requeued, Adds,
        RetryStagedNow, DiscardKept, RemoveQueued, Add, AddFresh, Up, Save, UserQueued,
        WebUnchanged, staging, NoJob, NoSidecar, Unqueued, NewJob, HoldsSource, library, SaveOk
  <1>2. CASE ClearFinished \/ StopAllClear \/ StopAllCancel
    BY SMT, <1>0, <1>2
    DEF IInv, Delivery, Delivering, Pair, Planned, Control, Running, Loaded, Planning, Places,
        Requeued, ClearFinished, StopAllClear, StopAllCancel, Up, Save, NoJob, WebUnchanged,
        Unqueued, queue, staging, library
  <1>3. CASE Intrude \/ RemoveTarget \/ ReplaceIso \/ Yields
    BY SMT, <1>0, <1>3
    DEF IInv, Delivery, Delivering, Pair, Planned, Intrude, RemoveTarget, ReplaceIso, Yields,
        OutsideUnchanged, Yield, staging, queue, stops, Looks, library
  <1>4. CASE Claim \/ FreezePlan \/ StartRun \/ Validate \/ CaptureOwned
             \/ Admit \/ BeginOutput \/ LinkDone \/ Look \/ LinkLanded
             \/ Permit
    BY Zenon, <1>0, <1>4
    DEF IInv, Delivery, Delivering, Pair, Planned, Claim, FreezePlan, StartRun, Validate,
        CaptureOwned, Admit, BeginOutput, LinkDone, Look, LinkLanded, Permit, NoRun, library,
        staging, stops, SaveOk, Goto, SaveError, FailRun, StepUnchanged, FilesUnchanged, End,
        LandedBefore, queue, Refused, Save, LandedByThisJob, FinishOutput, Unowned, Records,
        Sidecars, Links, Runs
  <1>5. CASE Stage \/ BeforeLanding
    BY SMT, <1>0, <1>5
    DEF IInv, Delivery, Delivering, Pair, Planned, Control, Running, Loaded, Planning, Places,
        Requeued, Stage, BeforeLanding, Goto, StepUnchanged, library, queue, SaveOk, SaveError,
        FilesUnchanged, stops, staging, Records, Sidecars, Links, Runs
  <1>6. CASE Mux
    BY <1>0, <1>6, MuxMakes
    DEF IInv, Truth, PlacedNow, RecordGood, Delivery, Delivering, Carried, Control
  <1>7. CASE Resume
    BY <1>0, <1>7, ResumeMakes
    DEF IInv, Truth, PlacedNow, RecordGood, Delivery, Carried, Delivering, Pair, Planned
  <1>8. CASE Copy
    BY <1>0, <1>8, CopyMakes
    DEF IInv, Truth, PlacedNow, RecordGood, Delivery, Delivering, Carried, Pair, Planned
  <1>9. CASE Recheck
    BY <1>0, <1>9, RecheckMakes
    DEF IInv, Truth, PlacedNow, RecordGood, Delivery, Delivering, Carried, Pair, Planned
  <1>10. CASE Land \/ Clear
    BY Zenon, <1>0, <1>10
    DEF IInv, RecordGood, Truth, PlacedNow, Delivery, Delivering, Pair, NoFile, Planned, NoIso,
        Land, Clear, Goto, Fault, StepUnchanged, staging, queue, NoRun, NoSidecar, library,
        stops, Records, Sidecars, Links, Runs, NotCaptured
  <1>11. CASE Landed \/ Link
    BY Zenon, <1>0, <1>11
    DEF IInv, Delivery, Delivering, Pair, Planned, Landed, Link, Goto, Save, SetStaged,
        StepUnchanged, FilesUnchanged, FinishOutput, FailRun, queue, stops, library, staging,
        End, NoRun, Records, Sidecars, Links, Runs
  <1>12. CASE Undo
    BY <1>0, <1>12, UndoMakes
    DEF IInv, Truth, PlacedNow, RecordGood, Delivery, Delivering, Carried, Pair, Planned, Control
  <1>13. CASE Keep \/ KeepSidecar
    BY SMT, <1>0, <1>13
    DEF IInv, Delivery, Delivering, Pair, Planned, Control, Running, Loaded, Planning, Places,
        Requeued, Keep, KeepSidecar, Goto, StepUnchanged, library, queue, stops, Records,
        Sidecars, Links, Runs
  <1>14. CASE ArmSourceChanged \/ ArmRefused \/ ArmOther \/ ArmBare \/ Settle
             \/ Finish \/ Crash \/ Startup
    BY Zenon, <1>0, <1>14
    DEF IInv, Delivery, Delivering, ArmSourceChanged, ArmRefused, ArmOther, ArmBare, Settle,
        Finish, Crash, Startup, Save, SaveOk, Unkept, StepUnchanged, library, FilesUnchanged,
        End, queue, NoRun, FinishDone, FinishCancelled, Requeued, FinishFailed, staging, Up,
        Loaded, NoSidecar, stops, Failed, NoJob
  <1> QED
    BY <1>1, <1>2, <1>3, <1>4, <1>5, <1>6, <1>7, <1>8, <1>9, <1>10, <1>11, <1>12, <1>13, <1>14
    DEF Next, Web, Outside, Worker, Adds, Yields

\* Every step keeps it that what the program has made holds something.
LEMMA AllMuxedStep ==
    ASSUME IInv, Next
    PROVE  AllMuxed'
  <1>0. /\ job \in Records /\ disk \in Records /\ run \in Runs
        /\ sidecar \in Sidecars /\ link \in Links
    BY Typed DEF IInv
  <1>1. CASE Adds \/ RetryStagedNow \/ DiscardKept \/ RemoveQueued \/ ClearFinished
             \/ StopAllClear \/ StopAllCancel
    BY Zenon, <1>0, <1>1
    DEF IInv, Truth, AllMuxed, Muxed, Adds, RetryStagedNow, DiscardKept, RemoveQueued,
        ClearFinished, StopAllClear, StopAllCancel, Add, AddFresh, Up, Save, UserQueued,
        WebUnchanged, staging, NoJob, NoSidecar, Unqueued, queue, NewJob, HoldsSource, library,
        SaveOk
  <1>2. CASE Intrude \/ RemoveTarget \/ ReplaceIso \/ Yields
    BY SMT, <1>0, <1>2
    DEF IInv, Truth, AllMuxed, Muxed, Intrude, RemoveTarget, ReplaceIso, Yields,
        OutsideUnchanged, Yield, staging, queue, stops, Looks, library
  <1>3. CASE Claim \/ FreezePlan \/ StartRun \/ Validate \/ CaptureOwned
             \/ Admit \/ BeginOutput \/ Look \/ Permit
    BY SMT, <1>0, <1>3
    DEF IInv, Truth, AllMuxed, Muxed, Claim, FreezePlan, StartRun, Validate, CaptureOwned, Admit,
        BeginOutput, Look, Permit, NoRun, library, staging, stops, SaveOk, Goto, FailRun,
        StepUnchanged, FilesUnchanged, End, queue, Save
  <1>4. CASE LinkDone
    BY <1>0, <1>4, LinkMakes
    DEF IInv, Truth, PlacedNow, RecordGood, AllMuxed, Muxed
  <1>5. CASE LinkLanded
    BY <1>0, <1>5, LinkMakes
    DEF IInv, Truth, PlacedNow, RecordGood, AllMuxed, Muxed
  <1>6. CASE Stage \/ Resume \/ BeforeLanding \/ Recheck \/ Land
    BY SMT, <1>0, <1>6
    DEF IInv, Truth, AllMuxed, Muxed, Control, Delivery, Running, Loaded, Planned, Planning,
        Delivering, Pair, Places, Requeued, Stage, Resume, BeforeLanding, Recheck, Land, Goto,
        StepUnchanged, library, queue, staging, NoSidecar, SaveOk, SaveError, FilesUnchanged,
        Fault, stops
  <1>7. CASE Mux
    BY <1>0, <1>7, MuxMakes, Typed
    DEF IInv, Truth, PlacedNow, RecordGood, AllMuxed, Muxed
  <1>8. CASE Copy
    BY <1>0, <1>8, CopyMakes, Typed
    DEF IInv, Truth, PlacedNow, RecordGood, AllMuxed, Muxed, Local
  <1>9. CASE Clear \/ Landed \/ Undo \/ Keep \/ KeepSidecar
    BY Zenon, <1>0, <1>9
    DEF IInv, Truth, AllMuxed, Muxed, Clear, Landed, Undo, Keep, KeepSidecar, Goto, NoRun,
        NoSidecar, staging, StepUnchanged, library, queue, Save, FilesUnchanged, stops
  <1>10. CASE Link
    BY <1>0, <1>10, LinkMakes
    DEF IInv, Truth, PlacedNow, RecordGood, AllMuxed, Muxed
  <1>11. CASE ArmSourceChanged \/ ArmRefused \/ ArmOther \/ ArmBare \/ Settle
             \/ Finish \/ Crash \/ Startup
    BY Zenon, <1>0, <1>11
    DEF IInv, Truth, AllMuxed, Muxed, ArmSourceChanged, ArmRefused, ArmOther, ArmBare, Settle,
        Finish, Crash, Startup, Save, SaveOk, Unkept, StepUnchanged, library, FilesUnchanged,
        End, queue, NoRun, FinishDone, FinishCancelled, Requeued, FinishFailed, staging, Up,
        Loaded, NoSidecar, stops, Failed, NoJob
  <1> QED
    BY <1>1, <1>2, <1>3, <1>4, <1>5, <1>6, <1>7, <1>8, <1>9, <1>10, <1>11
    DEF Next, Web, Outside, Worker, Adds, Yields

\* Every step keeps it that what was muxed from the planned ISO holds it, while the ISO is that one.
LEMMA MadeTrueStep ==
    ASSUME IInv, Next
    PROVE  MadeTrue'
  <1>0. /\ job \in Records /\ disk \in Records /\ run \in Runs
        /\ sidecar \in Sidecars /\ link \in Links
    BY Typed DEF IInv
  <1>1. CASE Adds \/ RetryStagedNow \/ DiscardKept \/ RemoveQueued \/ ClearFinished
             \/ StopAllClear \/ StopAllCancel
    BY Zenon, <1>0, <1>1
    DEF IInv, Truth, MadeTrue, Delivering, Control, Running, Loaded, Planning, Places, Requeued,
        Adds, RetryStagedNow, DiscardKept, RemoveQueued, ClearFinished, StopAllClear,
        StopAllCancel, Add, AddFresh, Up, Save, UserQueued, WebUnchanged, staging, NoJob,
        NoSidecar, Unqueued, queue, NewJob, HoldsSource, library, SaveOk
  <1>2. CASE Intrude \/ RemoveTarget \/ Yields
    BY SMT, <1>0, <1>2
    DEF IInv, Truth, MadeTrue, Delivering, Intrude, RemoveTarget, Yields, OutsideUnchanged,
        Yield, staging, queue, stops, Looks, library
  <1>3. CASE ReplaceIso
    BY <1>0, <1>3, Typed, NewIsoApart
    DEF IInv, Truth, PlacedNow, RecordGood, MadeTrue, ReplaceIso, OutsideUnchanged, Delivering,
        Planning, queue, stops, Planned
  <1>4. CASE Claim \/ FreezePlan \/ StartRun \/ Validate \/ CaptureOwned
             \/ Admit \/ BeginOutput \/ LinkDone \/ Look \/ LinkLanded
             \/ Permit
    BY SMT, <1>0, <1>4
    DEF IInv, Truth, MadeTrue, Delivering, Claim, FreezePlan, StartRun, Validate, CaptureOwned,
        Admit, BeginOutput, LinkDone, Look, LinkLanded, Permit, NoRun, library, staging, stops,
        SaveOk, Goto, FailRun, StepUnchanged, FilesUnchanged, End, queue, Save
  <1>5. CASE Stage
    BY Zenon, <1>0, <1>5
    DEF IInv, Truth, MadeTrue, Delivering, Control, Running, Loaded, Planning, Places, Requeued,
        Stage, Goto, StepUnchanged, library, queue, stops, Records, Sidecars, Links, Runs
  <1>6. CASE Mux
    BY <1>0, <1>6, MuxMakes
    DEF IInv, Truth, PlacedNow, RecordGood, MadeTrue, Delivering, Carried, Control
  <1>7. CASE Resume
    BY <1>0, <1>7, ResumeMakes
    DEF IInv, Truth, PlacedNow, RecordGood, MadeTrue, Carried, Delivering
  <1>8. CASE Copy
    BY <1>0, <1>8, CopyMakes, Typed
    DEF IInv, Truth, PlacedNow, RecordGood, MadeTrue, Delivering, Carried, Local
  <1>9. CASE BeforeLanding
    BY SMT, <1>0, <1>9
    DEF IInv, Truth, MadeTrue, Delivering, BeforeLanding, Goto, queue, SaveOk, StepUnchanged,
        FilesUnchanged, stops, library, staging, Records, Sidecars, Links, Runs
  <1>10. CASE Recheck
    BY SMT, <1>0, <1>10
    DEF IInv, Truth, MadeTrue, Delivering, Recheck, Fault, Goto, StepUnchanged, FilesUnchanged,
        queue, stops, library, staging, Records, Sidecars, Links, Runs
  <1>11. CASE Land \/ Clear
    BY SMT, <1>0, <1>11
    DEF IInv, Truth, MadeTrue, Delivering, Land, Clear, Goto, Fault, StepUnchanged, staging,
        queue, NoRun, NoSidecar, library, stops, Records, Sidecars, Links, Runs
  <1>12. CASE Landed \/ Link \/ Undo \/ Keep \/ KeepSidecar
    BY Zenon, <1>0, <1>12
    DEF IInv, Truth, MadeTrue, Delivering, Control, Running, Loaded, Planning, Places, Requeued,
        Landed, Link, Undo, Keep, KeepSidecar, Goto, Save, StepUnchanged, FilesUnchanged,
        FailRun, queue, library, stops, staging, End, NoRun, Records, Sidecars, Links, Runs
  <1>13. CASE ArmSourceChanged \/ ArmRefused \/ ArmOther \/ ArmBare \/ Settle
             \/ Finish \/ Crash \/ Startup
    BY Zenon, <1>0, <1>13
    DEF IInv, Truth, MadeTrue, Delivering, ArmSourceChanged, ArmRefused, ArmOther, ArmBare,
        Settle, Finish, Crash, Startup, Save, SaveOk, Unkept, StepUnchanged, library,
        FilesUnchanged, End, queue, NoRun, FinishDone, FinishCancelled, Requeued, FinishFailed,
        staging, Up, Loaded, NoSidecar, stops, Failed, NoJob
  <1> QED
    BY <1>1, <1>2, <1>3, <1>4, <1>5, <1>6, <1>7, <1>8, <1>9, <1>10, <1>11, <1>12, <1>13
    DEF Next, Web, Outside, Worker, Adds, Yields

\* Every step keeps it that a copy holds what its source holds.
LEMMA CopyTrueStep ==
    ASSUME IInv, Next
    PROVE  CopyTrue'
  <1>0. /\ job \in Records /\ disk \in Records /\ run \in Runs
        /\ sidecar \in Sidecars /\ link \in Links
    BY Typed DEF IInv
  <1>1. CASE Adds \/ RetryStagedNow \/ DiscardKept \/ RemoveQueued
    BY Zenon, <1>0, <1>1
    DEF IInv, Truth, CopyTrue, Control, Running, Loaded, Planning, Delivering, Places, Requeued,
        Adds, RetryStagedNow, DiscardKept, RemoveQueued, Add, AddFresh, Up, Save, UserQueued,
        WebUnchanged, staging, NoJob, NoSidecar, Unqueued, NewJob, HoldsSource, library, SaveOk
  <1>2. CASE ClearFinished \/ StopAllClear \/ StopAllCancel
    BY SMT, <1>0, <1>2
    DEF IInv, Truth, CopyTrue, Local, ClearFinished, StopAllClear, StopAllCancel, Up, Save,
        NoJob, Pair, WebUnchanged, Unqueued, queue, staging, library
  <1>3. CASE Intrude \/ RemoveTarget \/ ReplaceIso \/ Yields
    BY SMT, <1>0, <1>3
    DEF IInv, Truth, CopyTrue, Local, Intrude, RemoveTarget, ReplaceIso, Yields,
        OutsideUnchanged, Yield, staging, queue, stops, Looks, library
  <1>4. CASE Claim \/ FreezePlan \/ StartRun \/ Validate \/ CaptureOwned
             \/ Admit \/ BeginOutput \/ LinkDone \/ Look \/ LinkLanded
             \/ Permit
    BY SMT, <1>0, <1>4
    DEF IInv, Truth, CopyTrue, Claim, FreezePlan, StartRun, Validate, CaptureOwned, Admit,
        BeginOutput, LinkDone, Look, LinkLanded, Permit, NoRun, library, staging, stops, SaveOk,
        Goto, FailRun, StepUnchanged, FilesUnchanged, End, queue, Save
  <1>5. CASE Stage \/ Mux \/ Resume \/ BeforeLanding \/ Recheck
             \/ Land \/ Clear \/ Landed \/ Link \/ Undo
             \/ Keep \/ KeepSidecar
    BY Zenon, <1>0, <1>5
    DEF IInv, Truth, CopyTrue, Local, Stage, Mux, Resume, BeforeLanding, Recheck, Land, Clear,
        Landed, Link, Undo, Keep, KeepSidecar, Goto, StepUnchanged, library, queue, Mixed, Pair,
        staging, NoSidecar, Planned, SaveOk, SaveError, FilesUnchanged, Fault, NoRun, Save,
        SetStaged, FinishOutput, FailRun, stops, End, Records, Sidecars, Links, Runs
  <1>6. CASE Copy
    BY <1>0, <1>6, CopyMakes
    DEF IInv, Truth, PlacedNow, RecordGood, CopyTrue, Local, Carried
  <1>7. CASE ArmSourceChanged \/ ArmRefused \/ ArmOther \/ ArmBare \/ Settle
             \/ Finish \/ Crash \/ Startup
    BY Zenon, <1>0, <1>7
    DEF IInv, Truth, CopyTrue, ArmSourceChanged, ArmRefused, ArmOther, ArmBare, Settle, Finish,
        Crash, Startup, Save, SaveOk, Unkept, StepUnchanged, library, FilesUnchanged, End, queue,
        NoRun, FinishDone, FinishCancelled, Requeued, FinishFailed, staging, Up, Loaded,
        NoSidecar, stops, Failed, NoJob
  <1> QED
    BY <1>1, <1>2, <1>3, <1>4, <1>5, <1>6, <1>7
    DEF Next, Web, Outside, Worker, Adds, Yields

\* Every step keeps it that a link tells the truth.
LEMMA LinkTrueStep ==
    ASSUME IInv, Next
    PROVE  LinkTrue'
  <1>0. /\ job \in Records /\ disk \in Records /\ run \in Runs
        /\ sidecar \in Sidecars /\ link \in Links
    BY Typed DEF IInv
  <1>1. CASE Adds \/ RetryStagedNow \/ DiscardKept \/ RemoveQueued \/ ClearFinished
             \/ StopAllClear \/ StopAllCancel
    BY Zenon, <1>0, <1>1
    DEF IInv, Truth, LinkTrue, LinkTellsTheTruth, Adds, RetryStagedNow, DiscardKept,
        RemoveQueued, ClearFinished, StopAllClear, StopAllCancel, Add, AddFresh, Up, Save,
        UserQueued, WebUnchanged, staging, NoJob, NoSidecar, Unqueued, queue, NewJob,
        HoldsSource, library, SaveOk
  <1>2. CASE Intrude \/ RemoveTarget \/ ReplaceIso \/ Yields
    BY SMT, <1>0, <1>2
    DEF IInv, Truth, LinkTrue, LinkTellsTheTruth, Intrude, RemoveTarget, ReplaceIso, Yields,
        OutsideUnchanged, Yield, staging, queue, stops, Looks, library
  <1>3. CASE Claim \/ FreezePlan \/ StartRun \/ Validate \/ CaptureOwned
             \/ Admit \/ BeginOutput \/ Look \/ Permit
    BY SMT, <1>0, <1>3
    DEF IInv, Truth, LinkTrue, LinkTellsTheTruth, Claim, FreezePlan, StartRun, Validate,
        CaptureOwned, Admit, BeginOutput, Look, Permit, NoRun, library, staging, stops, SaveOk,
        Goto, FailRun, StepUnchanged, FilesUnchanged, End, queue, Save
  <1>4. CASE LinkDone
    BY <1>0, <1>4, LinkMakes
    DEF IInv, Truth, PlacedNow, RecordGood, LinkTrue, LinkTellsTheTruth
  <1>5. CASE LinkLanded
    BY <1>0, <1>5, LinkMakes
    DEF IInv, Truth, PlacedNow, RecordGood, LinkTrue, LinkTellsTheTruth
  <1>6. CASE Stage \/ Resume \/ BeforeLanding \/ Recheck \/ Land
             \/ Clear \/ Landed \/ Undo \/ Keep \/ KeepSidecar
    BY Zenon, <1>0, <1>6
    DEF IInv, Truth, LinkTrue, LinkTellsTheTruth, Stage, Resume, BeforeLanding, Recheck, Land,
        Clear, Landed, Undo, Keep, KeepSidecar, Goto, StepUnchanged, library, queue, staging,
        NoSidecar, SaveOk, FilesUnchanged, Fault, NoRun, Save, stops
  <1>7. CASE Mux
    BY <1>0, <1>7, MuxMakes, Typed
    DEF IInv, Truth, PlacedNow, RecordGood, LinkTrue, LinkTellsTheTruth
  <1>8. CASE Copy
    BY <1>0, <1>8, CopyMakes, Typed
    DEF IInv, Truth, PlacedNow, RecordGood, LinkTrue, LinkTellsTheTruth
  <1>9. CASE Link
    BY <1>0, <1>9, LinkMakes
    DEF IInv, Truth, PlacedNow, RecordGood, LinkTrue, LinkTellsTheTruth
  <1>10. CASE ArmSourceChanged \/ ArmRefused \/ ArmOther \/ ArmBare \/ Settle
             \/ Finish \/ Crash \/ Startup
    BY Zenon, <1>0, <1>10
    DEF IInv, Truth, LinkTrue, LinkTellsTheTruth, ArmSourceChanged, ArmRefused, ArmOther,
        ArmBare, Settle, Finish, Crash, Startup, Save, SaveOk, Unkept, StepUnchanged, library,
        FilesUnchanged, End, queue, NoRun, FinishDone, FinishCancelled, Requeued, FinishFailed,
        staging, Up, Loaded, NoSidecar, stops, Failed, NoJob
  <1> QED
    BY <1>1, <1>2, <1>3, <1>4, <1>5, <1>6, <1>7, <1>8, <1>9, <1>10
    DEF Next, Web, Outside, Worker, Adds, Yields

\* Every step keeps it that a kept file never replaces what its job has placed.
LEMMA KeptSafeStep ==
    ASSUME IInv, Next
    PROVE  KeptSafe'
  <1>0. /\ job \in Records /\ disk \in Records /\ run \in Runs
        /\ sidecar \in Sidecars /\ link \in Links
    BY Typed DEF IInv
  <1>1. CASE Adds \/ RetryStagedNow
    BY SMT, <1>0, <1>1
    DEF IInv, PlacedNow, KeptSafe, Adds, RetryStagedNow, Add, AddFresh, Up, Save, UserQueued,
        WebUnchanged, staging, NewJob, HoldsSource, library, SaveOk
  <1>2. CASE DiscardKept \/ RemoveQueued
    BY SMT, <1>0, <1>2
    DEF IInv, PlacedNow, KeptSafe, DiscardKept, RemoveQueued, Up, Save, NoJob, SetStaged,
        NoSidecar, WebUnchanged, Unqueued, staging, library
  <1>3. CASE ClearFinished \/ StopAllClear \/ StopAllCancel
    BY SMT, <1>0, <1>3
    DEF IInv, PlacedNow, KeptSafe, ClearFinished, StopAllClear, StopAllCancel, Up, Save, NoJob,
        WebUnchanged, Unqueued, queue, staging, library
  <1>4. CASE Intrude \/ RemoveTarget \/ ReplaceIso \/ Yields
    BY SMT, <1>0, <1>4
    DEF IInv, PlacedNow, KeptSafe, Intrude, RemoveTarget, ReplaceIso, Yields, OutsideUnchanged,
        Yield, staging, queue, stops, Looks, library
  <1>5. CASE Claim \/ FreezePlan \/ StartRun \/ Validate \/ CaptureOwned
             \/ Admit \/ BeginOutput \/ LinkDone \/ Look \/ LinkLanded
             \/ Permit
    BY SMT, <1>0, <1>5
    DEF IInv, PlacedNow, KeptSafe, Claim, FreezePlan, StartRun, Validate, CaptureOwned, Admit,
        BeginOutput, LinkDone, Look, LinkLanded, Permit, NoRun, library, staging, stops, SaveOk,
        Goto, FailRun, StepUnchanged, FilesUnchanged, End, queue, Save
  <1>6. CASE Stage \/ Mux \/ Resume \/ Copy
    BY SMT, <1>0, <1>6
    DEF IInv, PlacedNow, KeptSafe, Stage, Mux, Resume, Copy, Goto, StepUnchanged, library, queue,
        Mixed, staging, NoSidecar, Fault, stops
  <1>7. CASE BeforeLanding \/ Recheck
    BY SMT, <1>0, <1>7
    DEF IInv, PlacedNow, KeptSafe, BeforeLanding, Recheck, Goto, queue, SaveOk, StepUnchanged,
        FilesUnchanged, Fault, stops, library, staging
  <1>8. CASE Land
    BY SMT, <1>0, <1>8
    DEF IInv, PlacedNow, KeptSafe, Control, Delivery, Synced, Judged, Captured, TargetNew,
        BeforeSafe, BaselineApart, MadeTrue, Running, Loaded, Planned, Planning, Delivering,
        Pair, Places, Requeued, Land, Goto, Fault, StepUnchanged, staging, queue, stops
  <1>9. CASE Clear \/ Landed \/ Link
    BY SMT, <1>0, <1>9
    DEF IInv, PlacedNow, KeptSafe, Clear, Landed, Link, Goto, Planned, NoRun, NoSidecar, staging,
        StepUnchanged, library, queue, Save, SetStaged, FilesUnchanged, FinishOutput, FailRun,
        stops, End
  <1>10. CASE Undo
    BY SMT, <1>0, <1>10
    DEF IInv, PlacedNow, KeptSafe, Undo, Goto, StepUnchanged, queue, stops
  <1>11. CASE Keep
    BY SMT, <1>0, <1>11
    DEF IInv, PlacedNow, KeptSafe, Keep, Goto, StepUnchanged, library, queue, stops
  <1>12. CASE KeepSidecar
    BY SMT, <1>0, <1>12
    DEF IInv, PlacedNow, KeptSafe, Control, Delivery, Synced, Judged, Captured, TargetNew,
        BeforeSafe, BaselineApart, MadeTrue, Running, Loaded, Planned, Planning, Delivering,
        Pair, Places, Requeued, KeepSidecar, Goto, StepUnchanged, library, queue, stops
  <1>13. CASE ArmSourceChanged \/ ArmRefused \/ ArmOther \/ ArmBare \/ Settle
             \/ Finish \/ Crash \/ Startup
    BY SMT, <1>0, <1>13
    DEF IInv, PlacedNow, KeptSafe, ArmSourceChanged, ArmRefused, ArmOther, ArmBare, Settle,
        Finish, Crash, Startup, Planned, SetStaged, Save, OutputFailed, SaveOk, Unkept,
        StepUnchanged, library, FilesUnchanged, KeepStaged, End, queue, NoRun, FinishDone,
        FinishCancelled, Requeued, FinishFailed, staging, Up, Loaded, Pair, NoSidecar, Adopted,
        stops, FinishOutput, Failed, NoJob
  <1> QED
    BY <1>1, <1>2, <1>3, <1>4, <1>5, <1>6, <1>7, <1>8, <1>9, <1>10, <1>11, <1>12, <1>13
    DEF Next, Web, Outside, Worker, Adds, Yields

\* Every step keeps it that a delivery never expects at the target what the job has placed or is to place.
LEMMA BeforeSafeStep ==
    ASSUME IInv, Next
    PROVE  BeforeSafe'
  <1>0. /\ job \in Records /\ disk \in Records /\ run \in Runs
        /\ sidecar \in Sidecars /\ link \in Links
    BY Typed DEF IInv
  <1>1. CASE Adds \/ RetryStagedNow \/ DiscardKept \/ RemoveQueued \/ ClearFinished
             \/ StopAllClear \/ StopAllCancel
    BY Zenon, <1>0, <1>1
    DEF IInv, PlacedNow, BeforeSafe, Delivering, Control, Running, Loaded, Planning, Places,
        Requeued, Adds, RetryStagedNow, DiscardKept, RemoveQueued, ClearFinished, StopAllClear,
        StopAllCancel, Add, AddFresh, Up, Save, UserQueued, WebUnchanged, staging, NoJob,
        NoSidecar, Unqueued, queue, NewJob, HoldsSource, library, SaveOk
  <1>2. CASE Intrude \/ RemoveTarget \/ ReplaceIso \/ Yields
    BY SMT, <1>0, <1>2
    DEF IInv, PlacedNow, BeforeSafe, Delivering, Intrude, RemoveTarget, ReplaceIso, Yields,
        OutsideUnchanged, Yield, staging, queue, stops, Looks, library
  <1>3. CASE Claim \/ FreezePlan \/ StartRun \/ Validate \/ CaptureOwned
             \/ Admit \/ BeginOutput \/ LinkDone \/ Look \/ LinkLanded
             \/ Permit
    BY SMT, <1>0, <1>3
    DEF IInv, PlacedNow, BeforeSafe, Delivering, Claim, FreezePlan, StartRun, Validate,
        CaptureOwned, Admit, BeginOutput, LinkDone, Look, LinkLanded, Permit, NoRun, library,
        staging, stops, SaveOk, Goto, FailRun, StepUnchanged, FilesUnchanged, End, queue, Save
  <1>4. CASE Stage
    <2>1. pc = "stage" /\ ~run.resume /\ target \notin placed /\ placed' = placed
      BY <1>0, <1>4 DEF IInv, PlacedNow, Control, TargetNew, Stage, library
    <2>2. pc' = "arms" \/ (pc' = "mux" /\ run'.before = target)
      BY <1>0, <1>4 DEF Stage, Goto, Runs
    <2> QED
      BY <1>0, <1>4, <2>1, <2>2 DEF BeforeSafe, Delivering
  <1>5. CASE Mux
    BY <1>0, <1>5, MuxMakes, Typed
    DEF IInv, Truth, PlacedNow, RecordGood, BeforeSafe, Delivering, Carried
  <1>6. CASE Resume
    BY <1>0, <1>6, ResumeMakes
    DEF IInv, Truth, PlacedNow, RecordGood, BeforeSafe, Carried, Delivering, KeptSafe, Pair
  <1>7. CASE Copy
    BY <1>0, <1>7, CopyMakes, Typed
    DEF IInv, Truth, PlacedNow, RecordGood, BeforeSafe, KeptSafe, Delivery, Pair, Delivering,
        Carried, Local
  <1>8. CASE BeforeLanding \/ Recheck \/ Land \/ Clear \/ Landed
             \/ Link \/ Undo \/ KeepSidecar
    BY Zenon, <1>0, <1>8
    DEF IInv, RecordGood, Truth, PlacedNow, BeforeSafe, Delivering, BeforeLanding, Recheck, Land,
        Clear, Landed, Link, Undo, KeepSidecar, Goto, NoFile, queue, SaveOk, StepUnchanged,
        FilesUnchanged, Fault, staging, NoRun, NoSidecar, library, Save, FailRun, stops, NoIso,
        End, Records, Sidecars, Links, Runs, NotCaptured
  <1>9. CASE Keep
    BY SMT, <1>0, <1>9
    DEF IInv, Truth, PlacedNow, RecordGood, BeforeSafe, Control, Keep, Goto, Runs, Delivering,
        library, staging, StepUnchanged
  <1>10. CASE ArmSourceChanged \/ ArmRefused \/ ArmOther \/ ArmBare \/ Settle
             \/ Finish \/ Crash \/ Startup
    BY Zenon, <1>0, <1>10
    DEF IInv, PlacedNow, BeforeSafe, Delivering, ArmSourceChanged, ArmRefused, ArmOther, ArmBare,
        Settle, Finish, Crash, Startup, Save, SaveOk, Unkept, StepUnchanged, library,
        FilesUnchanged, End, queue, NoRun, FinishDone, FinishCancelled, Requeued, FinishFailed,
        staging, Up, Loaded, NoSidecar, stops, Failed, NoJob
  <1> QED
    BY <1>1, <1>2, <1>3, <1>4, <1>5, <1>6, <1>7, <1>8, <1>9, <1>10
    DEF Next, Web, Outside, Worker, Adds, Yields

\* Every step keeps it that the baseline is none of the files a delivery is to place.
LEMMA BaselineApartStep ==
    ASSUME IInv, Next
    PROVE  BaselineApart'
  <1>0. /\ job \in Records /\ disk \in Records /\ run \in Runs
        /\ sidecar \in Sidecars /\ link \in Links
    BY Typed DEF IInv
  <1>1. CASE Adds \/ RetryStagedNow \/ DiscardKept \/ RemoveQueued \/ ClearFinished
             \/ StopAllClear \/ StopAllCancel
    BY Zenon, <1>0, <1>1
    DEF IInv, PlacedNow, BaselineApart, Delivering, Control, Running, Loaded, Planning, Places,
        Requeued, Adds, RetryStagedNow, DiscardKept, RemoveQueued, ClearFinished, StopAllClear,
        StopAllCancel, Add, AddFresh, Up, Save, UserQueued, WebUnchanged, staging, NoJob,
        NoSidecar, Unqueued, queue, NewJob, HoldsSource, library, SaveOk
  <1>2. CASE Intrude \/ RemoveTarget \/ ReplaceIso \/ Yields
    BY SMT, <1>0, <1>2
    DEF IInv, PlacedNow, BaselineApart, Delivering, Intrude, RemoveTarget, ReplaceIso, Yields,
        OutsideUnchanged, Yield, staging, queue, stops, Looks, library
  <1>3. CASE Claim \/ FreezePlan \/ StartRun \/ Validate \/ CaptureOwned
             \/ Admit \/ BeginOutput \/ LinkDone \/ Look \/ LinkLanded
             \/ Permit
    BY SMT, <1>0, <1>3
    DEF IInv, PlacedNow, BaselineApart, Delivering, Claim, FreezePlan, StartRun, Validate,
        CaptureOwned, Admit, BeginOutput, LinkDone, Look, LinkLanded, Permit, NoRun, library,
        staging, stops, SaveOk, Goto, FailRun, StepUnchanged, FilesUnchanged, End, queue, Save
  <1>4. CASE Stage \/ BeforeLanding \/ Recheck \/ Land \/ Clear
    BY SMT, <1>0, <1>4
    DEF IInv, PlacedNow, BaselineApart, Delivering, Control, Delivery, Running, Loaded, Planned,
        Planning, Pair, Places, Requeued, Stage, BeforeLanding, Recheck, Land, Clear, Goto,
        StepUnchanged, library, queue, SaveOk, SaveError, FilesUnchanged, Fault, staging, NoRun,
        NoSidecar, stops, Records, Sidecars, Links, Runs
  <1>5. CASE Mux
    BY <1>0, <1>5, MuxMakes, Typed
    DEF IInv, Truth, PlacedNow, RecordGood, BaselineApart, Delivering, Carried, Control
  <1>6. CASE Resume
    BY <1>0, <1>6, ResumeMakes
    DEF IInv, Truth, PlacedNow, RecordGood, BaselineApart, Carried, Delivering
  <1>7. CASE Copy
    <2>1. ~run.resume => job.owned # stage
      BY <1>0, <1>7, CopyMakes DEF IInv, PlacedNow, BaselineApart, Delivering
    <2>2. run.resume /\ job.owned = kept => job.unproven
      <3>1. CASE Planned
        BY <1>0, <1>7, <3>1, CopyMakes DEF IInv, RecordGood, RecordPlaced, Delivery, Delivering
      <3>2. CASE ~Planned
        BY <1>0, <1>7, <3>2, NotCapturedApart DEF IInv, RecordGood, RecordSound, Planned
      <3> QED
        BY <1>0, <1>7, <3>1, <3>2
    <2>3. pc' = "announce" /\ job.owned = partial' => job.unproven
      BY <1>0, <1>7, <2>1, <2>2, CopyMakes, Typed DEF Local, IInv
    <2> QED
      BY <1>0, <1>7, <2>1, <2>3, CopyMakes DEF IInv, PlacedNow, BaselineApart, Delivering, Carried
  <1>8. CASE Landed \/ Link \/ Undo \/ Keep \/ KeepSidecar
    BY Zenon, <1>0, <1>8
    DEF IInv, PlacedNow, BaselineApart, Delivering, Control, Running, Loaded, Planning, Places,
        Requeued, Landed, Link, Undo, Keep, KeepSidecar, Goto, Save, StepUnchanged,
        FilesUnchanged, FailRun, queue, library, stops, staging, End, NoRun, Records, Sidecars,
        Links, Runs
  <1>9. CASE ArmSourceChanged \/ ArmRefused \/ ArmOther \/ ArmBare \/ Settle
             \/ Finish \/ Crash \/ Startup
    BY Zenon, <1>0, <1>9
    DEF IInv, PlacedNow, BaselineApart, Delivering, ArmSourceChanged, ArmRefused, ArmOther,
        ArmBare, Settle, Finish, Crash, Startup, Save, SaveOk, Unkept, StepUnchanged, library,
        FilesUnchanged, End, queue, NoRun, FinishDone, FinishCancelled, Requeued, FinishFailed,
        staging, Up, Loaded, NoSidecar, stops, Failed, NoJob
  <1> QED
    BY <1>1, <1>2, <1>3, <1>4, <1>5, <1>6, <1>7, <1>8, <1>9
    DEF Next, Web, Outside, Worker, Adds, Yields

\* Every step keeps it that what stands at the target when a delivery starts is none of the job's own.
LEMMA TargetNewStep ==
    ASSUME IInv, Next
    PROVE  TargetNew'
  <1>0. /\ job \in Records /\ disk \in Records /\ run \in Runs
        /\ sidecar \in Sidecars /\ link \in Links
    BY Typed DEF IInv
  <1>1. CASE Adds \/ RetryStagedNow \/ DiscardKept \/ RemoveQueued \/ ClearFinished
             \/ StopAllClear \/ StopAllCancel
    BY Zenon, <1>0, <1>1
    DEF IInv, PlacedNow, TargetNew, Planning, Control, Running, Loaded, Delivering, Places,
        Requeued, Adds, RetryStagedNow, DiscardKept, RemoveQueued, ClearFinished, StopAllClear,
        StopAllCancel, Add, AddFresh, Up, Save, UserQueued, WebUnchanged, staging, NoJob,
        NoSidecar, Unqueued, queue, NewJob, HoldsSource, library, SaveOk
  <1>2. CASE Intrude
    BY SMT, <1>0, <1>2
    DEF IInv, PlacedNow, TargetNew, Planning, Intrude, OutsideUnchanged, staging, queue, stops,
        Shape, Counters, FilesTyped, PlacedTyped, Known, Versions, Isos, Mixed, Files
  <1>3. CASE RemoveTarget
    BY SMT, <1>0, <1>3
    DEF IInv, PlacedNow, TargetNew, Planning, Control, Delivery, RecordSound, Running, Loaded,
        Planned, Delivering, Pair, NoJob, Places, Requeued, RemoveTarget, OutsideUnchanged,
        staging, queue, stops, Shape, Counters, FilesTyped, PlacedTyped, Known, Versions, Isos,
        Mixed, Files
  <1>4. CASE ReplaceIso \/ Yields
    BY SMT, <1>0, <1>4
    DEF IInv, PlacedNow, TargetNew, Planning, ReplaceIso, Yields, OutsideUnchanged, Yield,
        staging, queue, stops, Looks, library
  <1>5. CASE Claim \/ FreezePlan \/ StartRun \/ Validate \/ CaptureOwned
    BY Zenon, <1>0, <1>5
    DEF IInv, PlacedNow, TargetNew, Planning, Claim, FreezePlan, StartRun, Validate,
        CaptureOwned, Planned, NoRun, library, staging, stops, SaveOk, Goto, SaveError, FailRun,
        StepUnchanged, FilesUnchanged, End, LandedBefore, queue, NoFile, NotCaptured, NoIso,
        Records, Sidecars, Links, Runs
  <1>6. CASE Admit \/ BeginOutput \/ LinkDone
    BY SMT, <1>0, <1>6
    DEF IInv, PlacedNow, TargetNew, Planning, Admit, BeginOutput, LinkDone, FailRun, Goto,
        StepUnchanged, FilesUnchanged, queue, End, Save, stops, library, staging, NoRun, Records,
        Sidecars, Links, Runs
  <1>7. CASE Look
    BY SMT, <1>0, <1>7
    DEF IInv, RecordGood, Truth, PlacedNow, TargetNew, Planning, Control, Delivery, RecordSound,
        Running, Loaded, Planned, Delivering, Pair, NoJob, Places, Requeued, Look, LandedBefore,
        Goto, queue, LandedByThisJob, Save, FinishOutput, StepUnchanged, FilesUnchanged, stops,
        library, staging, Shape, Counters, FilesTyped, PlacedTyped, Known, Versions, Isos, Mixed,
        Files
  <1>8. CASE LinkLanded
    BY SMT, <1>0, <1>8
    DEF IInv, PlacedNow, TargetNew, Planning, LinkLanded, Goto, Save, FailRun, queue,
        StepUnchanged, FilesUnchanged, End, stops, library, staging, NoRun
  <1>9. CASE Permit
    BY <1>0, <1>9, PermitMakes
    DEF IInv, Truth, PlacedNow, RecordGood, TargetNew, Planning
  <1>10. CASE Stage \/ Mux \/ BeforeLanding \/ Recheck \/ Land
             \/ Clear \/ Landed \/ Link \/ Undo \/ Keep
             \/ KeepSidecar
    BY Zenon, <1>0, <1>10
    DEF IInv, PlacedNow, TargetNew, Planning, Stage, Mux, BeforeLanding, Recheck, Land, Clear,
        Landed, Link, Undo, Keep, KeepSidecar, Goto, StepUnchanged, library, queue, Mixed,
        SaveOk, FilesUnchanged, Fault, staging, NoRun, NoSidecar, Save, FailRun, stops, End,
        Records, Sidecars, Links, Runs
  <1>11. CASE Resume
    BY <1>0, <1>11, ResumeMakes
    DEF IInv, Truth, PlacedNow, RecordGood, TargetNew, Carried, Delivering, Planning
  <1>12. CASE Copy
    BY <1>0, <1>12, CopyMakes, Typed
    DEF IInv, Truth, PlacedNow, RecordGood, TargetNew, TargetExists, BeforeSafe, KeptSafe,
        Delivery, Pair, Delivering, Carried, Local, Planning
  <1>13. CASE ArmSourceChanged \/ ArmRefused \/ ArmOther \/ ArmBare \/ Settle
             \/ Finish \/ Crash \/ Startup
    BY Zenon, <1>0, <1>13
    DEF IInv, PlacedNow, TargetNew, Planning, ArmSourceChanged, ArmRefused, ArmOther, ArmBare,
        Settle, Finish, Crash, Startup, Save, SaveOk, Unkept, StepUnchanged, library,
        FilesUnchanged, End, queue, NoRun, FinishDone, FinishCancelled, Requeued, FinishFailed,
        staging, Up, Loaded, NoSidecar, stops, Failed, NoJob
  <1> QED
    BY <1>1, <1>2, <1>3, <1>4, <1>5, <1>6, <1>7, <1>8, <1>9, <1>10, <1>11, <1>12, <1>13
    DEF Next, Web, Outside, Worker, Adds, Yields

\* Every step keeps it that a delivery with proof of its source has captured its baseline.
LEMMA CapturedStep ==
    ASSUME IInv, Next
    PROVE  Captured'
  <1>0. /\ job \in Records /\ disk \in Records /\ run \in Runs
        /\ sidecar \in Sidecars /\ link \in Links
    BY Typed DEF IInv
  <1>1. CASE Adds \/ RetryStagedNow \/ DiscardKept \/ RemoveQueued
    BY Zenon, <1>0, <1>1
    DEF IInv, PlacedNow, Captured, Delivering, Control, Running, Loaded, Planning, Places,
        Requeued, Adds, RetryStagedNow, DiscardKept, RemoveQueued, Add, AddFresh, Up, Save,
        UserQueued, WebUnchanged, staging, NoJob, NoSidecar, Unqueued, NewJob, HoldsSource,
        library, SaveOk
  <1>2. CASE ClearFinished \/ StopAllClear \/ StopAllCancel
    BY SMT, <1>0, <1>2
    DEF IInv, PlacedNow, Captured, Planned, Delivering, Control, Delivery, Running, Loaded,
        Planning, Pair, Places, Requeued, ClearFinished, StopAllClear, StopAllCancel, Up, Save,
        NoJob, WebUnchanged, Unqueued, queue, staging, library
  <1>3. CASE Intrude \/ RemoveTarget \/ Yields
    BY SMT, <1>0, <1>3
    DEF IInv, PlacedNow, Captured, Planned, Delivering, Intrude, RemoveTarget, Yields,
        OutsideUnchanged, Yield, staging, queue, stops, Looks, library
  <1>4. CASE ReplaceIso
    BY <1>0, <1>4, Typed, NewIsoApart
    DEF IInv, Truth, PlacedNow, RecordGood, Captured, ReplaceIso, OutsideUnchanged, Delivering,
        Planning, queue, stops, Planned
  <1>5. CASE Claim \/ FreezePlan \/ StartRun \/ Validate \/ CaptureOwned
             \/ Admit \/ BeginOutput \/ LinkDone \/ Look \/ LinkLanded
    BY SMT, <1>0, <1>5
    DEF IInv, PlacedNow, Captured, Planned, Delivering, Claim, FreezePlan, StartRun, Validate,
        CaptureOwned, Admit, BeginOutput, LinkDone, Look, LinkLanded, NoRun, library, staging,
        stops, SaveOk, Goto, SaveError, FailRun, StepUnchanged, FilesUnchanged, End,
        LandedBefore, queue, Refused, Save, LandedByThisJob, FinishOutput, Unowned
  <1>6. CASE Permit
    BY <1>0, <1>6, PermitMakes
    DEF IInv, Truth, PlacedNow, RecordGood, Captured, Delivering
  <1>7. CASE Stage \/ Mux \/ Copy \/ BeforeLanding \/ Recheck
             \/ Land \/ Clear \/ Landed \/ Link \/ Undo
             \/ Keep \/ KeepSidecar
    BY Zenon, <1>0, <1>7
    DEF IInv, PlacedNow, Captured, Planned, Delivering, Stage, Mux, Copy, BeforeLanding, Recheck,
        Land, Clear, Landed, Link, Undo, Keep, KeepSidecar, Goto, StepUnchanged, library, queue,
        Mixed, Fault, Local, staging, SaveOk, SaveError, FilesUnchanged, NoRun, NoSidecar, Save,
        SetStaged, FinishOutput, FailRun, stops, End, Records, Sidecars, Links, Runs
  <1>8. CASE Resume
    BY <1>0, <1>8, ResumeMakes
    DEF IInv, Truth, PlacedNow, RecordGood, Captured, Carried, Delivering, Pair, Planned
  <1>9. CASE ArmSourceChanged \/ ArmRefused \/ ArmOther \/ ArmBare \/ Settle
             \/ Finish \/ Crash \/ Startup
    BY Zenon, <1>0, <1>9
    DEF IInv, PlacedNow, Captured, Delivering, ArmSourceChanged, ArmRefused, ArmOther, ArmBare,
        Settle, Finish, Crash, Startup, Save, SaveOk, Unkept, StepUnchanged, library,
        FilesUnchanged, End, queue, NoRun, FinishDone, FinishCancelled, Requeued, FinishFailed,
        staging, Up, Loaded, NoSidecar, stops, Failed, NoJob
  <1> QED
    BY <1>1, <1>2, <1>3, <1>4, <1>5, <1>6, <1>7, <1>8, <1>9
    DEF Next, Web, Outside, Worker, Adds, Yields

\* Every step keeps it that a landing that is being recorded did take place.
LEMMA HasPlacedStep ==
    ASSUME IInv, Next
    PROVE  HasPlaced'
  <1>0. /\ job \in Records /\ disk \in Records /\ run \in Runs
        /\ sidecar \in Sidecars /\ link \in Links
    BY Typed DEF IInv
  <1>1. CASE Adds \/ RetryStagedNow \/ DiscardKept \/ RemoveQueued
    BY Zenon, <1>0, <1>1
    DEF IInv, PlacedNow, HasPlaced, Control, Running, Loaded, Planning, Delivering, Places,
        Requeued, Adds, RetryStagedNow, DiscardKept, RemoveQueued, Add, AddFresh, Up, Save,
        UserQueued, WebUnchanged, staging, NoJob, NoSidecar, Unqueued, NewJob, HoldsSource,
        library, SaveOk
  <1>2. CASE ClearFinished \/ StopAllClear \/ StopAllCancel
    BY SMT, <1>0, <1>2
    DEF IInv, PlacedNow, HasPlaced, Planned, ClearFinished, StopAllClear, StopAllCancel, Up,
        Save, NoJob, Pair, WebUnchanged, Unqueued, queue, staging, library, Records, Sidecars,
        Links, Runs
  <1>3. CASE Intrude
    BY SMT, <1>0, <1>3
    DEF IInv, PlacedNow, HasPlaced, Planned, Intrude, OutsideUnchanged, staging, queue, stops,
        Shape, Counters, FilesTyped, PlacedTyped, Known, Versions, Isos, Mixed, Files
  <1>4. CASE RemoveTarget
    BY SMT, <1>0, <1>4
    DEF IInv, PlacedNow, HasPlaced, Planned, NoIso, RemoveTarget, NoFile, OutsideUnchanged,
        staging, queue, stops, Shape, Counters, FilesTyped, PlacedTyped, Known, Versions, Isos,
        NotCaptured, Mixed, Files
  <1>5. CASE ReplaceIso \/ Yields
    BY SMT, <1>0, <1>5
    DEF IInv, PlacedNow, HasPlaced, Planned, ReplaceIso, Yields, OutsideUnchanged, Yield,
        staging, queue, stops, Looks, library
  <1>6. CASE Claim \/ FreezePlan \/ StartRun \/ Validate \/ CaptureOwned
             \/ Admit \/ BeginOutput \/ LinkDone \/ Look \/ LinkLanded
             \/ Permit
    BY SMT, <1>0, <1>6
    DEF IInv, PlacedNow, HasPlaced, Claim, FreezePlan, StartRun, Validate, CaptureOwned, Admit,
        BeginOutput, LinkDone, Look, LinkLanded, Permit, NoRun, library, staging, stops, SaveOk,
        Goto, FailRun, StepUnchanged, FilesUnchanged, End, queue, Save
  <1>7. CASE Stage \/ Mux \/ Resume \/ Copy \/ BeforeLanding \/ Recheck \/ Land
    BY SMT, <1>0, <1>7
    DEF IInv, PlacedNow, HasPlaced, Planned, Control, Delivery, Running, Loaded, Planning,
        Delivering, Pair, Places, Requeued, Stage, Mux, Resume, Copy, BeforeLanding, Recheck,
        Land, Goto, StepUnchanged, library, queue, Mixed, staging, NoSidecar, Fault, Local,
        SaveOk, SaveError, FilesUnchanged, stops
  <1>8. CASE Clear
    BY SMT, <1>0, <1>8
    DEF IInv, PlacedNow, HasPlaced, Clear, Goto, NoRun, NoSidecar, staging, StepUnchanged,
        library, queue, stops
  <1>9. CASE Landed
    BY SMT, <1>0, <1>9
    DEF IInv, PlacedNow, HasPlaced, Control, Running, Loaded, Planning, Delivering, Places,
        Requeued, Landed, Goto, Save, StepUnchanged, FilesUnchanged, stops, library, staging
  <1>10. CASE Link
    BY SMT, <1>0, <1>10
    DEF IInv, PlacedNow, HasPlaced, Link, Goto, Save, FailRun, queue, StepUnchanged,
        FilesUnchanged, End, stops, library, staging, NoRun
  <1>11. CASE Undo \/ Keep \/ KeepSidecar
    BY Zenon, <1>0, <1>11
    DEF IInv, PlacedNow, HasPlaced, Undo, Keep, KeepSidecar, Goto, StepUnchanged, queue, library,
        stops
  <1>12. CASE ArmSourceChanged \/ ArmRefused \/ ArmOther \/ ArmBare \/ Settle
             \/ Finish \/ Crash \/ Startup
    BY Zenon, <1>0, <1>12
    DEF IInv, PlacedNow, HasPlaced, ArmSourceChanged, ArmRefused, ArmOther, ArmBare, Settle,
        Finish, Crash, Startup, Save, SaveOk, Unkept, StepUnchanged, library, FilesUnchanged,
        End, queue, NoRun, FinishDone, FinishCancelled, Requeued, FinishFailed, staging, Up,
        Loaded, NoSidecar, stops, Failed, NoJob
  <1> QED
    BY <1>1, <1>2, <1>3, <1>4, <1>5, <1>6, <1>7, <1>8, <1>9, <1>10, <1>11, <1>12
    DEF Next, Web, Outside, Worker, Adds, Yields

\* Every step keeps it that a landing that is found again did take place.
LEMMA LandedHasPlacedStep ==
    ASSUME IInv, Next
    PROVE  LandedHasPlaced'
  <1>0. /\ job \in Records /\ disk \in Records /\ run \in Runs
        /\ sidecar \in Sidecars /\ link \in Links
    BY Typed DEF IInv
  <1>1. CASE Adds \/ RetryStagedNow \/ DiscardKept \/ RemoveQueued
    BY Zenon, <1>0, <1>1
    DEF IInv, PlacedNow, LandedHasPlaced, Control, Running, Loaded, Planning, Delivering, Places,
        Requeued, Adds, RetryStagedNow, DiscardKept, RemoveQueued, Add, AddFresh, Up, Save,
        UserQueued, WebUnchanged, staging, NoJob, NoSidecar, Unqueued, NewJob, HoldsSource,
        library, SaveOk
  <1>2. CASE ClearFinished \/ StopAllClear \/ StopAllCancel
    BY SMT, <1>0, <1>2
    DEF IInv, PlacedNow, LandedHasPlaced, Control, Running, Loaded, Planning, Delivering, Places,
        Requeued, ClearFinished, StopAllClear, StopAllCancel, Up, Save, NoJob, WebUnchanged,
        Unqueued, queue, staging, library
  <1>3. CASE Intrude
    BY SMT, <1>0, <1>3
    DEF IInv, PlacedNow, LandedHasPlaced, Intrude, OutsideUnchanged, staging, queue, stops,
        Shape, Counters, FilesTyped, PlacedTyped, Known, Versions, Isos, Mixed, Files
  <1>4. CASE RemoveTarget
    BY SMT, <1>0, <1>4
    DEF IInv, PlacedNow, LandedHasPlaced, RemoveTarget, NoFile, OutsideUnchanged, staging, queue,
        stops, Shape, Counters, FilesTyped, PlacedTyped, Known, Versions, Isos, NotCaptured,
        NoIso, Mixed, Files
  <1>5. CASE ReplaceIso \/ Yields
    BY SMT, <1>0, <1>5
    DEF IInv, PlacedNow, LandedHasPlaced, ReplaceIso, Yields, OutsideUnchanged, Yield, staging,
        queue, stops, Looks, library
  <1>6. CASE Claim \/ FreezePlan \/ StartRun \/ Validate \/ CaptureOwned \/ Admit
    BY SMT, <1>0, <1>6
    DEF IInv, PlacedNow, LandedHasPlaced, Claim, FreezePlan, StartRun, Validate, CaptureOwned,
        Admit, NoRun, library, staging, stops, SaveOk, Goto, FailRun, StepUnchanged,
        FilesUnchanged, End, queue
  <1>7. CASE BeginOutput \/ LinkDone
    BY SMT, <1>0, <1>7
    DEF IInv, PlacedNow, LandedHasPlaced, BeginOutput, LinkDone, End, queue, Goto, Save,
        StepUnchanged, FilesUnchanged, FailRun, NoRun, stops, library, staging
  <1>8. CASE Look
    BY SMT, <1>0, <1>8
    DEF IInv, RecordGood, Truth, PlacedNow, LandedHasPlaced, RecordSound, RecordTrue,
        RecordPlaced, RecordOurs, RunMuxed, Control, Synced, Judged, Delivery, AllMuxed,
        MadeTrue, CopyTrue, LinkTrue, KeptSafe, BeforeSafe, BaselineApart, TargetNew, Captured,
        HasPlaced, OursNow, Offers, NoJob, Muxed, Proven, Pair, Vouches, Ours, Running, Loaded,
        Planned, Planning, Delivering, Local, LinkTellsTheTruth, Places, Requeued, Look,
        LandedBefore, Goto, queue, LandedByThisJob, Save, FinishOutput, StepUnchanged,
        FilesUnchanged, stops, library, staging, Shape, Counters, FilesTyped, PlacedTyped, Known,
        Versions, Isos, Mixed, Files
  <1>9. CASE LinkLanded \/ Permit
    BY SMT, <1>0, <1>9
    DEF IInv, PlacedNow, LandedHasPlaced, LinkLanded, Permit, Goto, Save, FailRun, queue,
        StepUnchanged, FilesUnchanged, End, stops, library, staging, NoRun
  <1>10. CASE Stage \/ Mux \/ Resume \/ Copy \/ BeforeLanding
             \/ Recheck \/ Land \/ Clear \/ Landed \/ Link
             \/ Undo \/ Keep \/ KeepSidecar
    BY SMT, <1>0, <1>10
    DEF IInv, PlacedNow, LandedHasPlaced, Stage, Mux, Resume, Copy, BeforeLanding, Recheck, Land,
        Clear, Landed, Link, Undo, Keep, KeepSidecar, Goto, StepUnchanged, library, queue, Mixed,
        staging, NoSidecar, Fault, SaveOk, FilesUnchanged, NoRun, Save, FailRun, stops, End
  <1>11. CASE ArmSourceChanged \/ ArmRefused \/ ArmOther \/ ArmBare \/ Settle
             \/ Finish \/ Crash \/ Startup
    BY SMT, <1>0, <1>11
    DEF IInv, PlacedNow, LandedHasPlaced, ArmSourceChanged, ArmRefused, ArmOther, ArmBare,
        Settle, Finish, Crash, Startup, Save, SaveOk, Unkept, StepUnchanged, library,
        FilesUnchanged, End, queue, NoRun, FinishDone, FinishCancelled, Requeued, FinishFailed,
        staging, Up, Loaded, NoSidecar, stops, Failed, NoJob
  <1> QED
    BY <1>1, <1>2, <1>3, <1>4, <1>5, <1>6, <1>7, <1>8, <1>9, <1>10, <1>11
    DEF Next, Web, Outside, Worker, Adds, Yields

\* Every step keeps it that a run that started on the planned ISO knows it.
LEMMA StillCurrentStep ==
    ASSUME IInv, Next
    PROVE  StillCurrent'
  <1>0. /\ job \in Records /\ disk \in Records /\ run \in Runs
        /\ sidecar \in Sidecars /\ link \in Links
    BY Typed DEF IInv
  <1>1. CASE Adds \/ RetryStagedNow \/ DiscardKept \/ RemoveQueued \/ ClearFinished
             \/ StopAllClear \/ StopAllCancel
    BY Zenon, <1>0, <1>1
    DEF IInv, PlacedNow, StillCurrent, Planning, Control, Running, Loaded, Delivering, Places,
        Requeued, Adds, RetryStagedNow, DiscardKept, RemoveQueued, ClearFinished, StopAllClear,
        StopAllCancel, Add, AddFresh, Up, Save, UserQueued, WebUnchanged, staging, NoJob,
        NoSidecar, Unqueued, queue, NewJob, HoldsSource, library, SaveOk
  <1>2. CASE Intrude \/ RemoveTarget
    BY SMT, <1>0, <1>2
    DEF IInv, PlacedNow, StillCurrent, Planning, Intrude, RemoveTarget, OutsideUnchanged,
        staging, queue, stops
  <1>3. CASE ReplaceIso
    BY <1>0, <1>3, Typed, NewIsoApart
    DEF IInv, Truth, PlacedNow, RecordGood, StillCurrent, ReplaceIso, OutsideUnchanged, queue,
        staging, Planning, Links
  <1>4. CASE Yields
    BY SMT, <1>0, <1>4
    DEF IInv, PlacedNow, StillCurrent, Planning, Yields, Yield, Looks, library, staging, queue
  <1>5. CASE Claim \/ FreezePlan
    BY SMT, <1>0, <1>5
    DEF IInv, PlacedNow, StillCurrent, Planning, Claim, FreezePlan, NoRun, library, staging,
        stops, SaveOk, Goto, FailRun, StepUnchanged, FilesUnchanged, End
  <1>6. CASE StartRun
    BY <1>0, <1>6, StartRunCurrent
  <1>7. CASE Validate \/ CaptureOwned \/ Admit
    BY SMT, <1>0, <1>7
    DEF IInv, PlacedNow, StillCurrent, Planning, Validate, CaptureOwned, Admit, Goto,
        StepUnchanged, FilesUnchanged, queue, SaveOk, FailRun, stops, library, staging, End,
        NoRun, Records, Sidecars, Links, Runs
  <1>8. CASE BeginOutput \/ LinkDone \/ Look \/ LinkLanded \/ Permit
    BY SMT, <1>0, <1>8
    DEF IInv, PlacedNow, StillCurrent, Planning, BeginOutput, LinkDone, Look, LinkLanded, Permit,
        End, queue, Goto, Save, StepUnchanged, FilesUnchanged, FailRun, NoRun, stops, library,
        staging, Records, Sidecars, Links, Runs
  <1>9. CASE Stage \/ Mux \/ Resume \/ Copy \/ BeforeLanding
             \/ Recheck \/ Land \/ Clear \/ Landed \/ Link
             \/ Undo \/ Keep \/ KeepSidecar
    BY Zenon, <1>0, <1>9
    DEF IInv, PlacedNow, StillCurrent, Planning, Stage, Mux, Resume, Copy, BeforeLanding,
        Recheck, Land, Clear, Landed, Link, Undo, Keep, KeepSidecar, Goto, StepUnchanged,
        library, queue, Mixed, staging, NoSidecar, Fault, SaveOk, FilesUnchanged, NoRun, Save,
        FailRun, stops, End
  <1>10. CASE ArmSourceChanged \/ ArmRefused \/ ArmOther \/ ArmBare \/ Settle
             \/ Finish \/ Crash \/ Startup
    BY Zenon, <1>0, <1>10
    DEF IInv, PlacedNow, StillCurrent, Planning, ArmSourceChanged, ArmRefused, ArmOther, ArmBare,
        Settle, Finish, Crash, Startup, Save, SaveOk, Unkept, StepUnchanged, library,
        FilesUnchanged, End, queue, NoRun, FinishDone, FinishCancelled, Requeued, FinishFailed,
        staging, Up, Loaded, NoSidecar, stops, Failed, NoJob
  <1> QED
    BY <1>1, <1>2, <1>3, <1>4, <1>5, <1>6, <1>7, <1>8, <1>9, <1>10
    DEF Next, Web, Outside, Worker, Adds, Yields

\* Every step keeps it that a fresh remux replaces its baseline only.
LEMMA OursNowStep ==
    ASSUME IInv, Next
    PROVE  OursNow'
  <1>0. /\ job \in Records /\ disk \in Records /\ run \in Runs
        /\ sidecar \in Sidecars /\ link \in Links
    BY Typed DEF IInv
  <1>1. CASE Adds \/ RetryStagedNow \/ DiscardKept \/ RemoveQueued \/ ClearFinished
             \/ StopAllClear \/ StopAllCancel
    BY Zenon, <1>0, <1>1
    DEF IInv, OursNow, Delivering, Control, Running, Loaded, Planning, Places, Requeued, Adds,
        RetryStagedNow, DiscardKept, RemoveQueued, ClearFinished, StopAllClear, StopAllCancel,
        Add, AddFresh, Up, Save, UserQueued, WebUnchanged, staging, NoJob, NoSidecar, Unqueued,
        queue, NewJob, HoldsSource, library, SaveOk
  <1>2. CASE Intrude
    BY <1>0, <1>2, Typed, NewFileApart
    DEF IInv, Truth, PlacedNow, RecordGood, OursNow, Intrude, OutsideUnchanged, Delivering,
        queue, stops
  <1>3. CASE RemoveTarget \/ ReplaceIso \/ Yields
    BY SMT, <1>0, <1>3
    DEF IInv, OursNow, Delivering, RemoveTarget, ReplaceIso, Yields, OutsideUnchanged, Yield,
        staging, queue, stops, Looks, library
  <1>4. CASE Claim \/ FreezePlan \/ StartRun \/ Validate \/ CaptureOwned
             \/ Admit \/ BeginOutput \/ LinkDone \/ Look \/ LinkLanded
    BY SMT, <1>0, <1>4
    DEF IInv, OursNow, Delivering, Claim, FreezePlan, StartRun, Validate, CaptureOwned, Admit,
        BeginOutput, LinkDone, Look, LinkLanded, NoRun, library, staging, stops, SaveOk, Goto,
        FailRun, StepUnchanged, FilesUnchanged, End, queue, Save
  <1>5. CASE Permit
    BY <1>0, <1>5, PermitMakes
    DEF IInv, Truth, PlacedNow, RecordGood, OursNow, Delivering
  <1>6. CASE Stage \/ Mux \/ Copy
    BY Zenon, <1>0, <1>6
    DEF IInv, RecordGood, Truth, PlacedNow, OursNow, Delivering, NoFile, Stage, Mux, Copy, Goto,
        StepUnchanged, library, queue, NoIso, Mixed, Fault, staging, stops, Records, Sidecars,
        Links, Runs, NotCaptured
  <1>7. CASE Resume
    BY <1>0, <1>7, ResumeMakes
    DEF IInv, Truth, PlacedNow, RecordGood, OursNow, Carried, Delivering
  <1>8. CASE BeforeLanding \/ Land \/ Clear
    BY SMT, <1>0, <1>8
    DEF IInv, OursNow, Delivering, Control, Delivery, Running, Loaded, Planned, Planning, Pair,
        Places, Requeued, BeforeLanding, Land, Clear, Goto, queue, SaveOk, SaveError,
        StepUnchanged, FilesUnchanged, Fault, staging, NoRun, NoSidecar, library, stops, Records,
        Sidecars, Links, Runs
  <1>9. CASE Recheck
    BY <1>0, <1>9, RecheckMakes
    DEF IInv, Truth, PlacedNow, RecordGood, OursNow, Delivering, Carried, TargetExists
  <1>10. CASE Landed \/ Link \/ Undo \/ Keep \/ KeepSidecar
    BY Zenon, <1>0, <1>10
    DEF IInv, OursNow, Delivering, Landed, Link, Undo, Keep, KeepSidecar, Goto, Save,
        StepUnchanged, FilesUnchanged, FailRun, queue, library, stops, staging, End, NoRun
  <1>11. CASE ArmSourceChanged \/ ArmRefused \/ ArmOther \/ ArmBare \/ Settle
             \/ Finish \/ Crash \/ Startup
    BY Zenon, <1>0, <1>11
    DEF IInv, OursNow, Delivering, ArmSourceChanged, ArmRefused, ArmOther, ArmBare, Settle,
        Finish, Crash, Startup, Save, SaveOk, Unkept, StepUnchanged, library, FilesUnchanged,
        End, queue, NoRun, FinishDone, FinishCancelled, Requeued, FinishFailed, staging, Up,
        Loaded, NoSidecar, stops, Failed, NoJob
  <1> QED
    BY <1>1, <1>2, <1>3, <1>4, <1>5, <1>6, <1>7, <1>8, <1>9, <1>10, <1>11
    DEF Next, Web, Outside, Worker, Adds, Yields

\* Every step keeps it that a kept file is offered by its job.
LEMMA OffersStep ==
    ASSUME IInv, Next
    PROVE  Offers'
  <1>0. /\ job \in Records /\ disk \in Records /\ run \in Runs
        /\ sidecar \in Sidecars /\ link \in Links
    BY Typed DEF IInv
  <1>1. CASE Adds
    BY <1>0, <1>1
    DEF IInv, Truth, PlacedNow, RecordGood, Offers, Adds, Add, AddFresh, NewJob, SaveOk,
        Appended, AppendedFresh, NoJob, Up, Pair
  <1>2. CASE RetryStagedNow
    BY SMT, <1>0, <1>2
    DEF IInv, Offers, RetryStagedNow, Up, Save, UserQueued, WebUnchanged, staging, library
  <1>3. CASE DiscardKept
    BY Zenon, <1>0, <1>3
    DEF IInv, Offers, Pair, DiscardKept, Up, Save, NoJob, SetStaged, NoSidecar, WebUnchanged,
        library, Records, Sidecars, Links, Runs
  <1>4. CASE RemoveQueued
    BY SMT, <1>0, <1>4
    DEF IInv, Offers, Pair, RemoveQueued, Up, Save, Unqueued, WebUnchanged, staging, NoJob,
        library
  <1>5. CASE ClearFinished \/ StopAllClear \/ StopAllCancel
    BY SMT, <1>0, <1>5
    DEF IInv, Offers, Pair, ClearFinished, StopAllClear, StopAllCancel, Up, Save, NoJob,
        WebUnchanged, Unqueued, queue, staging, library, Records, Sidecars, Links, Runs
  <1>6. CASE Intrude \/ RemoveTarget \/ ReplaceIso \/ Yields
    BY SMT, <1>0, <1>6
    DEF IInv, Offers, Pair, Intrude, RemoveTarget, ReplaceIso, Yields, OutsideUnchanged, Yield,
        staging, queue, stops, Looks, library
  <1>7. CASE Claim \/ FreezePlan \/ StartRun \/ Validate \/ CaptureOwned \/ Admit
    BY SMT, <1>0, <1>7
    DEF IInv, Offers, Pair, Claim, FreezePlan, StartRun, Validate, CaptureOwned, Admit, Planned,
        NoRun, library, staging, stops, SaveOk, Goto, SaveError, FailRun, StepUnchanged,
        FilesUnchanged, End, LandedBefore, queue, Refused, LandedByThisJob, Unowned, Records,
        Sidecars, Links, Runs
  <1>8. CASE BeginOutput \/ LinkDone \/ Look \/ LinkLanded \/ Permit
    BY Zenon, <1>0, <1>8
    DEF IInv, Offers, Pair, BeginOutput, LinkDone, Look, LinkLanded, Permit, End, queue, Goto,
        Save, StepUnchanged, FilesUnchanged, LandedByThisJob, FailRun, LandedBefore,
        FinishOutput, Unowned, NoRun, stops, library, staging, Records, Sidecars, Links, Runs
  <1>9. CASE Stage \/ Mux \/ Resume \/ Copy \/ BeforeLanding \/ Recheck \/ Land
    BY SMT, <1>0, <1>9
    DEF IInv, Offers, Pair, Stage, Mux, Resume, Copy, BeforeLanding, Recheck, Land, Goto,
        StepUnchanged, library, queue, Mixed, staging, NoSidecar, Fault, Local, Planned, SaveOk,
        SaveError, FilesUnchanged, stops, Records, Sidecars, Links, Runs
  <1>10. CASE Clear
    BY SMT, <1>0, <1>10
    DEF IInv, Offers, Pair, Clear, Goto, Planned, NoRun, NoSidecar, staging, StepUnchanged,
        library, queue, stops
  <1>11. CASE Landed
    BY SMT, <1>0, <1>11
    DEF IInv, RecordGood, Truth, PlacedNow, Offers, Pair, RecordSound, RecordTrue, RecordPlaced,
        RecordOurs, RunMuxed, Control, Synced, Judged, Delivery, AllMuxed, MadeTrue, CopyTrue,
        LinkTrue, KeptSafe, BeforeSafe, BaselineApart, TargetNew, Captured, HasPlaced,
        LandedHasPlaced, OursNow, NoJob, Muxed, Proven, Vouches, Ours, Running, Loaded, Planned,
        Planning, Delivering, Local, LinkTellsTheTruth, Places, Requeued, Landed, Goto, Save,
        SetStaged, StepUnchanged, FilesUnchanged, stops, library, staging, Shape, Counters,
        FilesTyped, PlacedTyped, Known, Versions, Isos, Records, Sidecars, Links, Runs, Mixed,
        Files
  <1>12. CASE Link
    BY Zenon, <1>0, <1>12
    DEF IInv, Offers, Pair, Link, Goto, Save, FinishOutput, FailRun, queue, StepUnchanged,
        FilesUnchanged, End, stops, library, staging, NoRun, Records, Sidecars, Links, Runs
  <1>13. CASE Undo \/ Keep \/ KeepSidecar
    BY Zenon, <1>0, <1>13
    DEF IInv, Offers, Pair, Undo, Keep, KeepSidecar, Goto, StepUnchanged, queue, library, stops,
        Records, Sidecars, Links, Runs
  <1>14. CASE ArmSourceChanged
    BY <1>0, <1>14, ArmSourceChangedMakes
    DEF IInv, Offers, Pair
  <1>15. CASE ArmRefused
    BY SMT, <1>0, <1>15
    DEF IInv, Offers, Pair, Control, Delivery, Running, Loaded, Planned, Planning, Delivering,
        Places, Requeued, ArmRefused, Save, OutputFailed, Unkept, StepUnchanged, FilesUnchanged,
        FinishOutput, NoRun, stops, library, staging
  <1>16. CASE ArmOther
    BY SMT, <1>0, <1>16
    DEF IInv, Offers, Pair, Control, Delivery, Running, Loaded, Planned, Planning, Delivering,
        Places, Requeued, ArmOther, KeepStaged, Unkept, End, StepUnchanged, FilesUnchanged,
        SetStaged, Save, OutputFailed, NoRun, stops, library, staging, FinishOutput
  <1>17. CASE ArmBare
    BY SMT, <1>0, <1>17
    DEF IInv, Offers, Control, Running, Loaded, Planning, Delivering, Places, Requeued, ArmBare,
        End, StepUnchanged, FilesUnchanged, queue, NoRun, stops, library, staging
  <1>18. CASE Settle \/ Crash \/ Startup
    BY Zenon, <1>0, <1>18
    DEF IInv, RecordGood, Truth, PlacedNow, Offers, Pair, Settle, Crash, Startup, End,
        StepUnchanged, FilesUnchanged, queue, Up, NoRun, Loaded, staging, NoSidecar, Save,
        Adopted, stops, library, Requeued, SetStaged, Failed, NoJob, Records, Sidecars, Links,
        Runs
  <1>19. CASE Finish
    BY <1>0, <1>19, FinishMakes
    DEF IInv, Offers, Pair, Finish, staging, library, Control, Running, Places
  <1> QED
    BY <1>1, <1>2, <1>3, <1>4, <1>5, <1>6, <1>7, <1>8, <1>9, <1>10, <1>11, <1>12, <1>13, <1>14,
        <1>15, <1>16, <1>17, <1>18, <1>19
    DEF Next, Web, Outside, Worker, Adds, Yields

-----------------------------------------------------------------------------
(* The invariant, and what it says *)

LEMMA Preserved == IInv /\ [Next]_vars => IInv'
  <1> SUFFICES ASSUME IInv, [Next]_vars PROVE IInv'
    OBVIOUS
  <1>1. CASE Next
    <2>1. Shape' /\ RecordGood(job)' /\ RecordGood(disk)'
      BY <1>1, ShapeStep, RecordsStayGood DEF IInv
    <2>2. Control' /\ Synced' /\ Judged' /\ Delivery'
      BY <1>1, ControlStep, SyncedStep, JudgedStep, DeliveryStep
    <2>3. Truth'
      BY <1>1, AllMuxedStep, RunMuxedStep, MadeTrueStep, CopyTrueStep, LinkTrueStep DEF Truth
    <2>4. PlacedNow'
      BY <1>1, KeptSafeStep, BeforeSafeStep, BaselineApartStep, TargetNewStep, CapturedStep,
         HasPlacedStep, LandedHasPlacedStep, StillCurrentStep
      DEF PlacedNow
    <2>5. OursNow' /\ Offers'
      BY <1>1, OursNowStep, OffersStep
    <2> QED
      BY <2>1, <2>2, <2>3, <2>4, <2>5 DEF IInv
  <1>2. CASE UNCHANGED vars
    BY <1>2
    DEF vars, library, staging, queue, stops, IInv, Shape, Counters, FilesTyped, PlacedTyped,
        StopsTyped, Known, Versions, Records, Sidecars, Links, Runs, RecordGood, RecordSound,
        RecordTrue, RecordPlaced, RecordOurs, Muxed, Proven, Pair, Planned, Vouches, Ours, Control,
        Synced, Judged, Delivery, Truth, AllMuxed, RunMuxed, MadeTrue, CopyTrue, Local, LinkTrue,
        LinkTellsTheTruth, PlacedNow, KeptSafe, BeforeSafe, BaselineApart, TargetNew, Captured,
        HasPlaced, LandedHasPlaced, StillCurrent, OursNow, Offers
  <1> QED
    BY <1>1, <1>2

LEMMA Invariant == Spec => []IInv
  BY Initially, Preserved, PTL DEF Spec

\* The state of the library, of the staging folder, of the queue and of the run keeps its type.
THEOREM TypeCorrect == Spec => []TypeOK
  <1>1. IInv => TypeOK
    BY ShapeIsTypeOK DEF IInv
  <1> QED
    BY <1>1, Invariant, PTL

\* A link that names a file and a version of the ISO is true, whatever was replaced, kept,
\* retried or lost in between (record_output_links and output_source).
THEOREM LinksTellTheTruth == Spec => []LinkTellsTheTruth
  <1>1. IInv => LinkTellsTheTruth
    BY DEF IInv, Truth, LinkTrue
  <1> QED
    BY <1>1, Invariant, PTL

\* An output is Done only if its job did put a file in place: a landing that is taken up again
\* after a crash, or found linked, is the job's own.
THEOREM DoneMeansLanded == Spec => []DoneHasLanded
  <1>1. IInv => DoneHasLanded
    BY DEF IInv, RecordGood, RecordPlaced, DoneHasLanded
  <1> QED
    BY <1>1, Invariant, PTL

\* A file the job has put in place is not refused as somebody else's (refuse_unowned), unless
\* the ISO has changed or the file landed without proof of its source.
THEOREM OwnLandingIsKnown == Spec => []OwnLandingKnown
  <1>1. IInv => OwnLandingKnown
    <2> SUFFICES ASSUME IInv, pc = "admit", Refused, target \in placed,
                        ~job.unproven, iso = job.source
                 PROVE  FALSE
      BY DEF OwnLandingKnown
    <2>1. target # NoFile
      BY OwnedKnown DEF IInv
    <2>2. target = job.landing \/ Vouches(job)
      BY DEF IInv, RecordGood, RecordPlaced
    <2>3. target # job.landing
      BY <2>1 DEF Refused, LandedBefore
    <2>4. run.current
      BY DEF IInv, Judged, Planning
    <2> QED
      BY <2>1, <2>2, <2>3, <2>4 DEF Refused, LandedByThisJob, Vouches
  <1> QED
    BY <1>1, Invariant, PTL

\* Between two runs a kept file is offered by its job until the job has put a file in place:
\* no ending of a run, no lost write and no restart leaves one behind unlisted.
THEOREM KeptIsOffered == Spec => []KeptOffered
  <1>1. IInv => KeptOffered
    BY DEF IInv, Offers, KeptOffered
  <1> QED
    BY <1>1, Invariant, PTL

\* Between two runs an output names the kept file only if its job does (Job::set_staged).
THEOREM NoDeadPathIsLeft == Spec => []NoDeadPath
  <1>1. IInv => NoDeadPath
    BY DEF IInv, Offers, NoDeadPath
  <1> QED
    BY <1>1, Invariant, PTL

\* A job never replaces the file it has itself put in place, after a restart, a retry or with
\* the kept file of an earlier run.
THEOREM LandsOnce == Spec => NoSecondLanding
  <1>1. IInv /\ [Next]_vars => [Overwrites => arrived \/ target \notin placed]_vars
    BY DEF IInv, PlacedNow, TargetNew, Overwrites
  <1> QED
    BY <1>1, Invariant, PTL DEF Spec, NoSecondLanding

\* The rename of a fresh remux replaces only a file this program made, one captured when the
\* user asked for a replacement, or one that appeared after the last look (may_replace,
\* refuse_changed).
THEOREM FreshReplacesOwn == Spec => FreshOverwritesOwn
  <1>1. IInv /\ [Next]_vars => [Overwrites /\ ~run.resume => Rightful]_vars
    <2> SUFFICES ASSUME IInv, Overwrites, ~run.resume, ~arrived PROVE Rightful
      BY DEF Rightful
    <2>1. pc = "land" /\ target # NoFile
      BY DEF Overwrites
    <2>2. target = job.owned
      BY <2>1 DEF IInv, OursNow, Delivering
    <2> QED
      BY <2>1, <2>2 DEF IInv, RecordGood, RecordOurs, Ours, Rightful
  <1> QED
    BY <1>1, Invariant, PTL DEF Spec, FreshOverwritesOwn

=============================================================================
