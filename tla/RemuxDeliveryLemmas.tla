------------------------ MODULE RemuxDeliveryLemmas ------------------------
(***************************************************************************)
(* The inductive invariant of RemuxDelivery, what the parts of a step       *)
(* return, and that a step leaves both copies of the job's record good.     *)
(***************************************************************************)
EXTENDS RemuxDelivery, TLAPS

-----------------------------------------------------------------------------
(* Shape: types, and files and versions that have existed *)

\* Nothing names a file or a version that has not existed.
Known == 0 .. used
Versions == 0 .. iso

Records == [state : JobStates, source : Versions, replace : BOOLEAN, out : OutputStates,
            staged : BOOLEAN, kept : BOOLEAN, landing : Known, unproven : BOOLEAN,
            owned : Known \cup {NotCaptured}]
Sidecars == [at : BOOLEAN, before : Known, replace : BOOLEAN, size : Known]
Links == [at : BOOLEAN, stamp : Known, source : Versions]

Flags == {"none", "changed", "refused", "unsaved"}
Faults == {"none", "exists", "storage", "invalid", "halted"}
Endings == {"none", "failed", "done", "cancelled", "preempted", "stalled"}
Runs == [fresh : BOOLEAN, current : BOOLEAN, error : BOOLEAN, owned : Known,
         replace : BOOLEAN, replaces : Known, before : Known, resume : BOOLEAN,
         from : Versions, flag : Flags, recorded : Known, fault : Faults,
         kept : BOOLEAN, ending : Endings]

Counters == iso \in Isos /\ used \in 0 .. MaxFile /\ lost \in 0 .. MaxLost
FilesTyped == target \in Known /\ partial \in Known /\ stage \in Known /\ kept \in Known
PlacedTyped == placed \subseteq Known \ {NoFile}
StopsTyped ==
    /\ yielded \in {"none", "preempted", "stalled"}
    /\ {arrived, released, granted, cancelled, asked, stopping} \subseteq BOOLEAN

Shape ==
    /\ Counters /\ FilesTyped /\ PlacedTyped /\ StopsTyped
    /\ muxed \in [Files -> 0 .. Mixed]
    /\ sidecar \in Sidecars /\ link \in Links
    /\ job \in Records /\ disk \in Records /\ run \in Runs
    /\ pc \in Places

-----------------------------------------------------------------------------
(* Control: what a place in the code says of the record and of the run *)

\* A job that is gone is no job, one without a plan has recorded nothing.
RecordSound(j) ==
    /\ j.state = "none" => j = NoJob
    /\ j.source = NoIso => /\ j.landing = NoFile /\ ~j.staged /\ j.owned = NotCaptured
                           /\ ~j.unproven /\ j.out # "done"

\* The places of a run up to its end, and those before its delivery is decided.
Running == Places \ {"down", "idle"}
Planning == {"scan", "own", "admit", "begin", "look", "permit"}
Delivering == {"copy", "announce", "recheck", "land", "undo"}

Control ==
    /\ pc \in Running => job.state = "running"
    /\ pc = "down" => job = Loaded(disk)
    /\ pc = "planning" => ~Planned /\ ~job.kept
    /\ pc = "start" => Planned \/ job.kept
    /\ pc \in Planning \cup {"link_done", "link_landed", "stage", "mux", "keep", "sidecar",
                             "landed", "link", "settle"} => Planned
    /\ pc \in {"look", "permit"} => job.out # "done"
    /\ pc \in {"stage", "mux", "keep", "sidecar"} => ~run.resume
    /\ run.kept => pc \in {"arms", "finish"}
    /\ pc \in Delivering \cup {"resume", "clear", "arms"} /\ ~Planned => run.resume /\ job.kept

\* The claim wrote the record, so what the run does not touch is in the file as well.
Synced ==
    /\ pc \in Running \ {"link", "settle", "finish"} =>
            disk.staged = job.staged
    /\ pc \in Running \ {"settle", "finish"} =>
            disk.source = job.source /\ disk.unproven = job.unproven

\* What the run knows of the source, and of the file it may replace.
Judged ==
    /\ pc \in Planning /\ iso = job.source => run.current
    /\ pc \in Planning => (run.fresh => ~job.staged)
    /\ pc \in Planning \ {"scan"} => (run.error => run.fresh)
    /\ pc \in Planning \ {"scan"} => (run.fresh /\ job.unproven => run.error)
    /\ pc \in {"look", "permit", "link_landed", "link_done"} => ~run.error
    /\ pc \in {"admit", "begin", "look", "permit"} /\ run.current /\ ~run.error =>
            run.owned = job.owned
    /\ pc \in {"admit", "begin", "look", "permit"} /\ ~(run.current /\ ~run.error) =>
            run.owned = NoFile

\* The files of a delivery, and the record of its landing.
Delivery ==
    /\ pc \in Delivering \cup {"clear"} /\ run.resume => Pair /\ sidecar.size = kept
    /\ pc \in Delivering /\ ~run.resume => stage # NoFile
    /\ pc \in {"keep"} => stage # NoFile
    /\ pc \in {"announce", "recheck", "land"} => partial # NoFile
    /\ pc = "resume" => run.resume /\ (Planned => job.staged)
    /\ pc \in Delivering /\ run.resume /\ Planned => job.staged
    /\ pc = "sidecar" => kept # NoFile
    /\ pc = "arms" /\ run.kept => Pair
    /\ pc = "arms" /\ run.kept /\ run.resume /\ Planned => job.staged
    /\ pc = "land" => run.flag = "none"
    /\ pc \in {"keep", "sidecar"} \/ (pc = "arms" /\ run.kept) => run.flag # "refused"
    /\ pc \in {"recheck", "land"} /\ Planned /\ run.flag = "none" =>
            job.landing = partial /\ run.recorded = partial /\ disk = job
    /\ pc \in {"clear", "landed", "link"} /\ Planned =>
            /\ run.recorded # NoFile /\ job.landing = run.recorded
            /\ disk.landing = run.recorded
    /\ pc \in Delivering \cup {"stage", "mux", "keep", "sidecar"} /\ ~run.resume =>
            ~job.staged
    /\ pc = "arms" /\ ~run.resume /\ run.kept => ~job.staged

-----------------------------------------------------------------------------
(* Contents: what the files hold, and what the records say they hold *)

\* Whatever a mux made holds something.
Muxed(f) == f # NoFile => muxed[f] # NoIso
AllMuxed ==
    /\ Muxed(partial) /\ Muxed(stage) /\ Muxed(kept) /\ Muxed(link.stamp)
    /\ \A f \in placed : muxed[f] # NoIso
RunMuxed == Muxed(run.recorded)

\* A record with proof of its source tells the truth about what it landed and what it keeps.
Proven(j) == j.source # NoIso /\ ~j.unproven
RecordTrue(j) ==
    /\ Muxed(j.landing)
    /\ Proven(j) => /\ j.landing # NoFile => muxed[j.landing] = j.source
                    /\ j.staged /\ Pair => muxed[kept] = j.source

\* While the ISO is the planned one, so is what was muxed from it in this run.
MadeTrue ==
    iso = job.source =>
        /\ pc = "mux" => run.from = iso
        /\ pc \in Delivering \cup {"keep"} /\ ~run.resume => muxed[stage] = job.source
        /\ pc = "sidecar" => muxed[kept] = job.source
        /\ pc = "arms" /\ ~run.resume /\ run.kept => muxed[kept] = job.source

\* The copy holds what its source holds.
CopyTrue == pc \in {"announce", "recheck", "land"} => muxed[partial] = muxed[Local]

\* A link that names a file names a version of the ISO as well, and tells the truth.
LinkTrue ==
    /\ LinkTellsTheTruth
    /\ link.stamp # NoFile => link.at /\ link.source # NoIso

Truth == AllMuxed /\ RunMuxed /\ MadeTrue /\ CopyTrue /\ LinkTrue

-----------------------------------------------------------------------------
(* Placement: which files the job has put in place itself *)

Vouches(j) == link.at /\ link.stamp = target /\ link.source = j.source

RecordPlaced(j) ==
    \* a recorded landing found at the target took place
    /\ target # NoFile /\ target = j.landing => target \in placed
    \* done means placed
    /\ j.out = "done" => placed # {}
    \* a link to the target that appeared after the capture is this job's
    /\ j.source = iso /\ j.owned = NoFile /\ target # NoFile /\ Vouches(j) => placed # {}
    \* a placed file is known by its landing or its link
    /\ j.source = iso /\ ~j.unproven /\ target \in placed => target = j.landing \/ Vouches(j)
    \* a job that placed its own baseline has no proof of its source
    /\ j.owned \in placed => j.unproven
    /\ j.staged /\ Pair /\ j.owned = kept => j.unproven
    \* nothing is recorded or kept with proof before the baseline is captured
    /\ j.owned = NotCaptured /\ (placed # {} \/ j.landing # NoFile) => j.source # iso
    /\ j.staged /\ ~j.unproven => j.owned # NotCaptured
    \* without a plan nothing is recorded as placed
    /\ j.state # "none" /\ j.source = NoIso => placed = {}

\* A kept file never replaces what its job has placed.
KeptSafe == sidecar.at => sidecar.before \notin placed /\ sidecar.before # sidecar.size

\* The file a delivery found at the target is neither placed nor the one it delivers.
BeforeSafe ==
    /\ pc \in Delivering \cup {"mux", "keep", "sidecar"} => run.before \notin placed
    /\ pc \in Delivering \cup {"keep"} /\ ~run.resume => run.before # stage
    /\ pc = "sidecar" \/ (pc = "copy" /\ run.resume) => run.before # kept
    /\ pc \in {"announce", "recheck", "land"} => run.before # partial
    /\ pc \in Delivering \cup {"keep"} /\ ~run.resume /\ sidecar.at => sidecar.before # stage
    /\ pc \in {"announce", "recheck", "land"} /\ sidecar.at => sidecar.before # partial

\* Nor is the baseline, while the source has proof.
BaselineApart ==
    /\ pc \in Delivering \cup {"keep"} /\ ~run.resume => job.owned # stage
    /\ pc = "sidecar" \/ (pc = "arms" /\ ~run.resume /\ run.kept) => job.owned # kept
    /\ pc \in {"announce", "recheck", "land"} /\ job.owned = partial => job.unproven

\* What stands at the target when a delivery starts is none of the job's own.
TargetNew ==
    /\ pc \in {"stage", "mux", "copy"} /\ ~run.resume => target \notin placed
    /\ pc \in {"announce", "recheck", "land"} => target \notin placed /\ target # partial
    /\ pc \in Planning \ {"permit"} /\ target \in placed /\ job.out # "done" /\ ~job.staged =>
            run.fresh \/ target = job.landing
    /\ pc = "permit" /\ target \in placed => job.staged \/ run.fresh

\* A delivery with proof of its source has captured its baseline.
Captured ==
    /\ pc \in {"resume", "copy", "announce", "recheck", "land", "undo"} /\ Planned
         /\ job.owned = NotCaptured => iso # job.source
    /\ pc \in {"stage", "mux", "keep", "sidecar"} => job.owned # NotCaptured
    /\ pc \in Delivering \/ (pc = "arms" /\ run.kept) =>
            run.resume \/ job.owned # NotCaptured

\* A landing that is being recorded did take place.
HasPlaced ==
    pc \in {"clear", "landed", "link"} /\ Planned =>
        placed # {} /\ (target \in placed => target = run.recorded)
LandedHasPlaced ==
    pc = "link_landed" => placed # {} /\ (target \in placed => target = job.landing)

\* A run that started on the planned ISO: nothing was placed before its baseline is
\* captured, and a link to the ISO there is now is one to the planned one.
StillCurrent ==
    /\ pc \in {"scan", "own"} /\ run.current /\ job.owned = NotCaptured =>
            placed = {} /\ job.landing = NoFile
    /\ pc \in Planning /\ run.current /\ link.source = iso => job.source = iso

PlacedNow == KeptSafe /\ BeforeSafe /\ BaselineApart /\ TargetNew /\ Captured
             /\ HasPlaced /\ LandedHasPlaced /\ StillCurrent

-----------------------------------------------------------------------------
(* Ownership: what a fresh remux may replace *)

Ours(f) == muxed[f] # NoIso \/ granted
RecordOurs(j) == target # NoFile /\ j.owned = target => Ours(target)

OursNow ==
    /\ pc \in {"stage", "mux"} \cup Delivering /\ ~run.resume =>
            /\ run.replaces # NoFile => run.replaces = job.owned
            /\ run.replace <=> run.replaces # NoFile
    /\ pc = "recheck" /\ ~run.resume /\ run.flag = "none" /\ run.replace
         /\ target # NoFile /\ target = run.before => target = run.replaces
    /\ pc = "land" /\ ~run.resume /\ ~arrived /\ target # NoFile =>
            run.replace /\ target = run.replaces

-----------------------------------------------------------------------------
(* Offers: a kept file is offered by its job *)

Offers ==
    /\ pc # "down" => (job.staged => job.kept) \/ pc \in {"landed"}
    /\ pc # "down" /\ Pair /\ ~released =>
            \/ job.kept \/ job.state = "done" \/ placed # {}
            \/ pc = "arms" /\ run.kept
            \/ pc = "sidecar"
            \/ pc = "finish" /\ run.ending = "done"

RecordGood(j) == RecordSound(j) /\ RecordTrue(j) /\ RecordPlaced(j) /\ RecordOurs(j)

IInv ==
    /\ Shape /\ RecordGood(job) /\ RecordGood(disk)
    /\ Control /\ Synced /\ Judged /\ Delivery
    /\ Truth /\ PlacedNow /\ OursNow /\ Offers

-----------------------------------------------------------------------------
(* Records that claim no more than another one *)

\* i claims no more than j: it is for the same source and baseline, has the same
\* landing and the same proof, and keeps and is done with nothing j is not.
Weaker(i, j) ==
    /\ i.source = j.source /\ i.landing = j.landing /\ i.owned = j.owned
    /\ i.unproven = j.unproven /\ (i.staged => j.staged)
    /\ i.out = "done" => j.out = "done"
    /\ j.state # "none" /\ i.state # "none"
NoMore(i, j) == i = NoJob \/ i = j \/ Weaker(i, j)

\* What a record speaks of.
Evidence == <<target, muxed, placed, kept, sidecar, iso, link, granted>>

\* A baseline that was never captured is no file.
LEMMA NotCapturedApart ==
    ASSUME Shape
    PROVE  /\ NotCaptured # target /\ NotCaptured # kept /\ NotCaptured # NoFile
           /\ NotCaptured \notin placed /\ iso # NoIso
  <1>1. used \in Nat /\ used < NotCaptured
    BY SMT, MaxFileAssumption DEF Shape, Counters, NotCaptured
  <1>2. target \in Known /\ kept \in Known /\ placed \subseteq Known
    BY DEF Shape, FilesTyped, PlacedTyped
  <1>3. iso \in Nat \ {0}
    BY SMT, MaxIsoAssumption DEF Shape, Counters, Isos
  <1> QED
    BY SMT, <1>1, <1>2, <1>3, MaxFileAssumption DEF NoFile, NoIso, NotCaptured, Known

\* No job claims anything.
LEMMA NoJobGood ==
    ASSUME Shape
    PROVE  RecordGood(NoJob)
  BY SMT, NotCapturedApart
  DEF RecordGood, RecordSound, RecordTrue, Muxed, Proven, RecordPlaced, Vouches, RecordOurs, NoJob

\* A record that claims no more than a good one is good.
LEMMA JobStaysGood ==
    ASSUME Shape, RecordGood(job), NoMore(job', job), UNCHANGED Evidence
    PROVE  RecordGood(job)'
  <1>1. RecordGood(NoJob)
    BY NoJobGood
  <1> QED
    BY SMT, <1>1
    DEF RecordGood, RecordSound, RecordTrue, Muxed, Proven, Pair, RecordPlaced, Vouches,
        RecordOurs, Ours, NoMore, Weaker, Evidence

LEMMA DiskStaysGood ==
    ASSUME Shape, RecordGood(job), RecordGood(disk),
           NoMore(disk', job) \/ NoMore(disk', disk), UNCHANGED Evidence
    PROVE  RecordGood(disk)'
  <1>1. RecordGood(NoJob)
    BY NoJobGood
  <1> QED
    BY SMT, <1>1
    DEF RecordGood, RecordSound, RecordTrue, Muxed, Proven, Pair, RecordPlaced, Vouches,
        RecordOurs, Ours, NoMore, Weaker, Evidence

-----------------------------------------------------------------------------
(* Types of what the steps make *)

LEMMA NamesTyped ==
    /\ {"none", "queued", "running", "failed", "done"} \subseteq JobStates
    /\ {"pending", "running", "failed", "done"} \subseteq OutputStates
    /\ Flags = {"none", "changed", "refused", "unsaved"}
    /\ Faults = {"none", "exists", "storage", "invalid", "halted"}
    /\ Endings = {"none", "failed", "done", "cancelled", "preempted", "stalled"}
  BY DEF JobStates, OutputStates, Flags, Faults, Endings

\* Nothing, no version and the missing baseline have their place in every type.
LEMMA NothingTyped ==
    ASSUME Shape
    PROVE  NoFile \in Known /\ NoIso \in Versions /\ iso \in Versions
  BY SMT, MaxFileAssumption, MaxIsoAssumption
  DEF Shape, Counters, Known, Versions, Isos, NoFile, NoIso

LEMMA NoJobTyped ==
    ASSUME Shape
    PROVE  NoJob \in Records
  BY NothingTyped, NamesTyped DEF NoJob, Records

LEMMA NoRunTyped ==
    ASSUME Shape
    PROVE  NoRun \in Runs
  BY NothingTyped, NamesTyped DEF NoRun, Runs

\* The queue's changes of a record give a record.
LEMMA StateTyped ==
    ASSUME NEW j \in Records, NEW s \in JobStates
    PROVE  [j EXCEPT !.state = s] \in Records
  BY DEF Records

LEMMA OutTyped ==
    ASSUME Shape, NEW j \in Records, NEW o \in OutputStates
    PROVE  [j EXCEPT !.out = o] \in Records /\ FinishOutput(j, o) \in Records
  BY NothingTyped DEF Records, FinishOutput

LEMMA StagedTyped ==
    ASSUME NEW j \in Records, NEW b \in BOOLEAN
    PROVE  [j EXCEPT !.staged = b] \in Records /\ [j EXCEPT !.kept = b] \in Records
  BY DEF Records

LEMMA UnstagedTyped ==
    ASSUME NEW j \in Records
    PROVE  [j EXCEPT !.kept = FALSE, !.staged = j.staged /\ ~j.kept] \in Records
  BY DEF Records

LEMMA SetStagedTyped ==
    ASSUME NEW j \in Records, NEW keep \in BOOLEAN
    PROVE  SetStaged(j, keep) \in Records
  BY StagedTyped, UnstagedTyped DEF SetStaged

\* A run that ends remembers how, and whether a kept file is in place.
LEMMA EndTyped ==
    ASSUME Shape, NEW r \in Runs, NEW ending \in Endings
    PROVE  /\ [NoRun EXCEPT !.ending = ending, !.kept = r.kept] \in Runs
           /\ [NoRun EXCEPT !.ending = ending] \in Runs
           /\ [NoRun EXCEPT !.ending = ending, !.recorded = r.recorded] \in Runs
  BY NoRunTyped DEF Runs

\* What the run learns on its way.
LEMMA RunChangesTyped ==
    ASSUME NEW r \in Runs
    PROVE  /\ \A f \in Faults : [r EXCEPT !.fault = f] \in Runs
           /\ \A f \in Flags : [r EXCEPT !.flag = f] \in Runs
           /\ \A b \in BOOLEAN : /\ [r EXCEPT !.kept = b] \in Runs
                                 /\ [r EXCEPT !.resume = b] \in Runs
                                 /\ [r EXCEPT !.error = b] \in Runs
           /\ \A f \in Known : /\ [r EXCEPT !.owned = f] \in Runs
                               /\ [r EXCEPT !.recorded = f] \in Runs
  BY DEF Runs

LEMMA NoSidecarTyped ==
    ASSUME Shape
    PROVE  NoSidecar \in Sidecars
  BY NothingTyped DEF NoSidecar, Sidecars

LEMMA RecordLinkTyped ==
    ASSUME Shape, NEW f \in Known
    PROVE  RecordLink(f) \in Links
  BY NothingTyped DEF RecordLink, OutputSource, Links, Shape, Records

\* The bounds hold: a lost write, a new file and a new version are counted.
LEMMA LoseTyped ==
    ASSUME Shape, Lose
    PROVE  lost' \in 0 .. MaxLost
  BY SMT, MaxLostAssumption DEF Shape, Counters, Lose

LEMMA NewFileTyped ==
    ASSUME Shape, NewFile
    PROVE  used' \in 0 .. MaxFile /\ used + 1 \in Files /\ used + 1 \in Known' /\ Known \subseteq Known'
  BY SMT, MaxFileAssumption DEF Shape, Counters, NewFile, Files, Known

LEMMA NewIsoTyped ==
    ASSUME Shape, NewIso
    PROVE  iso' \in Isos /\ iso' = iso + 1 /\ Versions \subseteq Versions'
  BY SMT, MaxIsoAssumption DEF Shape, Counters, NewIso, Isos, Versions

\* Types only grow with the files and the versions there have been.
LEMMA TypesGrow ==
    ASSUME Known \subseteq Known', Versions \subseteq Versions'
    PROVE  /\ Records \subseteq Records' /\ Sidecars \subseteq Sidecars'
           /\ Links \subseteq Links' /\ Runs \subseteq Runs'
  BY DEF Records, Sidecars, Links, Runs

LEMMA CountersTyped ==
    ASSUME Shape, used' = used \/ NewFile, iso' = iso \/ NewIso, lost' = lost \/ Lose
    PROVE  Counters' /\ Known \subseteq Known' /\ Versions \subseteq Versions'
  <1>1. used' \in 0 .. MaxFile /\ Known \subseteq Known'
    BY NewFileTyped DEF Shape, Counters, Known
  <1>2. iso' \in Isos /\ Versions \subseteq Versions'
    BY NewIsoTyped DEF Shape, Counters, Versions
  <1>3. lost' \in 0 .. MaxLost
    BY LoseTyped DEF Shape, Counters
  <1> QED
    BY <1>1, <1>2, <1>3 DEF Counters, Isos

\* An ordinary change of the record, and what of it reaches the file.
LEMMA SaveTyped ==
    ASSUME NEW new \in Records, NEW steps \in SUBSET Records, Save(steps, new),
           disk \in Records
    PROVE  job' \in Records /\ disk' \in Records
  BY DEF Save

LEMMA DurableTyped ==
    ASSUME NEW new \in Records, SaveOk(new) \/ SaveError(new),
           job \in Records, disk \in Records
    PROVE  job' \in Records /\ disk' \in Records
  BY DEF SaveOk, SaveError, queue

\* A run that ends, and one that goes to undo what it has begun.
LEMMA EndsTyped ==
    ASSUME Shape, NEW ending \in Endings, End(ending)
    PROVE  run' \in Runs /\ pc' = "finish"
  BY EndTyped DEF End, Shape

LEMMA FailsTyped ==
    ASSUME Shape, FailRun \/ Unkept
    PROVE  run' \in Runs /\ pc' = "finish"
  BY EndTyped, NamesTyped DEF FailRun, Unkept, End, Shape

LEMMA FaultTyped ==
    ASSUME Shape, NEW why \in Faults, Fault(why)
    PROVE  run' \in Runs /\ pc' = "undo"
  BY RunChangesTyped DEF Fault, Goto, Shape

LEMMA StopEndingTyped ==
    ASSUME Shape
    PROVE  StopEnding \in Endings \/ ~Stopped
  BY NamesTyped DEF StopEnding, Stopped, Shape, StopsTyped

\* Where a run may be, and what it may stop at.
LEMMA PlacesTyped == {"finish", "undo"} \subseteq Places
  BY DEF Places

-----------------------------------------------------------------------------
(* Every step keeps the types *)

LEMMA RunTyped ==
    ASSUME Shape, Worker
    PROVE  run' \in Runs /\ pc' \in Places
  <1>0. /\ run \in Runs /\ pc \in Places /\ sidecar \in Sidecars
        /\ target \in Known /\ partial \in Known /\ iso \in Versions /\ NoRun \in Runs
    BY NothingTyped, NoRunTyped DEF Shape, FilesTyped
  <1>1. CASE Claim
    BY <1>0, <1>1 DEF Claim, Places
  <1>2. CASE FreezePlan
    BY <1>0, <1>2, FailsTyped DEF FreezePlan, Goto, Places
  <1>3. CASE StartRun
    <2>1. CASE Stopped /\ End(StopEnding)
      BY <2>1, StopEndingTyped, EndsTyped, PlacesTyped
    <2>2. CASE ~Planned /\ Goto("resume") /\ run' = [run EXCEPT !.resume = TRUE]
      BY <1>0, <2>2, RunChangesTyped DEF Goto, Places
    <2>3. CASE FailRun
      BY <2>3, FailsTyped, PlacesTyped
    <2>4. CASE /\ Goto("scan")
               /\ run' = [run EXCEPT !.current = (iso = job.source),
                                     !.fresh = job.out # "done" /\ ~job.staged /\ ~LandedBefore]
      BY <1>0, <2>4 DEF Goto, Places, Runs
    <2> QED
      BY <1>3, <2>1, <2>2, <2>3, <2>4 DEF StartRun
  <1>4. CASE Validate
    BY <1>0, <1>4, RunChangesTyped DEF Validate, Goto, Places
  <1>5. CASE CaptureOwned
    <2>1. OwnedNow \in Known
      BY <1>0, NothingTyped DEF OwnedNow
    <2>2. job.owned # NotCaptured => job.owned \in Known
      BY DEF Shape, Records
    <2>3. CASE FailRun
      BY <2>3, FailsTyped, PlacesTyped
    <2>4. CASE /\ Goto("admit")
               /\ \/ run' = [run EXCEPT !.owned = NoFile]
                  \/ job.owned # NotCaptured /\ run' = [run EXCEPT !.owned = job.owned]
                  \/ run' = [run EXCEPT !.owned = OwnedNow]
      BY <1>0, <2>1, <2>2, <2>4, NothingTyped, RunChangesTyped DEF Goto, Places
    <2> QED
      BY <1>5, <2>3, <2>4 DEF CaptureOwned
  <1>6. CASE Admit
    BY <1>0, <1>6, FailsTyped DEF Admit, Goto, Places
  <1>7. CASE BeginOutput
    BY <1>0, <1>7, EndsTyped, StopEndingTyped DEF BeginOutput, Goto, Places
  <1>8. CASE LinkDone \/ Look \/ LinkLanded \/ Link \/ Landed
    BY <1>0, <1>8, FailsTyped DEF LinkDone, Look, LinkLanded, Link, Landed, Goto, Places
  <1>9. CASE Permit
    <2>1. CASE FailRun
      BY <2>1, FailsTyped, PlacesTyped
    <2>2. ASSUME NEW replace \in BOOLEAN,
                 run' = [run EXCEPT !.replace = replace,
                                    !.replaces = IF replace THEN run.owned ELSE NoFile,
                                    !.resume = job.staged, !.owned = NoFile, !.fresh = FALSE,
                                    !.current = FALSE]
          PROVE  run' \in Runs
      <3>1. job.staged \in BOOLEAN
        BY DEF Shape, Records
      <3> QED
        BY <1>0, <2>2, <3>1, NothingTyped DEF Runs
    <2> QED
      BY <1>9, <2>1, <2>2 DEF Permit, Goto, Places
  <1>10. CASE Stage
    <2>1. [run EXCEPT !.before = target, !.from = iso] \in Runs
      BY <1>0 DEF Runs
    <2> QED
      BY <1>0, <1>10, <2>1, NamesTyped, RunChangesTyped DEF Stage, Goto, Places
  <1>11. CASE Mux
    <2>1. [run EXCEPT !.from = NoIso] \in Runs
      BY <1>0, NothingTyped DEF Runs
    <2>2. [run EXCEPT !.from = NoIso, !.fault = "storage"] \in Runs
      BY <1>0, NamesTyped, NothingTyped DEF Runs
    <2> QED
      BY <1>0, <1>11, <2>1, <2>2 DEF Mux, Goto, Places
  <1>12. CASE Resume
    <2>1. [run EXCEPT !.before = sidecar.before, !.replace = sidecar.replace] \in Runs
      BY <1>0 DEF Runs, Sidecars
    <2> QED
      BY <1>0, <1>12, <2>1, NamesTyped, RunChangesTyped DEF Resume, Goto, Places
  <1>13. CASE Copy \/ Recheck
    BY <1>0, <1>13, NamesTyped, FaultTyped DEF Copy, Recheck, Goto, Places
  <1>14. CASE BeforeLanding
    <2>1. \A flag \in Flags : [run EXCEPT !.flag = flag] \in Runs
      BY <1>0, RunChangesTyped
    <2>2. [run EXCEPT !.recorded = partial] \in Runs
      BY <1>0, RunChangesTyped
    <2> QED
      BY <1>0, <1>14, <2>1, <2>2, NamesTyped DEF BeforeLanding, Goto, Places
  <1>15. CASE Land
    BY <1>0, <1>15, NamesTyped, FaultTyped DEF Land, Goto, Places
  <1>16. CASE Clear
    BY <1>0, <1>16, NamesTyped, EndTyped DEF Clear, Goto, Places
  <1>17. CASE Undo
    <2>1. Keeps(FALSE) \in BOOLEAN
      BY DEF Keeps
    <2> QED
      BY <1>0, <1>17, <2>1, RunChangesTyped DEF Undo, Goto, Places
  <1>18. CASE Keep \/ KeepSidecar
    BY <1>0, <1>18, RunChangesTyped DEF Keep, KeepSidecar, Goto, Places
  <1>19. CASE ArmSourceChanged \/ ArmRefused
    BY <1>19, FailsTyped, PlacesTyped DEF ArmSourceChanged, ArmRefused
  <1>20. CASE ArmOther \/ ArmBare
    BY <1>20, FailsTyped, EndsTyped, StopEndingTyped, NamesTyped, PlacesTyped DEF ArmOther, ArmBare
  <1>21. CASE Settle
    BY <1>21, EndsTyped, NamesTyped, PlacesTyped DEF Settle
  <1>22. CASE Finish
    BY <1>0, <1>22 DEF Finish, Places
  <1> QED
    BY <1>1, <1>2, <1>3, <1>4, <1>5, <1>6, <1>7, <1>8, <1>9, <1>10, <1>11, <1>12, <1>13, <1>14,
       <1>15, <1>16, <1>17, <1>18, <1>19, <1>20, <1>21, <1>22 DEF Worker

LEMMA RecordsTyped ==
    ASSUME Shape, Worker
    PROVE  job' \in Records /\ disk' \in Records
  <1>0. /\ job \in Records /\ disk \in Records /\ NoJob \in Records
        /\ target \in Known /\ partial \in Known /\ iso \in Versions /\ NoFile \in Known
    BY NothingTyped, NoJobTyped DEF Shape, FilesTyped
  <1>1. CASE UNCHANGED queue
    BY <1>0, <1>1 DEF queue
  <1>2. CASE Claim
    BY <1>0, <1>2, NamesTyped, StateTyped DEF Claim
  <1>3. CASE FreezePlan
    <2>1. [job EXCEPT !.source = iso] \in Records
      BY <1>0 DEF Records
    <2> QED
      BY <1>0, <1>3, <2>1, DurableTyped DEF FreezePlan
  <1>4. CASE CaptureOwned
    <2>1. OwnedNow \in Known
      BY <1>0 DEF OwnedNow
    <2>2. [job EXCEPT !.owned = OwnedNow] \in Records
      BY <1>0, <2>1 DEF Records
    <2> QED
      BY <1>0, <1>1, <1>4, <2>2, DurableTyped DEF CaptureOwned
  <1>5. CASE BeginOutput
    <2>1. [job EXCEPT !.out = "running"] \in Records
      BY <1>0, NamesTyped, OutTyped
    <2> QED
      BY <1>0, <1>1, <1>5, <2>1, SaveTyped DEF BeginOutput
  <1>6. CASE Look \/ LinkLanded \/ Link
    <2>1. FinishOutput(job, "done") \in Records
      BY <1>0, NamesTyped, OutTyped
    <2> QED
      BY <1>0, <1>1, <1>6, <2>1, SaveTyped DEF Look, LinkLanded, Link
  <1>7. CASE BeforeLanding
    <2>1. [job EXCEPT !.landing = partial] \in Records
      BY <1>0 DEF Records
    <2> QED
      BY <1>0, <1>1, <1>7, <2>1, DurableTyped DEF BeforeLanding
  <1>8. CASE Landed
    <2>1. [job EXCEPT !.staged = FALSE] \in Records
      BY <1>0, StagedTyped
    <2>2. SetStaged([job EXCEPT !.staged = FALSE], FALSE) \in Records
      BY <2>1, SetStagedTyped
    <2> QED
      BY <1>0, <1>8, <2>1, <2>2, SaveTyped DEF Landed
  <1>9. OutputFailed(job) \in Records
    BY <1>0, NamesTyped, OutTyped DEF OutputFailed
  <1>10. CASE ArmSourceChanged
    <2> DEFINE unproven == [job EXCEPT !.unproven = TRUE, !.staged = TRUE, !.out = "failed"]
               new      == SetStaged(unproven, TRUE)
    <2>1. unproven \in Records
      BY <1>0, NamesTyped DEF Records
    <2>2. new \in Records
      BY <2>1, SetStagedTyped
    <2>3. Save({}, OutputFailed(job)) \/ SaveOk(new) \/ Save({}, new)
      BY <1>10 DEF ArmSourceChanged
    <2> HIDE DEF new
    <2> QED
      BY <1>0, <1>9, <2>2, <2>3, SaveTyped, DurableTyped
  <1>11. CASE ArmRefused
    BY <1>0, <1>9, <1>11, SaveTyped DEF ArmRefused
  <1>12. CASE ArmOther
    <2> DEFINE named == IF run.kept THEN [job EXCEPT !.staged = TRUE] ELSE job
               recorded == IF run.kept THEN SetStaged(named, Pair) ELSE named
    <2>1. named \in Records
      BY <1>0, StagedTyped
    <2>2. Pair \in BOOLEAN
      BY DEF Shape, Sidecars, Pair
    <2>3. recorded \in Records
      BY <2>1, <2>2, SetStagedTyped
    <2>4. OutputFailed(recorded) \in Records
      BY <2>3, NamesTyped, OutTyped DEF OutputFailed
    <2> QED
      BY <1>0, <1>12, <2>1, <2>3, <2>4, SaveTyped DEF ArmOther, KeepStaged
  <1>13. CASE Finish
    <2>1. Pair \in BOOLEAN /\ StillKept \in BOOLEAN
      BY DEF Shape, Sidecars, Pair, StillKept
    <2>2. SetStaged(job, StillKept) \in Records
      BY <1>0, <2>1, SetStagedTyped
    <2>3. SetStaged([job EXCEPT !.state = "done"], FALSE) \in Records
      BY <1>0, NamesTyped, StateTyped, SetStagedTyped
    <2>4. \A j \in Records : Requeued(j) \in Records /\ Failed(j) \in Records
      BY NamesTyped, StateTyped DEF Requeued, Failed
    <2>5. CASE FinishDone
      <3> DEFINE new == SetStaged([job EXCEPT !.state = "done"], FALSE)
      <3>1. new \in Records /\ Save({}, new)
        BY <2>3, <2>5 DEF FinishDone
      <3> HIDE DEF new
      <3> QED
        BY <1>0, <3>1, SaveTyped
    <2>6. CASE FinishCancelled
      BY <1>0, <2>2, <2>4, <2>6, SaveTyped DEF FinishCancelled
    <2>7. CASE Save({}, Requeued(job))
      BY <1>0, <2>4, <2>7, SaveTyped
    <2>8. CASE FinishFailed
      BY <1>0, <2>2, <2>4, <2>8, SaveTyped DEF FinishFailed
    <2> QED
      BY <1>13, <2>5, <2>6, <2>7, <2>8 DEF Finish
  <1> QED
    BY <1>1, <1>2, <1>3, <1>4, <1>5, <1>6, <1>7, <1>8, <1>10, <1>11, <1>12, <1>13
    DEF Worker, StartRun, Validate, Admit, LinkDone, Permit, Stage, Mux, Resume, Copy,
        Recheck, Land, Clear, Undo, Keep, KeepSidecar, ArmBare, Settle, FilesUnchanged

LEMMA WebRecordsTyped ==
    ASSUME Shape, Web \/ Startup \/ Crash
    PROVE  job' \in Records /\ disk' \in Records
  <1>0. /\ job \in Records /\ disk \in Records /\ NoJob \in Records
        /\ Pair \in BOOLEAN /\ sidecar.replace \in BOOLEAN
    BY NoJobTyped DEF Shape, Pair, Sidecars
  <1>1. \A j \in Records : /\ Requeued(j) \in Records /\ Failed(j) \in Records
                           /\ Unqueued(j) \in Records /\ Loaded(j) \in Records
    BY <1>0, NamesTyped, StateTyped DEF Requeued, Failed, Unqueued, Loaded
  <1>2. ASSUME NEW replace \in BOOLEAN, Add(replace) \/ AddFresh(replace)
        PROVE  job' \in Records /\ disk' \in Records
    <2>1. Appended(job, replace) \in Records
      <3> DEFINE evidence == IF job.state = "failed" /\ ~job.kept /\ ~job.staged
                             THEN job.landing ELSE NoFile
                 owned == IF evidence = NoFile THEN NotCaptured
                          ELSE IF job.owned = NotCaptured THEN NoFile ELSE job.owned
      <3>1. /\ evidence \in Known /\ owned \in Known \cup {NotCaptured}
            /\ job.source \in Versions /\ job.unproven \in BOOLEAN
        BY <1>0, NothingTyped DEF Records
      <3>2. [NoJob EXCEPT !.state = "queued", !.replace = replace] \in Records
        BY <1>0, NamesTyped DEF Records
      <3> HIDE DEF evidence, owned
      <3>3. [NoJob EXCEPT !.state = "queued", !.replace = replace, !.source = job.source,
                          !.landing = evidence, !.unproven = job.unproven, !.owned = owned]
              \in Records
        BY <1>0, <3>1, NamesTyped DEF Records
      <3> QED
        BY <3>2, <3>3 DEF Appended, evidence, owned
    <2>2. AppendedFresh(replace) \in Records
      BY <1>0, NamesTyped, NothingTyped DEF AppendedFresh, Records, NoJob
    <2> QED
      BY <1>2, <2>1, <2>2 DEF Add, AddFresh, NewJob, SaveOk
  <1>3. CASE RetryStagedNow
    BY <1>0, <1>3, NamesTyped, StateTyped, SaveTyped DEF RetryStagedNow
  <1>4. CASE DiscardKept
    <2>1. SetStaged([job EXCEPT !.staged = FALSE], FALSE) \in Records
      BY <1>0, StagedTyped, SetStagedTyped
    <2> DEFINE new == IF job.state = "queued" THEN NoJob
                      ELSE SetStaged([job EXCEPT !.staged = FALSE], FALSE)
    <2>2. new \in Records /\ Save({}, new)
      BY <1>0, <1>4, <2>1 DEF DiscardKept
    <2> HIDE DEF new
    <2> QED
      BY <1>0, <2>2, SaveTyped
  <1>5. CASE RemoveQueued
    BY <1>0, <1>1, <1>5, SaveTyped DEF RemoveQueued
  <1>6. CASE ClearFinished
    BY <1>0, <1>6, SaveTyped DEF ClearFinished
  <1>7. CASE StopAllClear
    BY <1>0, <1>1, <1>7, SaveTyped DEF StopAllClear, queue
  <1>8. CASE StopAllCancel
    BY <1>0, <1>8 DEF StopAllCancel, queue
  <1>9. CASE Startup
    <2>1. ASSUME NEW found \in {Pair, FALSE} PROVE Adopted(job, found) \in Records
      <3>1. SetStaged([job EXCEPT !.staged = FALSE], FALSE) \in Records
        BY <1>0, StagedTyped, SetStagedTyped
      <3>2. /\ [NoJob EXCEPT !.state = "queued", !.kept = TRUE, !.replace = sidecar.replace]
                 \in Records
            /\ [job EXCEPT !.state = "queued", !.kept = TRUE] \in Records
        BY <1>0, NamesTyped DEF Records
      <3>3. [job EXCEPT !.state = "queued", !.kept = TRUE, !.out = "pending", !.staged = TRUE,
                        !.unproven = job.unproven \/ ~job.staged] \in Records
        BY <1>0, NamesTyped DEF Records
      <3> QED
        BY <1>1, <3>1, <3>2, <3>3 DEF Adopted
    <2>2. PICK found \in {Pair, FALSE} : Save({}, Adopted(job, found))
      BY <1>9 DEF Startup
    <2> DEFINE new == Adopted(job, found)
    <2>3. new \in Records /\ Save({}, new)
      BY <2>1, <2>2
    <2> HIDE DEF new
    <2> QED
      BY <1>0, <2>3, SaveTyped
  <1>10. CASE Crash
    BY <1>0, <1>1, <1>10 DEF Crash
  <1> QED
    BY <1>2, <1>3, <1>4, <1>5, <1>6, <1>7, <1>8, <1>9, <1>10 DEF Web

LEMMA FilesWellTyped ==
    ASSUME Shape, Delivery, Next, Known \subseteq Known'
    PROVE  FilesTyped' /\ PlacedTyped' /\ sidecar' \in Sidecars /\ link' \in Links
  <1>0. /\ FilesTyped /\ PlacedTyped /\ sidecar \in Sidecars /\ link \in Links
        /\ run \in Runs /\ job \in Records /\ NoFile \in Known /\ NoSidecar \in Sidecars
    BY NothingTyped, NoSidecarTyped DEF Shape
  <1>1. ASSUME target' \in Known', partial' \in Known', stage' \in Known', kept' \in Known'
        PROVE  FilesTyped'
    BY <1>1 DEF FilesTyped
  <1>2. NewFile => used + 1 \in Known'
    BY NewFileTyped
  <1>3. /\ target \in Known' /\ partial \in Known' /\ stage \in Known' /\ kept \in Known'
        /\ NoFile \in Known' /\ (Local \in Known')
    BY <1>0 DEF FilesTyped, Local
  <1>4. FilesTyped'
    <2>1. CASE Web
      BY <1>1, <1>3, <2>1
      DEF Web, Add, AddFresh, NewJob, RetryStagedNow, DiscardKept, RemoveQueued, ClearFinished,
          StopAllClear, StopAllCancel, WebUnchanged, library, staging
    <2>2. CASE Outside
      BY <1>1, <1>2, <1>3, <2>2
      DEF Outside, Intrude, RemoveTarget, ReplaceIso, Yield, OutsideUnchanged, library, staging
    <2>3. CASE Mux \/ Copy
      BY <1>1, <1>2, <1>3, <2>3 DEF Mux, Copy, library, staging
    <2>4. CASE Worker /\ ~(Mux \/ Copy)
      BY <1>1, <1>3, <2>4
      DEF Worker, Claim, FreezePlan, StartRun, Validate, CaptureOwned, Admit, BeginOutput,
          LinkDone, Look, LinkLanded, Permit, Stage, Resume, BeforeLanding, Recheck, Land, Clear,
          Landed, Link, Undo, Keep, KeepSidecar, ArmSourceChanged, ArmRefused, ArmOther, ArmBare,
          Settle, Finish, FilesUnchanged, library, staging
    <2>5. CASE Crash \/ Startup
      BY <1>1, <1>3, <2>5 DEF Crash, Startup, staging
    <2> QED
      BY <2>1, <2>2, <2>3, <2>4, <2>5 DEF Next
  <1>5. PlacedTyped'
    <2>1. ASSUME placed' \in {placed, {}} PROVE PlacedTyped'
      BY <1>0, <2>1 DEF PlacedTyped
    <2>2. CASE Land
      <3>1. partial # NoFile
        BY <2>2 DEF Delivery, Land
      <3> QED
        BY <1>0, <1>3, <2>1, <2>2, <3>1 DEF Land, PlacedTyped
    <2>3. CASE Next /\ ~Land
      BY <2>1, <2>3
      DEF Next, Web, Add, AddFresh, NewJob, RetryStagedNow, DiscardKept, RemoveQueued,
          ClearFinished, StopAllClear, StopAllCancel, WebUnchanged, Outside, Intrude,
          RemoveTarget, ReplaceIso, Yield, OutsideUnchanged, Worker, Claim, FreezePlan, StartRun,
          Validate, CaptureOwned, Admit, BeginOutput, LinkDone, Look, LinkLanded, Permit, Stage,
          Mux, Resume, Copy, BeforeLanding, Recheck, Clear, Landed, Link, Undo, Keep,
          KeepSidecar, ArmSourceChanged, ArmRefused, ArmOther, ArmBare, Settle, Finish, Crash,
          Startup, FilesUnchanged, library
    <2> QED
      BY <2>2, <2>3
  <1>6. sidecar' \in Sidecars
    <2>1. CASE KeepSidecar
      <3>1. run.before \in Known /\ run.replace \in BOOLEAN /\ kept \in Known
        BY <1>0 DEF Runs, FilesTyped
      <3>2. [at |-> TRUE, before |-> run.before, replace |-> run.replace, size |-> kept] \in Sidecars
        BY <3>1 DEF Sidecars
      <3> QED
        BY <1>0, <2>1, <3>2 DEF KeepSidecar
    <2>2. CASE Next /\ ~KeepSidecar
      <3>1. sidecar' \in {sidecar, NoSidecar}
        BY <2>2
        DEF Next, Web, Add, AddFresh, NewJob, RetryStagedNow, DiscardKept, RemoveQueued,
            ClearFinished, StopAllClear, StopAllCancel, WebUnchanged, Outside, Intrude,
            RemoveTarget, ReplaceIso, Yield, OutsideUnchanged, Worker, Claim, FreezePlan, StartRun,
            Validate, CaptureOwned, Admit, BeginOutput, LinkDone, Look, LinkLanded, Permit, Stage,
            Mux, Resume, Copy, BeforeLanding, Recheck, Land, Clear, Landed, Link, Undo, Keep,
            ArmSourceChanged, ArmRefused, ArmOther, ArmBare, Settle, Finish, Crash,
            Startup, FilesUnchanged, staging
      <3> QED
        BY <1>0, <3>1
    <2> QED
      BY <2>1, <2>2
  <1>7. link' \in Links
    <2>1. \A f \in Known : RecordLink(f) \in Links
      BY RecordLinkTyped
    <2>2. job.landing \in Known /\ run.recorded \in Known
      BY <1>0 DEF Records, Runs
    <2>3. CASE LinkDone \/ LinkLanded \/ Link
      BY <1>0, <2>1, <2>2, <2>3 DEF LinkDone, LinkLanded, Link, LinkOk, LinkError
    <2>4. CASE Next /\ ~(LinkDone \/ LinkLanded \/ Link)
      <3>1. link' = link
        BY <2>4
        DEF Next, Web, Add, AddFresh, NewJob, RetryStagedNow, DiscardKept, RemoveQueued,
            ClearFinished, StopAllClear, StopAllCancel, WebUnchanged, Outside, Intrude,
            RemoveTarget, ReplaceIso, Yield, OutsideUnchanged, Worker, Claim, FreezePlan, StartRun,
            Validate, CaptureOwned, Admit, BeginOutput, Look, Permit, Stage,
            Mux, Resume, Copy, BeforeLanding, Recheck, Land, Clear, Landed, Undo, Keep, KeepSidecar,
            ArmSourceChanged, ArmRefused, ArmOther, ArmBare, Settle, Finish, Crash, Startup
      <3> QED
        BY <1>0, <3>1
    <2> QED
      BY <2>3, <2>4
  <1> QED
    BY <1>4, <1>5, <1>6, <1>7

\* What the files hold keeps its type: a copy is made of a file that is there.
LEMMA MuxedTyped ==
    ASSUME Shape, Delivery, Next
    PROVE  muxed' \in [Files -> 0 .. Mixed]
  <1>0. muxed \in [Files -> 0 .. Mixed] /\ iso \in Isos
    BY DEF Shape, Counters
  <1>1. iso \in 0 .. Mixed /\ Mixed \in 0 .. Mixed
    BY <1>0, SMT, MaxIsoAssumption DEF Isos, Mixed
  <1>2. ASSUME NEW v \in 0 .. Mixed, muxed' = [muxed EXCEPT ![used + 1] = v]
        PROVE  muxed' \in [Files -> 0 .. Mixed]
    BY <1>0, <1>2
  <1>3. CASE Mux
    <2>1. (IF run.from = iso THEN iso ELSE Mixed) \in 0 .. Mixed
      BY <1>1
    <2> QED
      BY <1>0, <1>2, <1>3, <2>1 DEF Mux
  <1>4. CASE Copy
    <2>1. Local \in Known \ {NoFile}
      BY <1>4 DEF Copy, Delivery, Delivering, Local, Pair, Shape, FilesTyped
    <2>2. Local \in Files
      BY <2>1, SMT, MaxFileAssumption DEF Shape, Counters, Known, Files, NoFile
    <2>3. muxed[Local] \in 0 .. Mixed
      BY <1>0, <2>2
    <2> QED
      BY <1>0, <1>2, <1>4, <2>3 DEF Copy, library
  <1>5. CASE Next /\ ~Mux /\ ~Copy
    <2>1. muxed' = muxed
      BY <1>5
      DEF Next, Web, Add, AddFresh, NewJob, RetryStagedNow, DiscardKept, RemoveQueued,
          ClearFinished, StopAllClear, StopAllCancel, WebUnchanged, Outside, Intrude,
          RemoveTarget, ReplaceIso, Yield, OutsideUnchanged, Worker, Claim, FreezePlan, StartRun,
          Validate, CaptureOwned, Admit, BeginOutput, LinkDone, Look, LinkLanded, Permit, Stage,
          Resume, BeforeLanding, Recheck, Land, Clear, Landed, Link, Undo, Keep, KeepSidecar,
          ArmSourceChanged, ArmRefused, ArmOther, ArmBare, Settle, Finish, Crash, Startup,
          FilesUnchanged, library
    <2> QED
      BY <1>0, <2>1
  <1> QED
    BY <1>3, <1>4, <1>5

\* Stops and the history of the target keep their types.
LEMMA StopsWellTyped ==
    ASSUME Shape, Next
    PROVE  StopsTyped'
  <1>1. CASE Web
    BY <1>1
    DEF Shape, StopsTyped, Web, Add, AddFresh, NewJob, UserQueued, RetryStagedNow, DiscardKept,
        RemoveQueued, ClearFinished, StopAllClear, StopAllCancel, WebUnchanged, library, staging
  <1>2. CASE Outside
    <2>1. ASSUME NEW why \in Interrupts \ {"cancelled"}, Yield(why)
          PROVE  StopsTyped'
      <3>1. yielded' \in {"none", "preempted", "stalled"}
        BY <2>1, InterruptsAssumption DEF Yield
      <3> QED
        BY <2>1, <3>1 DEF Shape, StopsTyped, Yield, library, staging
    <2> QED
      BY <1>2, <2>1
      DEF Shape, StopsTyped, Outside, Intrude, RemoveTarget, ReplaceIso, OutsideUnchanged, staging,
          stops
  <1>3. CASE Land \/ Clear \/ CaptureOwned \/ Resume \/ KeepSidecar \/ ArmSourceChanged \/ Finish
    BY <1>3
    DEF Shape, StopsTyped, Land, Clear, CaptureOwned, Resume, KeepSidecar, ArmSourceChanged, Finish,
        StepUnchanged, FilesUnchanged, library, staging, stops
  <1>4. CASE /\ Worker
             /\ ~(Land \/ Clear \/ CaptureOwned \/ Resume \/ KeepSidecar \/ ArmSourceChanged \/ Finish)
    <2>1. UNCHANGED <<arrived, granted, released, stops>>
      BY <1>4
      DEF Worker, Claim, FreezePlan, StartRun, Validate, Admit, BeginOutput, LinkDone, Look,
          LinkLanded, Permit, Stage, Mux, Copy, BeforeLanding, Recheck, Landed, Link, Undo, Keep,
          ArmRefused, ArmOther, ArmBare, Settle, StepUnchanged, FilesUnchanged, library, staging
    <2> QED
      BY <2>1 DEF Shape, StopsTyped, stops
  <1>5. CASE Crash \/ Startup
    BY <1>5 DEF Shape, StopsTyped, Crash, Startup, staging, stops
  <1> QED
    BY <1>1, <1>2, <1>3, <1>4, <1>5 DEF Next

\* What a step may count.
LEMMA CountersStep ==
    ASSUME Next
    PROVE  /\ used' = used \/ NewFile
           /\ iso' = iso \/ NewIso
           /\ lost' = lost \/ Lose
  <1>1. used' = used \/ NewFile
    BY DEF Next, Web, Add, AddFresh, NewJob, RetryStagedNow, DiscardKept, RemoveQueued,
           ClearFinished, StopAllClear, StopAllCancel, WebUnchanged, Outside, Intrude,
           RemoveTarget, ReplaceIso, Yield, OutsideUnchanged, Worker, Claim, FreezePlan, StartRun,
           Validate, CaptureOwned, Admit, BeginOutput, LinkDone, Look, LinkLanded, Permit, Stage,
           Mux, Resume, Copy, BeforeLanding, Recheck, Land, Clear, Landed, Link, Undo, Keep,
           KeepSidecar, ArmSourceChanged, ArmRefused, ArmOther, ArmBare, Settle, Finish, Crash,
           Startup, FilesUnchanged, library
  <1>2. iso' = iso \/ NewIso
    BY DEF Next, Web, Add, AddFresh, NewJob, RetryStagedNow, DiscardKept, RemoveQueued,
           ClearFinished, StopAllClear, StopAllCancel, WebUnchanged, Outside, Intrude,
           RemoveTarget, ReplaceIso, Yield, OutsideUnchanged, Worker, Claim, FreezePlan, StartRun,
           Validate, CaptureOwned, Admit, BeginOutput, LinkDone, Look, LinkLanded, Permit, Stage,
           Mux, Resume, Copy, BeforeLanding, Recheck, Land, Clear, Landed, Link, Undo, Keep,
           KeepSidecar, ArmSourceChanged, ArmRefused, ArmOther, ArmBare, Settle, Finish, Crash,
           Startup, StepUnchanged
  <1>3. lost' = lost \/ Lose
    BY DEF Next, Web, Add, AddFresh, NewJob, RetryStagedNow, DiscardKept, RemoveQueued,
           ClearFinished, StopAllClear, StopAllCancel, WebUnchanged, Outside, Intrude,
           RemoveTarget, ReplaceIso, Yield, OutsideUnchanged, Worker, Claim, FreezePlan, StartRun,
           Validate, CaptureOwned, Admit, BeginOutput, LinkDone, Look, LinkLanded, Permit, Stage,
           Mux, Resume, Copy, BeforeLanding, Recheck, Land, Clear, Landed, Link, Undo, Keep,
           KeepSidecar, ArmSourceChanged, ArmRefused, ArmOther, ArmBare, Settle, Finish, Crash,
           Startup, KeepStaged, FinishDone, FinishCancelled, FinishFailed, Save, SaveOk, SaveError,
           queue
  <1> QED
    BY <1>1, <1>2, <1>3

LEMMA ShapeStep ==
    ASSUME Shape, Delivery, Next
    PROVE  Shape' /\ Known \subseteq Known' /\ Versions \subseteq Versions'
  <1>1. Counters' /\ Known \subseteq Known' /\ Versions \subseteq Versions'
    BY CountersStep, CountersTyped
  <1>2. Records \subseteq Records' /\ Runs \subseteq Runs'
    BY <1>1, TypesGrow
  <1>3. job' \in Records /\ disk' \in Records
    <2>1. CASE Outside
      BY <2>1
      DEF Shape, Outside, Intrude, RemoveTarget, ReplaceIso, Yield, OutsideUnchanged, queue
    <2> QED
      BY <2>1, RecordsTyped, WebRecordsTyped DEF Next
  <1>4. run' \in Runs /\ pc' \in Places
    <2>1. CASE Web
      BY <2>1
      DEF Shape, Web, Add, AddFresh, NewJob, RetryStagedNow, DiscardKept, RemoveQueued,
          ClearFinished, StopAllClear, StopAllCancel, WebUnchanged
    <2>2. CASE Outside
      BY <2>2 DEF Shape, Outside, Intrude, RemoveTarget, ReplaceIso, Yield, OutsideUnchanged
    <2>3. CASE Crash \/ Startup
      BY <2>3, NoRunTyped DEF Shape, Crash, Startup, Places
    <2> QED
      BY <2>1, <2>2, <2>3, RunTyped DEF Next
  <1>5. FilesTyped' /\ PlacedTyped' /\ sidecar' \in Sidecars' /\ link' \in Links'
    BY <1>1, FilesWellTyped, TypesGrow
  <1>6. muxed' \in [Files -> 0 .. Mixed]
    BY MuxedTyped
  <1> QED
    BY <1>1, <1>2, <1>3, <1>4, <1>5, <1>6, StopsWellTyped DEF Shape

LEMMA ShapeIsTypeOK == Shape => TypeOK
  <1> SUFFICES ASSUME Shape PROVE TypeOK
    OBVIOUS
  <1>1. Known \subseteq 0 .. MaxFile /\ Versions \subseteq 0 .. MaxIso
    BY SMT, MaxFileAssumption, MaxIsoAssumption DEF Shape, Counters, Known, Versions, Isos
  <1>2. NotCaptured \in 0 .. NotCaptured /\ 0 .. MaxFile \subseteq 0 .. NotCaptured
    BY SMT, MaxFileAssumption DEF NotCaptured
  <1>3. Records \subseteq Jobs
    BY <1>1, <1>2 DEF Records, Jobs
  <1>4. placed \subseteq Files
    BY <1>1, SMT, MaxFileAssumption DEF Shape, PlacedTyped, Known, Files, NoFile, Counters
  <1>5. /\ sidecar \in [at : BOOLEAN, before : 0 .. MaxFile, replace : BOOLEAN, size : 0 .. MaxFile]
        /\ link \in [at : BOOLEAN, stamp : 0 .. MaxFile, source : 0 .. MaxIso]
    BY <1>1 DEF Shape, Sidecars, Links
  <1> QED
    BY <1>1, <1>3, <1>4, <1>5 DEF Shape, Counters, FilesTyped, StopsTyped, TypeOK

-----------------------------------------------------------------------------
(* What the steps of a delivery do *)

LEMMA Typed ==
    ASSUME Shape
    PROVE  /\ job \in Records /\ disk \in Records /\ run \in Runs
           /\ sidecar \in Sidecars /\ link \in Links
           /\ target \in Known /\ partial \in Known /\ stage \in Known /\ kept \in Known
           /\ placed \subseteq Known \ {NoFile}
           /\ job.owned \in Known \cup {NotCaptured} /\ job.landing \in Known
           /\ disk.owned \in Known \cup {NotCaptured} /\ disk.landing \in Known
           /\ job.source \in Versions /\ disk.source \in Versions
           /\ run.recorded \in Known /\ run.before \in Known /\ run.replaces \in Known
           /\ run.owned \in Known
           /\ link.stamp \in Known /\ sidecar.before \in Known
  <1>1. /\ job \in Records /\ disk \in Records /\ run \in Runs
        /\ sidecar \in Sidecars /\ link \in Links
    BY DEF Shape
  <1> QED
    BY <1>1 DEF Shape, FilesTyped, PlacedTyped, Records, Runs, Links, Sidecars

\* A new file is none that has existed, and no missing baseline.
LEMMA NewFileApart ==
    ASSUME Shape, NewFile
    PROVE  used + 1 \notin Known /\ used + 1 # NotCaptured /\ used + 1 # NoFile /\ used + 1 \in Files
  BY SMT, MaxFileAssumption
  DEF Shape, Counters, NewFile, Known, NotCaptured, NoFile, Files

\* A new version is none the job was planned for.
LEMMA NewIsoApart ==
    ASSUME Shape, NewIso
    PROVE  iso' \notin Versions /\ iso' # NoIso
  BY SMT, MaxIsoAssumption
  DEF Shape, Counters, NewIso, Versions, Isos, NoIso

\* What a new file holds changes nothing of those there are.
LEMMA OthersKeepContent ==
    ASSUME Shape, NewFile, NEW v, muxed' = [muxed EXCEPT ![used + 1] = v]
    PROVE  /\ \A f \in Known \ {NoFile} : muxed'[f] = muxed[f]
           /\ muxed'[used + 1] = v
  <1>1. muxed \in [Files -> 0 .. Mixed] /\ used + 1 \in Files /\ used + 1 \notin Known
    BY NewFileApart DEF Shape
  <1>2. Known \ {NoFile} \subseteq Files
    BY SMT, MaxFileAssumption DEF Shape, Counters, Known, Files, NoFile
  <1> QED
    BY <1>1, <1>2

\* What most steps of a delivery leave of the run.
Carried == <<run.kept, run.resume, run.replaces, run.recorded, run.flag>>

LEMMA MuxMakes ==
    ASSUME IInv, Mux
    PROVE  /\ UNCHANGED <<job, disk, target, partial, kept, sidecar, placed, link, iso, granted,
                          arrived, run.before, run.replace, Carried>>
           /\ pc = "mux" /\ ~run.resume
           /\ \A f \in Known \ {NoFile} : muxed'[f] = muxed[f]
           /\ \/ /\ pc' = "copy"
                 /\ stage' \notin Known /\ stage' # NotCaptured /\ stage' # NoFile
                 /\ muxed'[stage'] # NoIso
                 /\ run.from = iso => muxed'[stage'] = iso
              \/ pc' = "arms" /\ stage' = stage
  <1>0. Shape /\ Control /\ run \in Runs
    BY Typed DEF IInv
  <1>1. /\ run' = [run EXCEPT !.from = NoIso] \/ run' = [run EXCEPT !.from = NoIso, !.fault = "storage"]
        /\ UNCHANGED <<job, disk, target, partial, kept, sidecar, placed, link, iso, granted, arrived>>
    BY DEF Mux, queue, StepUnchanged
  <1>2. UNCHANGED <<run.before, run.replace, Carried>>
    BY <1>0, <1>1 DEF Runs, Carried
  <1>3. pc = "mux" /\ ~run.resume
    BY <1>0 DEF Mux, Control
  <1>4. CASE /\ Goto("copy") /\ NewFile /\ stage' = used + 1
             /\ muxed' = [muxed EXCEPT ![used + 1] = IF run.from = iso THEN iso ELSE Mixed]
    <2>1. iso # NoIso /\ Mixed # NoIso
      BY <1>0, SMT, MaxIsoAssumption DEF Shape, Counters, Isos, NoIso, Mixed
    <2> QED
      BY <1>0, <1>1, <1>2, <1>3, <1>4, <2>1, NewFileApart, OthersKeepContent DEF Goto
  <1>5. CASE Goto("arms") /\ UNCHANGED <<stage, used, muxed>>
    BY <1>1, <1>2, <1>3, <1>5 DEF Goto
  <1> QED
    BY <1>4, <1>5 DEF Mux

LEMMA ResumeMakes ==
    ASSUME IInv, Resume
    PROVE  /\ UNCHANGED <<job, disk, target, partial, stage, placed, muxed, link, iso, granted,
                          arrived, Carried>>
           /\ pc = "resume" /\ run.resume /\ ~run.kept
           /\ \/ pc' = "arms"
              \/ /\ pc' = "copy" /\ Pair /\ sidecar.size = kept
                 /\ UNCHANGED <<kept, sidecar>>
                 /\ run'.before = sidecar.before
  <1>0. Control /\ Delivery /\ run \in Runs
    BY Typed DEF IInv
  <1>1. pc = "resume" /\ run.resume /\ ~run.kept
    BY <1>0 DEF Resume, Control, Delivery
  <1>2. /\ UNCHANGED <<job, disk, target, partial, stage, placed, muxed, link, iso, granted, arrived>>
        /\ \/ pc' = "arms" /\ \E f \in {"invalid", "halted"} : run' = [run EXCEPT !.fault = f]
           \/ /\ pc' = "copy" /\ Pair /\ sidecar.size = kept /\ UNCHANGED <<kept, sidecar>>
              /\ run' = [run EXCEPT !.before = sidecar.before, !.replace = sidecar.replace]
    BY DEF Resume, StepUnchanged, library, staging, queue, Goto
  <1> QED
    BY <1>0, <1>1, <1>2 DEF Runs, Carried

\* The copy of a file that is there: a delivery's own, or one that was kept.
LEMMA CopyMakes ==
    ASSUME IInv, Copy
    PROVE  /\ UNCHANGED <<job, disk, target, stage, kept, sidecar, placed, link, iso, granted,
                          run.before, run.replace, Carried>>
           /\ pc = "copy" /\ ~run.kept /\ Local \in Known \ {NoFile}
           /\ \A f \in Known \ {NoFile} : muxed'[f] = muxed[f]
           /\ \/ pc' = "undo" /\ partial' = partial
              \/ /\ pc' = "announce" /\ ~TargetExists /\ partial' # NoFile
                 /\ \/ partial' = Local
                    \/ partial' \notin Known /\ partial' # NotCaptured
                 /\ muxed'[partial'] = muxed[Local]
  <1>0. Shape /\ Control /\ Delivery /\ run \in Runs
    BY Typed DEF IInv
  <1>1. pc = "copy" /\ ~run.kept
    BY <1>0 DEF Copy, Control
  <1>2. Local \in Known \ {NoFile}
    BY <1>0, <1>1 DEF Delivery, Delivering, Local, Pair, Shape, FilesTyped
  <1>3. UNCHANGED <<job, disk, target, stage, kept, sidecar, placed, link, iso, granted>>
    BY DEF Copy, library, staging, queue, StepUnchanged
  <1>4. ASSUME NEW why \in Faults, Fault(why), UNCHANGED library
        PROVE  /\ UNCHANGED <<run.before, run.replace, Carried, muxed, partial>> /\ pc' = "undo"
    BY <1>0, <1>4 DEF Fault, Goto, Runs, Carried, library
  <1>5. CASE /\ ~TargetExists /\ Goto("announce") /\ UNCHANGED run
             /\ partial' = Local /\ UNCHANGED muxed
    BY <1>1, <1>2, <1>3, <1>5 DEF Goto, Carried
  <1>6. CASE /\ ~TargetExists /\ Goto("announce") /\ UNCHANGED run
             /\ NewFile /\ partial' = used + 1
             /\ muxed' = [muxed EXCEPT ![used + 1] = muxed[Local]]
    BY <1>0, <1>1, <1>2, <1>3, <1>6, NewFileApart, OthersKeepContent DEF Goto, Carried
  <1> QED
    BY <1>1, <1>2, <1>3, <1>4, <1>5, <1>6, NamesTyped DEF Copy

\* A link is written for what the record has proof of.
LEMMA RecordLinkTrue ==
    ASSUME Planned, NEW f, f # NoFile /\ ~job.unproven => muxed[f] = job.source
    PROVE  RecordLink(f).stamp # NoFile =>
               /\ RecordLink(f).at /\ RecordLink(f).source # NoIso
               /\ muxed[RecordLink(f).stamp] = RecordLink(f).source
  BY DEF RecordLink, OutputSource, Planned

LEMMA LinkMakes ==
    ASSUME IInv, LinkDone \/ LinkLanded \/ Link
    PROVE  /\ UNCHANGED <<muxed, partial, stage, kept, placed>>
           /\ \/ link' = link
              \/ link'.stamp # NoFile => /\ link'.at /\ link'.source # NoIso
                                         /\ muxed[link'.stamp] = link'.source
  <1>1. UNCHANGED <<muxed, partial, stage, kept, placed>>
    BY DEF LinkDone, LinkLanded, Link, FilesUnchanged, library, staging
  <1>2. Planned
    BY DEF IInv, Control, LinkDone, LinkLanded, Link
  <1>3. CASE LinkDone
    BY <1>1, <1>2, <1>3, RecordLinkTrue DEF LinkDone, LinkOk, LinkError
  <1>4. CASE LinkLanded
    BY <1>1, <1>2, <1>4, RecordLinkTrue
    DEF LinkLanded, LinkOk, LinkError, IInv, RecordGood, RecordTrue, Proven, Planned
  <1>5. CASE Link
    <2>1. run.recorded = job.landing
      BY <1>2, <1>5 DEF IInv, Delivery, Link
    <2> QED
      BY <1>1, <1>2, <1>5, <2>1, RecordLinkTrue
      DEF Link, LinkOk, LinkError, IInv, RecordGood, RecordTrue, Proven, Planned
  <1> QED
    BY <1>3, <1>4, <1>5

LEMMA OwnedKnown ==
    ASSUME Shape
    PROVE  run.owned # NotCaptured /\ NoFile \notin placed
  <1>1. NotCaptured \notin Known
    BY SMT, MaxFileAssumption DEF Shape, Counters, Known, NotCaptured
  <1> QED
    BY <1>1, Typed

\* A delivery is permitted only for a job that has captured its baseline, of a target
\* that is empty or that baseline, and not the job's own.
LEMMA PermitMakes ==
    ASSUME IInv, Permit
    PROVE  /\ UNCHANGED <<job, target, placed, muxed, granted, iso, arrived, run.kept>>
           /\ \/ pc' = "finish"
              \/ /\ pc' = "resume" /\ run'.resume
                 /\ job.owned = NotCaptured => iso # job.source
              \/ /\ pc' = "stage" /\ ~run'.resume
                 /\ job.owned # NotCaptured /\ target \notin placed
                 /\ run'.replaces # NoFile => run'.replaces = job.owned
                 /\ run'.replace <=> run'.replaces # NoFile
  <1>0. /\ run \in Runs /\ job \in Records /\ Judged /\ TargetNew /\ RecordPlaced(job)
        /\ run.owned # NotCaptured /\ NoFile \notin placed /\ Control
    BY Typed, OwnedKnown DEF IInv, PlacedNow, RecordGood
  <1>1. pc = "permit" /\ ~run.kept
    BY <1>0 DEF Permit, Control
  <1>2. UNCHANGED <<job, target, placed, muxed, granted, iso, arrived>>
    BY DEF Permit, FilesUnchanged, StepUnchanged, library, queue
  <1>3. iso = job.source => /\ job.owned = run.owned
                            /\ run.fresh /\ job.unproven => FALSE
    BY <1>0, <1>1 DEF Judged, Planning
  <1>4. ASSUME iso = job.source, run.owned = target, target # NoFile, ~job.staged
        PROVE  target \notin placed
    BY <1>0, <1>1, <1>3, <1>4 DEF TargetNew, RecordPlaced
  <1>5. CASE FailRun
    BY <1>1, <1>2, <1>5 DEF FailRun, End, NoRun
  <1>6. ASSUME NEW replace \in BOOLEAN,
               run' = [run EXCEPT !.replace = replace,
                                  !.replaces = IF replace THEN run.owned ELSE NoFile,
                                  !.resume = job.staged, !.owned = NoFile, !.fresh = FALSE,
                                  !.current = FALSE]
        PROVE  /\ run'.replace = replace /\ run'.resume = job.staged /\ run'.kept = run.kept
               /\ run'.replaces = IF replace THEN run.owned ELSE NoFile
    BY <1>0, <1>6 DEF Runs
  <1>7. CASE job.staged /\ pc' = "resume" /\ run'.resume = job.staged /\ run'.kept = run.kept
    BY <1>0, <1>2, <1>3, <1>7
  <1>8. CASE /\ ~job.staged /\ ~Unowned(run.owned)
             /\ target \in {NoFile, run.owned} /\ iso = job.source
             /\ pc' = "stage" /\ run'.resume = job.staged /\ run'.kept = run.kept
             /\ run'.replace = (target # NoFile)
             /\ run'.replaces = IF target # NoFile THEN run.owned ELSE NoFile
    BY <1>0, <1>2, <1>3, <1>4, <1>8
  <1> QED
    BY <1>5, <1>6, <1>7, <1>8 DEF Permit, Goto

LEMMA BeforeLandingMakes ==
    ASSUME IInv, BeforeLanding
    PROVE  run'.recorded \in {run.recorded, partial} /\ UNCHANGED muxed
  <1>1. run \in Runs
    BY Typed DEF IInv
  <1> QED
    BY <1>1 DEF Runs, BeforeLanding, FilesUnchanged, library

\* The last look: only the file it found may be replaced.
LEMMA RecheckMakes ==
    ASSUME IInv, Recheck
    PROVE  /\ UNCHANGED <<job, disk, target, partial, stage, kept, sidecar, placed, granted, arrived,
                          run.before, run.replace, Carried>>
           /\ pc = "recheck"
           /\ \/ pc' = "undo"
              \/ pc' = "land" /\ ~TargetExists /\ run.flag = "none"
  <1>1. run \in Runs
    BY Typed DEF IInv
  <1>2. UNCHANGED <<run.before, run.replace, Carried>>
    BY <1>1 DEF Runs, Recheck, Fault, Carried
  <1> QED
    BY <1>2 DEF Recheck, Fault, Goto, FilesUnchanged, library, staging, queue, ShouldCancel

LEMMA UndoMakes ==
    ASSUME IInv, Undo
    PROVE  /\ UNCHANGED <<job, disk, kept, sidecar, run.resume, run.recorded, run.flag>>
           /\ pc = "undo" /\ ~run.kept
           /\ \/ /\ pc' = "keep" /\ ~run.resume /\ ~run'.kept /\ stage' = stage
                 /\ run.flag # "refused"
              \/ pc' = "arms" /\ ~run.resume /\ ~run'.kept
              \/ pc' = "arms" /\ run.resume /\ (run'.kept => run.flag = "none")
  <1>1. run \in Runs
    BY Typed DEF IInv
  <1>2. pc = "undo" /\ ~run.kept
    BY DEF IInv, Control, Undo
  <1>3. UNCHANGED <<job, disk, kept, sidecar, run.resume, run.recorded, run.flag>>
    BY <1>1 DEF Runs, Undo, queue
  <1>4. CASE run.resume
    <2>1. run'.kept = Keeps(FALSE)
      BY <1>1, <1>4 DEF Runs, Undo
    <2> QED
      BY <1>2, <1>3, <1>4, <2>1 DEF Undo, Goto, Keeps, ShouldCancel
  <1>5. CASE ~run.resume
    BY <1>2, <1>3, <1>5 DEF Undo, Goto, Keeps, ShouldCancel
  <1> QED
    BY <1>4, <1>5

\* Letting go of the kept file clears the output that names it, taking one does not.
LEMMA SetStagedFields ==
    ASSUME NEW j \in Records, NEW keep \in BOOLEAN
    PROVE  /\ SetStaged(j, keep).kept = keep
           /\ SetStaged(j, keep).staged <=> j.staged /\ (keep \/ ~j.kept)
           /\ SetStaged(j, keep).state = j.state
  BY DEF SetStaged, Records

\* A run that ends leaves no output with a dead path, and no kept file unoffered.
LEMMA FinishMakes ==
    ASSUME IInv, Finish
    PROVE  /\ job'.staged => job'.kept
           /\ Pair => job'.kept \/ job'.state = "done" \/ (~job.kept /\ run.ending # "done")
  <1>0. /\ job \in Records /\ (job.staged => job.kept) /\ pc = "finish"
    BY Typed DEF IInv, Offers, Finish
  <1>1. ASSUME NEW j \in Records, NEW keep \in BOOLEAN, j.staged => j.kept,
               NEW s \in JobStates
        PROVE  /\ [SetStaged(j, keep) EXCEPT !.state = s].staged
                      => [SetStaged(j, keep) EXCEPT !.state = s].kept
               /\ [SetStaged(j, keep) EXCEPT !.state = s].kept = keep
    <2>1. SetStaged(j, keep) \in Records
      BY SetStagedTyped, <1>1
    <2>2. /\ [SetStaged(j, keep) EXCEPT !.state = s].staged = SetStaged(j, keep).staged
          /\ [SetStaged(j, keep) EXCEPT !.state = s].kept = SetStaged(j, keep).kept
      BY <2>1 DEF Records
    <2> QED
      BY <1>1, <2>2, SetStagedFields
  <1>2. CASE run.ending = "done" /\ FinishDone
    <2> DEFINE ended == [job EXCEPT !.state = "done"]
    <2>1. ended \in Records /\ ended.staged = job.staged /\ ended.kept = job.kept /\ ended.state = "done"
      BY <1>0, NamesTyped DEF Records
    <2>2. job' = SetStaged(ended, FALSE)
      BY <1>2 DEF FinishDone, Save
    <2> HIDE DEF ended
    <2> QED
      BY <1>0, <2>1, <2>2, SetStagedFields
  <1>3. StillKept \in BOOLEAN /\ (Pair /\ job.kept => StillKept)
    BY <1>0 DEF StillKept, Records, Pair, IInv, Shape, Sidecars, Runs
  <1>4. ASSUME NEW s \in JobStates, job' = [SetStaged(job, StillKept) EXCEPT !.state = s],
               run.ending # "done"
        PROVE  /\ job'.staged => job'.kept
               /\ Pair => job'.kept \/ job'.state = "done" \/ (~job.kept /\ run.ending # "done")
    BY <1>0, <1>1, <1>3, <1>4
  <1>5. CASE run.ending = "cancelled" /\ FinishCancelled
    <2>1. CASE job.kept
      BY <1>4, <1>5, <2>1, NamesTyped DEF FinishCancelled, Failed, Save
    <2>2. CASE ~job.kept
      BY <1>5, <2>2 DEF FinishCancelled, Save, NoJob
    <2> QED
      BY <2>1, <2>2
  <1>6. CASE run.ending = "preempted" /\ Save({}, Requeued(job))
    <2>1. job'.staged = job.staged /\ job'.kept = job.kept
      BY <1>0, <1>6 DEF Save, Requeued, Records
    <2> QED
      BY <1>0, <1>6, <2>1
  <1>7. CASE run.ending \in {"failed", "stalled"} /\ FinishFailed
    BY <1>4, <1>7, NamesTyped DEF FinishFailed, Requeued, Failed, Save
  <1> QED
    BY <1>2, <1>5, <1>6, <1>7 DEF Finish

\* A delivery whose source changed leaves its file offered, or released.
LEMMA ArmSourceChangedMakes ==
    ASSUME IInv, ArmSourceChanged
    PROVE  /\ job'.staged => job'.kept
           /\ job'.kept \/ released' \/ (~run.kept /\ released' = released /\ job'.kept = job.kept)
           /\ UNCHANGED <<kept, sidecar, placed, job.state>>
           /\ pc = "arms" /\ pc' = "finish"
  <1>0. /\ job \in Records /\ (job.staged => job.kept) /\ pc = "arms"
    BY Typed DEF IInv, Offers, ArmSourceChanged
  <1> DEFINE unsure == [job EXCEPT !.unproven = TRUE, !.staged = TRUE, !.out = "failed"]
             failed == OutputFailed(job)
  <1>1. unsure \in Records /\ unsure.state = job.state
    BY <1>0, NamesTyped DEF Records
  <1>2. SetStaged(unsure, TRUE).kept /\ SetStaged(unsure, TRUE).state = job.state
    <2> HIDE DEF unsure
    <2> QED
      BY <1>1, SetStagedFields
  <1>3. failed.kept = job.kept /\ failed.staged = job.staged /\ failed.state = job.state
    BY <1>0 DEF Records, OutputFailed, FinishOutput
  <1>4. UNCHANGED <<kept, sidecar, placed>> /\ pc = "arms" /\ pc' = "finish"
    BY DEF ArmSourceChanged, Unkept, library
  <1>5. \/ job' = failed /\ ~run.kept /\ released' = released
        \/ job' = SetStaged(unsure, TRUE)
        \/ job' = failed /\ released'
    <2> HIDE DEF failed, unsure
    <2>1. OutputFailed(job) = failed
      BY DEF failed
    <2>2. [job EXCEPT !.unproven = TRUE, !.staged = TRUE, !.out = "failed"] = unsure
      BY DEF unsure
    <2> QED
      BY <2>1, <2>2 DEF ArmSourceChanged, Save, SaveOk
  <1> HIDE DEF failed, unsure
  <1> QED
    BY <1>0, <1>2, <1>3, <1>4, <1>5

-----------------------------------------------------------------------------
(* The records stay good *)

LEMMA RunningPlaces ==
    {"planning", "start", "scan", "own", "admit", "begin", "link_done", "look", "link_landed",
     "permit", "stage", "mux", "resume", "copy", "announce", "recheck", "land", "clear", "landed",
     "undo", "keep", "sidecar", "arms"} \subseteq Running \ {"link", "settle", "finish"}
  BY DEF Running, Places

\* Nothing a record speaks of is taken away with a kept file.
LEMMA GoodWithoutKept ==
    ASSUME IInv, UNCHANGED <<job, disk, target, muxed, placed, iso, link, granted>>,
           kept' = NoFile \/ UNCHANGED <<kept, sidecar>>
    PROVE  RecordGood(job)' /\ RecordGood(disk)'
  <1>1. RecordGood(job)'
    BY SMT, Typed
    DEF IInv, RecordGood, RecordSound, RecordTrue, Muxed, Proven, Pair, RecordPlaced, Vouches,
        RecordOurs, Ours
  <1>2. RecordGood(disk)'
    BY SMT, Typed
    DEF IInv, RecordGood, RecordSound, RecordTrue, Muxed, Proven, Pair, RecordPlaced, Vouches,
        RecordOurs, Ours
  <1> QED
    BY <1>1, <1>2

\* What others do to the target or to the ISO makes no record wrong.
LEMMA OutsideKeepsGood ==
    ASSUME IInv, Intrude \/ RemoveTarget \/ ReplaceIso
    PROVE  RecordGood(job)' /\ RecordGood(disk)'
  <1> USE DEF IInv, RecordGood
  <1>1. CASE Intrude
    <2> USE <1>1, Typed, NewFileApart, NotCapturedApart
        DEF Intrude, OutsideUnchanged, queue, staging
    <2>1. RecordSound(job)' /\ RecordSound(disk)'
      BY SMT DEF RecordSound
    <2>2. RecordTrue(job)' /\ RecordTrue(disk)'
      BY SMT DEF RecordTrue, Muxed, Proven, Pair
    <2>3. RecordPlaced(job)'
      BY SMT DEF RecordPlaced, Vouches, Pair
    <2>4. RecordPlaced(disk)'
      BY SMT DEF RecordPlaced, Vouches, Pair
    <2>5. RecordOurs(job)' /\ RecordOurs(disk)'
      BY SMT DEF RecordOurs, Ours
    <2> QED
      BY <2>1, <2>2, <2>3, <2>4, <2>5
  <1> USE DEF RecordSound, RecordTrue, Muxed, Proven, Pair, RecordPlaced, Vouches, RecordOurs, Ours
  <1>2. CASE RemoveTarget
    <2> USE <1>2, Typed, NotCapturedApart DEF RemoveTarget, OutsideUnchanged, queue, staging
    <2>1. RecordGood(job)'
      BY SMT
    <2>2. RecordGood(disk)'
      BY SMT
    <2> QED
      BY <2>1, <2>2
  <1>3. CASE ReplaceIso
    <2> USE <1>3, Typed, NewIsoApart DEF ReplaceIso, OutsideUnchanged, queue, staging
    <2>1. RecordGood(job)'
      BY SMT
    <2>2. RecordGood(disk)'
      BY SMT
    <2> QED
      BY <2>1, <2>2
  <1> QED
    BY <1>1, <1>2, <1>3

\* Nor does what a run does to its own files.
LEMMA FilesKeepGood ==
    ASSUME IInv, Mux \/ Copy \/ Resume \/ Clear \/ Keep \/ KeepSidecar
    PROVE  RecordGood(job)' /\ RecordGood(disk)'
  <1>1. CASE Resume
    BY <1>1, GoodWithoutKept DEF Resume, library, queue, staging, StepUnchanged
  <1>2. CASE Clear
    BY <1>2, GoodWithoutKept DEF Clear, library, queue, staging, StepUnchanged
  <1> USE Typed
      DEF IInv, RecordGood, RecordSound, RecordTrue, Muxed, Proven, Pair, RecordPlaced, Vouches,
          RecordOurs, Ours
  <1>3. CASE Mux
    <2>1. RecordGood(job)'
      BY SMT, <1>3, MuxMakes
    <2>2. RecordGood(disk)'
      BY SMT, <1>3, MuxMakes
    <2> QED
      BY <2>1, <2>2
  <1>4. CASE Copy
    <2>1. RecordGood(job)'
      BY SMT, <1>4, CopyMakes
    <2>2. RecordGood(disk)'
      BY SMT, <1>4, CopyMakes
    <2> QED
      BY <2>1, <2>2
  <1>5. CASE Keep \/ KeepSidecar
    <2>1. ~job.staged /\ ~disk.staged
      BY <1>5, RunningPlaces DEF Keep, KeepSidecar, Delivery, Synced, Control
    <2> USE <1>5, <2>1 DEF Keep, KeepSidecar, library, queue, StepUnchanged
    <2>2. RecordGood(job)'
      BY SMT
    <2>3. RecordGood(disk)'
      BY SMT
    <2> QED
      BY <2>2, <2>3
  <1> QED
    BY <1>1, <1>2, <1>3, <1>4, <1>5

\* The rename: the file it puts in place is the recorded one.
LEMMA LandKeepsGood ==
    ASSUME IInv, Land
    PROVE  RecordGood(job)' /\ RecordGood(disk)'
  <1>0. /\ pc = "land" /\ UNCHANGED <<job, disk, muxed, kept, sidecar, iso, link>>
        /\ granted' = (granted /\ target' = target)
        /\ \/ target' = partial /\ placed' = IF Planned THEN placed \cup {partial} ELSE placed
           \/ UNCHANGED <<target, placed>>
    BY DEF Land, queue, staging, StepUnchanged
  <1>1. /\ partial # NoFile /\ muxed[partial] # NoIso
        /\ target \notin placed
        /\ job.owned = partial => job.unproven
        /\ job.owned = NotCaptured /\ Planned => iso # job.source
        /\ Planned => /\ job.landing = partial /\ disk = job /\ (Pair /\ job.owned = kept => job.unproven \/ ~job.staged)
        /\ ~Planned => disk.source = job.source
    BY <1>0, RunningPlaces, Typed
    DEF IInv, Truth, AllMuxed, Muxed, PlacedNow, TargetNew, Captured, BaselineApart, Delivery, Synced,
        RecordGood, RecordPlaced, Delivering
  <1>2. NotCaptured # partial
    BY SMT, Typed, MaxFileAssumption DEF IInv, Shape, Counters, Known, NotCaptured
  <1>3. CASE UNCHANGED <<target, placed>>
    <2>1. UNCHANGED Evidence \/ granted' # granted
      BY <1>0, <1>3 DEF Evidence
    <2>2. granted' = granted
      BY <1>0, <1>3 DEF IInv, Shape, StopsTyped
    <2> QED
      BY <1>0, <1>3, <2>1, <2>2, JobStaysGood, DiskStaysGood DEF IInv, NoMore
  <1>4. CASE /\ target' = partial /\ ~Planned /\ placed' = placed
    <2>1. /\ job.source = NoIso /\ disk.source = NoIso /\ job.landing = NoFile /\ disk.landing = NoFile
          /\ ~job.staged /\ ~disk.staged /\ job.owned = NotCaptured /\ disk.owned = NotCaptured
          /\ iso # NoIso
      BY <1>1, <1>4, NotCapturedApart DEF Planned, IInv, RecordGood, RecordSound
    <2> USE <1>0, <1>1, <1>2, <1>4, <2>1
        DEF IInv, RecordGood, RecordSound, RecordTrue, Muxed, Proven, RecordPlaced, Vouches, RecordOurs
    <2>2. RecordGood(job)'
      BY SMT
    <2>3. RecordGood(disk)'
      BY SMT
    <2> QED
      BY <2>2, <2>3
  <1>5. CASE /\ target' = partial /\ Planned /\ placed' = placed \cup {partial}
    <2> USE <1>0, <1>1, <1>2, <1>5
    <2>1. RecordSound(job)' /\ RecordTrue(job)'
      BY SMT DEF IInv, RecordGood, RecordSound, RecordTrue, Muxed, Proven, Pair
    <2>2. RecordPlaced(job)'
      BY SMT, NotCapturedApart DEF IInv, RecordGood, RecordPlaced, Vouches, Pair, Planned
    <2>3. RecordOurs(job)'
      BY SMT DEF RecordOurs, Ours
    <2>4. RecordGood(job)'
      BY <2>1, <2>2, <2>3 DEF RecordGood
    <2>5. disk' = job'
      OBVIOUS
    <2> QED
      BY <2>4, <2>5
  <1> QED
    BY <1>0, <1>3, <1>4, <1>5

\* A record of a landing gives it up only with its link, and is done only with one.
LEMMA LinksKeepGood ==
    ASSUME IInv, LinkDone \/ LinkLanded \/ Link
    PROVE  RecordGood(job)' /\ RecordGood(disk)'
  <1>0. /\ UNCHANGED <<target, muxed, placed, kept, sidecar, iso, granted>>
        /\ job \in Records /\ disk \in Records /\ NoFile \notin placed
        /\ Planned /\ disk.source = job.source /\ disk.unproven = job.unproven
        /\ job.state # "none"
    BY Typed, RunningPlaces, NamesTyped
    DEF IInv, Control, Synced, LinkDone, LinkLanded, Link, FilesUnchanged, StepUnchanged, library,
        staging, Running, Places
  <1> DEFINE done == FinishOutput(job, "done")
  <1>1. /\ done.source = job.source /\ done.unproven = job.unproven /\ done.owned = job.owned
        /\ done.staged = job.staged /\ done.landing = NoFile /\ done.state = job.state
        /\ done.out = "done"
    BY <1>0 DEF FinishOutput, Records
  <1> HIDE DEF done
  <1> USE <1>0
      DEF IInv, RecordGood, RecordSound, RecordTrue, Muxed, Proven, RecordPlaced, Vouches,
          RecordOurs, Ours, Pair
  <1>2. CASE LinkDone
    <2>1. UNCHANGED <<job, disk>>
      BY <1>2 DEF LinkDone, queue
    <2>2. \/ link' = link
          \/ ~LandedByThisJob /\ link'.stamp = NoFile
      BY <1>2 DEF LinkDone, LinkOk, LinkError, RecordLink
    <2>3. RecordGood(job)'
      BY SMT, <2>1, <2>2 DEF LandedByThisJob
    <2>4. RecordGood(disk)'
      BY SMT, <2>1, <2>2 DEF LandedByThisJob
    <2> QED
      BY <2>3, <2>4
  <1>3. ASSUME NEW f, link' = RecordLink(f)
        PROVE  ~job.unproven => link'.at /\ link'.stamp = f /\ link'.source = job.source
    BY <1>3 DEF RecordLink, OutputSource, Planned
  <1>4. ASSUME NEW f, link' \in {link, RecordLink(f)}, placed # {},
               target \in placed => target = f /\ (link' = link => f = job.landing),
               \/ UNCHANGED <<job, disk>>
               \/ link' = RecordLink(f) /\ job' = done /\ disk' \in {disk, done}
        PROVE  RecordGood(job)' /\ RecordGood(disk)'
    <2>1. CASE UNCHANGED <<job, disk>> /\ link' = link
      BY <2>1, JobStaysGood, DiskStaysGood DEF NoMore, Evidence
    <2>2. CASE UNCHANGED <<job, disk>> /\ link' = RecordLink(f)
      <3>1. RecordGood(job)'
        BY SMT, <1>3, <1>4, <2>2
      <3>2. RecordGood(disk)'
        BY SMT, <1>3, <1>4, <2>2
      <3> QED
        BY <3>1, <3>2
    <2>3. CASE link' = RecordLink(f) /\ job' = done
      <3>1. RecordGood(job)'
        BY SMT, <1>1, <1>3, <1>4, <2>3
      <3>2. ASSUME disk' = disk PROVE RecordGood(disk)'
        BY SMT, <1>3, <1>4, <2>3, <3>2
      <3>3. CASE disk' = done
        BY <2>3, <3>1, <3>3
      <3> QED
        BY <1>4, <2>3, <3>1, <3>2, <3>3
    <2> QED
      BY <1>4, <2>1, <2>2, <2>3
  <1>5. CASE LinkLanded
    <2>1. placed # {} /\ (target \in placed => target = job.landing)
      BY <1>5 DEF PlacedNow, LandedHasPlaced, LinkLanded
    <2> QED
      BY <1>4, <1>5, <2>1 DEF LinkLanded, LinkOk, LinkError, Save, queue, done
  <1>6. CASE Link
    <2>1. /\ placed # {} /\ (target \in placed => target = run.recorded)
          /\ run.recorded = job.landing
      BY <1>0, <1>6 DEF PlacedNow, HasPlaced, Link, Delivery
    <2> QED
      BY <1>4, <1>6, <2>1 DEF Link, LinkOk, LinkError, Save, queue, done
  <1> QED
    BY <1>2, <1>5, <1>6

\* A good record that is written, and what claims no more than it.
LEMMA WrittenGood ==
    ASSUME Shape, RecordGood(job), RecordGood(disk), UNCHANGED Evidence,
           NEW new, RecordGood(new),
           NoMore(job', new) \/ NoMore(job', job),
           NoMore(disk', new) \/ NoMore(disk', job) \/ NoMore(disk', disk)
    PROVE  RecordGood(job)' /\ RecordGood(disk)'
  <1>1. RecordGood(NoJob)
    BY NoJobGood
  <1>2. ASSUME NEW i, NEW j, RecordGood(j), NoMore(i, j)
        PROVE  RecordGood(i)
    BY SMT, <1>1, <1>2
    DEF RecordGood, RecordSound, RecordTrue, Muxed, Proven, Pair, RecordPlaced, Vouches,
        RecordOurs, Ours, NoMore, Weaker
  <1>4. RecordGood(job')
    BY <1>2
  <1>5. RecordGood(disk')
    BY <1>2
  <1>6. RecordGood(job)'
    BY SMT, <1>4
    DEF RecordGood, RecordSound, RecordTrue, Muxed, Proven, Pair, RecordPlaced, Vouches,
        RecordOurs, Ours, Evidence
  <1>7. RecordGood(disk)'
    BY SMT, <1>5
    DEF RecordGood, RecordSound, RecordTrue, Muxed, Proven, Pair, RecordPlaced, Vouches,
        RecordOurs, Ours, Evidence
  <1> QED
    BY <1>6, <1>7

\* Planning: the plan is for the ISO there is, and a landing is only found where one was.
LEMMA PlanKeepsGood ==
    ASSUME IInv, FreezePlan \/ CaptureOwned \/ Look
    PROVE  RecordGood(job)' /\ RecordGood(disk)'
  <1>0. /\ job \in Records /\ disk \in Records /\ run \in Runs /\ NoFile \notin placed
        /\ UNCHANGED <<target, muxed, placed, kept, sidecar, iso, link>>
        /\ iso # NoIso /\ target # NotCaptured /\ NoFile # NotCaptured
        /\ job.state # "none"
    BY Typed, OwnedKnown, RunningPlaces, NotCapturedApart
    DEF IInv, Control, FreezePlan, CaptureOwned, Look, FilesUnchanged, StepUnchanged, library, staging
  <1>1. CASE FreezePlan
    <2> DEFINE new == [job EXCEPT !.source = iso]
    <2>1. /\ new.source = iso /\ new.landing = job.landing /\ new.owned = job.owned
          /\ new.unproven = job.unproven /\ new.staged = job.staged /\ new.out = job.out
          /\ new.state = job.state
      BY <1>0 DEF Records
    <2>2. /\ job' \in {job, new} /\ disk' \in {disk, new} /\ granted' = granted
      BY <1>1 DEF FreezePlan, SaveOk, SaveError, queue
    <2>3. /\ ~Planned /\ job.landing = NoFile /\ ~job.staged /\ job.owned = NotCaptured
          /\ ~job.unproven /\ job.out # "done" /\ placed = {}
      BY <1>0, <1>1 DEF IInv, Control, FreezePlan, Planned, RecordGood, RecordSound, RecordPlaced
    <2> HIDE DEF new
    <2>4. RecordGood(new)
      BY SMT, <1>0, <2>1, <2>3
      DEF RecordGood, RecordSound, RecordTrue, Muxed, Proven, RecordPlaced, Vouches, RecordOurs, NoJob
    <2> QED
      BY <1>0, <2>2, <2>4, WrittenGood DEF IInv, NoMore, Evidence
  <1>2. CASE Look
    <2> DEFINE new == FinishOutput(job, "done")
    <2>1. /\ new.source = job.source /\ new.landing = NoFile /\ new.owned = job.owned
          /\ new.unproven = job.unproven /\ new.staged = job.staged /\ new.out = "done"
          /\ new.state = job.state
      BY <1>0 DEF FinishOutput, Records
    <2>2. CASE UNCHANGED queue
      BY <1>0, <1>2, <2>2, JobStaysGood, DiskStaysGood
      DEF Look, FilesUnchanged, library, IInv, NoMore, Evidence, queue
    <2>3. CASE /\ ~LandedBefore /\ run.owned = NoFile /\ target # NoFile /\ run.current
               /\ LandedByThisJob /\ Save({}, new)
      <3>1. job.source = iso /\ job.owned = NoFile /\ Vouches(job)
        BY <1>0, <1>2, <2>3
        DEF Look, IInv, Truth, LinkTrue, PlacedNow, StillCurrent, Judged, Planning, LandedByThisJob,
            Vouches
      <3>2. placed # {}
        BY <1>0, <2>3, <3>1 DEF IInv, RecordGood, RecordPlaced
      <3> HIDE DEF new
      <3>3. RecordGood(new)
        BY SMT, <1>0, <2>1, <3>1, <3>2
        DEF IInv, RecordGood, RecordSound, RecordTrue, Muxed, Proven, RecordPlaced, Vouches,
            RecordOurs, Ours
      <3> QED
        BY <1>0, <1>2, <2>3, <3>3, WrittenGood
        DEF Look, IInv, NoMore, Evidence, Save
    <2> QED
      BY <1>2, <2>2, <2>3 DEF Look
  <1>3. CASE CaptureOwned
    <2> DEFINE new == [job EXCEPT !.owned = OwnedNow]
    <2>1. /\ new.source = job.source /\ new.landing = job.landing /\ new.owned = OwnedNow
          /\ new.unproven = job.unproven /\ new.staged = job.staged /\ new.out = job.out
          /\ new.state = job.state
      BY <1>0 DEF Records
    <2>2. CASE UNCHANGED queue /\ UNCHANGED granted
      BY <1>0, <1>3, <2>2, JobStaysGood, DiskStaysGood DEF IInv, NoMore, Evidence, queue
    <2>3. CASE /\ run.current /\ ~run.error /\ job.owned = NotCaptured
               /\ granted' = (granted \/ (job.replace /\ OwnedNow # NoFile))
               /\ job' \in {job, new} /\ disk' \in {disk, new}
      <3>1. Planned /\ placed = {} /\ job.landing = NoFile
        BY <1>3, <2>3 DEF IInv, PlacedNow, StillCurrent, CaptureOwned, Control, Planning
      <3>2. job.staged => job.unproven
        BY <2>3 DEF IInv, RecordGood, RecordPlaced
      <3>3. job.out # "done"
        BY <3>1 DEF IInv, RecordGood, RecordPlaced
      <3>4. OwnedNow # NoFile => /\ OwnedNow = target
                                 /\ muxed[target] # NoIso \/ granted'
        BY <2>3 DEF OwnedNow, Vouched, IInv, Truth, AllMuxed, Muxed
      <3>5. OwnedNow = NoFile /\ target # NoFile => ~Vouches(job) \/ job.source # iso
        BY DEF OwnedNow, Vouched, Vouches
      <3>6. granted => granted'
        BY <2>3
      <3> HIDE DEF new
      <3> USE <1>0, <2>1, <3>6
          DEF RecordGood, RecordSound, RecordTrue, Muxed, Proven, Pair, RecordPlaced, Vouches,
              RecordOurs, Ours
      <3>7. ASSUME job' = new PROVE RecordGood(job)'
        BY SMT, <3>1, <3>2, <3>3, <3>4, <3>5, <3>7 DEF Planned
      <3>8. ASSUME job' = job PROVE RecordGood(job)'
        BY SMT, <3>8 DEF IInv
      <3>9. ASSUME disk' = new PROVE RecordGood(disk)'
        BY SMT, <3>1, <3>2, <3>3, <3>4, <3>5, <3>9 DEF Planned
      <3>10. ASSUME disk' = disk PROVE RecordGood(disk)'
        BY SMT, <3>10 DEF IInv
      <3> QED
        BY <2>3, <3>7, <3>8, <3>9, <3>10
    <2> QED
      BY <1>3, <2>2, <2>3 DEF CaptureOwned, SaveOk, SaveError, queue
  <1> QED
    BY <1>1, <1>2, <1>3

\* The landing that is about to happen holds what the record says.
LEMMA BeforeLandingKeepsGood ==
    ASSUME IInv, BeforeLanding
    PROVE  RecordGood(job)' /\ RecordGood(disk)'
  <1> DEFINE new == [job EXCEPT !.landing = partial]
  <1>0. /\ job \in Records /\ pc = "announce" /\ UNCHANGED Evidence
        /\ partial # NoFile
    BY Typed
    DEF IInv, BeforeLanding, FilesUnchanged, StepUnchanged, library, staging, Evidence, Delivery
  <1>1. /\ new.source = job.source /\ new.landing = partial /\ new.owned = job.owned
        /\ new.unproven = job.unproven /\ new.staged = job.staged /\ new.out = job.out
        /\ new.state = job.state
    BY <1>0 DEF Records
  <1>2. CASE UNCHANGED queue
    BY <1>0, <1>2, JobStaysGood, DiskStaysGood DEF IInv, NoMore, queue
  <1>3. CASE /\ Planned /\ (run.resume \/ iso = job.source)
             /\ job' \in {job, new} /\ disk' \in {disk, new}
    <2>1. muxed[partial] # NoIso /\ target # partial /\ target \notin placed
      BY <1>0 DEF IInv, Truth, AllMuxed, Muxed, PlacedNow, TargetNew
    <2>2. job.owned = NotCaptured => iso # job.source
      BY <1>0, <1>3 DEF IInv, PlacedNow, Captured
    <2>3. ~job.unproven => muxed[partial] = job.source
      <3>1. CASE run.resume
        BY <1>0, <1>3, <3>1
        DEF IInv, Delivery, Delivering, Truth, CopyTrue, Local, RecordGood, RecordTrue, Proven, Planned
      <3>2. CASE ~run.resume
        BY <1>0, <1>3, <3>2 DEF IInv, Truth, MadeTrue, CopyTrue, Local, Delivering
      <3> QED
        BY <3>1, <3>2
    <2>4. job.state # "none"
      BY <1>0, RunningPlaces DEF IInv, Control
    <2> HIDE DEF new
    <2>5. RecordGood(new)
      BY SMT, <1>0, <1>1, <1>3, <2>1, <2>2, <2>3, <2>4
      DEF IInv, RecordGood, RecordSound, RecordTrue, Muxed, Proven, RecordPlaced, Vouches,
          RecordOurs, Ours, Planned
    <2> QED
      BY <1>0, <1>3, <2>5, WrittenGood DEF IInv, NoMore
  <1> QED
    BY <1>2, <1>3 DEF BeforeLanding, SaveOk, SaveError, queue

LEMMA SetStagedWeaker ==
    ASSUME NEW j \in Records, NEW keep \in BOOLEAN, j.state # "none"
    PROVE  Weaker(SetStaged(j, keep), j)
  BY DEF SetStaged, Records, Weaker

\* A failed output whose file is kept: with proof only what was muxed from the planned ISO.
LEMMA ArmsKeepGood ==
    ASSUME IInv, ArmSourceChanged \/ ArmOther
    PROVE  RecordGood(job)' /\ RecordGood(disk)'
  <1>0. /\ job \in Records /\ pc = "arms" /\ Planned /\ UNCHANGED Evidence /\ job.state # "none"
        /\ NotCaptured # NoFile
    BY Typed, RunningPlaces, NotCapturedApart
    DEF IInv, ArmSourceChanged, ArmOther, FilesUnchanged, StepUnchanged, library, staging, Evidence,
        Control
  <1>1. \A j \in Records :
            /\ OutputFailed(j).source = j.source /\ OutputFailed(j).landing = j.landing
            /\ OutputFailed(j).owned = j.owned /\ OutputFailed(j).unproven = j.unproven
            /\ OutputFailed(j).staged = j.staged /\ OutputFailed(j).out = "failed"
            /\ OutputFailed(j).state = j.state
    BY DEF OutputFailed, FinishOutput, Records
  <1>2. \A j \in Records : j.state # "none" => Weaker(OutputFailed(j), j)
    BY <1>1 DEF Weaker
  <1>4. CASE ArmSourceChanged
    <2> DEFINE unsure == [job EXCEPT !.unproven = TRUE, !.staged = TRUE, !.out = "failed"]
    <2>1. /\ unsure.source = job.source /\ unsure.landing = job.landing
          /\ unsure.owned = job.owned /\ unsure.unproven /\ unsure.staged
          /\ unsure.out = "failed" /\ unsure.state = job.state /\ unsure \in Records
      BY <1>0, NamesTyped DEF Records
    <2>2. \/ job' \in {job, OutputFailed(job)} /\ disk' \in {disk, OutputFailed(job)}
          \/ job' = SetStaged(unsure, TRUE) /\ disk' \in {disk, SetStaged(unsure, TRUE)}
      BY <1>4 DEF ArmSourceChanged, Save, SaveOk
    <2> HIDE DEF unsure
    <2>3. RecordGood(unsure)
      BY SMT, <1>0, <2>1
      DEF IInv, RecordGood, RecordSound, RecordTrue, Muxed, Proven, RecordPlaced, Vouches,
          RecordOurs, Ours, Planned
    <2>4. NoMore(SetStaged(unsure, TRUE), unsure)
      BY <1>0, <2>1, SetStagedWeaker DEF NoMore
    <2>5. NoMore(OutputFailed(job), job) /\ NoMore(job, job) /\ NoMore(disk, disk)
      BY <1>0, <1>2 DEF NoMore
    <2> QED
      BY <1>0, <2>2, <2>3, <2>4, <2>5, WrittenGood DEF IInv
  <1>5. CASE ArmOther
    <2> DEFINE named == IF run.kept THEN [job EXCEPT !.staged = TRUE] ELSE job
               recorded == IF run.kept THEN SetStaged(named, Pair) ELSE named
    <2>1. /\ named.source = job.source /\ named.landing = job.landing
          /\ named.owned = job.owned /\ named.unproven = job.unproven
          /\ (named.staged <=> run.kept \/ job.staged)
          /\ named.out = job.out /\ named.state = job.state /\ named \in Records
      BY <1>0 DEF Records
    <2>2. /\ job' = OutputFailed(recorded)
          /\ disk' \in {disk, named, recorded, OutputFailed(recorded)}
      BY <1>5 DEF ArmOther, KeepStaged, Save
    <2>3. run.kept /\ ~job.staged =>
              /\ Pair /\ muxed[kept] = job.source /\ job.owned # kept
              /\ job.owned # NotCaptured
      BY <1>0, <1>5
      DEF IInv, ArmOther, SourceChanged, Truth, MadeTrue, PlacedNow, BaselineApart, Captured, Delivery
    <2> HIDE DEF named
    <2>4. RecordGood(named)
      BY SMT, <1>0, <2>1, <2>3
      DEF IInv, RecordGood, RecordSound, RecordTrue, Muxed, Proven, RecordPlaced, Vouches,
          RecordOurs, Ours, Planned
    <2>5. recorded \in Records /\ Weaker(recorded, named) /\ recorded.state = job.state
      <3>1. Pair \in BOOLEAN
        BY Typed DEF Pair, Sidecars, IInv
      <3> QED
        BY <1>0, <2>1, <3>1, SetStagedWeaker, SetStagedTyped, SetStagedFields DEF Weaker
    <2> HIDE DEF recorded
    <2>6. NoMore(OutputFailed(recorded), named)
      BY <1>0, <1>1, <2>1, <2>5 DEF NoMore, Weaker
    <2>7. NoMore(disk, disk) /\ NoMore(named, named) /\ NoMore(recorded, named)
      BY <2>5 DEF NoMore
    <2> QED
      BY <1>0, <2>2, <2>4, <2>5, <2>6, <2>7, WrittenGood DEF IInv
  <1> QED
    BY <1>4, <1>5

\* A new job takes the evidence of the one before only with its landing.
LEMMA AddsKeepGood ==
    ASSUME IInv, NEW replace, Add(replace) \/ AddFresh(replace)
    PROVE  RecordGood(job)' /\ RecordGood(disk)'
  <1>0. job \in Records /\ NoFile \notin placed /\ NotCaptured # NoFile /\ iso # NoIso
        /\ NotCaptured # target
    BY Typed, NotCapturedApart, OwnedKnown DEF IInv
  <1>1. ASSUME NEW new, NewJob(new), new.state = "queued", ~new.staged, new.out = "pending",
               \/ /\ new.landing = NoFile /\ new.owned = NotCaptured
                  /\ new.source = NoIso => ~new.unproven
               \/ /\ new.landing # NoFile /\ new.landing = job.landing
                  /\ new.source = job.source /\ new.source # NoIso
                  /\ (new.unproven <=> job.unproven)
                  /\ \/ new.owned = job.owned /\ job.owned # NotCaptured
                     \/ new.owned = NoFile /\ job.owned = NotCaptured
        PROVE  RecordGood(job)' /\ RecordGood(disk)'
    <2>1. /\ job' = new /\ disk' = new /\ placed' = IF new.landing = NoFile THEN {} ELSE placed
          /\ UNCHANGED <<target, muxed, kept, sidecar, iso, link, granted>>
      BY <1>1 DEF NewJob, SaveOk
    <2>2. RecordGood(job)'
      BY SMT, <1>0, <1>1, <2>1
      DEF IInv, RecordGood, RecordSound, RecordTrue, Muxed, Proven, RecordPlaced, Vouches,
          RecordOurs, Ours, Pair
    <2> QED
      BY <2>1, <2>2
  <1>2. CASE AddFresh(replace)
    <2> DEFINE new == AppendedFresh(replace)
    <2>1. /\ new.state = "queued" /\ ~new.staged /\ new.out = "pending" /\ new.landing = NoFile
          /\ new.owned = NotCaptured /\ ~new.unproven
      BY DEF AppendedFresh, NoJob
    <2>2. NewJob(new)
      BY <1>2 DEF AddFresh
    <2> HIDE DEF new
    <2> QED
      BY <1>1, <2>1, <2>2
  <1>3. CASE Add(replace)
    <2> DEFINE new == Appended(job, replace)
    <2>1. /\ new.state = "queued" /\ ~new.staged /\ new.out = "pending"
          /\ \/ /\ new.landing = NoFile /\ new.owned = NotCaptured
                /\ new.source = NoIso => ~new.unproven
             \/ /\ new.landing # NoFile /\ new.landing = job.landing
                /\ new.source = job.source /\ new.source # NoIso
                /\ new.unproven = job.unproven
                /\ \/ new.owned = job.owned /\ job.owned # NotCaptured
                   \/ new.owned = NoFile /\ job.owned = NotCaptured
      BY <1>0 DEF Appended, NoJob
    <2>2. NewJob(new)
      BY <1>3 DEF Add
    <2> HIDE DEF new
    <2> QED
      BY <1>1, <2>1, <2>2
  <1> QED
    BY <1>2, <1>3

\* A kept file that is thrown away is named by no record afterwards.
LEMMA DiscardKeepsGood ==
    ASSUME IInv, DiscardKept
    PROVE  RecordGood(job)' /\ RecordGood(disk)'
  <1>0. /\ job \in Records /\ job.state # "none"
        /\ UNCHANGED <<target, muxed, placed, iso, link, granted>>
        /\ kept' = NoFile \/ UNCHANGED <<kept, sidecar>>
    BY Typed DEF IInv, DiscardKept, WebUnchanged, library
  <1>1. NoMore(job', job) /\ disk' \in {job', disk}
    <2> DEFINE unstaged == [job EXCEPT !.staged = FALSE]
    <2>1. unstaged \in Records /\ Weaker(unstaged, job)
      BY <1>0 DEF Records, Weaker
    <2>2. NoMore(SetStaged(unstaged, FALSE), job)
      BY <1>0, <2>1 DEF SetStaged, NoMore, Weaker, Records
    <2> QED
      BY <1>0, <2>2 DEF DiscardKept, Save, NoMore
  <1>2. CASE UNCHANGED <<kept, sidecar>>
    <2>1. NoMore(disk', job) \/ NoMore(disk', disk)
      BY <1>1 DEF NoMore
    <2> QED
      BY <1>0, <1>1, <1>2, <2>1, JobStaysGood, DiskStaysGood DEF Evidence, IInv
  <1>3. CASE kept' = NoFile
    <2> USE <1>0, <1>3
        DEF IInv, RecordGood, RecordSound, RecordTrue, Muxed, Proven, Pair, RecordPlaced, Vouches,
            RecordOurs, Ours
    <2>1. RecordGood(job)'
      BY SMT, <1>1, NotCapturedApart DEF NoMore, Weaker, NoJob
    <2>2. RecordGood(disk)'
      BY SMT, <1>1, <2>1
    <2> QED
      BY <2>1, <2>2
  <1> QED
    BY <1>0, <1>2, <1>3

\* What a restart takes up again is what the queue file said.
LEMMA StartupKeepsGood ==
    ASSUME IInv, Startup
    PROVE  RecordGood(job)' /\ RecordGood(disk)'
  <1>0. /\ job \in Records /\ disk \in Records /\ NoFile \notin placed /\ NotCaptured # NoFile
        /\ iso # NoIso /\ NotCaptured # target /\ NotCaptured \notin placed /\ job = Loaded(disk)
        /\ UNCHANGED <<target, muxed, iso, link, granted>>
        /\ placed' = IF job.state = "none" THEN {} ELSE placed
    BY Typed, NotCapturedApart, OwnedKnown DEF IInv, Control, Startup
  <1>1. job.state = "none" => job = NoJob /\ disk = NoJob
    <2>1. job.state = "none" => disk.state = "none"
      BY <1>0 DEF Loaded, Requeued, Records
    <2> QED
      BY <2>1 DEF IInv, RecordGood, RecordSound
  <1>2. PICK found \in {Pair, FALSE} :
            /\ kept' = IF found THEN kept ELSE NoFile
            /\ sidecar' = IF found THEN sidecar ELSE NoSidecar
            /\ job' = Adopted(job, found) /\ disk' \in {disk, Adopted(job, found)}
    BY DEF Startup, Save
  <1> DEFINE new == Adopted(job, found)
  <1>3. CASE ~found
    <2>1. NoMore(new, job)
      <3> DEFINE unstaged == [job EXCEPT !.staged = FALSE]
      <3>1. unstaged \in Records /\ unstaged.state = job.state
        BY <1>0 DEF Records
      <3>2. CASE job.state # "none"
        <4>1. Weaker(unstaged, job)
          BY <1>0, <3>2 DEF Records, Weaker
        <4>2. Weaker(SetStaged(unstaged, FALSE), job) /\ SetStaged(unstaged, FALSE) \in Records
          <5> HIDE DEF unstaged
          <5> QED
            BY <1>0, <3>1, <3>2, <4>1, SetStagedTyped, SetStagedWeaker DEF Weaker
        <4>3. Weaker(Failed(SetStaged(unstaged, FALSE)), job)
          <5> HIDE DEF unstaged
          <5> QED
            BY <4>2 DEF Failed, Weaker, Records
        <4> QED
          BY <1>3, <4>2, <4>3 DEF Adopted, NoMore
      <3>3. CASE job.state = "none"
        <4>1. NoJob \in Records /\ ~NoJob.staged /\ ~NoJob.kept
          BY NoJobTyped DEF NoJob, IInv
        <4>2. \A j \in Records : ~j.staged => [j EXCEPT !.staged = FALSE] = j
          BY DEF Records
        <4>3. \A j \in Records : ~j.staged /\ ~j.kept => SetStaged(j, FALSE) = j
          BY DEF SetStaged, Records
        <4> QED
          BY <1>1, <1>3, <3>3, <4>1, <4>2, <4>3 DEF Adopted, NoMore
      <3> QED
        BY <3>2, <3>3
    <2>2. job' = new /\ disk' \in {disk, new} /\ kept' = NoFile
      BY <1>2, <1>3
    <2> HIDE DEF new
    <2> USE <1>0, <1>1, <2>2
        DEF IInv, RecordGood, RecordSound, RecordTrue, Muxed, Proven, Pair, RecordPlaced, Vouches,
            RecordOurs, Ours
    <2>3. ASSUME new = NoJob PROVE RecordGood(job)'
      BY SMT, <2>3 DEF NoJob
    <2>4. new = job => new = NoJob \/ Weaker(new, job)
      BY DEF Weaker
    <2>5. ASSUME Weaker(new, job) PROVE RecordGood(job)'
      BY SMT, <2>5 DEF Weaker
    <2>6. ASSUME disk' = disk PROVE RecordGood(disk)'
      BY SMT, <2>6 DEF NoJob
    <2>7. RecordGood(job)'
      BY <2>1, <2>3, <2>4, <2>5 DEF NoMore
    <2>8. disk' = disk \/ disk' = job'
      BY <2>2
    <2> QED
      BY <2>6, <2>7, <2>8
  <1>4. CASE found
    <2>1. Pair /\ UNCHANGED <<kept, sidecar>>
      BY <1>2, <1>4
    <2>2. \/ /\ job.state = "none" /\ new.state = "queued" /\ new.source = NoIso
             /\ new.landing = NoFile /\ ~new.staged /\ new.owned = NotCaptured
             /\ ~new.unproven /\ new.out = "pending"
          \/ /\ job.state # "none" /\ job.source = NoIso /\ new.state = "queued"
             /\ new.source = job.source /\ new.landing = job.landing /\ new.staged = job.staged
             /\ new.owned = job.owned /\ new.unproven = job.unproven /\ new.out = job.out
          \/ /\ job.state # "none" /\ job.source # NoIso /\ new.state = "queued"
             /\ new.source = job.source /\ new.landing = job.landing /\ new.staged
             /\ new.owned = job.owned /\ (new.unproven <=> job.unproven \/ ~job.staged)
             /\ new.out = "pending"
      BY <1>0, <1>1, <1>4 DEF Adopted, NoJob, Records
    <2> HIDE DEF new
    <2> USE <1>0, <1>1, <1>2, <2>1
        DEF IInv, RecordGood, RecordSound, RecordTrue, Muxed, Proven, Pair, RecordPlaced, Vouches,
            RecordOurs, Ours, new
    <2>3. RecordGood(job)'
      BY SMT, <2>2
    <2>4. ASSUME disk' = disk PROVE RecordGood(disk)'
      BY SMT, <2>4 DEF NoJob
    <2> QED
      BY <2>3, <2>4
  <1> QED
    BY <1>2, <1>3, <1>4

\* Every other step changes at most a record, to one that claims no more.
LEMMA QueueChangesWeaker ==
    ASSUME NEW j \in Records, j.state # "none"
    PROVE  /\ \A s \in JobStates \ {"none"} : Weaker([j EXCEPT !.state = s], j)
           /\ Weaker(OutputFailed(j), j)
           /\ \A o \in OutputStates \ {"done"} : Weaker([j EXCEPT !.out = o], j)
           /\ Weaker([j EXCEPT !.staged = FALSE], j)
  BY DEF Weaker, Records, OutputFailed, FinishOutput

LEMMA QuietKeepsGood ==
    ASSUME IInv,
           \/ Claim \/ StartRun \/ Validate \/ Admit \/ BeginOutput \/ Permit \/ Stage \/ Recheck
           \/ Landed \/ Undo \/ ArmRefused \/ ArmBare \/ Settle \/ Finish
           \/ RetryStagedNow \/ RemoveQueued \/ ClearFinished \/ StopAllClear \/ StopAllCancel
           \/ \E why \in Interrupts \ {"cancelled"} : Yield(why)
    PROVE  RecordGood(job)' /\ RecordGood(disk)'
  <1>0. /\ job \in Records /\ disk \in Records
        /\ Pair \in BOOLEAN
    BY Typed DEF IInv, Pair, Sidecars
  <1>1. UNCHANGED Evidence
    BY DEF Claim, StartRun, Validate, Admit, BeginOutput, Permit, Stage, Recheck, Landed, Undo,
           ArmRefused, ArmBare, Settle, Finish, RetryStagedNow, RemoveQueued, ClearFinished,
           StopAllClear, StopAllCancel, Yield, WebUnchanged, FilesUnchanged, StepUnchanged, library,
           staging, Evidence
  <1>2. ASSUME NoMore(job', job), NoMore(disk', job) \/ NoMore(disk', disk)
        PROVE  RecordGood(job)' /\ RecordGood(disk)'
    BY <1>1, <1>2, JobStaysGood, DiskStaysGood DEF IInv
  <1>3. CASE UNCHANGED queue
    BY <1>2, <1>3 DEF queue, NoMore
  <1>4. CASE StartRun \/ Validate \/ Admit \/ Permit \/ Stage \/ Recheck \/ Undo \/ ArmBare \/ Settle
             \/ StopAllCancel \/ \E why \in Interrupts \ {"cancelled"} : Yield(why)
    BY <1>3, <1>4
    DEF StartRun, Validate, Admit, Permit, Stage, Recheck, Undo, ArmBare, Settle, StopAllCancel, Yield
  <1>5. ASSUME NEW new, Weaker(new, job) \/ new = NoJob, Save({}, new)
        PROVE  RecordGood(job)' /\ RecordGood(disk)'
    BY <1>2, <1>5 DEF Save, NoMore
  <1>6. ASSUME NEW new, NEW step, Weaker(new, job) \/ new = NoJob, Weaker(step, job),
               Save({step}, new)
        PROVE  RecordGood(job)' /\ RecordGood(disk)'
    BY <1>2, <1>6 DEF Save, NoMore
  <1>7. CASE Claim
    <2>1. job.state # "none"
      BY <1>7 DEF Claim
    <2>2. Weaker(job', job)
      BY <1>0, <1>7, <2>1, QueueChangesWeaker, NamesTyped DEF Claim
    <2>3. disk' \in {job, job'}
      BY <1>7 DEF Claim
    <2> QED
      BY <1>2, <2>2, <2>3 DEF NoMore
  <1>8. ASSUME NEW keep \in BOOLEAN, NEW s \in {"queued", "failed", "done"}, job.state # "none"
        PROVE  /\ Weaker([SetStaged(job, keep) EXCEPT !.state = s], job)
               /\ Weaker(SetStaged(job, keep), job)
               /\ Weaker(SetStaged([job EXCEPT !.state = s], keep), job)
    <2> DEFINE kept_now == SetStaged(job, keep)
               ended == [job EXCEPT !.state = s]
    <2>1. kept_now \in Records /\ Weaker(kept_now, job)
      BY <1>0, <1>8, SetStagedTyped, SetStagedWeaker
    <2>2. Weaker([kept_now EXCEPT !.state = s], job)
      <3> HIDE DEF kept_now
      <3> QED
        BY <2>1 DEF Weaker, Records
    <2>3. ended \in Records /\ Weaker(ended, job) /\ ended.state # "none"
      BY <1>0, <1>8, QueueChangesWeaker, NamesTyped DEF Records
    <2>4. Weaker(SetStaged(ended, keep), job)
      <3> HIDE DEF ended
      <3> QED
        BY <2>3, SetStagedWeaker DEF Weaker
    <2> QED
      BY <2>1, <2>2, <2>4
  <1>9. CASE BeginOutput
    BY <1>3, <1>5, <1>9, <1>0, QueueChangesWeaker, RunningPlaces, NamesTyped
    DEF BeginOutput, IInv, Control
  <1>10. CASE Landed \/ ArmRefused
    <2>1. job.state # "none"
      BY <1>10, RunningPlaces DEF Landed, ArmRefused, IInv, Control
    <2>2. CASE ArmRefused
      BY <1>0, <1>5, <2>1, <2>2, QueueChangesWeaker DEF ArmRefused
    <2>3. CASE Landed
      <3> DEFINE unstaged == [job EXCEPT !.staged = FALSE]
      <3>1. unstaged \in Records /\ Weaker(unstaged, job) /\ unstaged.state # "none"
        BY <1>0, <2>1, QueueChangesWeaker DEF Records
      <3>2. Save({unstaged}, SetStaged(unstaged, FALSE))
        BY <2>3 DEF Landed
      <3> HIDE DEF unstaged
      <3>3. Weaker(SetStaged(unstaged, FALSE), job)
        BY <3>1, SetStagedWeaker DEF Weaker
      <3> QED
        BY <1>6, <3>1, <3>2, <3>3
    <2> QED
      BY <1>10, <2>2, <2>3
  <1>11. CASE Finish
    <2>1. job.state # "none" /\ StillKept \in BOOLEAN
      BY <1>0, <1>11, Typed DEF Finish, IInv, Control, Running, Places, StillKept, Records, Runs
    <2>2. CASE FinishDone
      BY <1>5, <1>8, <2>1, <2>2 DEF FinishDone
    <2>3. CASE FinishCancelled
      BY <1>5, <1>6, <1>8, <2>1, <2>3 DEF FinishCancelled, Failed
    <2>4. CASE Save({}, Requeued(job))
      BY <1>0, <1>5, <2>1, <2>4, QueueChangesWeaker, NamesTyped DEF Requeued
    <2>5. CASE FinishFailed
      BY <1>5, <1>6, <1>8, <2>1, <2>5 DEF FinishFailed, Failed, Requeued
    <2> QED
      BY <1>11, <2>2, <2>3, <2>4, <2>5 DEF Finish
  <1>12. CASE RetryStagedNow \/ RemoveQueued \/ ClearFinished \/ StopAllClear
    BY <1>0, <1>3, <1>5, <1>12, QueueChangesWeaker, NamesTyped
    DEF RetryStagedNow, RemoveQueued, ClearFinished, StopAllClear, Unqueued
  <1> QED
    BY <1>4, <1>7, <1>9, <1>10, <1>11, <1>12

\* After a crash the record in memory is the one in the file.
LEMMA CrashKeepsGood ==
    ASSUME IInv, Crash
    PROVE  RecordGood(job)' /\ RecordGood(disk)'
  <1>1. UNCHANGED Evidence /\ disk' = disk /\ job' = Loaded(disk) /\ disk \in Records
    BY Typed DEF IInv, Crash, staging, Evidence
  <1>2. NoMore(job', disk)
    BY <1>1 DEF Loaded, Requeued, NoMore, Weaker, Records
  <1>3. NoMore(disk', disk)
    BY <1>1 DEF NoMore
  <1> QED
    BY <1>1, <1>2, <1>3, WrittenGood DEF IInv

LEMMA RecordsStayGood ==
    ASSUME IInv, Next
    PROVE  RecordGood(job)' /\ RecordGood(disk)'
  <1>1. CASE Web
    BY <1>1, AddsKeepGood, DiscardKeepsGood, QuietKeepsGood DEF Web
  <1>2. CASE Outside
    BY <1>2, OutsideKeepsGood, QuietKeepsGood DEF Outside
  <1>3. CASE Worker
    BY <1>3, QuietKeepsGood, PlanKeepsGood, LinksKeepGood, FilesKeepGood, BeforeLandingKeepsGood,
       LandKeepsGood, ArmsKeepGood
    DEF Worker
  <1> QED
    BY <1>1, <1>2, <1>3, CrashKeepsGood, StartupKeepsGood DEF Next

=============================================================================
