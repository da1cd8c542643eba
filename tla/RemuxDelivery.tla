--------------------------- MODULE RemuxDelivery ---------------------------
(***************************************************************************)
(* One library remux with one planned output, from its queue record to the *)
(* landed MKV and its link (src/server/library: worker.rs, deliver.rs,      *)
(* queue.rs, links.rs, owned.rs).                                           *)
(*                                                                          *)
(* The worker muxes the ISO to local staging, copies the result next to the *)
(* target, records the landing durably, renames, records the link, and only *)
(* then marks the output done.  Anyone may change the target or the ISO at  *)
(* any moment, any write may fail, a rename may take effect although it     *)
(* reported an error, and the process may crash between any two steps.      *)
(*                                                                          *)
(* A file is its stamp, size and time, which the code compares and records: *)
(* a mux makes a new one, a copy has the time of its source pinned to it,   *)
(* or a time of its own where that fails.  What a file holds is the version *)
(* of the ISO it was muxed from.                                            *)
(***************************************************************************)
EXTENDS Naturals

CONSTANTS
    MaxFile,    \* bound on the files that ever sit at the target or on staging
    MaxIso,     \* bound on the versions of the ISO
    MaxLost,    \* bound on the queue writes that fail or are cut off by a crash
    MaxAll,     \* bound on the files, the versions and the lost writes together
    Interrupts  \* what may stop a run: a Stop all, a rip or shutdown, the watchdog

ASSUME MaxFileAssumption == MaxFile \in Nat \ {0}
ASSUME MaxIsoAssumption == MaxIso \in Nat \ {0}
ASSUME MaxLostAssumption == MaxLost \in Nat
ASSUME MaxAllAssumption == MaxAll \in Nat
ASSUME InterruptsAssumption == Interrupts \subseteq {"cancelled", "preempted", "stalled"}

Files == 1 .. MaxFile
NoFile == 0                 \* nothing there
NotCaptured == MaxFile + 1  \* job.owned is None
Isos == 1 .. MaxIso
NoIso == 0                  \* no stamp of the ISO, or no file muxed from it
Mixed == MaxIso + 1         \* muxed while the ISO changed

VARIABLES
    target,   \* the file at the library target
    partial,  \* the file at <target>.partial while it is of use: what is left of one
              \* is read by nobody, the next copy writes over it
    iso,      \* the version of the ISO at the job's path
    stage,    \* the file <id>.mkv on local staging
    kept,     \* the kept MKV on local staging
    sidecar,  \* its sidecar
    link,     \* links.json: the entry for the target
    job,      \* the queue's record of the job, in memory
    disk,     \* the queue's record of the job, in the queue file
    pc,       \* where the worker is
    run,      \* what the worker remembers while the job runs
    cancelled,\* cancel_job names this job
    yielded,  \* a rip or a shutdown wants the slot, or the watchdog gave up
    stopping, \* a Stop all has dropped the queued jobs, not yet cancelled
    lost,     \* how many queue writes did not reach the file (history)
    used,     \* how many files have existed (history)
    muxed,    \* what each file holds (history)
    placed,   \* the recorded landings of this job that took place (history)
    arrived,  \* the target changed since the last look at it (history)
    granted,  \* a replacement the user asked for captured the file at the target (history)
    released, \* the kept pair is no longer due to be delivered (history)
    asked     \* a Stop all cancelled the job since the user queued it (history)

library == <<target, partial, used, muxed, placed, arrived>>
staging == <<stage, kept, sidecar, released>>
queue == <<job, disk, lost>>
stops == <<cancelled, yielded, stopping, asked>>
vars == <<library, iso, staging, link, queue, pc, run, stops, granted>>

NoSidecar == [at |-> FALSE, before |-> NoFile, replace |-> FALSE, size |-> NoFile]
NoLink == [at |-> FALSE, stamp |-> NoFile, source |-> NoIso]
NoJob == [state |-> "none", source |-> NoIso, replace |-> FALSE, out |-> "pending",
          staged |-> FALSE, kept |-> FALSE, landing |-> NoFile,
          unproven |-> FALSE, owned |-> NotCaptured]
NoRun == [fresh |-> FALSE, current |-> FALSE, error |-> FALSE, owned |-> NoFile,
          replace |-> FALSE, replaces |-> NoFile, before |-> NoFile, resume |-> FALSE,
          from |-> NoIso, flag |-> "none", recorded |-> NoFile, fault |-> "none",
          kept |-> FALSE, ending |-> "none"]

JobStates == {"none", "queued", "running", "failed", "done"}
OutputStates == {"pending", "running", "failed", "done"}
Places == {"down", "idle", "planning", "start", "scan", "own", "admit", "begin",
           "link_done", "look", "link_landed", "permit", "stage", "mux", "resume",
           "copy", "announce", "recheck", "land", "clear", "landed", "link",
           "undo", "keep", "sidecar", "arms", "settle", "finish"}

Jobs == [state : JobStates, source : 0 .. MaxIso, replace : BOOLEAN,
         out : OutputStates, staged : BOOLEAN, kept : BOOLEAN,
         landing : 0 .. MaxFile, unproven : BOOLEAN, owned : 0 .. NotCaptured]

Planned == job.source # NoIso
Pair == kept # NoFile /\ sidecar.at
Up == pc # "down"

Initial(f, l) ==
    /\ target = f /\ link = l
    /\ used = IF f = NoFile THEN 0 ELSE 1
    /\ muxed = [g \in Files |-> IF g = 1 /\ l.at THEN 1 ELSE NoIso]
    /\ partial = NoFile /\ placed = {} /\ arrived = FALSE
    /\ iso = 1
    /\ stage = NoFile /\ kept = NoFile /\ sidecar = NoSidecar /\ released = FALSE
    /\ job = NoJob /\ disk = NoJob /\ lost = 0
    /\ pc = "idle" /\ run = NoRun
    /\ cancelled = FALSE /\ yielded = "none" /\ stopping = FALSE /\ asked = FALSE
    /\ granted = FALSE

(* The library holds nothing, a file that is not ours, one an earlier remux *)
(* of this ISO made, or such a file with a link that vouches for nothing.   *)
Init ==
    \/ Initial(NoFile, NoLink)
    \/ Initial(1, NoLink)
    \/ Initial(1, [at |-> TRUE, stamp |-> 1, source |-> 1])
    \/ Initial(1, [at |-> TRUE, stamp |-> NoFile, source |-> NoIso])

-----------------------------------------------------------------------------
(* The bounds: one more file, one more version, one more lost write. *)

Room == used + iso + lost < MaxAll
NewFile == used < MaxFile /\ Room /\ used' = used + 1
NewIso == iso < MaxIso /\ Room /\ iso' = iso + 1
Lose == lost < MaxLost /\ Room /\ lost' = lost + 1

-----------------------------------------------------------------------------
(* The queue's operations on the record, and its writes. *)

\* an ordinary change: in memory at once, in the file unless the write fails or
\* a crash comes first; several changes in a row reach the file one by one
Save(steps, new) ==
    /\ job' = new
    /\ \/ disk' = new /\ UNCHANGED lost
       \/ Lose /\ disk' \in {disk} \cup steps
SaveOk(new) == job' = new /\ disk' = new /\ UNCHANGED lost
\* a durable change that returned an error: not applied, or applied unconfirmed
SaveError(new) ==
    \/ UNCHANGED queue
    \/ job' = new /\ disk' \in {disk, new} /\ UNCHANGED lost

\* the mistake of leaving the kept file's name in the output
SetStagedNameStays(j, keep) == [j EXCEPT !.kept = keep]

\* Job::set_staged: letting go of the kept file clears the output that names it
SetStaged(j, keep) ==
    IF keep THEN [j EXCEPT !.kept = TRUE]
    ELSE [j EXCEPT !.kept = FALSE, !.staged = j.staged /\ ~j.kept]

FinishOutput(j, state) ==
    [j EXCEPT !.out = state, !.landing = IF state = "done" THEN NoFile ELSE @]

\* queue.add of the same row: a failed delivery without a kept file hands its
\* landing and its overwrite baseline on, a plan is reused
Appended(j, replace) ==
    LET evidence == IF j.state = "failed" /\ ~j.kept /\ ~j.staged THEN j.landing ELSE NoFile
    IN  IF j.source = NoIso THEN [NoJob EXCEPT !.state = "queued", !.replace = replace]
        ELSE [NoJob EXCEPT !.state = "queued", !.replace = replace, !.source = j.source,
                           !.landing = evidence, !.unproven = j.unproven,
                           !.owned = IF evidence = NoFile THEN NotCaptured
                                     ELSE IF j.owned = NotCaptured THEN NoFile ELSE j.owned]

\* queue.add_fresh: no plan of an earlier job is reused
AppendedFresh(replace) == [NoJob EXCEPT !.state = "queued", !.replace = replace]

HoldsSource(j) == j.state \in {"queued", "running"} \/ j.kept \/ j.staged

\* (an add that never reached the file is QueueStore's matter)
UserQueued == asked' = FALSE /\ UNCHANGED stopping

NewJob(new) ==
    /\ SaveOk(new)
    /\ placed' = IF new.landing = NoFile THEN {} ELSE placed
    /\ cancelled' = FALSE      \* a new id
    /\ UserQueued
    /\ released' = (released \/ Pair)
    /\ UNCHANGED <<target, partial, used, muxed, arrived, iso, stage, kept, sidecar,
                   link, pc, run, yielded, granted>>

Add(replace) ==
    /\ Up
    /\ ~(job.kept \/ job.state \in {"queued", "running"})
    /\ NewJob(Appended(job, replace))

AddFresh(replace) ==
    /\ Up
    /\ ~HoldsSource(job)
    /\ NewJob(AppendedFresh(replace))

WebUnchanged == UNCHANGED <<library, iso, link, pc, run, yielded, granted>>

\* Retry on a row with a kept file: the same job, queued again
RetryStagedNow ==
    /\ Up /\ job.kept /\ job.state \in {"queued", "failed", "done"}
    /\ Save({}, [job EXCEPT !.state = "queued"])
    /\ UserQueued
    /\ WebUnchanged /\ UNCHANGED <<staging, cancelled>>

\* Discard: the queue lets go of the pair, then it is deleted
DiscardKept ==
    /\ Up /\ job.kept /\ job.state \in {"queued", "failed", "done"}
    /\ Save({}, IF job.state = "queued" THEN NoJob
                ELSE SetStaged([job EXCEPT !.staged = FALSE], FALSE))
    /\ \/ kept' = NoFile /\ sidecar' = NoSidecar /\ released' = FALSE
       \/ UNCHANGED <<kept, sidecar>> /\ released' = TRUE             \* it could not be deleted
    /\ WebUnchanged /\ UNCHANGED <<stage, cancelled, stopping, asked>>

\* a queued job leaves the queue; with a kept file it stays listed as failed
Unqueued(j) == IF j.kept THEN [j EXCEPT !.state = "failed"] ELSE NoJob

RemoveQueued ==
    /\ Up /\ job.state = "queued"
    /\ Save({}, Unqueued(job))
    /\ WebUnchanged /\ UNCHANGED <<staging, cancelled, stopping, asked>>

ClearFinished ==
    /\ Up /\ job.state \in {"done", "failed"}
    /\ Save({}, NoJob)
    /\ released' = (released \/ Pair)
    /\ WebUnchanged /\ UNCHANGED <<stage, kept, sidecar, cancelled, stopping, asked>>

\* Stop all: drop the queued jobs, then cancel the one that runs by then
StopAllClear ==
    /\ Up /\ "cancelled" \in Interrupts /\ ~stopping /\ stopping' = TRUE
    /\ IF job.state = "queued" THEN Save({}, Unqueued(job)) ELSE UNCHANGED queue
    /\ WebUnchanged /\ UNCHANGED <<staging, cancelled, asked>>

StopAllCancel ==
    /\ Up /\ stopping /\ stopping' = FALSE
    /\ cancelled' = (cancelled \/ job.state = "running")
    /\ asked' = (asked \/ job.state = "running")
    /\ WebUnchanged /\ UNCHANGED <<staging, queue>>

Web ==
    \/ \E replace \in BOOLEAN : Add(replace) \/ AddFresh(replace)
    \/ RetryStagedNow \/ DiscardKept \/ RemoveQueued \/ ClearFinished
    \/ StopAllClear \/ StopAllCancel

-----------------------------------------------------------------------------
(* The world outside: anyone may change the target or the ISO. *)

OutsideUnchanged ==
    UNCHANGED <<partial, placed, staging, link, queue, pc, run, stops>>

Intrude ==
    /\ NewFile
    /\ target' = used + 1 /\ arrived' = (pc = "land") /\ granted' = FALSE
    /\ UNCHANGED <<muxed, iso>> /\ OutsideUnchanged

RemoveTarget ==
    /\ target # NoFile
    /\ target' = NoFile /\ arrived' = (pc = "land") /\ granted' = FALSE
    /\ UNCHANGED <<used, muxed, iso>> /\ OutsideUnchanged

ReplaceIso ==
    /\ NewIso
    /\ UNCHANGED <<target, used, muxed, arrived, granted>> /\ OutsideUnchanged

\* where the worker reads whether it is to stop
Looks == {"start", "begin", "copy", "recheck", "undo", "arms"}

\* a rip takes the slot, the daemon shuts down, or the watchdog gives up; raised
\* where the worker looks next, which cannot tell it from one raised before
Yield(why) ==
    /\ pc \in Looks /\ yielded = "none"
    /\ yielded' = why
    /\ UNCHANGED <<library, iso, staging, link, queue, pc, run, cancelled, stopping,
                   asked, granted>>

Outside ==
    \/ Intrude \/ RemoveTarget \/ ReplaceIso
    \/ \E why \in Interrupts \ {"cancelled"} : Yield(why)

-----------------------------------------------------------------------------
(* The worker: plan, own, admit. *)

Stopped == cancelled \/ yielded # "none"
ShouldCancel == Stopped \/ run.flag # "none"

\* cancelled_ending: a Stop wins over a rip or a shutdown, those over a stall
StopEnding == IF cancelled THEN "cancelled" ELSE yielded

\* the mistake of not looking for a landing of an earlier run
LandedBeforeNever == FALSE

LandedBefore == job.landing # NoFile /\ target = job.landing
\* links.json maps the file now at the target to the ISO now at its path
LandedByThisJob ==
    /\ link.at /\ link.stamp # NoFile /\ link.stamp = target
    /\ link.source \in {NoIso, iso}
Vouched == link.at /\ link.source \in {NoIso, iso} /\ link.stamp = target
Disowned == link.at /\ (link.stamp # NoFile \/ link.source \notin {NoIso, iso})

Goto(place) == pc' = place
End(ending) == pc' = "finish" /\ run' = [NoRun EXCEPT !.ending = ending, !.kept = run.kept]
FailRun == End("failed")

StepUnchanged == UNCHANGED <<iso, stops>>
FilesUnchanged == UNCHANGED <<library, staging>>

\* claim_next: an unconfirmed change is written first
Claim ==
    /\ pc = "idle" /\ job.state = "queued"
    /\ job' = [job EXCEPT !.state = "running"]
    /\ \/ disk' = job' /\ UNCHANGED lost
       \/ Lose /\ disk' = job
    /\ pc' = IF Planned \/ job.kept THEN "start" ELSE "planning"
    /\ run' = NoRun
    /\ UNCHANGED <<iso, library, staging, link, stops, granted>>

\* the automatic plan is frozen with the stamp of the ISO it was scanned from
FreezePlan ==
    /\ pc = "planning"
    /\ LET new == [job EXCEPT !.source = iso]
       IN  \/ SaveOk(new) /\ Goto("start") /\ UNCHANGED run
           \/ SaveError(new) /\ FailRun
    /\ StepUnchanged /\ FilesUnchanged /\ UNCHANGED <<link, granted>>

\* what is to be muxed afresh; a job without a plan only copies its kept file in
StartRun ==
    /\ pc = "start"
    /\ \/ Stopped /\ End(StopEnding)
       \/ ~Stopped /\ ~Planned /\ Goto("resume") /\ run' = [run EXCEPT !.resume = TRUE]
       \/ ~Stopped /\ ~Planned /\ FailRun             \* the folder is not safe
       \/ ~Stopped /\ Planned /\ Goto("scan")
          /\ run' = [run EXCEPT !.current = (iso = job.source),
                                !.fresh = job.out # "done" /\ ~job.staged /\ ~LandedBefore]
    /\ StepUnchanged /\ FilesUnchanged /\ UNCHANGED <<queue, link, granted>>

\* the frozen titles are looked up again only when something is muxed afresh
Validate ==
    /\ pc = "scan" /\ Goto("own")
    /\ \E scanned \in BOOLEAN :
         run' = [run EXCEPT !.error = run.fresh /\ (job.unproven \/ iso # job.source \/ ~scanned)]
    /\ StepUnchanged /\ FilesUnchanged /\ UNCHANGED <<queue, link, granted>>

\* the mistake of owning only what the user asked to replace
OwnedNowAsked == IF job.replace /\ ~Disowned THEN target ELSE NoFile

\* the mistake of owning any file no link speaks against
OwnedNowUnasked == IF ~Vouched /\ Disowned THEN NoFile ELSE target

\* what a link vouches for, or the row's own file when the user asked to replace it
OwnedNow ==
    IF Vouched THEN target
    ELSE IF job.replace /\ ~Disowned THEN target
    ELSE NoFile

CaptureOwned ==
    /\ pc = "own"
    /\ LET mine == OwnedNow
           new  == [job EXCEPT !.owned = mine]
       IN  \/ /\ ~run.current \/ run.error
              /\ Goto("admit") /\ run' = [run EXCEPT !.owned = NoFile]
              /\ UNCHANGED <<queue, granted>>
           \/ /\ run.current /\ ~run.error /\ job.owned # NotCaptured
              /\ Goto("admit") /\ run' = [run EXCEPT !.owned = job.owned]
              /\ UNCHANGED <<queue, granted>>
           \/ /\ run.current /\ ~run.error /\ job.owned = NotCaptured
              /\ granted' = (granted \/ (job.replace /\ mine # NoFile))
              /\ \/ SaveOk(new) /\ Goto("admit") /\ run' = [run EXCEPT !.owned = mine]
                 \/ SaveError(new) /\ FailRun
    /\ StepUnchanged /\ FilesUnchanged /\ UNCHANGED link

\* refuse_unowned: an existing target must be one the job owns
Unowned(owned) == target # NoFile /\ owned = NoFile

Refused ==
    /\ ~run.error /\ job.out # "done" /\ ~job.staged
    /\ ~(run.current /\ LandedByThisJob) /\ ~LandedBefore
    /\ Unowned(run.owned)

\* the folders are checked as well, and may be found wanting
Admit ==
    /\ pc = "admit"
    /\ \/ FailRun
       \/ ~Refused /\ Goto("begin") /\ UNCHANGED run
    /\ StepUnchanged /\ FilesUnchanged /\ UNCHANGED <<queue, link, granted>>

BeginOutput ==
    /\ pc = "begin"
    /\ IF Stopped THEN End(StopEnding) /\ UNCHANGED queue
       ELSE IF run.fresh /\ run.error THEN Goto("settle") /\ UNCHANGED <<run, queue>>
       ELSE IF job.out = "done" THEN Goto("link_done") /\ UNCHANGED <<run, queue>>
       ELSE Goto("look") /\ UNCHANGED run /\ Save({}, [job EXCEPT !.out = "running"])
    /\ StepUnchanged /\ FilesUnchanged /\ UNCHANGED <<link, granted>>

-----------------------------------------------------------------------------
(* Links: a file is vouched for only with the source the output has proof of. *)

\* the mistakes of vouching for a source without proof of it, or for a mixed one
OutputSourceAnyway == job.source
OutputSourceMixed == IF job.unproven THEN Mixed ELSE job.source

OutputSource == IF job.unproven THEN NoIso ELSE job.source

RecordLink(stamp) ==
    [at |-> TRUE, stamp |-> IF OutputSource = NoIso THEN NoFile ELSE stamp,
     source |-> OutputSource]

LinkOk(stamp) == link' = RecordLink(stamp)
LinkError(stamp) == link' \in {link, RecordLink(stamp)}

\* done in an earlier run whose link may not have been written
LinkDone ==
    /\ pc = "link_done"
    /\ \/ LandedByThisJob /\ Goto("settle") /\ UNCHANGED <<link, run>>
       \/ ~LandedByThisJob /\ LinkOk(NoFile) /\ Goto("settle") /\ UNCHANGED run
       \/ ~LandedByThisJob /\ LinkError(NoFile) /\ FailRun
    /\ StepUnchanged /\ FilesUnchanged /\ UNCHANGED <<queue, granted>>

\* the file at the target is the one recorded just before the rename, or linked
Look ==
    /\ pc = "look"
    /\ \/ LandedBefore /\ Goto("link_landed") /\ UNCHANGED queue
       \/ /\ ~LandedBefore
          /\ run.owned = NoFile /\ target # NoFile /\ run.current /\ LandedByThisJob
          /\ Goto("settle") /\ Save({}, FinishOutput(job, "done"))
       \/ /\ ~LandedBefore
          /\ ~(run.owned = NoFile /\ target # NoFile /\ run.current /\ LandedByThisJob)
          /\ Goto("permit") /\ UNCHANGED queue
    /\ StepUnchanged /\ FilesUnchanged /\ UNCHANGED <<run, link, granted>>

LinkLanded ==
    /\ pc = "link_landed"
    /\ \/ LinkOk(job.landing) /\ Goto("settle") /\ UNCHANGED run
          /\ Save({}, FinishOutput(job, "done"))
       \/ LinkError(job.landing) /\ FailRun /\ UNCHANGED queue
    /\ StepUnchanged /\ FilesUnchanged /\ UNCHANGED granted

-----------------------------------------------------------------------------
(* Delivery: mux to staging, copy, look again, record, rename, clean up. *)

\* may_replace: overwrite only the owned file, as it was captured; a kept file
\* defers to its sidecar.  A fresh mux checks the source once more.
Permit ==
    /\ pc = "permit"
    /\ LET expected(replace) ==
             [run EXCEPT !.replace = replace, !.replaces = IF replace THEN run.owned ELSE NoFile,
                         !.resume = job.staged, !.owned = NoFile, !.fresh = FALSE,
                         !.current = FALSE]
       IN  \/ job.staged /\ Goto("resume") /\ run' = expected(FALSE)
           \/ ~job.staged /\ FailRun /\ \/ Unowned(run.owned)
                                        \/ target \notin {NoFile, run.owned}
                                        \/ iso # job.source
           \/ /\ ~job.staged /\ ~Unowned(run.owned)
              /\ target \in {NoFile, run.owned} /\ iso = job.source
              /\ Goto("stage") /\ run' = expected(target # NoFile)
    /\ StepUnchanged /\ FilesUnchanged /\ UNCHANGED <<queue, link, granted>>

\* remux_via_stage: the target as the remux found it, then the old stage file goes
Stage ==
    /\ pc = "stage"
    /\ \/ /\ ~run.replace /\ target # NoFile
          /\ Goto("arms") /\ run' = [run EXCEPT !.fault = "exists"] /\ UNCHANGED stage
       \/ /\ run.replace \/ target = NoFile
          /\ Goto("mux") /\ run' = [run EXCEPT !.before = target, !.from = iso]
          /\ stage' = NoFile
    /\ StepUnchanged /\ UNCHANGED <<library, kept, sidecar, released, queue, link, granted>>

\* the engine's mux to staging; it reads the ISO from the first byte to the last
Mux ==
    /\ pc = "mux"
    /\ \/ Goto("copy") /\ run' = [run EXCEPT !.from = NoIso]
          /\ NewFile /\ stage' = used + 1
          /\ muxed' = [muxed EXCEPT ![used + 1] = IF run.from = iso THEN iso ELSE Mixed]
       \/ Goto("arms") /\ run' = [run EXCEPT !.from = NoIso, !.fault = "storage"]
          /\ UNCHANGED <<stage, used, muxed>>
    /\ StepUnchanged
    /\ UNCHANGED <<target, partial, placed, arrived, kept, sidecar, released, queue, link,
                   granted>>

\* deliver::resume: a kept file that is gone, short or damaged is thrown away
Resume ==
    /\ pc = "resume"
    /\ \/ ~Pair /\ Goto("arms") /\ run' = [run EXCEPT !.fault = "invalid"]
          /\ UNCHANGED staging
       \/ Pair /\ Goto("arms") /\ run' = [run EXCEPT !.fault = "invalid"]
          /\ kept' = NoFile /\ sidecar' = NoSidecar /\ released' = FALSE /\ UNCHANGED stage
       \/ Pair /\ Goto("arms") /\ run' = [run EXCEPT !.fault = "halted"]
          /\ UNCHANGED staging
       \/ Pair /\ sidecar.size = kept /\ Goto("copy") /\ UNCHANGED staging
          /\ run' = [run EXCEPT !.before = sidecar.before, !.replace = sidecar.replace]
    /\ StepUnchanged /\ UNCHANGED <<library, queue, link, granted>>

\* the mistake of letting a replacement overwrite whatever is there
TargetExistsReplaced == target # NoFile /\ ~run.replace

\* refuse_existing and refuse_changed: only a replacement may find a file there,
\* and then only the file the remux found
TargetExists ==
    /\ target # NoFile
    /\ \/ ~run.replace
       \/ target # run.before

Fault(why) == Goto("undo") /\ run' = [run EXCEPT !.fault = why]
Local == IF run.resume THEN kept ELSE stage

\* the lock, the first look, the copy with its sync and its verify
Copy ==
    /\ pc = "copy"
    /\ \/ TargetExists /\ Fault("exists") /\ UNCHANGED library
       \/ ~TargetExists /\ Fault("storage") /\ UNCHANGED library
       \/ ~TargetExists /\ ShouldCancel /\ Fault("halted") /\ UNCHANGED library
       \/ /\ ~TargetExists /\ Goto("announce") /\ UNCHANGED <<run, target, placed, arrived>>
          /\ \/ partial' = Local /\ UNCHANGED <<used, muxed>>
             \/ /\ NewFile /\ partial' = used + 1
                /\ muxed' = [muxed EXCEPT ![used + 1] = muxed[Local]]
    /\ StepUnchanged /\ UNCHANGED <<staging, queue, link, granted>>

\* before_landing, at the "replace" phase: the source and the replaced file once
\* more, then the landing is recorded durably
BeforeLanding ==
    /\ pc = "announce" /\ Goto("recheck")
    /\ LET new == [job EXCEPT !.landing = partial]
           flagged(flag) == run' = [run EXCEPT !.flag = flag]
           changed == ~run.resume /\ iso # job.source
           refused == run.replaces # NoFile /\ target \notin {NoFile, run.replaces}
       IN  \/ ~Planned /\ UNCHANGED <<run, queue>>
           \/ Planned /\ changed /\ flagged("changed") /\ UNCHANGED queue
           \/ Planned /\ ~changed /\ refused /\ flagged("refused") /\ UNCHANGED queue
           \/ /\ Planned /\ ~changed /\ ~refused
              /\ \/ SaveOk(new) /\ run' = [run EXCEPT !.recorded = partial]
                 \/ SaveError(new) /\ flagged("unsaved")
    /\ StepUnchanged /\ FilesUnchanged /\ UNCHANGED <<link, granted>>

\* the last look before the rename
Recheck ==
    /\ pc = "recheck"
    /\ \/ TargetExists /\ Fault("exists")
       \/ ~TargetExists /\ ShouldCancel /\ Fault("halted")
       \/ ~TargetExists /\ Fault("storage")
       \/ ~TargetExists /\ ~ShouldCancel /\ Goto("land") /\ UNCHANGED run
    /\ StepUnchanged
    /\ FilesUnchanged /\ UNCHANGED <<queue, link, granted>>

\* the rename; without replace it is atomic with the test for an empty target
Land ==
    /\ pc = "land"
    /\ \/ /\ run.replace \/ target = NoFile
          /\ target' = partial /\ partial' = NoFile
          /\ placed' = IF Planned THEN placed \cup {partial} ELSE placed
          /\ \/ Goto("clear") /\ UNCHANGED run
             \/ Fault("storage")           \* it took effect, the answer was lost
       \/ /\ ~run.replace /\ target # NoFile /\ Fault("exists")
          /\ UNCHANGED <<target, partial, placed>>
       \/ Fault("storage") /\ UNCHANGED <<target, partial, placed>>
    /\ StepUnchanged
    /\ arrived' = FALSE /\ granted' = (granted /\ target' = target)
    /\ UNCHANGED <<used, muxed, staging, queue, link>>

\* the local file or the kept pair goes; a pair that cannot be deleted stays
Clear ==
    /\ pc = "clear" /\ Goto(IF Planned THEN "landed" ELSE "finish")
    /\ run' = [NoRun EXCEPT !.ending = IF Planned THEN "none" ELSE "done",
                             !.recorded = run.recorded]
    /\ \/ ~run.resume /\ stage' = NoFile /\ UNCHANGED <<kept, sidecar, released>>
       \/ run.resume /\ kept' = NoFile /\ sidecar' = NoSidecar /\ released' = FALSE
          /\ UNCHANGED stage
       \/ run.resume /\ UNCHANGED staging
    /\ StepUnchanged /\ UNCHANGED <<library, queue, link, granted>>

\* set_output_staged and set_staged with None
Landed ==
    /\ pc = "landed" /\ Goto("link")
    /\ LET unstaged == [job EXCEPT !.staged = FALSE]
       IN  Save({unstaged}, SetStaged(unstaged, FALSE))
    /\ StepUnchanged /\ FilesUnchanged /\ UNCHANGED <<run, link, granted>>

\* the landing is forgotten only once its link is durable
Link ==
    /\ pc = "link"
    /\ \/ LinkOk(run.recorded) /\ Goto("settle") /\ UNCHANGED run
          /\ Save({}, FinishOutput(job, "done"))
       \/ LinkError(run.recorded) /\ FailRun /\ UNCHANGED queue
    /\ StepUnchanged /\ FilesUnchanged /\ UNCHANGED granted

-----------------------------------------------------------------------------
(* A delivery that failed, and how the run ends. *)

\* a verified file is kept unless the target appeared or someone stopped the
\* job; a landing refused for its source or its record keeps it all the same
Keeps(retain) ==
    /\ run.fault # "exists"
    /\ retain \/ (run.fault # "halted" /\ ~ShouldCancel)

\* the partial is dropped
Undo ==
    /\ pc = "undo"
    /\ partial' = NoFile
    /\ \/ /\ ~run.resume /\ Keeps(run.flag \in {"changed", "unsaved"})
          /\ Goto("keep") /\ UNCHANGED <<run, stage>>
       \/ /\ ~run.resume /\ ~Keeps(run.flag \in {"changed", "unsaved"})
          /\ Goto("arms") /\ stage' = NoFile /\ UNCHANGED run
       \/ /\ run.resume
          /\ Goto("arms") /\ run' = [run EXCEPT !.kept = Keeps(FALSE)] /\ UNCHANGED stage
    /\ StepUnchanged
    /\ UNCHANGED <<target, used, muxed, placed, arrived, kept, sidecar, released,
                   queue, link, granted>>

\* the kept MKV gets its name first, then its sidecar
Keep ==
    /\ pc = "keep" /\ stage' = NoFile
    /\ \/ Goto("sidecar") /\ kept' = stage
       \/ Goto("arms") /\ UNCHANGED kept
    /\ StepUnchanged /\ UNCHANGED <<library, sidecar, released, queue, run, link, granted>>

KeepSidecar ==
    /\ pc = "sidecar" /\ Goto("arms")
    /\ \/ /\ sidecar' = [at |-> TRUE, before |-> run.before, replace |-> run.replace,
                          size |-> kept]
          /\ released' = FALSE
          /\ run' = [run EXCEPT !.kept = TRUE] /\ UNCHANGED kept
       \/ kept' = NoFile /\ UNCHANGED <<sidecar, released, run>>
    /\ StepUnchanged /\ UNCHANGED <<library, stage, queue, link, granted>>

\* the job fails with an error that no longer carries the kept file
Unkept == pc' = "finish" /\ run' = [NoRun EXCEPT !.ending = "failed"]
SourceChanged == run.flag = "changed" \/ (~run.resume /\ run.kept /\ iso # job.source)
OutputFailed(j) == FinishOutput(j, "failed")

\* keep_unproven_staged: the pair and its uncertainty are recorded together
ArmSourceChanged ==
    /\ pc = "arms" /\ Planned /\ SourceChanged
    /\ LET new == SetStaged([job EXCEPT !.unproven = TRUE, !.staged = TRUE, !.out = "failed"], TRUE)
       IN  \/ ~run.kept /\ Save({}, OutputFailed(job)) /\ UNCHANGED released
           \/ run.kept /\ SaveOk(new) /\ UNCHANGED released
           \/ /\ run.kept /\ released' = TRUE
              /\ \/ Save({}, OutputFailed(job))
                 \/ Save({}, new)
    /\ Unkept
    /\ StepUnchanged /\ UNCHANGED <<library, stage, kept, sidecar, link, granted>>

ArmRefused ==
    /\ pc = "arms" /\ Planned /\ ~SourceChanged /\ run.flag = "refused"
    /\ Save({}, OutputFailed(job))
    /\ Unkept
    /\ StepUnchanged /\ FilesUnchanged /\ UNCHANGED <<link, granted>>

\* keep_staged, then the output failed; a Stop, a rip or a stall names the ending
KeepStaged ==
    LET named    == IF run.kept THEN [job EXCEPT !.staged = TRUE] ELSE job
        recorded == IF run.kept THEN SetStaged(named, Pair) ELSE named
    IN  Save({named, recorded}, OutputFailed(recorded))

ArmOther ==
    /\ pc = "arms" /\ Planned /\ ~SourceChanged /\ run.flag # "refused"
    /\ KeepStaged
    /\ IF run.flag = "unsaved" THEN Unkept
       ELSE End(IF Stopped THEN StopEnding ELSE "failed")
    /\ StepUnchanged /\ FilesUnchanged /\ UNCHANGED <<link, granted>>

ArmBare ==
    /\ pc = "arms" /\ ~Planned
    /\ End(IF Stopped THEN StopEnding ELSE "failed")
    /\ StepUnchanged /\ FilesUnchanged /\ UNCHANGED <<queue, link, granted>>

\* after the last output; a source error deferred until now fails the job
Settle ==
    /\ pc = "settle"
    /\ End(IF run.error THEN "failed" ELSE "done")
    /\ StepUnchanged /\ FilesUnchanged /\ UNCHANGED <<queue, link, granted>>

\* the file the job keeps on staging, if it is still a usable one
StillKept == Pair /\ (job.kept \/ run.kept)
Requeued(j) == [j EXCEPT !.state = "queued"]
Failed(j) == [j EXCEPT !.state = "failed"]

FinishDone ==
    Save({}, SetStaged([job EXCEPT !.state = "done"], FALSE))

\* the mistake of dropping every job that was stopped
FinishCancelledDrops == Save({}, NoJob)

\* a Stop leaves the kept file offered; without one the job is dropped
FinishCancelled ==
    IF job.kept
    THEN LET kept_now == SetStaged(job, StillKept) IN Save({kept_now}, Failed(kept_now))
    ELSE Save({}, NoJob)

\* a storage fault is retried later, with what is kept; else the job has failed
FinishFailed ==
    LET kept_now == SetStaged(job, StillKept)
    IN  \/ Save({}, Requeued(kept_now))
        \/ Save({kept_now}, Failed(kept_now))

Finish ==
    /\ pc = "finish" /\ pc' = "idle" /\ run' = NoRun /\ yielded' = "none"
    /\ \/ run.ending = "done" /\ FinishDone
       \/ run.ending = "cancelled" /\ FinishCancelled
       \/ run.ending = "preempted" /\ Save({}, Requeued(job))
       \/ run.ending \in {"failed", "stalled"} /\ FinishFailed
    /\ UNCHANGED <<iso, library, staging, link, cancelled, stopping, asked, granted>>

Worker ==
    \/ Claim \/ FreezePlan \/ StartRun \/ Validate \/ CaptureOwned \/ Admit
    \/ BeginOutput \/ LinkDone \/ Look \/ LinkLanded \/ Permit
    \/ Stage \/ Mux \/ Resume \/ Copy \/ BeforeLanding \/ Recheck \/ Land
    \/ Clear \/ Landed \/ Link \/ Undo \/ Keep \/ KeepSidecar
    \/ ArmSourceChanged \/ ArmRefused \/ ArmOther \/ ArmBare \/ Settle \/ Finish

-----------------------------------------------------------------------------
(* A crash, and the start after it. *)

\* load: a job that was running waits again
Loaded(j) == IF j.state = "running" THEN Requeued(j) ELSE j

Crash ==
    /\ Up /\ pc' = "down" /\ run' = NoRun
    /\ job' = Loaded(disk)
    /\ cancelled' = FALSE /\ yielded' = "none" /\ stopping' = FALSE /\ asked' = FALSE
    /\ arrived' = FALSE /\ partial' = NoFile
    /\ UNCHANGED <<iso, target, used, muxed, placed, staging, link, disk, lost,
                   granted>>

\* adopt_staged, with or without a kept pair on staging
Adopted(j, found) ==
    IF ~found
    THEN LET forgot == SetStaged([j EXCEPT !.staged = FALSE], FALSE)
         IN  IF j.kept /\ j.state = "queued" THEN Failed(forgot) ELSE forgot
    ELSE IF j.state = "none"
    THEN [NoJob EXCEPT !.state = "queued", !.kept = TRUE, !.replace = sidecar.replace]
    ELSE IF j.source = NoIso THEN [j EXCEPT !.state = "queued", !.kept = TRUE]
    \* a pathname is no proof of the source: only a pair already recorded keeps it
    ELSE [j EXCEPT !.state = "queued", !.kept = TRUE, !.out = "pending",
                   !.staged = TRUE, !.unproven = j.unproven \/ ~j.staged]

\* interrupted stage files and half pairs go, a kept pair may have expired; what
\* is left waits in the queue to be copied in
Startup ==
    /\ pc = "down" /\ pc' = "idle"
    /\ stage' = NoFile
    /\ \E found \in {Pair, FALSE} :
         /\ kept' = IF found THEN kept ELSE NoFile
         /\ sidecar' = IF found THEN sidecar ELSE NoSidecar
         /\ released' = FALSE
         /\ Save({}, Adopted(job, found))
    /\ placed' = IF job.state = "none" THEN {} ELSE placed
    /\ UNCHANGED <<iso, target, partial, used, muxed, arrived, link, run, stops, granted>>

Next == Web \/ Outside \/ Worker \/ Crash \/ Startup
Spec == Init /\ [][Next]_vars

-----------------------------------------------------------------------------
(* Properties. *)

\* Every variable keeps its type.
TypeOK ==
    /\ target \in 0 .. MaxFile /\ partial \in 0 .. MaxFile
    /\ iso \in Isos /\ used \in 0 .. MaxFile /\ lost \in 0 .. MaxLost
    /\ muxed \in [Files -> 0 .. Mixed]
    /\ placed \subseteq Files
    /\ stage \in 0 .. MaxFile /\ kept \in 0 .. MaxFile
    /\ sidecar \in [at : BOOLEAN, before : 0 .. MaxFile, replace : BOOLEAN, size : 0 .. MaxFile]
    /\ link \in [at : BOOLEAN, stamp : 0 .. MaxFile, source : 0 .. MaxIso]
    /\ job \in Jobs /\ disk \in Jobs
    /\ pc \in Places
    /\ yielded \in {"none", "preempted", "stalled"}
    /\ {arrived, released, granted, cancelled, asked, stopping} \subseteq BOOLEAN

Overwrites == pc = "land" /\ partial # NoFile /\ target' = partial /\ target # NoFile
Rightful == arrived \/ muxed[target] # NoIso \/ granted

\* The rename of a fresh remux never destroys a file the program may not replace:
\* what it overwrites is a file this program made, or one captured when the user
\* asked for a replacement, or one that appeared after the last look.
FreshOverwritesOwn == [][Overwrites /\ ~run.resume => Rightful]_vars

\* The same of every rename, a kept file's copy included.
OnlyOwnOverwritten == [][Overwrites => Rightful]_vars

\* A link that names a file and a version of the ISO is true: that file was
\* muxed from that version, whatever happened to the ISO, the kept file and the
\* queue in between.
LinkTellsTheTruth ==
    link.stamp # NoFile /\ link.source # NoIso => muxed[link.stamp] = link.source

\* An output is Done only if its job did put a file in place.
DoneHasLanded == job.out = "done" => placed # {}

\* A job never replaces the file it has itself put in place: a restart, a retry
\* or a kept file copied in again recognises it.
NoSecondLanding ==
    [][Overwrites => arrived \/ target \notin placed]_vars

\* A file the job has itself put in place is never refused as one that was not made
\* from this ISO, unless the ISO has changed since or it landed without proof.
OwnLandingKnown ==
    pc = "admit" /\ Refused /\ target \in placed => job.unproven \/ iso # job.source

\* Between two runs a kept file is offered by its job until the job has put a file
\* in place.
KeptOffered == pc = "idle" /\ Pair /\ ~released => 
    job.kept \/ job.state = "done" \/ placed # {}

\* Between two runs an output names the kept file only if its job does: else every
\* later run of it would resume a dead path.
NoDeadPath == pc = "idle" /\ job.staged => job.kept

\* A Stop all stops a job only if it came after the user queued it: a kept file
\* that is retried after it is copied in.  The code does not keep it, so no
\* configuration here checks it; the README names the constants that show it.
StopIsAsked == run.ending = "cancelled" => asked
=============================================================================
