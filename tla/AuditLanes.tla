----------------------------- MODULE AuditLanes -----------------------------
(***************************************************************************)
(* The audits of the library's MKVs (src/server/library/audit.rs and the    *)
(* loops of worker.rs that run them): the quick lane, the deep lane, the    *)
(* indexer that fills and prunes both, and the web handlers that pause,     *)
(* stop and ask for an audit again.                                         *)
(*                                                                          *)
(* A content of a file is its stamp (size and time): a write gives the file *)
(* a stamp never used before, 0 is no file.  A verdict says which contents  *)
(* were read to reach it; whether it is clean or corrupt is left out.  A    *)
(* failure of storage, an inconclusive decode or a crash uses up a fault.   *)
(* A shutdown interrupts a decode as a rip does, and then is a crash.       *)
(***************************************************************************)
EXTENDS Naturals, Sequences, SequencesExt, FiniteSets

CONSTANTS
    Files,      \* the MKVs of the library
    NoFile,     \* a lane that runs nothing
    Silent,     \* stamps of files without a video track: no decode is owed
    Moves,      \* what people and rips do: "pause", "stop", "reaudit", "setting", "disks"
    MaxStamp,   \* bound on the writes of files
    MaxFaults   \* bound on the faults

ASSUME FilesAssumption == IsFiniteSet(Files)
ASSUME NoFileAssumption == NoFile \notin Files
ASSUME MovesAssumption == Moves \subseteq {"pause", "stop", "reaudit", "setting", "disks"}
ASSUME BoundsAssumption ==
    MaxStamp \in Nat \ {0} /\ MaxFaults \in Nat

VARIABLES
    disk,       \* the stamp of each file
    clock,      \* the last stamp used
    snap,       \* the stamps the last scan saw, landings folded in
    setting,    \* the deep_audit setting
    deepOn,     \* Library.deep_on: the setting as the quick loop last read it
    busy,       \* a rip runs, or a remux runs or could start
    st,         \* Audits.st: the verdicts, both queues, paused
    saved,      \* audit.json
    quick,      \* Audits.quick: the file of the quick lane, its stop flag
    deep,       \* Audits.deep: the file of the deep lane, its stop flag
    q,          \* the quick thread: where it is, and what quick_one holds
    d,          \* the deep thread: where it is, and what deep_one holds
    ix,         \* the indexer thread: where it is, its listing, and the files
                \* that were not there when it scanned (history)
    faults      \* faults so far

environment == <<disk, clock, setting, busy>>
index == <<snap, ix>>
quickThread == <<quick, q, deepOn>>
deepThread == <<deep, d>>
vars == <<environment, index, st, saved, quickThread, deepThread, faults>>

Stamps == 0..MaxStamp

\* A stored audit (Record): the stamp it is filed under, the content the quick
\* audit read, the state of its deep verdict and, of that, the contents decoded.
Records == [stamp : Stamps, read : Stamps,
            deep : {"none", "tried", "due", "done"}, seen : SUBSET Stamps]
NoRecord == [stamp |-> 0, read |-> 0, deep |-> "none", seen |-> {}]
States == [results : [Files -> Records], queue : Seq(Files),
           deepQueue : Seq(Files), paused : BOOLEAN]
EmptyState == [results |-> [p \in Files |-> NoRecord], queue |-> <<>>,
               deepQueue |-> <<>>, paused |-> FALSE]
Slots == [live : Files \cup {NoFile}, cancel : BOOLEAN]
IdleIndex == [pc |-> "scan", complete |-> FALSE, present |-> {}, gone |-> {}]
IdleSlot == [live |-> NoFile, cancel |-> FALSE]

Typed ==
    /\ disk \in [Files -> Stamps] /\ clock \in Stamps /\ snap \in [Files -> Stamps]
    /\ {setting, deepOn, busy} \subseteq BOOLEAN
    /\ st \in States /\ saved \in States
    /\ quick \in Slots /\ deep \in Slots
    /\ q \in [pc : {"turn", "refill", "look", "stat", "start", "read", "record",
                    "due", "enqueue", "finish"}, sig : Stamps, read : Stamps]
    /\ d \in [pc : {"look", "stat", "start", "decode", "verdict", "record",
                    "interrupted", "requeue", "finish"},
              sig : Stamps, seen : SUBSET Stamps, verdict : {"done", "tried"}]
    /\ ix \in [pc : {"scan", "fill", "prune"}, complete : BOOLEAN,
               present : SUBSET Files, gone : SUBSET Files]
    /\ faults \in 0..MaxFaults

\* The types, and that a lane runs a file exactly while its thread works on one; no
\* stop flag is left up for the file a lane takes next.
TypeOK ==
    /\ Typed
    /\ quick.live = NoFile <=> q.pc \in {"turn", "refill", "look"}
    /\ deep.live = NoFile <=> d.pc = "look"
    /\ \A slot \in {quick, deep} : slot.cancel => slot.live # NoFile

Fault == faults < MaxFaults /\ faults' = faults + 1

-----------------------------------------------------------------------------
(* The state and its file *)

\* `changed` and `persist`: a failed write leaves audit.json as it was.
Changed(s) ==
    /\ st' = s
    /\ \/ saved' = s /\ UNCHANGED faults
       \/ Fault /\ UNCHANGED saved

\* Written only when something changed.
ChangedIfNew(s) ==
    IF s = st THEN UNCHANGED <<st, saved, faults>> ELSE Changed(s)

\* Mutant of the next operator: the file the lane runs may wait in it too.
PushLaneRunning(lane, running, S) == lane \o SetToSeq(S \ Range(lane))

\* `push_lane`: neither waiting there already nor running in it.
PushLane(lane, running, S) == lane \o SetToSeq(S \ (Range(lane) \cup {running}))

\* `Vec::retain`: what a lane has of `keep`, in its order.  Without the recursion of
\* SelectSeq, so that it can be proved about.
Retain(lane, keep) ==
    LET kept == {i \in DOMAIN lane : lane[i] \in keep}
        place == [i \in kept |-> Cardinality({j \in kept : j <= i})]
    IN  [n \in 1..Cardinality(kept) |-> lane[CHOOSE i \in kept : place[i] = n]]

Matches(r, sig) == r.stamp # 0 /\ r.stamp = sig

\* `deep_due`: a file with video, never decoded or due for another try.
DeepDue(r) == r.read \notin Silent /\ r.deep \in {"none", "due"}

DeepDueFor(p, sig) == Matches(st.results[p], sig) /\ DeepDue(st.results[p])

\* The MKVs of the last scan (`mkv_files`).
Listed == {p \in Files : snap[p] # 0}

\* Mutant of the next operator: a decode owed is left to the quick lane.
FillQuickOnly(s) ==
    IF s.paused THEN s
    ELSE [s EXCEPT !.queue = PushLane(@, quick.live,
                       {p \in Listed : ~Matches(s.results[p], snap[p])})]

\* `fill` with the files of the last scan, at the stamps it saw.
Fill(s) ==
    IF s.paused THEN s
    ELSE [s EXCEPT
            !.queue = PushLane(@, quick.live,
                {p \in Listed : ~Matches(s.results[p], snap[p])}),
            !.deepQueue = PushLane(@, deep.live,
                {p \in Listed : /\ Matches(s.results[p], snap[p])
                                /\ deepOn /\ DeepDue(s.results[p])})]

\* `prune`: the verdicts and queue entries of the files not present go.
Prune(s, present) ==
    [results |-> [p \in Files |-> IF p \in present THEN s.results[p] ELSE NoRecord],
     queue |-> Retain(s.queue, present),
     deepQueue |-> Retain(s.deepQueue, present),
     paused |-> s.paused]

-----------------------------------------------------------------------------
(* The quick lane: audit_loop, quick_turn and quick_one *)

\* The loop's start: `set_deep_enabled` empties the deep lane while the setting is
\* off; a setting just turned on is followed by a refill, else one is due each minute.
SetDeepEnabled ==
    /\ q.pc = "turn"
    /\ deepOn' = setting
    /\ \E next \in {"refill", "look"} :
           /\ setting /\ ~deepOn => next = "refill"
           /\ q' = [q EXCEPT !.pc = next]
    /\ ChangedIfNew(IF setting THEN st ELSE [st EXCEPT !.deepQueue = <<>>])
    /\ UNCHANGED <<environment, index, quick, deepThread>>

\* `refill_audits`.
Refill ==
    /\ q.pc = "refill"
    /\ q' = [q EXCEPT !.pc = "look"]
    /\ ChangedIfNew(Fill(st))
    /\ UNCHANGED <<environment, index, quick, deepOn, deepThread>>

\* What the lane takes next, unless paused.
Takes(lane) == ~st.paused /\ lane # <<>>

\* Mutant of the next operator: a decode has the disks too.
DisksTakenByDecode == busy \/ deep.live # NoFile

\* `remux_or_rip_busy`.
DisksTaken == busy

\* `quick_turn`: nothing while a rip or a remux has the disks, else `next`.
QuickTurn ==
    /\ q.pc = "look"
    /\ IF ~DisksTaken /\ Takes(st.queue)
       THEN /\ quick' = [live |-> Head(st.queue), cancel |-> FALSE]
            /\ st' = [st EXCEPT !.queue = Tail(@)]
            /\ q' = [q EXCEPT !.pc = "stat"]
       ELSE /\ q' = [q EXCEPT !.pc = "turn"]
            /\ UNCHANGED <<quick, st>>
    /\ UNCHANGED <<environment, index, saved, deepOn, deepThread, faults>>

QuickStep(from, to) == q.pc = from /\ q' = [q EXCEPT !.pc = to]

\* The file's stamp before it is read; a file that is gone is done with.
QuickStat ==
    /\ q.pc = "stat"
    /\ q' = [q EXCEPT !.sig = disk[quick.live],
                      !.pc = IF disk[quick.live] = 0 THEN "finish" ELSE "start"]
    /\ UNCHANGED <<environment, index, st, saved, quick, deepOn, deepThread, faults>>

\* `start`, and a Stop all since the file was taken.
QuickStart ==
    /\ QuickStep("start", IF quick.cancel THEN "finish" ELSE "read")
    /\ UNCHANGED <<environment, index, st, saved, quick, deepOn, deepThread, faults>>

\* `audit_fast` reads what the file is now; no report when storage failed.
QuickRead ==
    /\ q.pc = "read"
    /\ \/ /\ q' = [q EXCEPT !.read = disk[quick.live], !.pc = "record"]
          /\ UNCHANGED faults
       \/ Fault /\ q' = [q EXCEPT !.pc = "finish"]
    /\ UNCHANGED <<environment, index, st, saved, quick, deepOn, deepThread>>

\* Mutant of the next operator: a changed file keeps its deep verdict.
RecordOfKeepDeep(old, sig, read) == [old EXCEPT !.stamp = sig, !.read = read]

\* The record of a quick audit: a changed file loses its deep verdict.
RecordOf(old, sig, read) ==
    IF Matches(old, sig) THEN [old EXCEPT !.read = read]
    ELSE [NoRecord EXCEPT !.stamp = sig, !.read = read]

\* `record_fast`.
RecordFast ==
    /\ QuickStep("record", IF deepOn THEN "due" ELSE "finish")
    /\ Changed([st EXCEPT !.results[quick.live] = RecordOf(@, q.sig, q.read)])
    /\ UNCHANGED <<environment, index, quick, deepOn, deepThread>>

\* `deep_due_for`, then `enqueue_deep` under a lock taken again.
QuickDue ==
    /\ QuickStep("due", IF DeepDueFor(quick.live, q.sig) THEN "enqueue" ELSE "finish")
    /\ UNCHANGED <<environment, index, st, saved, quick, deepOn, deepThread, faults>>

EnqueueDeep ==
    /\ QuickStep("enqueue", "finish")
    /\ ChangedIfNew([st EXCEPT !.deepQueue = PushLane(@, deep.live, {quick.live})])
    /\ UNCHANGED <<environment, index, quick, deepOn, deepThread>>

\* `finish`: the slot is free, its stop flag down.
QuickFinish ==
    /\ q.pc = "finish"
    /\ q' = [pc |-> "turn", sig |-> 0, read |-> 0]
    /\ quick' = IdleSlot
    /\ UNCHANGED <<environment, index, st, saved, deepOn, deepThread, faults>>

Quick ==
    \/ SetDeepEnabled \/ Refill \/ QuickTurn \/ QuickStat \/ QuickStart \/ QuickRead
    \/ RecordFast \/ QuickDue \/ EnqueueDeep \/ QuickFinish

-----------------------------------------------------------------------------
(* The deep lane: deep_audit_loop and deep_one *)

IdleDeep == [pc |-> "look", sig |-> 0, seen |-> {}, verdict |-> "tried"]

DeepStep(from, to) == d.pc = from /\ d' = [d EXCEPT !.pc = to]

\* `next_deep`, while the setting is on and nothing has the disks.
DeepLook ==
    /\ d.pc = "look" /\ setting /\ ~DisksTaken /\ Takes(st.deepQueue)
    /\ deep' = [live |-> Head(st.deepQueue), cancel |-> FALSE]
    /\ st' = [st EXCEPT !.deepQueue = Tail(@)]
    /\ d' = [d EXCEPT !.pc = "stat"]
    /\ UNCHANGED <<environment, index, saved, quickThread, faults>>

DeepStat ==
    /\ d.pc = "stat"
    /\ d' = [d EXCEPT !.sig = disk[deep.live],
                      !.pc = IF disk[deep.live] = 0 THEN "finish" ELSE "start"]
    /\ UNCHANGED <<environment, index, st, saved, quickThread, deep, faults>>

\* A file changed or audited since it was queued waits for its quick read; else
\* `start_deep`, a Stop all since the file was taken, and ffmpeg begins to read.
DeepStart ==
    /\ d.pc = "start"
    /\ d' = IF ~DeepDueFor(deep.live, d.sig) \/ deep.cancel
            THEN [d EXCEPT !.pc = "finish"]
            ELSE [d EXCEPT !.pc = "decode", !.seen = {disk[deep.live]}]
    /\ UNCHANGED <<environment, index, st, saved, quickThread, deep, faults>>

\* The `stop` closure the decode polls.
Stop == ~setting \/ DisksTaken \/ st.paused \/ deep.cancel

\* `full_decode` ends: with a verdict of all it read, without a conclusion (a
\* timeout, a kill, a share that is down), or stopped.
Decode ==
    /\ d.pc = "decode"
    /\ \/ /\ disk[deep.live] # 0
          /\ d' = [d EXCEPT !.seen = @ \cup {disk[deep.live]}, !.verdict = "done",
                            !.pc = "verdict"]
          /\ UNCHANGED faults
       \/ /\ \/ Fault
             \/ disk[deep.live] = 0 /\ UNCHANGED faults
          /\ d' = [d EXCEPT !.verdict = "tried", !.pc = "verdict"]
       \/ Stop /\ d' = [d EXCEPT !.pc = "interrupted"] /\ UNCHANGED faults
    /\ UNCHANGED <<environment, index, st, saved, quickThread, deep>>

\* `record_deep`, its look at the file: nothing is recorded when it changed.
DeepCheck ==
    /\ DeepStep("verdict", IF disk[deep.live] = d.sig THEN "record" ELSE "finish")
    /\ UNCHANGED <<environment, index, st, saved, quickThread, deep, faults>>

WithDeep(r) == [r EXCEPT !.deep = d.verdict, !.seen = d.seen]

\* Mutant of the next operator: the audit the verdict joins may be of another stamp.
RecordDeepAny ==
    /\ DeepStep("record", "finish")
    /\ IF st.results[deep.live].stamp # 0
       THEN Changed([st EXCEPT !.results[deep.live] = WithDeep(@)])
       ELSE UNCHANGED <<st, saved, faults>>
    /\ UNCHANGED <<environment, index, quickThread, deep>>

\* `record_deep`, under the lock: only beside a quick audit of the same stamp.
RecordDeep ==
    /\ DeepStep("record", "finish")
    /\ IF Matches(st.results[deep.live], d.sig)
       THEN Changed([st EXCEPT !.results[deep.live] = WithDeep(@)])
       ELSE UNCHANGED <<st, saved, faults>>
    /\ UNCHANGED <<environment, index, quickThread, deep>>

\* A stopped decode is dropped, an interrupted one goes back: the flag is read
\* before the lane is locked.
Interrupted ==
    /\ DeepStep("interrupted", IF deep.cancel THEN "finish" ELSE "requeue")
    /\ UNCHANGED <<environment, index, st, saved, quickThread, deep, faults>>

\* `requeue_front`.
RequeueFront ==
    /\ DeepStep("requeue", "finish")
    /\ ChangedIfNew(IF deep.live \in Range(st.deepQueue) THEN st
                    ELSE [st EXCEPT !.deepQueue = <<deep.live>> \o @])
    /\ UNCHANGED <<environment, index, quickThread, deep>>

\* `finish_deep`.
DeepFinish ==
    /\ d.pc = "finish"
    /\ d' = IdleDeep
    /\ deep' = IdleSlot
    /\ UNCHANGED <<environment, index, st, saved, quickThread, faults>>

Deep ==
    \/ DeepLook \/ DeepStat \/ DeepStart \/ Decode \/ DeepCheck \/ RecordDeep
    \/ Interrupted \/ RequeueFront \/ DeepFinish

\* `retry_due`: the backoff of an inconclusive decode runs out.
BackoffOver(p) ==
    /\ st.results[p].deep = "tried"
    /\ st' = [st EXCEPT !.results[p].deep = "due"]
    /\ UNCHANGED <<environment, index, saved, quickThread, deepThread, faults>>

-----------------------------------------------------------------------------
(* The indexer: index_loop and index_now *)

\* `rescan`: every file is seen, or a folder could not be listed and some are missed.
Rescan ==
    /\ ix.pc = "scan"
    /\ \E missed \in SUBSET Files :
           /\ IF missed = {} THEN UNCHANGED faults ELSE Fault
           /\ snap' = [p \in Files |-> IF p \in missed THEN 0 ELSE disk[p]]
           /\ ix' = [ix EXCEPT !.pc = "fill", !.complete = missed = {},
                               !.gone = {p \in Files : disk[p] = 0}]
    /\ UNCHANGED <<environment, st, saved, quickThread, deepThread>>

\* The headers are read, then the audits owed are queued; the listing that prunes
\* is of this moment.
IndexFill ==
    /\ ix.pc = "fill"
    /\ ix' = [ix EXCEPT !.pc = "prune", !.present = Listed]
    /\ ChangedIfNew(Fill(st))
    /\ UNCHANGED <<environment, snap, quickThread, deepThread>>

\* Mutant of the next operator: any listing is taken for complete.
ListsEverythingAlways == Listed # {}

\* `lists_everything`: the scan listed every folder and found something.
ListsEverything == ix.complete /\ Listed # {}

\* `prune`, only by a listing that is complete.
IndexPrune ==
    /\ ix.pc = "prune"
    /\ ix' = IdleIndex
    /\ ChangedIfNew(IF ListsEverything THEN Prune(st, ix.present) ELSE st)
    /\ UNCHANGED <<environment, snap, quickThread, deepThread>>

Index == Rescan \/ IndexFill \/ IndexPrune

-----------------------------------------------------------------------------
(* The web handlers, the remux worker, the disks, a crash *)

\* `set_paused`.
SetPaused(paused) ==
    /\ st.paused # paused /\ (paused => "pause" \in Moves)
    /\ Changed([st EXCEPT !.paused = paused])
    /\ UNCHANGED <<environment, index, quickThread, deepThread>>

\* Mutant of the next operator: the flag goes up whether or not the lane runs a file.
StopSlotAlways(slot) == [slot EXCEPT !.cancel = TRUE]

StopSlot(slot) == [slot EXCEPT !.cancel = @ \/ slot.live # NoFile]

\* `stop_all`: both lanes emptied and paused, what runs asked to stop.
StopAll ==
    /\ "stop" \in Moves
    /\ st.queue # <<>> \/ st.deepQueue # <<>> \/ quick.live # NoFile \/ deep.live # NoFile
    /\ Changed([results |-> st.results, queue |-> <<>>, deepQueue |-> <<>>,
                paused |-> TRUE])
    /\ quick' = StopSlot(quick)
    /\ deep' = StopSlot(deep)
    /\ UNCHANGED <<environment, index, deepOn, q, d>>

\* `reaudit` of one file: its deep verdict dropped, off the deep lane, on the quick
\* one.  Whatever slips between its two locks could come just before or after it.
Reaudit(p) ==
    /\ "reaudit" \in Moves
    /\ Changed([results |-> [st.results EXCEPT ![p] = [@ EXCEPT !.deep = "none", !.seen = {}]],
                queue |-> PushLane(st.queue, quick.live, {p}),
                deepQueue |-> Retain(st.deepQueue, Files \ {p}),
                paused |-> st.paused])
    /\ UNCHANGED <<environment, index, quickThread, deepThread>>

\* A file is written: a rip, a remux or a person renamed it into place.
Write(p) ==
    /\ clock < MaxStamp
    /\ clock' = clock + 1
    /\ disk' = [disk EXCEPT ![p] = clock + 1]
    /\ UNCHANGED <<setting, busy, index, st, saved, quickThread, deepThread, faults>>

Vanish(p) ==
    /\ disk[p] # 0
    /\ disk' = [disk EXCEPT ![p] = 0]
    /\ UNCHANGED <<clock, setting, busy, index, st, saved, quickThread, deepThread,
                   faults>>

\* `note_landed`: a remux tells the snapshot of the file it wrote and queues it.
NoteLanded(p) ==
    /\ disk[p] # 0 /\ disk[p] # snap[p]
    /\ snap' = [snap EXCEPT ![p] = disk[p]]
    /\ ChangedIfNew([st EXCEPT !.queue = PushLane(@, quick.live, {p})])
    /\ UNCHANGED <<environment, ix, quickThread, deepThread>>

\* A rip or a remux takes the disks or leaves them.
Disks ==
    /\ "disks" \in Moves
    /\ busy' = ~busy
    /\ UNCHANGED <<disk, clock, setting, index, st, saved, quickThread, deepThread,
                   faults>>

Setting ==
    /\ "setting" \in Moves
    /\ setting' = ~setting
    /\ UNCHANGED <<disk, clock, busy, index, st, saved, quickThread, deepThread, faults>>

\* The process ends and starts again with audit.json (`open`), or, when that cannot
\* be read, with nothing: the file is set aside.
Crash ==
    /\ Fault
    /\ \/ st' = saved /\ UNCHANGED saved
       \/ st' = EmptyState /\ saved' = EmptyState
    /\ quick' = IdleSlot /\ deep' = IdleSlot
    /\ q' = [pc |-> "turn", sig |-> 0, read |-> 0] /\ d' = IdleDeep
    /\ deepOn' = FALSE
    /\ snap' = [p \in Files |-> 0]
    /\ ix' = IdleIndex
    /\ UNCHANGED <<environment>>

Outside ==
    \/ \E paused \in BOOLEAN : SetPaused(paused)
    \/ StopAll
    \/ \E p \in Files : Reaudit(p) \/ Write(p) \/ Vanish(p) \/ NoteLanded(p)
    \/ Disks
    \/ Setting
    \/ Crash

Init ==
    /\ disk = [p \in Files |-> 1] /\ clock = 1
    /\ snap = [p \in Files |-> 0]
    /\ setting \in BOOLEAN /\ deepOn = FALSE /\ busy = FALSE
    /\ st = EmptyState /\ saved = EmptyState
    /\ quick = IdleSlot /\ deep = IdleSlot
    /\ q = [pc |-> "turn", sig |-> 0, read |-> 0] /\ d = IdleDeep
    /\ ix = IdleIndex
    /\ faults = 0

Backoff == \E p \in Files : BackoffOver(p)

Next == Quick \/ Deep \/ Backoff \/ Index \/ Outside

Spec == Init /\ [][Next]_vars

\* The quick lane and the indexer go on: their loops sleep a second or two and try
\* again, the indexer scans each minute.  Nothing outside is fair.
FairSpec == Spec /\ WF_vars(Quick) /\ WF_vars(Index)

\* So does the deep lane while no decode hangs for good, and a backoff runs out.
DecodesEnd == WF_vars(Deep) /\ WF_vars(Backoff)

-----------------------------------------------------------------------------
(* Properties *)

Shown(p) == st.results[p].stamp = disk[p] /\ disk[p] # 0

\* What the Library shows of a file is of its content: the quick audit read it, and
\* a finished decode saw it and nothing else, however the file was replaced while
\* either lane worked (the stamps taken before and after, record_deep's filter).
ShownIsOfTheFile ==
    \A p \in Files : Shown(p) =>
        /\ st.results[p].read = disk[p]
        /\ st.results[p].deep = "done" => st.results[p].seen = {disk[p]}

\* A lane holds a file once, and the file it runs does not wait in it too, but for an
\* interrupted decode that is back in its lane and about to free the slot: no file
\* is audited twice for one request.
LanesHoldOnce ==
    /\ IsInjective(st.queue) /\ IsInjective(st.deepQueue)
    /\ quick.live \notin Range(st.queue)
    /\ deep.live \in Range(st.deepQueue) => d.pc = "finish" /\ deep.live = Head(st.deepQueue)

\* Only a file that was not there when the folders were scanned loses its verdict to
\* the indexer: a folder that could not be listed costs no file its hours of decoding.
VerdictsKept ==
    [][\A p \in Files : st.results[p].stamp # 0 /\ st'.results[p].stamp = 0
            => p \in ix.gone \/ faults' # faults]_vars

\* Audited, and decoded when it has video.
Audited(p) ==
    /\ Shown(p)
    /\ st.results[p].read \notin Silent => st.results[p].deep = "done"

\* While no decode hangs, with the disks left alone, audits not paused, deep audit on
\* and no more requests to audit again, every file ends up audited and decoded, whatever changed, failed,
\* crashed or was dropped by a lane because it was running just then.
AllAudited ==
    DecodesEnd /\ <>[](~busy /\ ~st.paused /\ setting)
            /\ <>[][\A p \in Files : ~Reaudit(p)]_vars
        => <>[](\A p \in Files : disk[p] # 0 => Audited(p))

\* The quick lane waits for no decode: with one that hangs every file still gets
\* its quick audit.
QuickNeverWaits ==
    <>[](~busy /\ ~st.paused) => <>[](\A p \in Files : disk[p] # 0 => Shown(p))

\* A decode that Stop all asked to stop is not back in the deep lane.  The code does
\* not keep it, so no configuration here checks it; the README names the constants
\* that show it.
StoppedDecodeDropped == deep.cancel => deep.live \notin Range(st.deepQueue)
=============================================================================
