---------------------------- MODULE DriveSession ----------------------------
(***************************************************************************)
(* One optical drive and everything that acts on it: the poll loop that    *)
(* notices discs and starts the on-insert work, the web handlers Scan,     *)
(* Rip, Eject and Stop, and the worker threads they start (src/server/     *)
(* ripper/session.rs, state.rs, mod.rs and web.rs).  Each global of the    *)
(* code guards itself with its own lock; what the module checks is that    *)
(* the actors, which take those locks one after the other, stay together.  *)
(*                                                                         *)
(* A disc is the number of its insertion, 0 an empty tray; the job folder  *)
(* and the verified identity of a disc are that number too.  Drives are    *)
(* independent, so one is enough.                                          *)
(***************************************************************************)
EXTENDS Integers, FiniteSets

CONSTANTS
    OnInsert,     \* the settings on_insert goes through: "nothing", "scan", "rip"
    ImageOutput,  \* whether the output format is the disc image
    Overtaken,    \* whether a request is overtaken between two of its steps
    MaxDiscs,     \* bound: insertions
    MaxStops,     \* bound: presses of Stop
    MaxRequests,  \* bound: presses of Scan, Rip and Eject
    MaxFaults     \* bound: failures of the drive, the disc or the system

ASSUME DriveAssumption ==
    /\ OnInsert \subseteq {"nothing", "scan", "rip"}
    /\ ImageOutput \in BOOLEAN /\ Overtaken \in BOOLEAN
    /\ MaxDiscs \in Nat /\ MaxStops \in Nat
    /\ MaxRequests \in Nat /\ MaxFaults \in Nat

VARIABLES
    tray,     \* the drive: its disc, the number of insertions, a pending 28h
    row,      \* STATE's row: its status, claim generation and job
    thread,   \* RIP_THREADS: whose worker's handle is registered
    halt,     \* HALTS: the registered token
    cancelled,\* the tokens that were cancelled
    session,  \* SESSIONS: the disc of the scanned session, 0 for none
    marks,    \* the insertion marks: hold, cooldown, finished, changed, waiting
    poll,     \* the poll loop: its place, its claim and had_disc
    web,      \* the Scan or Rip handler
    eject,    \* the Eject handler
    stop,     \* the Stop handler
    worker,   \* the worker each claimant started
    past,     \* history: what the operator and the workers did to the disc
    left      \* how much of each bound is left

vars == <<tray, row, thread, halt, cancelled, session, marks, poll, web,
          eject, stop, worker, past, left>>

Claimants == {"poll", "web"}
NoOne == "no one"
NoToken == <<"none", "none">>
Tokens == Claimants \X {"claim", "rip", "drive"}
Statuses == {"idle", "scanning", "ripping", "done", "error", "wedged"}
Discs == 0 .. MaxDiscs

NoWork == [pc |-> "none", kind |-> "scan", disc |-> 0, job |-> 0,
           tok |-> NoToken]

Init ==
    /\ tray = [disc |-> 0, seen |-> 0, changed |-> FALSE, flaky |-> FALSE]
    /\ row = [status |-> "idle", gen |-> 0, job |-> 0]
    /\ thread = NoOne
    /\ halt = NoToken
    /\ cancelled = {}
    /\ session = 0
    /\ marks = [hold |-> "none", cooldown |-> FALSE, finished |-> FALSE,
                changed |-> FALSE, waiting |-> FALSE]
    /\ poll = [pc |-> "rest", gen |-> 0, had |-> FALSE]
    /\ web = [pc |-> "rest", gen |-> 0, kind |-> "scan"]
    /\ eject = "rest"
    /\ stop = [pc |-> "rest", gen |-> 0]
    /\ worker = [a \in Claimants |-> NoWork]
    /\ past = [stopped |-> 0, absent |-> 0, delivered |-> 0, attended |-> {},
               asked |-> {}, late |-> FALSE, owed |-> FALSE]
    /\ left = [stops |-> MaxStops, requests |-> MaxRequests,
               faults |-> MaxFaults]

-----------------------------------------------------------------------------
(* What the actors look at.                                                *)

Live(a) == worker[a].pc \notin {"none", "ended"}

\* rip_thread_running: the registered thread has not finished.
Running == thread # NoOne /\ Live(thread)

\* row_is_busy: the double-rip guard.
Busy == row.status \in {"scanning", "ripping"}

\* device_halt(..).is_cancelled(), as the workers ask it.
Halted == halt \in cancelled

\* update_state: the claim generation stays, and a row that still has its
\* disc keeps the job the last scan gave it.
Put(status, present) ==
    [status |-> status, gen |-> row.gen, job |-> IF present THEN row.job ELSE 0]

Fault == left.faults > 0 /\ left' = [left EXCEPT !.faults = @ - 1]
NoFault == left' = left

\* The disc in the tray is another one (or none): what was known of it ends.
NewMedium == past' = [past EXCEPT !.stopped = 0, !.absent = 0, !.delivered = 0]

\* Nothing of a medium change is still to be learnt about the disc.
Noticed == ~tray.changed /\ ~marks.changed

Attend == [past EXCEPT !.attended = @ \cup ({tray.disc} \ {0})]

\* The operator asks for something: the claim forgets that the disc is finished.
Request == [Attend EXCEPT !.owed = TRUE]

\* How often in a row a stopped disc was reported absent, up to the two times
\* that end its insertion.
Seen(seen) ==
    [past EXCEPT !.absent = IF past.stopped = 0 \/ @ = 2 THEN @
                            ELSE IF seen = "absent" THEN @ + 1 ELSE 0]

\* Whether a request stands between its claim and its worker or its answer.
MidRequest ==
    \/ poll.pc \in {"claimed", "armed"}
    \/ web.pc \in {"claimed", "armed"}
    \/ eject \notin {"rest", "asked"}

-----------------------------------------------------------------------------
(* The registries.                                                         *)

\* try_claim_active_checked's critical section: the row turns busy under a
\* new generation and the marks of a finished or a waiting insertion go.
Claim ==
    /\ ~Busy
    /\ row' = [row EXCEPT !.status = "scanning", !.gen = @ + 1]
    /\ marks' = [marks EXCEPT !.finished = FALSE, !.waiting = FALSE]

\* Unless requests are overtaken a claim falls into no Stop that has read the
\* generation and not yet cancelled, and follows its look at the thread before
\* a worker can start and turn the row idle.
ClaimAllowed == Overtaken \/ (stop.pc # "prepared" /\ ~Running)

\* register_halt: a fresh token replaces whatever is there.
Register(t) == halt' = t /\ cancelled' = cancelled \ {t}

\* Mutant of Swap: the new token starts fresh.
SwapFresh(t) == halt' = t /\ cancelled' = cancelled \ {t}

\* swap_halt_carrying_cancel: a cancel of the outgoing token goes with it.
Swap(t) ==
    /\ halt' = t
    /\ cancelled' = IF Halted THEN cancelled \cup {t} ELSE cancelled \ {t}

\* Mutant of Rollback: only the token is undone.
RollbackToken(gen) == halt' = NoToken /\ UNCHANGED row

\* rollback_failed_spawn: undo the claim of this generation and no other.
Rollback(gen) ==
    IF row.gen = gen
      THEN halt' = NoToken /\ row' = Put("idle", TRUE)
      ELSE UNCHANGED <<halt, row>>

\* spawn_rip_thread: the worker runs once its handle is registered; a handle
\* of a thread that still runs is never replaced, and then, as when the
\* system has no thread to give, the claim is rolled back.
Spawn(a, kind, gen) ==
    \/ /\ ~Running
       /\ thread' = a
       /\ worker' = [worker EXCEPT ![a] =
                       [NoWork EXCEPT !.pc = "start", !.kind = kind]]
       /\ NoFault
       /\ UNCHANGED <<row, halt, past>>
    \/ /\ IF Running THEN NoFault ELSE Fault
       /\ Rollback(gen)
       /\ past' = Attend
       /\ UNCHANGED <<thread, worker>>

\* Mutant of Reap: the handle is taken without a look at the thread.
ReapAnyway == thread' = NoOne

\* join_rip_thread that found nothing or a finished thread: the handle goes.
Reap == ~Running /\ thread' = NoOne

-----------------------------------------------------------------------------
(* The poll loop.                                                          *)

\* A drive a worker holds is not probed; its disc counts as seen.
PollCheck ==
    /\ poll.pc = "rest"
    /\ poll' = IF Busy \/ Running THEN [poll EXCEPT !.had = TRUE]
                                  ELSE [poll EXCEPT !.pc = "probe"]
    /\ UNCHANGED <<tray, row, thread, halt, cancelled, session, marks, web,
                   eject, stop, worker, past, left>>

\* Mutants of SameInsertion: a failed probe ends every insertion; a change of
\* the medium ends none.
SameUnlessFailed(failed, over) == poll.had /\ ~over /\ ~failed
SameOverChange(failed, over) ==
    poll.had /\ (failed => row.status = "done" \/ marks.finished)

\* same_insertion: a medium change or an unanswered probe ends the
\* insertion, but a failed probe never ends a finished rip's.
SameInsertion(failed, over) ==
    /\ poll.had
    /\ ~over
    /\ failed => row.status = "done" \/ marks.finished

\* note_medium_changed and same_insertion release a Stop's hold.
Released(over) ==
    IF over THEN [marks EXCEPT !.hold = "none", !.finished = FALSE,
                               !.changed = FALSE]
            ELSE marks

\* publish_poll_row: only over a row no worker has claimed.
Publish(status) == row' = IF Busy THEN row ELSE Put(status, FALSE)

\* The probe failed: the drive did not answer, or answered with the sense
\* that its medium changed (28h).  Failures come in bouts, and one that lasts
\* three probes shows the drive as wedged.
PollFails ==
    /\ poll.pc = "probe"
    /\ Fault
    /\ \E sense \in {FALSE, tray.changed}, wedge \in BOOLEAN :
         LET over == sense \/ marks.changed IN
         /\ tray' = [tray EXCEPT !.changed = @ /\ ~sense]
         /\ marks' = Released(over)
         /\ poll' = [poll EXCEPT !.pc = "rest", !.had = SameInsertion(TRUE, over)]
         /\ IF wedge THEN Publish("wedged") ELSE UNCHANGED row
    /\ UNCHANGED <<thread, halt, cancelled, session, web, eject, stop, worker,
                   past>>

\* stopped_disc_presence: an armed hold takes one absent answer for a disc
\* that settles, and ends at the second in a row.
HeldPresence(seen, hold) ==
    IF hold = "armed" /\ seen = "absent" THEN "settling" ELSE seen
\* Mutants of HeldAfter: the first absent answer ends the hold; the shown
\* presence is stored for the hold's own state.
HeldOnce(seen, hold) == IF seen # "absent" THEN hold ELSE "none"
HeldAsShown(seen, hold) == IF hold = "none" THEN "none" ELSE seen
HeldAfter(seen, hold) ==
    CASE hold = "none" -> "none"
      [] hold # "none" /\ seen # "absent" -> "armed"
      [] hold = "armed" /\ seen = "absent" -> "absent"
      [] hold = "absent" /\ seen = "absent" -> "none"

\* clear_probe_error, and the idle row of an empty or an unsettled drive.
ShownRow(idle) ==
    LET cleared == IF row.status = "wedged" THEN [row EXCEPT !.status = "idle"]
                                            ELSE row
    IN  IF idle /\ ~Busy THEN Put("idle", FALSE) ELSE cleared

\* The drive answers, and the answer goes through same_insertion, the hold,
\* the staging hold (a ready folder replays the insert) and poll_action.
Answer(seen, ready) ==
    LET over == tray.changed \/ marks.changed
        freed == Released(over)
        shown == HeldPresence(seen, freed.hold)
        held == [freed EXCEPT !.hold = HeldAfter(seen, freed.hold)]
        lifted == shown = "present" /\ marks.waiting /\ ready
        had == SameInsertion(FALSE, over) /\ ~lifted
        dispatch == shown = "present" /\ ~had /\ ~marks.cooldown
    IN
    /\ tray' = [tray EXCEPT !.changed = FALSE,
                            !.flaky = @ /\ ~(seen = "absent" /\ tray.disc # 0)]
    /\ marks' = CASE shown = "absent" ->
                       [held EXCEPT !.finished = FALSE, !.waiting = FALSE]
                  [] lifted -> [held EXCEPT !.waiting = FALSE]
                  [] OTHER -> held
    /\ session' = IF shown = "absent" /\ had THEN 0 ELSE session
    /\ row' = ShownRow(shown = "absent" \/ (shown = "settling" /\ ~had))
    /\ poll' = [poll EXCEPT !.pc = IF dispatch THEN "dispatch" ELSE "rest",
                            !.had = shown # "absent" /\ (had \/ dispatch)]
    /\ past' = Seen(seen)

PollAnswers ==
    /\ poll.pc = "probe"
    /\ \/ /\ NoFault
          /\ Answer(IF tray.disc = 0 THEN "absent" ELSE "present", TRUE)
       \* Some USB drives briefly report no medium after a cancellation.
       \/ /\ NoFault
          /\ tray.flaky /\ tray.disc # 0
          /\ Answer("absent", TRUE)
       \/ Fault /\ Answer("settling", TRUE)
       \/ Fault /\ marks.waiting /\ tray.disc # 0 /\ Answer("present", FALSE)
    /\ UNCHANGED <<thread, halt, cancelled, web, eject, stop, worker>>

\* on_insert = "nothing" shows the disc, over whatever row there is (a request
\* is claimed meanwhile only when requests are overtaken); update_state keeps
\* the row's job.
PollShows ==
    /\ poll.pc = "dispatch"
    /\ "nothing" \in OnInsert
    /\ Overtaken \/ ~MidRequest
    /\ row' = Put("idle", TRUE)
    /\ poll' = [poll EXCEPT !.pc = "rest"]
    /\ past' = Attend
    /\ UNCHANGED <<tray, thread, halt, cancelled, session, marks, web, eject,
                   stop, worker, left>>

\* try_claim_insert: under the lock Stop arms its hold with.
PollClaims ==
    /\ poll.pc = "dispatch"
    /\ OnInsert # {"nothing"}
    /\ ClaimAllowed
    /\ marks.hold = "none" /\ ~Running
    /\ Claim
    /\ poll' = [poll EXCEPT !.pc = "claimed", !.gen = row.gen + 1]
    /\ UNCHANGED <<tray, thread, halt, cancelled, session, web, eject, stop,
                   worker, past, left>>

PollRefused ==
    /\ poll.pc = "dispatch"
    /\ OnInsert # {"nothing"}
    /\ marks.hold # "none" \/ Running \/ Busy
    /\ poll' = [poll EXCEPT !.pc = "rest"]
    /\ UNCHANGED <<tray, row, thread, halt, cancelled, session, marks, web,
                   eject, stop, worker, past, left>>

PollRegisters ==
    /\ poll.pc = "claimed"
    /\ Register(<<"poll", "claim">>)
    /\ poll' = [poll EXCEPT !.pc = "armed"]
    /\ UNCHANGED <<tray, row, thread, session, marks, web, eject, stop,
                   worker, past, left>>

PollSpawns ==
    /\ poll.pc = "armed"
    /\ Spawn("poll", "insert", poll.gen)
    /\ poll' = [poll EXCEPT !.pc = "rest"]
    /\ UNCHANGED <<tray, cancelled, session, marks, web, eject, stop>>

Poll == \/ PollCheck \/ PollFails \/ PollAnswers \/ PollShows \/ PollClaims
        \/ PollRefused \/ PollRegisters \/ PollSpawns

-----------------------------------------------------------------------------
(* POST /api/scan and /api/rip.                                            *)

\* try_claim_active_checked asks for a live thread before it takes the row.
WebAsks ==
    /\ web.pc = "rest"
    /\ left.requests > 0
    /\ ~Running
    /\ \E kind \in {"scan", "rip"} :
         web' = [web EXCEPT !.pc = "asked", !.kind = kind]
    /\ left' = [left EXCEPT !.requests = @ - 1]
    /\ UNCHANGED <<tray, row, thread, halt, cancelled, session, marks, poll,
                   eject, stop, worker, past>>

WebClaims ==
    /\ web.pc = "asked"
    /\ ClaimAllowed
    /\ Claim
    /\ web' = [web EXCEPT !.pc = "claimed", !.gen = row.gen + 1]
    /\ past' = Request
    /\ UNCHANGED <<tray, thread, halt, cancelled, session, poll, eject, stop,
                   worker, left>>

WebRefused ==
    /\ web.pc = "asked"
    /\ Busy
    /\ web' = [web EXCEPT !.pc = "rest"]
    /\ UNCHANGED <<tray, row, thread, halt, cancelled, session, marks, poll,
                   eject, stop, worker, past, left>>

\* The operator's request lets go of a stopped disc.  Only a rip registers a
\* token before it starts.
WebRegisters ==
    /\ web.pc = "claimed"
    /\ marks' = [marks EXCEPT !.hold = "none"]
    /\ past' = [past EXCEPT !.stopped = 0, !.absent = 0, !.delivered = 0]
    /\ IF web.kind = "rip"
         THEN Register(<<"web", "claim">>) /\ UNCHANGED row
         ELSE row' = Put("scanning", TRUE) /\ UNCHANGED <<halt, cancelled>>
    /\ web' = [web EXCEPT !.pc = "armed"]
    /\ UNCHANGED <<tray, thread, session, poll, eject, stop, worker, left>>

WebSpawns ==
    /\ web.pc = "armed"
    /\ Spawn("web", web.kind, web.gen)
    /\ web' = [web EXCEPT !.pc = "rest"]
    /\ UNCHANGED <<tray, cancelled, session, marks, poll, eject, stop>>

WebHandles == WebClaims \/ WebRefused \/ WebRegisters \/ WebSpawns

-----------------------------------------------------------------------------
(* POST /api/eject.                                                        *)

EjectAsks ==
    /\ eject = "rest"
    /\ left.requests > 0
    /\ ~Running
    /\ eject' = "asked"
    /\ left' = [left EXCEPT !.requests = @ - 1]
    /\ UNCHANGED <<tray, row, thread, halt, cancelled, session, marks, poll,
                   web, stop, worker, past>>

EjectClaims ==
    /\ eject = "asked"
    /\ ClaimAllowed
    /\ Claim
    /\ eject' = "claimed"
    /\ past' = Request
    /\ UNCHANGED <<tray, thread, halt, cancelled, session, poll, web, stop,
                   worker, left>>

EjectRefused ==
    /\ eject = "asked"
    /\ Busy
    /\ eject' = "rest"
    /\ UNCHANGED <<tray, row, thread, halt, cancelled, session, marks, poll,
                   web, stop, worker, past, left>>

\* eject_drive: cancel whatever token is registered ...
EjectCancels ==
    /\ eject = "claimed"
    /\ cancelled' = cancelled \cup ({halt} \ {NoToken})
    /\ eject' = "joining"
    /\ UNCHANGED <<tray, row, thread, halt, session, marks, poll, web, stop,
                   worker, past, left>>

\* ... wait for the thread (at most 60 s), then take the idle session's drive.
EjectJoins ==
    /\ eject = "joining"
    /\ \/ Reap /\ NoFault
       \/ Running /\ Fault /\ UNCHANGED thread
    /\ past' = [past EXCEPT !.late = @ \/ Running]
    /\ session' = 0
    /\ halt' = NoToken
    /\ eject' = "ejecting"
    /\ UNCHANGED <<tray, row, cancelled, marks, poll, web, stop, worker>>

\* The drive takes the eject, and note_medium_changed ends the insertion ...
EjectOpens ==
    /\ eject = "ejecting"
    /\ tray' = [tray EXCEPT !.disc = 0, !.changed = FALSE, !.flaky = FALSE]
    /\ NewMedium
    /\ marks' = [marks EXCEPT !.hold = "none", !.finished = FALSE,
                              !.changed = TRUE]
    /\ eject' = "ejected"
    /\ UNCHANGED <<row, thread, halt, cancelled, session, poll, web, stop,
                   worker, left>>

\* ... or it does not.
EjectFails ==
    /\ eject = "ejecting"
    /\ Fault
    /\ eject' = "failed"
    /\ UNCHANGED <<tray, row, thread, halt, cancelled, session, marks, poll,
                   web, stop, worker, past>>

\* eject_outcome releases the claim either way.
EjectAnswers ==
    /\ eject \in {"ejected", "failed"}
    /\ row' = Put("idle", eject = "failed")
    /\ eject' = "rest"
    /\ UNCHANGED <<tray, thread, halt, cancelled, session, marks, poll, web,
                   stop, worker, past, left>>

EjectHandles == \/ EjectClaims \/ EjectRefused \/ EjectCancels \/ EjectJoins
                \/ EjectOpens \/ EjectFails \/ EjectAnswers

-----------------------------------------------------------------------------
(* POST /api/stop.                                                         *)

\* prepare_stop: read the generation, arm the hold and the cooldown.
StopPrepares ==
    /\ stop.pc = "rest"
    /\ left.stops > 0
    /\ Overtaken \/ ~MidRequest
    /\ stop' = [pc |-> "prepared", gen |-> row.gen]
    /\ marks' = [marks EXCEPT !.hold = "armed", !.cooldown = TRUE]
    /\ past' = [Attend EXCEPT !.stopped = IF Noticed THEN tray.disc ELSE 0,
                              !.absent = 0]
    /\ left' = [left EXCEPT !.stops = @ - 1]
    /\ UNCHANGED <<tray, row, thread, halt, cancelled, session, poll, web,
                   eject, worker>>

\* stop_and_drain: cancel the registered token ...
StopCancels ==
    /\ stop.pc = "prepared"
    /\ cancelled' = cancelled \cup ({halt} \ {NoToken})
    /\ past' = IF halt # NoToken /\ Running
                 THEN [past EXCEPT !.asked = @ \cup {thread}] ELSE past
    /\ stop' = [stop EXCEPT !.pc = "draining"]
    /\ UNCHANGED <<tray, row, thread, halt, session, marks, poll, web, eject,
                   worker, left>>

\* ... and wait for the thread to end, at most 60 s.
StopDrains ==
    /\ stop.pc = "draining"
    /\ \/ Reap /\ NoFault /\ stop' = [stop EXCEPT !.pc = "drained"]
       \/ /\ Running /\ Fault
          /\ stop' = [stop EXCEPT !.pc = "timed out"]
          /\ UNCHANGED thread
    /\ past' = [past EXCEPT !.late = @ \/ Running]
    /\ UNCHANGED <<tray, row, halt, cancelled, session, marks, poll, web,
                   eject, worker>>

\* apply_stop_to_state: a row re-claimed since is left alone.
StopApplies ==
    /\ stop.pc \in {"drained", "timed out"}
    /\ row' = IF row.gen # stop.gen THEN row
              ELSE Put(IF stop.pc = "drained" THEN "idle" ELSE "error", FALSE)
    /\ stop' = [stop EXCEPT !.pc = IF @ = "drained" THEN "release" ELSE "answer"]
    /\ UNCHANGED <<tray, thread, halt, cancelled, session, marks, poll, web,
                   eject, worker, past, left>>

\* release_stopped_drive, the same way; then the cooldown starts over.
StopAnswers ==
    /\ stop.pc \in {"release", "answer"}
    /\ session' = IF stop.pc = "release" /\ row.gen = stop.gen THEN 0 ELSE session
    /\ marks' = [marks EXCEPT !.cooldown = TRUE]
    /\ stop' = [stop EXCEPT !.pc = "rest"]
    /\ UNCHANGED <<tray, row, thread, halt, cancelled, poll, web, eject,
                   worker, past, left>>

StopHandles == StopCancels \/ StopDrains \/ StopApplies \/ StopAnswers

\* Five seconds pass.
CooldownEnds ==
    /\ marks.cooldown
    /\ marks' = [marks EXCEPT !.cooldown = FALSE]
    /\ UNCHANGED <<tray, row, thread, halt, cancelled, session, poll, web,
                   eject, stop, worker, past, left>>

-----------------------------------------------------------------------------
(* The worker threads: scan_disc, or handle_rip_request, or on an insert    *)
(* first the one and then the other.                                        *)

At(a, pc) == worker[a].pc = pc
Goes(a, pc) == worker' = [worker EXCEPT ![a].pc = pc]

\* scan_disc_for: the row shows the scan.
ScanBegins(a) ==
    /\ At(a, "start")
    /\ worker[a].kind \in {"scan", "insert"} \/ session = 0
    /\ row' = Put("scanning", TRUE)
    /\ Goes(a, "scanning")
    /\ UNCHANGED <<tray, thread, halt, cancelled, session, marks, poll, web, eject,
                   stop, past, left>>

\* handle_rip_request scans no disc that has its session already.  A probe
\* begun before the claim is over by then, unless requests are overtaken.
ScanSkipped(a) ==
    /\ At(a, "start")
    /\ Overtaken \/ poll.pc = "rest"
    /\ worker[a].kind \in {"rip", "auto"} /\ session # 0
    /\ Goes(a, "guard")
    /\ tray' = [tray EXCEPT !.flaky = FALSE]
    /\ UNCHANGED <<row, thread, halt, cancelled, session, marks, poll,
                   web, eject, stop, past, left>>

\* What follows the scan.
Scanned(a) ==
    Goes(a, CASE worker[a].kind = "scan" -> "tail"
              [] worker[a].kind = "insert" -> "again"
              [] OTHER -> "guard")
ByInsert(a) == worker[a].kind \in {"insert", "auto"}

\* A scan, a rip or a mux outlasts the moment between a Stop that arms its
\* hold and its cancel, unless requests are overtaken.
Unhurried == Overtaken \/ stop.pc # "prepared"

\* A rip or a mux outlasts the poll's tick as well (a bound): the loop has
\* looked at the drive meanwhile, and counts its disc as seen.
PollLooked == Unhurried /\ poll.pc = "rest" /\ poll.had

\* Mutant of HeldRows: the scan's job is shown before it is allowed.
HeldRowsEarly == {[row EXCEPT !.status = "error", !.job = tray.disc]}

\* The row of a scan that is held for the staging folder keeps the job it had
\* when the discs have the same label.
HeldRows == {Put("error", sameLabel) : sameLabel \in BOOLEAN}

\* The scan reads the disc, or fails, or its insert is held for the staging
\* folder.  The drive settled over it, and it took the sense a change of the
\* medium had left.
ScanEnds(a) ==
    /\ At(a, "scanning")
    /\ Unhurried
    /\ tray' = [tray EXCEPT !.changed = FALSE, !.flaky = FALSE]
    /\ \/ /\ tray.disc # 0
          /\ session' = tray.disc
          /\ row' = [row EXCEPT !.status = "idle", !.job = tray.disc]
          /\ NoFault
          /\ UNCHANGED marks
       \/ /\ IF tray.disc = 0 THEN NoFault ELSE Fault
          /\ row' = Put("error", FALSE)
          /\ UNCHANGED <<session, marks>>
       \/ /\ tray.disc # 0 /\ Fault
          /\ row' \in HeldRows
          /\ marks' = [marks EXCEPT !.waiting = @ \/ ByInsert(a)]
          /\ UNCHANGED session
    /\ Scanned(a)
    /\ UNCHANGED <<thread, halt, cancelled, poll, web, eject, stop, past>>

\* The insert goes on with the rip its setting asks for, unless a Stop came.
RipFollows(a) ==
    /\ At(a, "again")
    /\ \/ /\ Halted \/ "scan" \in OnInsert
          /\ Goes(a, "tail")
       \/ /\ ~Halted /\ "rip" \in OnInsert
          /\ worker' = [worker EXCEPT ![a].pc = "start", ![a].kind = "auto"]
    /\ UNCHANGED <<tray, row, thread, halt, cancelled, session, marks, poll,
                   web, eject, stop, past, left>>

\* The disc is delivered; a mark of an earlier insertion may be left, or the
\* hold of the Stop that came too late be used up.
Delivers(d) == [past EXCEPT !.delivered = d,
                            !.owed = \/ marks.waiting \/ marks.changed
                                     \/ past.asked # {} /\ marks.hold # "armed"]

\* handle_rip_request after the scan: a Stop or a failed scan ends it, the
\* staging guards stand down or finish what is staged (both let the session
\* go), or the rip starts.
Dispatches(a) ==
    /\ At(a, "guard")
    /\ \/ /\ Halted \/ session = 0
          /\ Goes(a, "tail")
          /\ NoFault
          /\ UNCHANGED <<row, session, marks, past>>
       \/ /\ ~Halted /\ session # 0
          /\ \/ \E status \in {"idle", "error", "done"} :
                  /\ status = "done" => PollLooked
                  /\ row' = Put(status, TRUE)
                  /\ marks' = [marks EXCEPT !.finished = @ \/ status = "done"]
                  /\ past' = IF status = "done" THEN Delivers(session) ELSE past
                  /\ NoFault
             \/ /\ Fault
                /\ row' = Put("error", TRUE)
                /\ marks' = [marks EXCEPT !.waiting = @ \/ ByInsert(a)]
                /\ UNCHANGED past
          /\ session' = 0
          /\ Goes(a, "tail")
       \/ /\ ~Halted /\ session # 0
          /\ Goes(a, "install")
          /\ NoFault
          /\ UNCHANGED <<row, session, marks, past>>
    /\ UNCHANGED <<tray, thread, halt, cancelled, poll, web, eject, stop>>

\* rip_disc_inner: its own token carries a Stop, and the job is the row's.
Installs(a) ==
    /\ At(a, "install")
    /\ \/ /\ row.job # 0
          /\ Swap(<<a, "rip">>)
          /\ row' = Put("scanning", TRUE)
          /\ worker' = [worker EXCEPT ![a].pc = "take", ![a].job = row.job]
       \/ /\ row.job = 0
          /\ row' = Put("error", TRUE)
          /\ halt' = NoToken /\ UNCHANGED cancelled
          /\ Goes(a, "tail")
    /\ UNCHANGED <<tray, thread, session, marks, poll, web, eject, stop, past,
                   left>>

\* take_session; without one the drive is opened and scanned anew.
Takes(a) ==
    /\ At(a, "take")
    /\ session' = 0
    /\ \/ /\ IF session # 0 THEN TRUE ELSE tray.disc # 0
          /\ worker' = [worker EXCEPT ![a].pc = "begin",
                          ![a].disc = IF session # 0 THEN session ELSE tray.disc]
          /\ UNCHANGED <<row, halt>>
       \/ /\ session = 0 /\ tray.disc = 0
          /\ row' = Put("error", FALSE)
          /\ halt' = NoToken
          /\ Goes(a, "tail")
    /\ UNCHANGED <<tray, thread, cancelled, marks, poll, web, eject, stop, past,
                   left>>

\* The checks before the capture, the job's among them, and then its start:
\* the token becomes the drive's own flag, and a Stop is carried over.
Begins(a) ==
    /\ At(a, "begin")
    /\ \/ /\ row.job = worker[a].job
          /\ row' = Put("ripping", TRUE)
          /\ Swap(<<a, "drive">>)
          /\ worker' = [worker EXCEPT ![a].pc = "sweep",
                                      ![a].tok = <<a, "drive">>]
          /\ NoFault
          /\ UNCHANGED marks
       \/ /\ IF row.job = worker[a].job THEN Fault ELSE NoFault
          /\ row' = Put("error", TRUE)
          /\ marks' = [marks EXCEPT !.waiting = @ \/ ByInsert(a)]
          /\ halt' = NoToken /\ UNCHANGED cancelled
          /\ Goes(a, "tail")
    /\ UNCHANGED <<tray, thread, session, poll, web, eject, stop, past>>

\* The passes and the mux.
SweepEnds(a) ==
    /\ At(a, "sweep")
    /\ PollLooked
    /\ \/ /\ row' = Put("done", TRUE)
          /\ marks' = [marks EXCEPT !.finished = TRUE]
          /\ past' = Delivers(worker[a].disc)
          /\ \E pc \in {"eject", "tail"} : Goes(a, pc)
          /\ NoFault
       \/ /\ Fault
          /\ row' = Put("error", TRUE)
          /\ Goes(a, "tail")
          /\ UNCHANGED <<marks, past>>
       \* A stopped rip leaves its row to the Stop.
       \/ /\ worker[a].tok \in cancelled
          /\ NoFault
          /\ Goes(a, "tail")
          /\ UNCHANGED <<row, marks, past>>
       \* An image that cannot be made durable or handed off notes its error
       \* and leaves the status.
       \/ /\ ImageOutput /\ Fault
          /\ Goes(a, "tail")
          /\ UNCHANGED <<row, marks, past>>
    /\ UNCHANGED <<tray, thread, halt, cancelled, session, poll, web, eject,
                   stop>>

\* auto_eject: eject_drive from the worker itself, whose thread it does not
\* wait for.
AutoEjects(a) ==
    /\ At(a, "eject")
    /\ cancelled' = cancelled \cup ({halt} \ {NoToken})
    /\ session' = 0
    /\ halt' = NoToken
    /\ \/ /\ tray' = [tray EXCEPT !.disc = 0, !.changed = FALSE, !.flaky = FALSE]
          /\ NewMedium
          /\ NoFault
       \/ Fault /\ UNCHANGED <<tray, past>>
    /\ Goes(a, "tail")
    /\ UNCHANGED <<row, thread, marks, poll, web, eject, stop>>

\* What the thread leaves behind: every kind but a scan drops the token that
\* is registered, and its disc has had its turn, but for an insert that waits.
\* A drive a cancelled thread lets go of may answer once that it is empty.
Left(a) == [past EXCEPT !.asked = @ \ {a},
                        !.attended = IF ByInsert(a) /\ marks.waiting THEN @
                                       ELSE @ \cup ({tray.disc} \ {0})]

Ends(a) ==
    /\ At(a, "tail")
    /\ halt' = IF worker[a].kind = "scan" THEN halt ELSE NoToken
    /\ worker' = [worker EXCEPT ![a] = [NoWork EXCEPT !.pc = "ended"]]
    /\ tray' = [tray EXCEPT !.flaky = @ \/ a \in past.asked]
    /\ past' = Left(a)
    /\ UNCHANGED <<row, thread, cancelled, session, marks, poll, web, eject,
                   stop, left>>

\* The spawn sites catch a panic.
Panics(a) ==
    /\ Live(a)
    /\ Fault
    /\ row' = Put("error", worker[a].kind = "scan")
    /\ session' = IF ByInsert(a) THEN 0 ELSE session
    /\ halt' = IF worker[a].kind = "scan" THEN halt ELSE NoToken
    /\ worker' = [worker EXCEPT ![a] = [NoWork EXCEPT !.pc = "ended"]]
    /\ past' = Left(a)
    /\ UNCHANGED <<tray, thread, cancelled, marks, poll, web, eject, stop>>

Worker(a) ==
    \/ ScanBegins(a) \/ ScanSkipped(a) \/ ScanEnds(a) \/ RipFollows(a)
    \/ Dispatches(a) \/ Installs(a) \/ Takes(a) \/ Begins(a) \/ SweepEnds(a)
    \/ AutoEjects(a) \/ Ends(a)

-----------------------------------------------------------------------------
(* People.  The drive keeps its tray shut for the thread that reads it, and *)
(* nobody feeds an empty one while a thread looks for its disc or an Eject  *)
(* is under way (a bound).                                                  *)

TakeOut ==
    /\ tray.disc # 0
    /\ \A a \in Claimants : ~Live(a)
    /\ tray' = [tray EXCEPT !.disc = 0]
    /\ NewMedium
    /\ UNCHANGED <<row, thread, halt, cancelled, session, marks, poll, web,
                   eject, stop, worker, left>>

PutIn ==
    /\ tray.disc = 0
    /\ tray.seen < MaxDiscs
    /\ eject \in {"rest", "asked"}
    /\ \A a \in Claimants : ~Live(a)
    /\ tray' = [disc |-> tray.seen + 1, seen |-> tray.seen + 1,
                changed |-> TRUE, flaky |-> FALSE]
    /\ UNCHANGED <<row, thread, halt, cancelled, session, marks, poll, web,
                   eject, stop, worker, past, left>>

Next ==
    \/ Poll \/ WebAsks \/ WebHandles \/ EjectAsks \/ EjectHandles
    \/ StopPrepares \/ StopHandles \/ CooldownEnds \/ TakeOut \/ PutIn
    \/ \E a \in Claimants : Worker(a) \/ Panics(a)

Spec == Init /\ [][Next]_vars

\* The poll loop ticks for ever, a handler that began goes on, a worker does
\* too (its passes are bounded by watchdogs), and time passes.  Nobody has to
\* press anything, to touch the tray or to fail.
FairSpec ==
    /\ Spec
    /\ WF_vars(Poll) /\ WF_vars(WebHandles) /\ WF_vars(EjectHandles)
    /\ WF_vars(StopHandles) /\ WF_vars(CooldownEnds)
    /\ \A a \in Claimants : WF_vars(Worker(a))

-----------------------------------------------------------------------------
(* Properties.                                                             *)

WorkerPcs == {"none", "start", "scanning", "again", "guard", "install", "take",
              "begin", "sweep", "eject", "tail", "ended"}

\* The variables keep their types (the static registries of session.rs and
\* state.rs, the row, and the local state of the threads).
TypeOK ==
    /\ tray \in [disc : Discs, seen : Discs, changed : BOOLEAN, flaky : BOOLEAN]
    /\ row \in [status : Statuses, gen : Nat, job : Discs]
    /\ thread \in Claimants \cup {NoOne}
    /\ halt \in Tokens \cup {NoToken}
    /\ cancelled \subseteq Tokens
    /\ session \in Discs
    /\ marks \in [hold : {"none", "armed", "absent"}, cooldown : BOOLEAN,
                  finished : BOOLEAN, changed : BOOLEAN, waiting : BOOLEAN]
    /\ poll \in [pc : {"rest", "probe", "dispatch", "claimed", "armed"},
                 gen : Nat, had : BOOLEAN]
    /\ web \in [pc : {"rest", "asked", "claimed", "armed"}, gen : Nat,
                kind : {"scan", "rip"}]
    /\ eject \in {"rest", "asked", "claimed", "joining", "ejecting", "ejected",
                  "failed"}
    /\ stop \in [pc : {"rest", "prepared", "draining", "drained", "timed out",
                       "release", "answer"}, gen : Nat]
    /\ worker \in [Claimants -> [pc : WorkerPcs,
                                 kind : {"scan", "rip", "insert", "auto"},
                                 disc : Discs, job : Discs,
                                 tok : Tokens \cup {NoToken}]]
    /\ past \in [stopped : Discs, absent : 0 .. 2, delivered : Discs,
                 attended : SUBSET Discs, asked : SUBSET Claimants,
                 late : BOOLEAN, owed : BOOLEAN]
    /\ left \in [stops : Nat, requests : Nat, faults : Nat]

\* One thread at a time works on a drive, whatever the poll loop, the handlers
\* and a Stop that runs out of time do: the claim on the row and the thread's
\* handle are two locks, and the row turns idle in the middle of a rip
\* (between its scan and its start) and when a Stop gives up.
OneWorker == \A a, b \in Claimants : Live(a) /\ Live(b) => a = b

\* What the operator stopped does not start by itself: while a stopped disc,
\* one whose insertion the drive has reported, stays in the drive the poll loop
\* never claims it again, through the cooldown's end, an absent answer of a
\* drive that settles, failed probes and rows the late worker paints
\* (try_claim_insert, stopped_disc_presence).  Excepted is a disc that was
\* reported absent twice in a row since, which counts as taken out; a second
\* Stop makes that happen, when the drive settles once for each.
StoppedStaysStopped ==
    [][poll.pc = "dispatch" /\ poll'.pc = "claimed"
         => past.absent = 2 \/ past.stopped \notin {tray.disc} \ {0}]_vars

\* A disc that was ripped is not ripped again by itself: no probe failure, no
\* lost had_disc and no Stop after the end turns a delivered disc that is
\* still in the drive into a new insert (same_insertion, the finished mark).
\* Excepted is a disc delivered while a mark of an earlier insert was left: a
\* wait for the staging folder, or an Eject the poll loop had not noticed; one
\* whose Stop came before its rip had begun and had its hold used up by then;
\* and one the operator has asked for something since: an Eject that the drive
\* refuses leaves the disc to the next failed probe.
FinishedStays ==
    [][poll.pc = "dispatch" /\ poll'.pc = "claimed"
         => past.owed \/ past.delivered \notin {tray.disc} \ {0}]_vars

\* The same without the exceptions, as same_insertion promises it: "A probe
\* failure never ends a finished rip's insertion, so a bus glitch cannot re-rip
\* a delivered disc.  A drive a worker holds is never probed and the insert
\* claim refuses a busy drive, so no rip starts twice."  The code does not keep
\* it, so no configuration here checks it; the README names the constants that
\* show it.
DeliveredOnce ==
    [][poll.pc = "dispatch" /\ poll'.pc = "claimed"
         => past.delivered \notin {tray.disc} \ {0}]_vars

\* A capture writes into the folder of the disc whose session it took: the job
\* is read from the row, the session from its own map, and either may be
\* dropped or replaced in between (rip_disc_inner's second look at the job).
JobMatchesSession ==
    \A a \in Claimants : worker[a].pc = "sweep" => worker[a].job = worker[a].disc

\* A Stop reaches the rip it was pressed on: whichever token it found, the
\* placeholder of the spawn, that of the rip or the drive's own, the sweep
\* that follows runs under a cancelled one (swap_halt_carrying_cancel).
StopReaches ==
    \A a \in past.asked : worker[a].pc = "sweep" => worker[a].tok \in cancelled

\* When Stop reports the drive free, nobody works on it: a drained Stop finds
\* the row of its own generation with no thread alive (stop_and_drain before
\* apply_stop_to_state and release_stopped_drive).
StoppedIsFree ==
    stop.pc \in {"drained", "release"} /\ row.gen = stop.gen
        => \A a \in Claimants : ~Live(a)

\* A row does not stay busy: every claim ends in a terminal row, through
\* refusals, failed spawns, panics and Stops, or the drive would answer 409 and
\* never be polled again.  Excepted is a thread that outlived the minute a
\* Stop or an Eject waits for it.
BusyEnds == Busy ~> (~Busy \/ past.late)

\* A disc that stays in the drive gets its turn: the on-insert work runs to its
\* end, or the operator asks for something, though a cooldown, a hold for the
\* staging folder, a settling drive or failed probes delay it.
NewDiscStarts ==
    \A d \in 1 .. MaxDiscs : tray.disc = d ~> d \in past.attended \/ tray.disc # d

\* handle_rip_request: "Eject + re-insert calls drop_session, so a stale
\* session can't survive it."  Then a capture reads the disc its session and
\* its folder are of, once the drive has reported the change of the disc.
SweepsItsDisc ==
    \A a \in Claimants : worker[a].pc = "sweep" /\ tray.disc # 0 /\ Noticed
                            => worker[a].disc = tray.disc

=============================================================================
