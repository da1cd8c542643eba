--------------------------- MODULE MoverDelivery ---------------------------
(***************************************************************************)
(* Filing finished rips into the library (src/server/mover.rs with          *)
(* mover_manifest.rs and mover_copy_monitor.rs): one mover thread passes    *)
(* over the staging folders.  A pass freezes a delivery in a journal under  *)
(* names no file and no other delivery holds, publishes each file without   *)
(* replacing anything, verifies and links what it published, and only then  *)
(* empties the staging folder.  Failures are counted in an error row,       *)
(* mirrored in the journal, until the delivery is held for the operator.    *)
(*                                                                          *)
(* All jobs are discs of one title, so they compete for the same names.  A  *)
(* file is known by its job and part: its recorded stamp, its head and its  *)
(* tail match that file and no other.                                       *)
(***************************************************************************)
EXTENDS Naturals, FiniteSets

CONSTANTS
    Jobs,        \* finished rips in staging
    KeepsIso,    \* the jobs that file their ISO beside the MKV
    MaxVariant,  \* the disc variants a title may take (MAX_DISC_VARIANTS)
    MaxActs      \* bound on faults, crashes, requests and acts of people

ASSUME JobsAssumption == KeepsIso \subseteq Jobs /\ {"free", "empty", "foreign"} \cap Jobs = {}
ASSUME BoundsAssumption == MaxVariant \in Nat \ {0} /\ MaxActs \in Nat

VARIABLES
    dest,        \* what each name in the library holds
    share,       \* the library's storage: up, failing (any operation may fail), down
    folder,      \* the title's folder exists
    sameDevice,  \* a rename reaches the library
    staged,      \* the files still in staging
    extra,       \* jobs whose staging folder got a file nobody planned
    gone,        \* jobs whose staging folder is removed
    shaky,       \* reads and writes of staging may fail
    journal,     \* each job's delivery journal
    row,         \* each job's error row (MOVE_ERRORS, in memory)
    request,     \* the operator's Retry not yet applied (RETRY_REQUESTS, in memory)
    linked,      \* jobs whose delivery is in the source links
    m,           \* the mover thread
    acts,        \* faults and acts of people so far
    taken,       \* files whose only copy people took from the library (history)
    spent,       \* failed deliveries counted since the last Retry was applied (history)
    unsaved,     \* jobs whose retry state could not be saved since then (history)
    asked        \* jobs retried by the operator since their last hold (history)

library == <<dest, share, folder, sameDevice>>
staging == <<staged, extra, gone, shaky>>
memory == <<row, request>>
history == <<taken, spent, unsaved, asked>>
vars == <<library, staging, journal, memory, linked, m, acts, history>>

Parts(j) == IF j \in KeepsIso THEN {"mkv", "iso"} ELSE {"mkv"}
Variants == 1 .. MaxVariant
Slots == {"mkv", "iso"} \X Variants
Files == {f \in Jobs \X {"mkv", "iso"} : f[2] \in Parts(f[1])}

NoJournal == [variant |-> 0, prepared |-> {}, completed |-> {}, announced |-> FALSE,
              tries |-> 0, until |-> "none"]
NoRow == [at |-> "none", tries |-> 0, waits |-> "no", busy |-> FALSE, resume |-> "no",
          tears |-> 0]
Idle == [at |-> "idle", job |-> "none", how |-> "due", variant |-> 0, todo |-> {},
         part |-> "mkv", out |-> {}]

Frozen(j) == journal[j].variant # 0
Slot(j, p) == <<p, journal[j].variant>>
Holds(j, p) == dest[Slot(j, p)] = j

\* verify_parent and every look at the library need its share and the title's folder.
Reachable == share # "down" /\ folder

Go(at) == m' = [m EXCEPT !.at = at]
Stop == m' = Idle
Act == acts < MaxActs /\ acts' = acts + 1

-----------------------------------------------------------------------------
(* Error rows and the retry budget *)

\* `record_error`: a new row is due; an old one keeps its deadline and its counts.
Recorded(r) ==
    [r EXCEPT !.at = IF @ = "none" THEN "due" ELSE @,
              !.waits = "no", !.busy = FALSE, !.resume = "no"]

RecordError(j) == row' = [row EXCEPT ![j] = Recorded(@)]

\* Mutant of the next operator: the third failure waits once more.
RetryDelayThird(n) == IF n <= 3 THEN "wait" ELSE "held"

\* `retry_delay`: 30 s, 2 min, then nothing but the operator's Retry.
RetryDelay(n) == IF n <= 2 THEN "wait" ELSE "held"

\* A save of the journal; an error may follow a successful rename.
Saved(j, new) == journal' = [journal EXCEPT ![j] = new]
SaveFails(j, new) == shaky /\ journal' \in {journal, [journal EXCEPT ![j] = new]}

\* `apply_retry`: the row of a copy worker that has not returned stays held.
Applied(r, n, until) ==
    IF r.busy THEN [r EXCEPT !.tries = n, !.at = "held", !.resume = until]
              ELSE [r EXCEPT !.tries = n, !.at = until]

\* `commit_retry_with`: the journal first, then the row; a state that cannot be saved
\* holds the delivery.  A job without a journal has only its row.
CommitRetry(j, r, n, until) ==
    LET new == [journal[j] EXCEPT !.tries = n, !.until = until]
    IN  /\ asked' = asked \ {j}
        /\ \/ /\ IF Frozen(j) THEN Saved(j, new) ELSE UNCHANGED journal
              /\ row' = [row EXCEPT ![j] = Applied(r, n, until)]
              /\ UNCHANGED unsaved
           \/ /\ Frozen(j) /\ SaveFails(j, new)
              /\ row' = [row EXCEPT ![j] = Applied(r, n, "held")]
              /\ unsaved' = unsaved \cup {j}

\* `schedule_move_retry`, after `record_error` made the row r.
Schedule(j, r) ==
    /\ CommitRetry(j, r, r.tries + 1, RetryDelay(r.tries + 1))
    /\ spent' = [spent EXCEPT ![j] = @ + 1]
    /\ UNCHANGED taken

\* `hold_for_operator`: no attempt is counted.
Hold(j, r) == CommitRetry(j, r, r.tries, "held") /\ UNCHANGED <<taken, spent>>

\* `back_off_unjournaled`: counted in the row alone.
BackOff(j) ==
    LET r == Recorded(row[j])
    IN  row' = [row EXCEPT ![j] = [r EXCEPT !.tries = @ + 1, !.at = RetryDelay(r.tries + 1)]]

\* `teardown_blocked`: a count of its own.
TeardownBlocked(j) ==
    LET r == Recorded(row[j])
    IN  row' = [row EXCEPT ![j] = [r EXCEPT !.tears = @ + 1, !.at = RetryDelay(r.tears + 1)]]

\* The pass ends with the row shown and nothing else changed.
EndWith(newRow) ==
    /\ newRow
    /\ Stop
    /\ UNCHANGED <<library, staging, journal, request, linked, acts, history>>

-----------------------------------------------------------------------------
(* check_and_move: a pass begins *)

\* `move_retry_ready`.
Ready(j) == row[j].at \in {"none", "due"}

\* The mover takes a staging folder whose row lets it.
Takes(j) == m.at = "idle" /\ j \notin gone /\ Ready(j)

LoadFails(j) ==
    /\ Takes(j)
    /\ shaky
    /\ EndWith(RecordError(j))

\* `restore_retry`, a Retry: the journal forgets its count, then the pass goes on.
BeginRequested(j) ==
    LET new == [journal[j] EXCEPT !.tries = 0, !.until = "none"]
    IN  /\ Takes(j)
        /\ request[j] # "no"
        /\ request' = [request EXCEPT ![j] = "no"]
        /\ spent' = [spent EXCEPT ![j] = 0]
        /\ \/ /\ Saved(j, new)
              /\ m' = [Idle EXCEPT !.at = "check", !.job = j,
                                   !.how = IF Frozen(j) THEN request[j] ELSE "due"]
              /\ UNCHANGED row
           \/ /\ Frozen(j) /\ journal[j].until # "none" /\ SaveFails(j, new)
              /\ RecordError(j)
              /\ UNCHANGED m
        /\ UNCHANGED <<library, staging, linked, acts, taken, unsaved, asked>>

\* Mutant of the next operator: the row is derived again on every pass.
StandsNewer(j) ==
    journal[j].until = "none" \/ (row[j].at # "none" /\ row[j].tries > journal[j].tries)

\* The row already holds the journal's state, or a newer one it could not save.
Stands(j) == journal[j].until = "none" \/ (row[j].at # "none" /\ row[j].tries >= journal[j].tries)

BeginDue(j) ==
    /\ Takes(j)
    /\ request[j] = "no"
    /\ Stands(j)
    /\ m' = [Idle EXCEPT !.at = "check", !.job = j]
    /\ UNCHANGED <<library, staging, journal, memory, linked, acts, history>>

\* The row is derived from the journal again; a deadline that passed makes it due soon.
Restore(j) ==
    /\ Takes(j)
    /\ request[j] = "no"
    /\ ~Stands(j)
    /\ EndWith(row' = [row EXCEPT ![j] = [@ EXCEPT !.tries = journal[j].tries,
                                                   !.at = journal[j].until]])

Begin(j) == LoadFails(j) \/ BeginRequested(j) \/ BeginDue(j) \/ Restore(j)

WaitRow(j, for) == row' = [row EXCEPT ![j] = [Recorded(@) EXCEPT !.waits = for]]

\* Each destination root passes a write test, and a journaled title folder must exist.
CheckFails ==
    LET j == m.job
    IN  /\ m.at = "check"
        /\ \/ share = "down" /\ EndWith(WaitRow(j, "root"))
           \/ share = "down" /\ ~Frozen(j) /\ EndWith(RecordError(j))
           \/ /\ share # "down" /\ Frozen(j) /\ m.how # "recreate" /\ ~folder
              /\ EndWith(WaitRow(j, "folder"))

\* The waits of every job on a root that passed are over.
Recovered(j) ==
    [k \in Jobs |->
        IF row[k].tries = 0 /\ (row[k].waits = "root" \/ (k = j /\ row[k].waits = "folder"))
        THEN NoRow ELSE row[k]]

\* Mutant of the next operator: the journal counts once a file is completed.
AfterCheckCompleted(j) ==
    IF journal[j].completed = {} THEN "plan" ELSE IF m.how = "recreate" THEN "recreate" ELSE "locks"

\* A journaled delivery is never planned again.
AfterCheck(j) ==
    IF ~Frozen(j) THEN "plan" ELSE IF m.how = "recreate" THEN "recreate" ELSE "locks"

CheckPasses ==
    /\ m.at = "check"
    /\ share # "down"
    /\ ~Frozen(m.job) \/ m.how = "recreate" \/ folder
    /\ row' = Recovered(m.job)
    /\ m' = [m EXCEPT !.how = "due", !.at = AfterCheck(m.job)]
    /\ UNCHANGED <<library, staging, journal, request, linked, acts, history>>

-----------------------------------------------------------------------------
(* Freezing a plan *)

\* Mutant of the next operator: only what is published counts as taken.
ReservedNever(j, p, n) == FALSE

\* `reserved_elsewhere`: another job's journal names it, published or not.
Reserved(j, p, n) ==
    \E k \in Jobs \ ({j} \cup gone) : journal[k].variant = n /\ p \in Parts(k)

\* `unowned_dest_claim`, of a name that may be reserved.
Claim(j, p, n) ==
    IF Reserved(j, p, n) \/ dest[<<p, n>>] \notin {"free", "empty"} THEN "other"
    ELSE dest[<<p, n>>]

\* `disc_variant` tries a number only after some name of each number below is taken.
Tries(j, n) == \A k \in 1 .. n - 1 : \E p \in Parts(j) : Claim(j, p, k) = "other"

Untaken(j, n) == \A p \in Parts(j) : Claim(j, p, n) = "free"

Plan ==
    /\ m.at = "plan"
    /\ share # "down"
    /\ \E n \in Variants :
        /\ Tries(m.job, n) /\ Untaken(m.job, n)
        /\ m' = [m EXCEPT !.at = "freeze", !.variant = n]
    /\ UNCHANGED <<library, staging, journal, memory, linked, acts, history>>

\* The journals of the others cannot be read, or the names cannot be examined.
PlanUncertain ==
    /\ m.at = "plan"
    /\ shaky \/ share = "down"
    /\ EndWith(RecordError(m.job))

\* An empty file in the way, or every name taken: held until the operator's Retry.
PlanHeld ==
    /\ m.at = "plan"
    /\ share # "down"
    /\ \/ \E n \in Variants, p \in Parts(m.job) : Tries(m.job, n) /\ Claim(m.job, p, n) = "empty"
       \/ Tries(m.job, MaxVariant + 1)
    /\ Hold(m.job, Recorded(row[m.job]))
    /\ Stop
    /\ UNCHANGED <<library, staging, request, linked, acts>>

\* Manifest::create refuses a destination that appeared since the plan.
StillFree == share # "down" /\ \A p \in Parts(m.job) : dest[<<p, m.variant>>] = "free"

\* What lies in the staging folder at the freeze is planned for removal with it.
Freeze ==
    /\ m.at = "freeze"
    /\ StillFree
    /\ folder' = TRUE
    /\ extra' = extra \ {m.job}
    /\ row' = [row EXCEPT ![m.job] = NoRow]
    /\ LET new == [NoJournal EXCEPT !.variant = m.variant]
       IN  \/ Saved(m.job, new) /\ m' = [m EXCEPT !.at = "locks", !.variant = 0]
           \/ shaky /\ Saved(m.job, new) /\ Stop
    /\ UNCHANGED <<dest, share, sameDevice, staged, gone, shaky, request, linked, acts, history>>

FreezeFails ==
    /\ m.at = "freeze"
    /\ ~StillFree \/ shaky \/ share = "failing"
    /\ EndWith(BackOff(m.job))

\* A Retry of the missing-folder row makes the folders of a frozen plan again.
Recreate ==
    /\ m.at = "recreate"
    /\ \/ /\ share # "down"
          /\ folder' = TRUE
          /\ Go("locks")
          /\ UNCHANGED row
       \/ share # "up" /\ UNCHANGED folder /\ RecordError(m.job) /\ Stop
    /\ UNCHANGED <<dest, share, sameDevice, staging, journal, request, linked, acts, history>>

Locks ==
    /\ m.at = "locks"
    /\ Reachable
    /\ m' = [m EXCEPT !.at = "deliver", !.todo = Parts(m.job)]
    /\ UNCHANGED <<library, staging, journal, memory, linked, acts, history>>

\* Another library operation holds a destination, or the folder is out of reach.
LocksFail ==
    /\ m.at = "locks"
    /\ ~Reachable
    /\ EndWith(RecordError(m.job))

LocksBusy ==
    /\ m.at = "locks"
    /\ Act
    /\ RecordError(m.job)
    /\ Stop
    /\ UNCHANGED <<library, staging, journal, request, linked, history>>

-----------------------------------------------------------------------------
(* Manifest::deliver and move_file, one file after the other *)

\* The outcome of a file.  A stall ends the batch.
Outcome(p, o) ==
    m' = [m EXCEPT !.todo = @ \ {p}, !.out = @ \cup {o}, !.part = "mkv",
                   !.at = IF m.todo = {p} THEN "judge" ELSE "deliver"]

Delivers(p) == m.at = "deliver" /\ p \in m.todo

\* The delivery stops at what it finds: nothing is touched.
Refuses(p) ==
    LET j == m.job
        s == dest[Slot(j, p)]
        held == \/ ~Reachable
                \/ s = "empty"
                \/ s # "free" /\ p \in journal[j].prepared /\ s # j
                \/ s = "free" /\ (p \in journal[j].completed \/ <<j, p>> \notin staged)
                \/ share = "failing"
        collides == Reachable /\ s \notin {"free", "empty"} /\ p \notin journal[j].prepared
    IN  /\ Delivers(p)
        /\ \/ held /\ Outcome(p, "held")
           \/ collides /\ Outcome(p, "collision")
        /\ UNCHANGED <<library, staging, journal, memory, linked, acts, history>>

\* Mutant of the next operator: whatever is found under the name is taken for ours.
OursAny(j, p) == dest[Slot(j, p)] # "free" /\ p \in journal[j].prepared

\* The stamp it prepared, and the head and tail of the staged file while there is one.
Ours(j, p) == Holds(j, p) /\ p \in journal[j].prepared

\* A publication found after a crash is adopted, a completed one is passed over.
Adopt(p) ==
    LET j == m.job
        new == [journal[j] EXCEPT !.completed = @ \cup {p}]
    IN  /\ Delivers(p)
        /\ Reachable /\ Ours(j, p)
        /\ \/ Saved(j, new) /\ Outcome(p, "skipped")
           \/ p \notin journal[j].completed /\ SaveFails(j, new) /\ Outcome(p, "held")
        /\ UNCHANGED <<library, staging, memory, linked, acts, history>>

\* The checkpoint: the journal knows the file before it is published.
Prepare(p) ==
    LET j == m.job
        new == [journal[j] EXCEPT !.prepared = @ \cup {p}]
    IN  /\ Delivers(p)
        /\ Reachable
        /\ dest[Slot(j, p)] = "free" /\ p \notin journal[j].completed
        /\ <<j, p>> \in staged
        /\ \/ Saved(j, new) /\ m' = [m EXCEPT !.at = "rename", !.part = p]
           \/ SaveFails(j, new) /\ Outcome(p, "failed")
        /\ UNCHANGED <<library, staging, memory, linked, acts, history>>

\* Mutant of the next operator: a publication replaces what it finds.
VacantAlways(s) == TRUE

\* A publication never replaces anything (`no_replace`).
Vacant(s) == dest[s] = "free"

\* An operation of the destination that failed, or is not supported there.
Fails(p) == share # "up" /\ \E o \in {"failed", "unsupported"} : Outcome(p, o)

\* Published, then settled; a failed sync of the folder leaves that to a later pass.
Published(p) ==
    \/ m' = [m EXCEPT !.at = "settle"]
    \/ share = "failing" /\ Outcome(p, "failed")

Rename ==
    LET j == m.job
        p == m.part
    IN  /\ m.at = "rename"
        /\ \/ /\ Reachable /\ sameDevice /\ Vacant(Slot(j, p))
              /\ dest' = [dest EXCEPT ![Slot(j, p)] = j]
              /\ staged' = staged \ {<<j, p>>}
              /\ Published(p)
           \/ /\ Reachable /\ sameDevice /\ ~Vacant(Slot(j, p)) /\ Outcome(p, "collision")
              /\ UNCHANGED <<dest, staged>>
           \/ /\ Reachable /\ ~sameDevice /\ Go("copy")
              /\ UNCHANGED <<dest, staged>>
           \/ /\ Fails(p) \/ (~Reachable /\ Outcome(p, "failed"))
              /\ UNCHANGED <<dest, staged>>
        /\ UNCHANGED <<share, folder, sameDevice, extra, gone, shaky, journal, memory, linked,
                       acts, history>>

\* The copy to a temporary name, its checkpoint and its publication.
Copy ==
    LET j == m.job
        p == m.part
        new == [journal[j] EXCEPT !.prepared = @ \cup {p}]
    IN  /\ m.at = "copy"
        /\ \/ /\ Reachable /\ Saved(j, new) /\ Vacant(Slot(j, p))
              /\ dest' = [dest EXCEPT ![Slot(j, p)] = j]
              /\ Published(p)
           \/ /\ Reachable /\ Saved(j, new) /\ ~Vacant(Slot(j, p)) /\ Outcome(p, "collision")
              /\ UNCHANGED dest
           \/ SaveFails(j, new) /\ Outcome(p, "failed") /\ UNCHANGED dest
           \/ /\ Fails(p) \/ (~Reachable /\ Outcome(p, "failed"))
              /\ UNCHANGED <<dest, journal>>
        /\ UNCHANGED <<share, folder, sameDevice, staging, memory, linked, acts, history>>

\* The monitor gives up on a copy without progress (`blocked`, `commit_stall`): the attempt
\* counts at once, though the worker has not returned.
Stall ==
    LET j == m.job
    IN  /\ m.at = "copy"
        /\ share # "up"
        /\ Schedule(j, [Recorded(row[j]) EXCEPT !.busy = TRUE, !.at = "held"])
        /\ Go("stalled")
        /\ UNCHANGED <<library, staging, request, linked, acts>>

\* The worker returns; a publication it had already entered may have finished.
WorkerReturns ==
    LET j == m.job
        p == m.part
    IN  /\ m.at = "stalled"
        /\ \/ UNCHANGED dest
           \/ Reachable /\ Vacant(Slot(j, p)) /\ dest' = [dest EXCEPT ![Slot(j, p)] = j]
        /\ row' = [row EXCEPT ![j].busy = FALSE]
        /\ m' = [m EXCEPT !.at = "judge", !.out = @ \cup {"stalled"}]
        /\ UNCHANGED <<share, folder, sameDevice, staging, journal, request, linked, acts,
                       history>>

\* `settle`: completed only as verified at the name.
Settle ==
    LET j == m.job
        p == m.part
        new == [journal[j] EXCEPT !.completed = @ \cup {p}]
    IN  /\ m.at = "settle"
        /\ \/ Reachable /\ Holds(j, p) /\ Saved(j, new) /\ Outcome(p, "moved")
           \/ Reachable /\ Holds(j, p) /\ SaveFails(j, new) /\ Outcome(p, "held")
           \/ ~(Reachable /\ Holds(j, p)) /\ Outcome(p, "held") /\ UNCHANGED journal
        /\ UNCHANGED <<library, staging, memory, linked, acts, history>>

Deliver ==
    \/ \E p \in {"mkv", "iso"} : Refuses(p) \/ Adopt(p) \/ Prepare(p)
    \/ Rename \/ Copy \/ Stall \/ Settle

-----------------------------------------------------------------------------
(* What a batch of outcomes leads to *)

Judges == m.at = "judge" /\ Stop /\ UNCHANGED <<library, staging, request, linked, acts>>

\* `finish_stall`: the attempt stands; its wait starts now.
FinishStall ==
    LET j == m.job
        r == row[j]
    IN  /\ Judges
        /\ "stalled" \in m.out
        /\ \/ /\ r.resume = "wait"
              /\ CommitRetry(j, [r EXCEPT !.resume = "no"], r.tries, RetryDelay(r.tries))
              /\ UNCHANGED <<taken, spent>>
           \/ /\ r.resume = "held"
              /\ row' = [row EXCEPT ![j] = [@ EXCEPT !.at = "held", !.resume = "no"]]
              /\ UNCHANGED <<journal, history>>
           \/ r.at = "none" /\ UNCHANGED <<journal, row, history>>

JudgeUnsupported ==
    /\ Judges
    /\ "stalled" \notin m.out /\ "unsupported" \in m.out
    /\ Hold(m.job, Recorded(row[m.job]))

\* A collision alone costs no attempt.
JudgeFailed ==
    LET bad == m.out \cap {"failed", "held"}
        r == Recorded(row[m.job])
    IN  /\ Judges
        /\ m.out \cap {"stalled", "unsupported"} = {}
        /\ \/ bad # {} /\ Schedule(m.job, r)
           \/ bad = {} /\ "collision" \in m.out /\ RecordError(m.job) /\ UNCHANGED <<journal, history>>

JudgeDelivered ==
    /\ m.at = "judge"
    /\ m.out \subseteq {"moved", "skipped"}
    /\ Go("verify")
    /\ UNCHANGED <<library, staging, journal, memory, linked, acts, history>>

Judge == FinishStall \/ JudgeUnsupported \/ JudgeFailed \/ JudgeDelivered

-----------------------------------------------------------------------------
(* Verification, linkage and the removal of the staging folder *)

\* `verify_delivered`.
Verified(j) ==
    /\ Reachable
    /\ \A p \in Parts(j) : p \in journal[j].completed /\ Holds(j, p)

Verify ==
    /\ m.at = "verify"
    /\ \/ /\ Verified(m.job)
          /\ Go(IF journal[m.job].announced THEN "clean" ELSE "link")
          /\ UNCHANGED row
       \/ /\ ~Verified(m.job) \/ share = "failing"
          /\ RecordError(m.job)
          /\ Stop
    /\ UNCHANGED <<library, staging, journal, request, linked, acts, history>>

Link ==
    /\ m.at = "link"
    /\ linked' = linked \cup {m.job}
    /\ Go("mark")
    /\ UNCHANGED <<library, staging, journal, memory, acts, history>>

\* Mutant of the next operator: the pass goes on.
LinkFailsAnyway ==
    /\ m.at = "link"
    /\ Act
    /\ Go("mark")
    /\ UNCHANGED <<library, staging, journal, memory, linked, history>>

\* The link file could not be written: counted as a failed delivery.
LinkFails ==
    /\ m.at = "link"
    /\ Act
    /\ Schedule(m.job, Recorded(row[m.job]))
    /\ Stop
    /\ UNCHANGED <<library, staging, request, linked>>

\* `mark_announced`; a save that fails is only logged.
Mark ==
    LET new == [journal[m.job] EXCEPT !.announced = TRUE]
    IN  /\ m.at = "mark"
        /\ Saved(m.job, new) \/ SaveFails(m.job, new)
        /\ Go("clean")
        /\ UNCHANGED <<library, staging, memory, linked, acts, history>>

\* Manifest::cleanup: everything is verified again and only planned files may be there.
Clean ==
    /\ m.at = "clean"
    /\ Verified(m.job) /\ m.job \notin extra
    /\ m' = [m EXCEPT !.at = "remove", !.todo = Parts(m.job)]
    /\ UNCHANGED <<library, staging, journal, memory, linked, acts, history>>

\* A listing or a removal that fails, a file nobody planned, a destination that changed.
CleanBlocked ==
    LET j == m.job
    IN  /\ \/ m.at \in {"clean", "remove", "last"} /\ shaky
           \/ m.at = "clean" /\ (~Verified(j) \/ share = "failing")
           \/ m.at \in {"clean", "last"} /\ j \in extra
           \/ m.at = "remove" /\ \E p \in m.todo : ~(Reachable /\ Holds(j, p))
        /\ EndWith(TeardownBlocked(j))

\* Mutant of the next operator: the destination was verified when the clean-up began.
RemoveUnverified(p) ==
    /\ m.at = "remove" /\ p \in m.todo
    /\ staged' = staged \ {<<m.job, p>>}
    /\ m' = [m EXCEPT !.todo = @ \ {p}, !.at = IF m.todo = {p} THEN "last" ELSE "remove"]
    /\ UNCHANGED <<library, extra, gone, shaky, journal, memory, linked, acts, history>>

\* Each staged file goes only against its destination, verified once more.
Remove(p) ==
    /\ m.at = "remove" /\ p \in m.todo
    /\ Reachable /\ Holds(m.job, p)
    /\ staged' = staged \ {<<m.job, p>>}
    /\ m' = [m EXCEPT !.todo = @ \ {p}, !.at = IF m.todo = {p} THEN "last" ELSE "remove"]
    /\ UNCHANGED <<library, extra, gone, shaky, journal, memory, linked, acts, history>>

\* The journal goes last, from a folder that holds nothing else.
Last ==
    LET j == m.job
    IN  /\ m.at = "last"
        /\ j \notin extra
        /\ journal' = [journal EXCEPT ![j] = NoJournal]
        /\ gone' = gone \cup {j}
        /\ row' = [row EXCEPT ![j] = NoRow]
        /\ request' = [request EXCEPT ![j] = "no"]
        /\ Stop
        /\ UNCHANGED <<library, staged, extra, shaky, linked, acts, history>>

Finish == Verify \/ Link \/ LinkFails \/ Mark \/ Clean \/ CleanBlocked
              \/ (\E p \in {"mkv", "iso"} : Remove(p)) \/ Last

-----------------------------------------------------------------------------
(* Time, the operator, people and faults *)

TimePasses(j) ==
    /\ row[j].at = "wait"
    /\ row' = [row EXCEPT ![j].at = "due"]
    /\ UNCHANGED <<library, staging, journal, request, linked, m, acts, history>>

\* Mutant of the next operator: the row's own wait is kept as the request.
ConsentRow(j) == row[j].waits

\* A Retry of a missing-folder row consents to making the folder again.
Consent(j) ==
    IF row[j].waits = "folder" \/ request[j] = "recreate" THEN "recreate" ELSE "retry"

\* `clear_move_error`, the operator's Retry: possible in the middle of a pass.
Retry(j) ==
    /\ row[j].at # "none" /\ ~row[j].busy
    /\ Act
    /\ request' = [request EXCEPT ![j] = Consent(j)]
    /\ row' = [row EXCEPT ![j] = NoRow]
    /\ spent' = [spent EXCEPT ![j] = 0]
    /\ unsaved' = unsaved \ {j}
    /\ asked' = asked \cup {j}
    /\ UNCHANGED <<library, staging, journal, linked, m, taken>>

\* What is lost when people take the files at these names.
OnlyCopies(slots) ==
    {f \in Files : f \notin staged /\ \E n \in Variants : <<f[2], n>> \in slots /\ dest[<<f[2], n>>] = f[1]}

\* People put files of theirs into the library, take files out or write over them.
People ==
    /\ share = "up" /\ folder
    /\ Act
    /\ \E s \in Slots, what \in {"free", "empty", "foreign"} :
        /\ dest[s] # what
        /\ dest' = [dest EXCEPT ![s] = what]
        /\ taken' = taken \cup OnlyCopies({s})
    /\ UNCHANGED <<share, folder, sameDevice, staging, journal, memory, linked, m, spent, unsaved, asked>>

FolderRemoved ==
    /\ share = "up" /\ folder
    /\ Act
    /\ folder' = FALSE
    /\ dest' = [s \in Slots |-> "free"]
    /\ taken' = taken \cup OnlyCopies(Slots)
    /\ UNCHANGED <<share, sameDevice, staging, journal, memory, linked, m, spent, unsaved, asked>>

ShareChanges ==
    /\ Act
    /\ share' \in {"up", "failing", "down"} \ {share}
    /\ UNCHANGED <<dest, folder, sameDevice, staging, journal, memory, linked, m, history>>

StagingChanges ==
    /\ Act
    /\ \/ shaky' = ~shaky /\ UNCHANGED extra
       \/ \E j \in Jobs \ gone : extra' \in {extra \cup {j}, extra \ {j}} \ {extra} /\ UNCHANGED shaky
    /\ UNCHANGED <<library, staged, gone, journal, memory, linked, m, history>>

\* The process stops anywhere; rows and requests were only in memory.
Crash ==
    /\ Act
    /\ m' = Idle
    /\ row' = [j \in Jobs |-> NoRow]
    /\ request' = [j \in Jobs |-> "no"]
    /\ UNCHANGED <<library, staging, journal, linked, history>>

Outside == People \/ FolderRemoved \/ ShareChanges \/ StagingChanges \/ Crash

-----------------------------------------------------------------------------
Init ==
    /\ dest = [s \in Slots |-> "free"]
    /\ share = "up" /\ folder = FALSE /\ sameDevice \in BOOLEAN
    /\ staged = Files /\ extra = {} /\ gone = {} /\ shaky = FALSE
    /\ journal = [j \in Jobs |-> NoJournal]
    /\ row = [j \in Jobs |-> NoRow]
    /\ request = [j \in Jobs |-> "no"]
    /\ linked = {} /\ m = Idle /\ acts = 0
    /\ taken = {} /\ spent = [j \in Jobs |-> 0] /\ unsaved = {} /\ asked = {}

\* The steps of a pass after its beginning.
Pass ==
    \/ CheckFails \/ CheckPasses
    \/ Plan \/ PlanUncertain \/ PlanHeld \/ Freeze \/ FreezeFails \/ Recreate
    \/ Locks \/ LocksFail \/ LocksBusy
    \/ Deliver \/ Judge \/ Finish

Next ==
    \/ \E j \in Jobs : Begin(j) \/ TimePasses(j) \/ Retry(j)
    \/ Pass
    \/ WorkerReturns
    \/ Outside

Spec == Init /\ [][Next]_vars

\* The mover thread runs; a tick comes to every folder, so a job that may begin again and
\* again begins in the end; deadlines pass.  A stuck worker may never return.
Fairness ==
    /\ WF_vars(Pass)
    /\ \A j \in Jobs : SF_vars(Begin(j)) /\ WF_vars(TimePasses(j))

FairSpec == Spec /\ Fairness

-----------------------------------------------------------------------------
(* Properties *)

Steps == {"idle", "check", "plan", "freeze", "recreate", "locks", "deliver", "rename", "copy",
          "stalled", "settle", "judge", "verify", "link", "mark", "clean", "remove", "last"}
Outcomes == {"moved", "skipped", "collision", "failed", "held", "unsupported", "stalled"}

\* The state of the mover, the journals and the rows has the shape the code gives it.
TypeOK ==
    /\ dest \in [Slots -> Jobs \cup {"free", "empty", "foreign"}]
    /\ share \in {"up", "failing", "down"} /\ folder \in BOOLEAN /\ sameDevice \in BOOLEAN
    /\ staged \subseteq Files /\ extra \subseteq Jobs /\ gone \subseteq Jobs /\ shaky \in BOOLEAN
    /\ journal \in [Jobs -> [variant : 0 .. MaxVariant, prepared : SUBSET {"mkv", "iso"},
                             completed : SUBSET {"mkv", "iso"}, announced : BOOLEAN,
                             tries : Nat, until : {"none", "wait", "held"}]]
    /\ row \in [Jobs -> [at : {"none", "due", "wait", "held"}, tries : Nat,
                         waits : {"no", "root", "folder"}, busy : BOOLEAN,
                         resume : {"no", "wait", "held"}, tears : Nat]]
    /\ request \in [Jobs -> {"no", "retry", "recreate"}]
    /\ linked \subseteq Jobs
    /\ m \in [at : Steps, job : Jobs \cup {"none"}, how : {"due", "retry", "recreate"},
              variant : 0 .. MaxVariant, todo : SUBSET {"mkv", "iso"}, part : {"mkv", "iso"},
              out : SUBSET Outcomes]
    /\ acts \in 0 .. MaxActs
    /\ taken \subseteq Files /\ spent \in [Jobs -> Nat] /\ unsaved \subseteq Jobs /\ asked \subseteq Jobs

\* No file of a rip is lost: each is in staging or under its name in the library, unless
\* people took its only copy from the library (cleanup, move_file).
MediaKept ==
    \A f \in Files : \/ f \in staged \cup taken
                     \/ \E n \in Variants : dest[<<f[2], n>>] = f[1]

\* A rip is filed once: whatever failed or crashed, a file is under one name (the journal
\* outlives the files it names; adoption after a crash).
FiledOnce ==
    \A f \in Files, n, k \in Variants :
        dest[<<f[2], n>>] = f[1] /\ dest[<<f[2], k>>] = f[1] => n = k

\* Two deliveries never hold the same name, published or not (reserved_elsewhere).
OneName ==
    \A j, k \in Jobs \ gone :
        j # k /\ Frozen(j) /\ Frozen(k) => journal[j].variant # journal[k].variant

\* Between two Retries a delivery fails at most three times, through restarts too, unless
\* its count could not be saved (commit_retry, restore_retry).
BudgetHolds == \A j \in Jobs : spent[j] <= 3 \/ j \in unsaved

\* A staging folder goes only after the source links name what was delivered.
GoneWasLinked == gone \subseteq linked

\* The mover implements the abstract filing: names are taken only when free, staged files
\* discarded only while the library holds them.
Filings == INSTANCE Filing WITH
    Kinds <- {"mkv", "iso"}, Names <- Variants, Free <- "free", Others <- {"empty", "foreign"},
    library <- dest, done <- gone
FilingKept == Filings!Spec

\* What keeps a delivery from ending.
Obstructed(j) ==
    \/ share # "up" \/ shaky
    \/ row[j].at = "held" \/ m.at = "stalled"
    \/ Frozen(j) /\ ~folder
    \/ Frozen(j) /\ \E p \in Parts(j) \ journal[j].prepared : dest[Slot(j, p)] \notin {"free", j}

\* Every finished rip is filed and its staging gone in the end, unless storage is bad, the
\* operator is asked for, or its frozen name is taken.
EverySettles == \A j \in Jobs : <>[](j \in gone \/ Obstructed(j))

\* A delivery held for the operator is not tried again before a Retry
\* (mover_manifest.rs: "mirrored from the mover's error row so a restart cannot buy another
\* full copy").  The code does not keep it, so no configuration here checks it; the README
\* names the constants that show it.
HoldSurvives ==
    \A j \in Jobs \ asked :
        journal[j].until = "held" => ~(m.job = j /\ m.at \in {"deliver", "rename", "copy"})
=============================================================================
