---------------------------- MODULE QueueStore ----------------------------
(***************************************************************************)
(* The persistent remux queue (src/server/library/queue.rs): its state in  *)
(* memory, the queue file on disk, the writer gate and the generation       *)
(* counters that order the writes of several threads, the pending flag of a *)
(* write whose durability is not confirmed, a file that cannot be read, and *)
(* crashes.                                                                 *)
(*                                                                          *)
(* The content of the queue is abstracted to the set of entries applied to  *)
(* it.  A durable entry is what mutate_durable records (a frozen plan, the  *)
(* owned files, a landing) for a job that stays; an ordinary entry is any   *)
(* other change; a claim marks a job running, which a load undoes.          *)
(***************************************************************************)
EXTENDS Naturals

CONSTANTS
    Threads,    \* threads that change the queue (web handlers, worker, watchdog)
    Worker,     \* the one thread that claims jobs and re-reads the file
    NoThread,   \* nobody: the gate is free
    Durables,   \* changes made through mutate_durable
    Ordinaries, \* changes made through mutate, mutate_if and mutate_or
    Claims,     \* claims of jobs
    MaxGen      \* bound on the generation counter between two starts

ASSUME ThreadsAssumption == Worker \in Threads /\ NoThread \notin Threads
ASSUME EntriesAssumption ==
    /\ Durables \cap Ordinaries = {}
    /\ Durables \cap Claims = {}
    /\ Ordinaries \cap Claims = {}
ASSUME MaxGenAssumption == MaxGen \in Nat

VARIABLES
    mem,        \* the queue in memory (Queue.state)
    generation, \* bumped on every change
    saved,      \* the newest generation on disk, guarded by the gate
    gate,       \* who holds the gate (the `saved` mutex) across a write
    pending,    \* durability_pending
    held,       \* the file could not be loaded (unreadable is Some)
    pc,         \* where each thread is in the operation it runs
    back,       \* where persist_now returns to in each thread
    snap,       \* the snapshot each thread persists: its generation and content
    entry,      \* what the durable operation each thread runs adds
    disk,       \* the content of the queue file
    survivors,  \* the contents a crash may leave in the queue file
    file,       \* how the next read of the file goes
    acked       \* durable entries acknowledged with Ok (history)

memory == <<mem, generation, saved, pending, held>>
threads == <<pc, back, snap, entry>>
storage == <<disk, survivors, file>>
vars == <<memory, gate, threads, storage, acked>>

Entries == Durables \cup Ordinaries \cup Claims
Snapshots == [gen : Nat, content : SUBSET Entries]
Returns == {"idle", "claim_check", "start"}
Places == Returns \cup {"snapshot", "persist", "write", "durable_write",
                        "claim_commit", "down"}

Typed ==
    /\ mem \in SUBSET Entries
    /\ generation \in Nat
    /\ saved \in Nat
    /\ gate \in Threads \cup {NoThread}
    /\ pending \in BOOLEAN
    /\ held \in BOOLEAN
    /\ pc \in [Threads -> Places]
    /\ back \in [Threads -> Returns]
    /\ snap \in [Threads -> Snapshots]
    /\ entry \in [Threads -> SUBSET Durables]
    /\ disk \in SUBSET Entries
    /\ survivors \in SUBSET (SUBSET Entries)
    /\ file \in {"good", "failing", "damaged"}
    /\ acked \in SUBSET Durables

\* The types, and the order of the two counters: nothing newer than the memory is
\* on disk.
TypeOK == Typed /\ saved <= generation

\* `load`: a job that was running is queued again.
Load(c) == c \ Claims

\* The process is up and its queue is open.
Up == \A t \in Threads : pc[t] \notin {"down", "start"}

-----------------------------------------------------------------------------
(* persist_now and persist_snapshot *)

\* Mutant: the snapshot is numbered as the change after it.
SnapshotAhead(t) ==
    /\ pc[t] = "snapshot"
    /\ snap' = [snap EXCEPT ![t] = [gen |-> generation + 1, content |-> mem]]
    /\ pc' = [pc EXCEPT ![t] = "persist"]
    /\ UNCHANGED <<memory, gate, back, entry, storage, acked>>

\* The snapshot, with its generation, is taken under the state lock alone: a
\* durable write in flight does not keep it out.
Snapshot(t) ==
    /\ pc[t] = "snapshot"
    /\ snap' = [snap EXCEPT ![t] = [gen |-> generation, content |-> mem]]
    /\ pc' = [pc EXCEPT ![t] = "persist"]
    /\ UNCHANGED <<memory, gate, back, entry, storage, acked>>

\* Mutants of the next operator: a stale snapshot is written; a held file is.
SupersededStale(s) == held \/ (s.gen = saved /\ ~pending)
SupersededHeld(s) == s.gen < saved \/ (s.gen = saved /\ ~pending)

\* A snapshot not worth writing: the file is held, or as new is on disk.
Superseded(s) ==
    \/ held
    \/ s.gen < saved
    \/ (s.gen = saved /\ ~pending)

PersistNothing(t) ==
    /\ pc[t] = "persist"
    /\ gate = NoThread
    /\ Superseded(snap[t])
    /\ pc' = [pc EXCEPT ![t] = back[t]]
    /\ UNCHANGED <<memory, gate, back, snap, entry, storage, acked>>

PersistStart(t) ==
    /\ pc[t] = "persist"
    /\ gate = NoThread
    /\ ~Superseded(snap[t])
    /\ gate' = t
    /\ pc' = [pc EXCEPT ![t] = "write"]
    /\ UNCHANGED <<memory, back, snap, entry, storage, acked>>

\* write_marker_phased: the bytes reach a temporary file, which is renamed over
\* the queue file and the rename synced.
Publish(c) == disk' = c /\ survivors' = survivors \cup {c} /\ UNCHANGED file
Confirm(c) == disk' = c /\ survivors' = {c} /\ UNCHANGED file

EndWrite(t) ==
    /\ gate' = NoThread
    /\ pc' = [pc EXCEPT ![t] = back[t]]
    /\ UNCHANGED <<mem, generation, held, back, snap, entry, acked>>

PersistOk(t) ==
    /\ pc[t] = "write"
    /\ Confirm(snap[t].content)
    /\ saved' = snap[t].gen
    /\ pending' = FALSE
    /\ EndWrite(t)

\* Nothing was renamed (BeforePublish).
PersistUnpublished(t) ==
    /\ pc[t] = "write"
    /\ pending' = TRUE
    /\ EndWrite(t)
    /\ UNCHANGED <<saved, storage>>

\* The rename is done, its directory sync failed (AfterPublish).
PersistUnsynced(t) ==
    /\ pc[t] = "write"
    /\ Publish(snap[t].content)
    /\ saved' = snap[t].gen
    /\ pending' = TRUE
    /\ EndWrite(t)

Persist(t) ==
    \/ Snapshot(t) \/ PersistNothing(t) \/ PersistStart(t)
    \/ PersistOk(t) \/ PersistUnpublished(t) \/ PersistUnsynced(t)

-----------------------------------------------------------------------------
(* mutate, mutate_if, mutate_or *)

\* The change and the new generation are one step under gate and state lock;
\* the write follows, outside both.
CommitAndPersist(t, m) ==
    /\ gate = NoThread
    /\ generation < MaxGen
    /\ mem' = m
    /\ generation' = generation + 1
    /\ pc' = [pc EXCEPT ![t] = "snapshot"]
    /\ back' = [back EXCEPT ![t] = "idle"]
    /\ UNCHANGED <<saved, gate, pending, held, snap, entry, storage, acked>>

\* What the ordinary operations make of the queue: an entry more, or one less
\* (a claim goes when its job finishes, is requeued or dropped).
Changed ==
    {mem \cup {e} : e \in Ordinaries} \cup {mem \ {e} : e \in Ordinaries \cup Claims}

Mutate(t) ==
    /\ pc[t] = "idle"
    /\ ~held
    /\ \E m \in Changed : CommitAndPersist(t, m)

-----------------------------------------------------------------------------
(* mutate_durable *)

\* Mutant: the change found in memory is acknowledged though its sync failed.
DurableNoChangeAnyway(t) ==
    /\ pc[t] = "idle"
    /\ gate = NoThread
    /\ ~held
    /\ \E d \in Durables \cap mem : acked' = acked \cup {d}
    /\ UNCHANGED <<memory, gate, threads, storage>>

\* A change already in memory and on disk is acknowledged without a write.
DurableNoChange(t) ==
    /\ pc[t] = "idle"
    /\ gate = NoThread
    /\ ~held
    /\ ~pending
    /\ \E d \in Durables \cap mem : acked' = acked \cup {d}
    /\ UNCHANGED <<memory, gate, threads, storage>>

\* The candidate is built and the gate kept across its write.
DurableStart(t) ==
    /\ pc[t] = "idle"
    /\ gate = NoThread
    /\ ~held
    /\ generation < MaxGen
    /\ \E d \in Durables :
        /\ d \notin mem \/ pending
        /\ entry' = [entry EXCEPT ![t] = {d}]
    /\ gate' = t
    /\ pc' = [pc EXCEPT ![t] = "durable_write"]
    /\ UNCHANGED <<memory, back, snap, storage, acked>>

Candidate(t) == mem \cup entry[t]

EndDurable(t) ==
    /\ gate' = NoThread
    /\ pc' = [pc EXCEPT ![t] = "idle"]
    /\ UNCHANGED <<held, back, snap, entry>>

\* Memory follows what was published, even when the sync failed.
Install(t) ==
    /\ mem' = Candidate(t)
    /\ generation' = generation + 1
    /\ saved' = generation + 1

DurableOk(t) ==
    /\ pc[t] = "durable_write"
    /\ Confirm(Candidate(t))
    /\ Install(t)
    /\ pending' = FALSE
    /\ acked' = acked \cup entry[t]
    /\ EndDurable(t)

DurableUnpublished(t) ==
    /\ pc[t] = "durable_write"
    /\ EndDurable(t)
    /\ UNCHANGED <<mem, generation, saved, pending, storage, acked>>

DurableUnsynced(t) ==
    /\ pc[t] = "durable_write"
    /\ Publish(Candidate(t))
    /\ Install(t)
    /\ pending' = TRUE
    /\ EndDurable(t)
    /\ UNCHANGED acked

Durable(t) ==
    \/ DurableNoChange(t) \/ DurableStart(t)
    \/ DurableOk(t) \/ DurableUnpublished(t) \/ DurableUnsynced(t)

-----------------------------------------------------------------------------
(* claim_next *)

\* Mutant: the pending write is not tried again.
ClaimStartWithoutRetry ==
    /\ pc[Worker] = "idle"
    /\ ~held
    /\ mem \cap Claims = {}
    /\ pc' = [pc EXCEPT ![Worker] = "claim_check"]
    /\ UNCHANGED <<memory, gate, back, snap, entry, storage, acked>>

\* A pending write is tried again first.
ClaimStart ==
    /\ pc[Worker] = "idle"
    /\ ~held
    /\ mem \cap Claims = {}
    /\ IF pending
       THEN /\ pc' = [pc EXCEPT ![Worker] = "snapshot"]
            /\ back' = [back EXCEPT ![Worker] = "claim_check"]
       ELSE pc' = [pc EXCEPT ![Worker] = "claim_check"] /\ UNCHANGED back
    /\ UNCHANGED <<memory, gate, snap, entry, storage, acked>>

ClaimCheck ==
    /\ pc[Worker] = "claim_check"
    /\ pc' = [pc EXCEPT ![Worker] =
                IF pending \/ mem \cap Claims # {} THEN "idle" ELSE "claim_commit"]
    /\ UNCHANGED <<memory, gate, back, snap, entry, storage, acked>>

\* Mutant: pending is not read again under the gate.
ClaimedUnchecked ==
    IF mem \cap Claims # {} THEN {mem} ELSE {mem \cup {c} : c \in Claims}

\* The check is made again under the gate; a refusal still bumps and persists.
Claimed ==
    IF pending \/ mem \cap Claims # {} THEN {mem} ELSE {mem \cup {c} : c \in Claims}

ClaimCommit ==
    /\ pc[Worker] = "claim_commit"
    /\ \E m \in Claimed : CommitAndPersist(Worker, m)

Claim == ClaimStart \/ ClaimCheck \/ ClaimCommit

-----------------------------------------------------------------------------
(* open, load, retry_unreadable, and crashes *)

\* The main thread opens the queue and writes it back before others start.
PersistFromOpen ==
    /\ pc' = [pc EXCEPT ![Worker] = "snapshot"]
    /\ back' = [back EXCEPT ![Worker] = "start"]
    /\ UNCHANGED <<gate, snap, entry>>

Reset == generation' = 1 /\ saved' = 0 /\ pending' = TRUE

OpenGood ==
    /\ pc[Worker] = "down"
    /\ file = "good"
    /\ mem' = Load(disk)
    /\ held' = FALSE
    /\ Reset
    /\ PersistFromOpen
    /\ UNCHANGED <<storage, acked>>

\* A file that cannot be read, or is damaged and cannot be set aside.
OpenHeld ==
    /\ pc[Worker] = "down"
    /\ file # "good"
    /\ mem' = {}
    /\ held' = TRUE
    /\ Reset
    /\ PersistFromOpen
    /\ UNCHANGED <<storage, acked>>

\* A damaged file set aside: what it held is lost to the outside damage.
SetAside ==
    /\ file = "damaged"
    /\ file' = "good"
    /\ disk' = {}
    /\ survivors' = {{}}
    /\ acked' = {}
    /\ mem' = {}

OpenSetAside ==
    /\ pc[Worker] = "down"
    /\ SetAside
    /\ held' = FALSE
    /\ Reset
    /\ PersistFromOpen

Start ==
    /\ pc[Worker] = "start"
    /\ pc' = [t \in Threads |-> "idle"]
    /\ UNCHANGED <<memory, gate, back, snap, entry, storage, acked>>

Readmit ==
    /\ pc[Worker] = "idle"
    /\ held
    /\ gate = NoThread
    /\ generation < MaxGen
    /\ generation' = generation + 1
    /\ pending' = TRUE
    /\ held' = FALSE
    /\ pc' = [pc EXCEPT ![Worker] = "snapshot"]
    /\ back' = [back EXCEPT ![Worker] = "idle"]
    /\ UNCHANGED <<saved, gate, snap, entry>>

\* retry_unreadable, when the file reads again or can be set aside.
RetryUnreadable ==
    /\ Readmit
    /\ \/ file = "good" /\ mem' = Load(disk) /\ UNCHANGED <<storage, acked>>
       \/ SetAside

FileRecovers ==
    /\ file = "failing"
    /\ file' = "good"
    /\ UNCHANGED <<memory, gate, threads, disk, survivors, acked>>

\* The process stops at any point; the file may then read badly.
Crash ==
    /\ pc[Worker] # "down"
    /\ pc' = [t \in Threads |-> "down"]
    /\ gate' = NoThread
    /\ \E c \in survivors : disk' = c /\ survivors' = {c}
    /\ file' \in {"good", "failing", "damaged"}
    /\ UNCHANGED <<memory, back, snap, entry, acked>>

Open == OpenGood \/ OpenHeld \/ OpenSetAside

-----------------------------------------------------------------------------

Init ==
    /\ mem = {} /\ generation = 0 /\ saved = 0
    /\ gate = NoThread /\ pending = TRUE /\ held = FALSE
    /\ pc = [t \in Threads |-> "down"]
    /\ back = [t \in Threads |-> "idle"]
    /\ snap = [t \in Threads |-> [gen |-> 0, content |-> {}]]
    /\ entry = [t \in Threads |-> {}]
    /\ disk = {} /\ survivors = {{}} /\ file = "good"
    /\ acked = {}

Next ==
    \/ \E t \in Threads : Persist(t) \/ Mutate(t) \/ Durable(t)
    \/ Claim \/ Open \/ Start \/ RetryUnreadable \/ FileRecovers \/ Crash

Spec == Init /\ [][Next]_vars

\* Every thread runs on, and the worker polls for a job between its operations;
\* one that waits for the gate gets it in the end, for the operations that
\* contend for it come from users; and storage accepts a write that is tried
\* again and again.
Fairness ==
    /\ \A t \in Threads :
        /\ WF_vars(Snapshot(t))
        /\ SF_vars(PersistNothing(t) \/ PersistStart(t))
        /\ WF_vars(PersistOk(t) \/ PersistUnpublished(t) \/ PersistUnsynced(t))
        /\ WF_vars(DurableOk(t) \/ DurableUnpublished(t) \/ DurableUnsynced(t))
        /\ SF_vars(PersistOk(t)) /\ SF_vars(DurableOk(t))
    /\ SF_vars(ClaimStart) /\ WF_vars(ClaimCheck) /\ WF_vars(ClaimCommit)
    /\ WF_vars(Open) /\ WF_vars(Start)

FairSpec == Spec /\ Fairness

-----------------------------------------------------------------------------

\* What mutate_durable acknowledged is in the queue file whatever a crash leaves
\* of it: the promise freeze_plan, set_owned and set_output_landing rest on.
AckSurvives == \A c \in survivors : acked \subseteq c

\* While the process runs, no thread's older snapshot takes out of the queue file
\* a durable entry that was published in it, acknowledged or not.  Only outside
\* damage (the file set aside) and a crash do.
PublishedStays ==
    [][file # "damaged" /\ pc[Worker]' # "down" => disk \cap Durables \subseteq disk']_vars

\* A job is claimed only when every durable entry in memory would survive a crash:
\* a landed update whose directory sync failed holds the queue.
ClaimOnlyConfirmed ==
    [][mem' \cap Claims # {} /\ mem \cap Claims = {} =>
        \A c \in survivors : mem \cap Durables \subseteq c]_vars

\* A queue file that could not be loaded is never written over while it is held.
HeldFileUntouched ==
    [][held /\ held' /\ pc[Worker]' # "down" => UNCHANGED <<disk, survivors>>]_vars

\* The store implements the log of durable changes: what is sure is what every
\* crash leaves in the file, what is promised is what was acknowledged, and no
\* step of any thread, failed write or restart takes either back.
Sure == {d \in Durables : \A c \in survivors : d \in c}

Log == INSTANCE DurableLog WITH
    sure <- Sure, promised <- acked, damaged <- (file = "damaged")

LogKept == Log!Spec

\* An unconfirmed write is tried again by the idle worker until storage takes it:
\* the queue is not held for good by one failed sync.  (At the bound MaxGen the
\* model stops counting changes, so nothing is asked there.)
PendingClears ==
    (Up /\ pending /\ ~held /\ mem \cap Claims = {}) ~>
        (~pending \/ ~Up \/ mem \cap Claims # {} \/ generation = MaxGen)
=============================================================================
