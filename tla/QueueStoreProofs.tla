------------------------- MODULE QueueStoreProofs -------------------------
(***************************************************************************)
(* Proofs about QueueStore, for any threads, entries and generation bound.  *)
(* IInv is the inductive invariant: besides the promise itself it relates   *)
(* memory, the snapshots in flight and the contents a crash may leave.      *)
(***************************************************************************)
EXTENDS QueueStore, TLAPS

Running == pc[Worker] # "down"
InFlight(t) == pc[t] \in {"persist", "write"}

\* Only the holder of the gate writes.
GateInv == \A t \in Threads : pc[t] \in {"write", "durable_write"} => gate = t

\* While the process is down, all its threads are.
DownInv == ~Running => \A t \in Threads : pc[t] = "down"

\* While the file is held nothing is written, claimed or changed.
HeldInv ==
    Running /\ held =>
        \A t \in Threads :
            /\ pc[t] \in {"idle", "down", "start", "snapshot", "persist"}
            /\ pc[t] \in {"snapshot", "persist"} => t = Worker /\ back[t] = "start"

\* Memory holds every durable entry the file holds.
MemoryInv == Running /\ ~held => disk \cap Durables \subseteq mem

\* With no durability pending, every durable entry in memory survives a crash.
PendingInv ==
    Running /\ ~held /\ ~pending => \A c \in survivors : mem \cap Durables \subseteq c

\* A snapshot still worth writing holds exactly the durable entries of memory.
SnapInv ==
    /\ saved <= generation
    /\ \A t \in Threads : InFlight(t) =>
         /\ snap[t].gen <= generation
         /\ ~held => snap[t].content \cap Durables \subseteq mem
         /\ ~held /\ snap[t].gen >= saved => mem \cap Durables \subseteq snap[t].content
         /\ pc[t] = "write" => snap[t].gen >= saved

IInv ==
    /\ Typed
    /\ disk \in survivors
    /\ AckSurvives
    /\ GateInv /\ DownInv /\ HeldInv
    /\ MemoryInv /\ PendingInv /\ SnapInv

USE ThreadsAssumption, MaxGenAssumption

\* The initial state satisfies the invariant.
LEMMA InitInv == Init => IInv
  <1> SUFFICES ASSUME Init PROVE IInv
    OBVIOUS
  <1> USE DEF Init, Running
  <1>1. Typed
    BY DEF Typed, Places, Returns, Snapshots
  <1>2. GateInv /\ DownInv /\ HeldInv /\ SnapInv
    BY DEF GateInv, DownInv, HeldInv, SnapInv, InFlight
  <1>3. disk \in survivors /\ AckSurvives /\ MemoryInv /\ PendingInv
    BY DEF AckSurvives, MemoryInv, PendingInv
  <1>4. QED
    BY <1>1, <1>2, <1>3 DEF IInv

\* A change committed under the gate keeps the types.
LEMMA CommitTyped ==
  ASSUME Typed, NEW t \in Threads, NEW m \in SUBSET Entries, CommitAndPersist(t, m)
  PROVE  Typed'
  BY DEF Typed, CommitAndPersist, storage, Places, Returns

\* Every step keeps the types.
LEMMA TypeStep == Typed /\ [Next]_vars => Typed'
  <1> SUFFICES ASSUME Typed, [Next]_vars PROVE Typed'
    OBVIOUS
  <1> USE DEF memory, threads, storage, Places, Returns
  <1>1. ASSUME NEW t \in Threads, Persist(t) PROVE Typed'
    <2> USE DEF Typed
    <2>1. CASE Snapshot(t)
      BY <2>1 DEF Snapshot, Snapshots
    <2>2. CASE PersistNothing(t)
      BY <2>2 DEF PersistNothing
    <2>3. CASE PersistStart(t)
      BY <2>3 DEF PersistStart
    <2>4. snap[t].gen \in Nat /\ snap[t].content \in SUBSET Entries
      BY DEF Snapshots
    <2>5. CASE PersistOk(t)
      BY <2>4, <2>5 DEF PersistOk, Confirm, EndWrite
    <2>6. CASE PersistUnpublished(t)
      BY <2>6 DEF PersistUnpublished, EndWrite
    <2>7. CASE PersistUnsynced(t)
      BY <2>4, <2>7 DEF PersistUnsynced, Publish, EndWrite
    <2>8. QED
      BY <1>1, <2>1, <2>2, <2>3, <2>5, <2>6, <2>7 DEF Persist
  <1>2. ASSUME NEW t \in Threads, Mutate(t) PROVE Typed'
    <2>1. PICK m \in Changed : CommitAndPersist(t, m)
      BY <1>2 DEF Mutate
    <2>2. m \in SUBSET Entries
      BY DEF Changed, Entries, Typed
    <2>3. QED
      BY <2>1, <2>2, CommitTyped
  <1>3. ASSUME NEW t \in Threads, Durable(t) PROVE Typed'
    <2> USE DEF Typed
    <2>1. CASE DurableNoChange(t)
      BY <2>1 DEF DurableNoChange
    <2>2. CASE DurableStart(t)
      BY <2>2 DEF DurableStart
    <2>3. Candidate(t) \in SUBSET Entries /\ entry[t] \in SUBSET Durables
      BY DEF Candidate, Entries
    <2>4. CASE DurableUnpublished(t)
      BY <2>4 DEF DurableUnpublished, EndDurable
    <2>5. CASE DurableOk(t)
      <3>1. survivors' \in SUBSET (SUBSET Entries)
        BY <2>3, <2>5 DEF DurableOk, Confirm
      <3>2. acked' \in SUBSET Durables
        BY <2>3, <2>5 DEF DurableOk
      <3>3. mem' = Candidate(t) /\ disk' = Candidate(t)
            /\ file' \in {"good", "failing", "damaged"}
        BY <2>5 DEF DurableOk, Confirm, Install
      <3>4. generation' \in Nat /\ saved' \in Nat
        BY <2>5 DEF DurableOk, Install
      <3>5. gate' \in Threads \cup {NoThread} /\ pc' \in [Threads -> Places]
        BY <2>5 DEF DurableOk, EndDurable
      <3>6. held' \in BOOLEAN /\ back' \in [Threads -> Returns]
            /\ snap' \in [Threads -> Snapshots] /\ entry' \in [Threads -> SUBSET Durables]
        BY <2>5 DEF DurableOk, EndDurable
      <3>7. mem' \in SUBSET Entries /\ disk' \in SUBSET Entries
        BY <2>3, <3>3
      <3>8. pending' \in BOOLEAN
        BY <2>5 DEF DurableOk
      <3>9. QED
        BY <3>1, <3>2, <3>3, <3>4, <3>5, <3>6, <3>7, <3>8
    <2>6. CASE DurableUnsynced(t)
      BY <2>3, <2>6 DEF DurableUnsynced, Publish, Install, EndDurable
    <2>7. QED
      BY <1>3, <2>1, <2>2, <2>4, <2>5, <2>6 DEF Durable
  <1>4. ASSUME Claim PROVE Typed'
    <2>1. CASE ClaimStart
      BY <2>1 DEF ClaimStart, Typed
    <2>2. CASE ClaimCheck
      BY <2>2 DEF ClaimCheck, Typed
    <2>3. CASE ClaimCommit
      <3>1. PICK m \in Claimed : CommitAndPersist(Worker, m)
        BY <2>3 DEF ClaimCommit
      <3>2. m \in SUBSET Entries
        BY DEF Claimed, Entries, Typed
      <3>3. QED
        BY <3>1, <3>2, CommitTyped
    <2>4. QED
      BY <1>4, <2>1, <2>2, <2>3 DEF Claim
  <1>5. ASSUME Open PROVE Typed'
    <2>1. Load(disk) \in SUBSET Entries
      BY DEF Load, Typed
    <2> USE DEF Typed, Reset, PersistFromOpen
    <2>2. CASE OpenGood
      BY <2>1, <2>2 DEF OpenGood
    <2>3. CASE OpenHeld
      BY <2>3 DEF OpenHeld
    <2>4. CASE OpenSetAside
      <3>1. survivors' \in SUBSET (SUBSET Entries) /\ acked' \in SUBSET Durables
        BY <2>4 DEF OpenSetAside, SetAside
      <3>2. mem' \in SUBSET Entries /\ disk' \in SUBSET Entries /\ file' = "good"
        BY <2>4 DEF OpenSetAside, SetAside
      <3>3. pc' \in [Threads -> Places] /\ back' \in [Threads -> Returns]
            /\ UNCHANGED <<gate, snap, entry>>
        BY <2>4 DEF OpenSetAside
      <3>4. held' = FALSE /\ pending' = TRUE /\ generation' = 1 /\ saved' = 0
        BY <2>4 DEF OpenSetAside
      <3>5. QED
        BY <3>1, <3>2, <3>3, <3>4
    <2>5. QED
      BY <1>5, <2>2, <2>3, <2>4 DEF Open
  <1>6. ASSUME RetryUnreadable PROVE Typed'
    <2>1. Load(disk) \in SUBSET Entries
      BY DEF Load, Typed
    <2>2. mem' \in SUBSET Entries /\ disk' \in SUBSET Entries
          /\ file' \in {"good", "failing", "damaged"} /\ acked' \in SUBSET Durables
      BY <1>6, <2>1 DEF RetryUnreadable, SetAside, Typed
    <2>3. survivors' \in SUBSET (SUBSET Entries)
      BY <1>6 DEF RetryUnreadable, SetAside, Typed
    <2>4. Readmit
      BY <1>6 DEF RetryUnreadable
    <2>5. /\ generation' = generation + 1 /\ pending' = TRUE /\ held' = FALSE
          /\ pc' = [pc EXCEPT ![Worker] = "snapshot"]
          /\ back' = [back EXCEPT ![Worker] = "idle"]
          /\ UNCHANGED <<saved, gate, snap, entry>>
      BY <2>4 DEF Readmit
    <2>6. QED
      <3>1. generation' \in Nat /\ saved' \in Nat
        BY <2>5 DEF Typed
      <3>2. pending' \in BOOLEAN /\ held' \in BOOLEAN
        BY <2>5 DEF Typed
      <3>3. pc' \in [Threads -> Places] /\ back' \in [Threads -> Returns]
        BY <2>5 DEF Typed
      <3>4. gate' \in Threads \cup {NoThread} /\ snap' \in [Threads -> Snapshots] /\ entry' \in [Threads -> SUBSET Durables]
        BY <2>5 DEF Typed
      <3>5. QED
        BY <2>2, <2>3, <3>1, <3>2, <3>3, <3>4 DEF Typed
  <1>7. ASSUME Start \/ FileRecovers \/ Crash \/ UNCHANGED vars PROVE Typed'
    BY <1>7 DEF Start, FileRecovers, Crash, vars, Typed
  <1>8. QED
    BY <1>1, <1>2, <1>3, <1>4, <1>5, <1>6, <1>7 DEF Next

\* Parts of the invariant that only the control of the threads decides.
Control == GateInv /\ DownInv /\ HeldInv
\* Parts that relate memory and the contents of the file.
Contents == disk \in survivors /\ AckSurvives /\ MemoryInv /\ PendingInv

\* persist_now keeps the invariant.
LEMMA PersistStep ==
  ASSUME IInv, NEW t \in Threads, Persist(t)
  PROVE  Control' /\ Contents' /\ SnapInv'
  <1> USE DEF IInv, Control, Contents, memory, threads, storage
  <1>0. Running
    BY DEF Persist, Snapshot, PersistNothing, PersistStart, PersistOk,
       PersistUnpublished, PersistUnsynced, DownInv
  <1>1. CASE Snapshot(t)
    <2>1. Control'
      BY <1>0, <1>1 DEF Snapshot, GateInv, DownInv, HeldInv, Running, Typed
    <2>2. Contents'
      BY <1>0, <1>1 DEF Snapshot, AckSurvives, MemoryInv, PendingInv, Running, Typed
    <2>3. SnapInv'
      BY <1>0, <1>1 DEF Snapshot, SnapInv, InFlight, Typed
    <2>4. QED
      BY <2>1, <2>2, <2>3
  <1>2. CASE PersistNothing(t)
    <2>1. Control'
      BY <1>0, <1>2 DEF PersistNothing, GateInv, DownInv, HeldInv, Running, Typed, Returns
    <2>2. Contents'
      BY <1>0, <1>2 DEF PersistNothing, AckSurvives, MemoryInv, PendingInv, Running, Typed
    <2>3. SnapInv'
      BY <1>0, <1>2 DEF PersistNothing, SnapInv, InFlight, Typed, Returns
    <2>4. QED
      BY <2>1, <2>2, <2>3
  <1>3. CASE PersistStart(t)
    <2>1. Control'
      BY <1>0, <1>3 DEF PersistStart, Superseded, GateInv, DownInv, HeldInv, Running, Typed
    <2>2. Contents'
      BY <1>0, <1>3 DEF PersistStart, AckSurvives, MemoryInv, PendingInv, Running, Typed
    <2>3. SnapInv'
      BY <1>0, <1>3 DEF PersistStart, Superseded, SnapInv, InFlight, Typed, Snapshots
    <2>4. QED
      BY <2>1, <2>2, <2>3
  <1>4. ASSUME pc[t] = "write" PROVE
          /\ ~held
          /\ acked \subseteq snap[t].content
          /\ disk \cap Durables \subseteq snap[t].content
          /\ mem \cap Durables \subseteq snap[t].content
          /\ snap[t].content \cap Durables \subseteq mem
          /\ \A u \in Threads \ {t} : pc[u] # "write"
    BY <1>0, <1>4 DEF HeldInv, SnapInv, InFlight, MemoryInv, AckSurvives, GateInv, Typed
  <1>5. CASE PersistOk(t)
    <2>1. Control'
      BY <1>0, <1>4, <1>5 DEF PersistOk, EndWrite, GateInv, DownInv, HeldInv, Running, Typed, Returns
    <2>2. Contents'
      BY <1>0, <1>4, <1>5 DEF PersistOk, EndWrite, Confirm, AckSurvives, MemoryInv, PendingInv, Running, Typed
    <2>3. SnapInv'
      BY <1>0, <1>4, <1>5 DEF PersistOk, EndWrite, SnapInv, InFlight, Typed, Returns, Snapshots
    <2>4. QED
      BY <2>1, <2>2, <2>3
  <1>6. CASE PersistUnpublished(t)
    <2>1. Control'
      BY <1>0, <1>4, <1>6 DEF PersistUnpublished, EndWrite, GateInv, DownInv, HeldInv, Running, Typed, Returns
    <2>2. Contents'
      BY <1>0, <1>4, <1>6 DEF PersistUnpublished, EndWrite, AckSurvives, MemoryInv, PendingInv, Running, Typed
    <2>3. SnapInv'
      BY <1>0, <1>4, <1>6 DEF PersistUnpublished, EndWrite, SnapInv, InFlight, Typed, Returns, Snapshots
    <2>4. QED
      BY <2>1, <2>2, <2>3
  <1>7. CASE PersistUnsynced(t)
    <2>1. Control'
      BY <1>0, <1>4, <1>7 DEF PersistUnsynced, EndWrite, GateInv, DownInv, HeldInv, Running, Typed, Returns
    <2>2. Contents'
      BY <1>0, <1>4, <1>7 DEF PersistUnsynced, EndWrite, Publish, AckSurvives, MemoryInv, PendingInv, Running, Typed
    <2>3. SnapInv'
      BY <1>0, <1>4, <1>7 DEF PersistUnsynced, EndWrite, SnapInv, InFlight, Typed, Returns, Snapshots
    <2>4. QED
      BY <2>1, <2>2, <2>3
  <1>8. QED
    BY <1>1, <1>2, <1>3, <1>5, <1>6, <1>7 DEF Persist

\* A change that keeps the durable entries of memory keeps the invariant.
LEMMA CommitStep ==
  ASSUME IInv, NEW t \in Threads, NEW m \in SUBSET Entries,
         pc[t] \in {"idle", "claim_commit"}, ~held,
         m \cap Durables = mem \cap Durables, CommitAndPersist(t, m)
  PROVE  Control' /\ Contents' /\ SnapInv'
  <1> USE DEF IInv, Control, Contents, storage, CommitAndPersist
  <1>0. Running
    BY DEF DownInv
  <1>1. Control'
    <2>1. GateInv'
      BY DEF GateInv, Typed
    <2>2. DownInv' /\ HeldInv'
      BY <1>0 DEF DownInv, HeldInv, Running, Typed
    <2>3. QED
      BY <2>1, <2>2
  <1>2. Contents'
    BY <1>0 DEF AckSurvives, MemoryInv, PendingInv, Running, Typed
  <1>3. SnapInv'
    BY <1>0 DEF SnapInv, InFlight, Typed, Snapshots
  <1>4. QED
    BY <1>1, <1>2, <1>3

\* The ordinary operations keep the invariant.
LEMMA MutateStep ==
  ASSUME IInv, NEW t \in Threads, Mutate(t)
  PROVE  Control' /\ Contents' /\ SnapInv'
  <1>1. PICK m \in Changed : CommitAndPersist(t, m)
    BY DEF Mutate
  <1>2. m \in SUBSET Entries
    BY DEF Changed, Entries, IInv, Typed
  <1>3. m \cap Durables = mem \cap Durables
    BY EntriesAssumption DEF Changed
  <1>4. QED
    BY <1>1, <1>2, <1>3, CommitStep DEF Mutate

\* A durable operation keeps the invariant.
LEMMA DurableStep ==
  ASSUME IInv, NEW t \in Threads, Durable(t)
  PROVE  Control' /\ Contents' /\ SnapInv'
  <1> USE DEF IInv, Control, Contents, memory, threads, storage
  <1>0. Running
    BY DEF Durable, DurableNoChange, DurableStart, DurableOk, DurableUnpublished,
       DurableUnsynced, DownInv
  <1>1. CASE DurableNoChange(t)
    <2>1. Control' /\ SnapInv'
      BY <1>0, <1>1 DEF DurableNoChange, GateInv, DownInv, HeldInv, Running, SnapInv, InFlight
    <2>2. Contents'
      BY <1>0, <1>1 DEF DurableNoChange, AckSurvives, MemoryInv, PendingInv, Running
    <2>3. QED
      BY <2>1, <2>2
  <1>2. CASE DurableStart(t)
    <2>1. Control'
      BY <1>0, <1>2 DEF DurableStart, GateInv, DownInv, HeldInv, Running, Typed
    <2>2. Contents'
      BY <1>0, <1>2 DEF DurableStart, AckSurvives, MemoryInv, PendingInv, Running, Typed
    <2>3. SnapInv'
      BY <1>0, <1>2 DEF DurableStart, SnapInv, InFlight, Typed
    <2>4. QED
      BY <2>1, <2>2, <2>3
  <1>3. ASSUME pc[t] = "durable_write" PROVE
          /\ ~held
          /\ acked \subseteq Candidate(t)
          /\ disk \cap Durables \subseteq Candidate(t)
          /\ \A u \in Threads \ {t} : pc[u] # "write" /\ pc[u] # "durable_write"
    BY <1>0, <1>3 DEF HeldInv, MemoryInv, AckSurvives, GateInv, Typed, Candidate
  <1>4. CASE DurableUnpublished(t)
    <2>1. Control'
      BY <1>0, <1>3, <1>4 DEF DurableUnpublished, EndDurable, GateInv, DownInv, HeldInv, Running, Typed
    <2>2. Contents'
      BY <1>0, <1>3, <1>4 DEF DurableUnpublished, EndDurable, AckSurvives, MemoryInv, PendingInv, Running, Typed
    <2>3. SnapInv'
      BY <1>0, <1>3, <1>4 DEF DurableUnpublished, EndDurable, SnapInv, InFlight, Typed
    <2>4. QED
      BY <2>1, <2>2, <2>3
  <1>5. CASE DurableOk(t)
    <2>1. Control'
      BY <1>0, <1>3, <1>5 DEF DurableOk, EndDurable, GateInv, DownInv, HeldInv, Running, Typed
    <2>2. Contents'
      <3>1. entry[t] \subseteq Candidate(t)
        BY DEF Candidate
      <3>2. QED
        BY <1>0, <1>3, <1>5, <3>1 DEF DurableOk, EndDurable, Confirm, Install, AckSurvives,
           MemoryInv, PendingInv, Running, Typed
    <2>3. SnapInv'
      BY <1>0, <1>3, <1>5 DEF DurableOk, EndDurable, Install, SnapInv, InFlight, Typed,
         Snapshots, Candidate
    <2>4. QED
      BY <2>1, <2>2, <2>3
  <1>6. CASE DurableUnsynced(t)
    <2>1. Control'
      BY <1>0, <1>3, <1>6 DEF DurableUnsynced, EndDurable, GateInv, DownInv, HeldInv, Running, Typed
    <2>2. Contents'
      BY <1>0, <1>3, <1>6 DEF DurableUnsynced, EndDurable, Publish, Install, AckSurvives,
           MemoryInv, PendingInv, Running, Typed
    <2>3. SnapInv'
      BY <1>0, <1>3, <1>6 DEF DurableUnsynced, EndDurable, Install, SnapInv, InFlight, Typed,
         Snapshots, Candidate
    <2>4. QED
      BY <2>1, <2>2, <2>3
  <1> HIDE DEF IInv, Control, Contents
  <1>7. QED
    BY <1>1, <1>2, <1>4, <1>5, <1>6 DEF Durable

\* claim_next keeps the invariant.
LEMMA ClaimStep ==
  ASSUME IInv, Claim
  PROVE  Control' /\ Contents' /\ SnapInv'
  <1> USE DEF IInv, Control, Contents, memory, threads, storage
  <1>0. Running
    BY DEF Claim, ClaimStart, ClaimCheck, ClaimCommit, Running
  <1>1. CASE ClaimStart
    <2>1. Control'
      BY <1>0, <1>1 DEF ClaimStart, GateInv, DownInv, HeldInv, Running, Typed
    <2>2. Contents'
      BY <1>0, <1>1 DEF ClaimStart, AckSurvives, MemoryInv, PendingInv, Running, Typed
    <2>3. SnapInv'
      BY <1>0, <1>1 DEF ClaimStart, SnapInv, InFlight, Typed
    <2>4. QED
      BY <2>1, <2>2, <2>3
  <1>2. CASE ClaimCheck
    <2>1. Control'
      BY <1>0, <1>2 DEF ClaimCheck, GateInv, DownInv, HeldInv, Running, Typed
    <2>2. Contents'
      BY <1>0, <1>2 DEF ClaimCheck, AckSurvives, MemoryInv, PendingInv, Running, Typed
    <2>3. SnapInv'
      BY <1>0, <1>2 DEF ClaimCheck, SnapInv, InFlight, Typed
    <2>4. QED
      BY <2>1, <2>2, <2>3
  <1>3. CASE ClaimCommit
    <2>1. PICK m \in Claimed : CommitAndPersist(Worker, m)
      BY <1>3 DEF ClaimCommit
    <2>2. m \in SUBSET Entries
      BY DEF Claimed, Entries, Typed
    <2>3. m \cap Durables = mem \cap Durables
      BY EntriesAssumption DEF Claimed
    <2>4. ~held /\ pc[Worker] = "claim_commit"
      BY <1>0, <1>3 DEF HeldInv, ClaimCommit
    <2> HIDE DEF IInv, Control, Contents
    <2>5. QED
      BY <2>1, <2>2, <2>3, <2>4, CommitStep
  <1> HIDE DEF IInv, Control, Contents
  <1>4. QED
    BY <1>1, <1>2, <1>3 DEF Claim

\* Starting, recovering the file and crashing keep the invariant.
LEMMA LifeStep ==
  ASSUME IInv, Open \/ Start \/ RetryUnreadable \/ FileRecovers \/ Crash
  PROVE  Control' /\ Contents' /\ SnapInv'
  <1> USE DEF IInv, Control, Contents, memory, threads, storage
  <1>1. CASE Open
    <2> USE DEF OpenGood, OpenHeld, OpenSetAside, PersistFromOpen, Reset, SetAside
    <2>1. \A t \in Threads : pc[t] = "down"
      BY <1>1 DEF Open, DownInv, Running
    <2>2. Control'
      BY <1>1, <2>1 DEF Open, GateInv, DownInv, HeldInv, Running, Typed
    <2>3. AckSurvives' /\ (disk \in survivors)'
      BY <1>1 DEF Open, AckSurvives
    <2>4. MemoryInv' /\ PendingInv'
      BY <1>1, EntriesAssumption DEF Open, Load, MemoryInv, PendingInv, Running
    <2>5. SnapInv'
      BY <1>1, <2>1 DEF Open, SnapInv, InFlight, Typed
    <2>6. QED
      BY <2>2, <2>3, <2>4, <2>5
  <1>2. CASE Start
    <2>1. Control'
      BY <1>2 DEF Start, GateInv, DownInv, HeldInv, Running, Typed
    <2>2. Contents'
      BY <1>2 DEF Start, AckSurvives, MemoryInv, PendingInv, Running, Typed
    <2>3. SnapInv'
      BY <1>2 DEF Start, SnapInv, InFlight, Typed
    <2>4. QED
      BY <2>1, <2>2, <2>3
  <1>3. CASE RetryUnreadable
    <2>1. Running /\ held /\ Readmit
      BY <1>3 DEF RetryUnreadable, Readmit, Running
    <2>2. Control'
      BY <2>1 DEF Readmit, GateInv, DownInv, HeldInv, Running, Typed
    <2>3. AckSurvives' /\ (disk \in survivors)'
      BY <1>3 DEF RetryUnreadable, SetAside, AckSurvives
    <2>4. MemoryInv' /\ PendingInv'
      BY <1>3, <2>1, EntriesAssumption DEF RetryUnreadable, Readmit, SetAside, Load,
         MemoryInv, PendingInv, Running
    <2>5. \A t \in Threads : ~InFlight(t)
      BY <2>1 DEF HeldInv, InFlight, Readmit, Running
    <2>6. SnapInv'
      BY <2>1, <2>5 DEF Readmit, SnapInv, InFlight, Typed
    <2>7. QED
      BY <2>2, <2>3, <2>4, <2>6
  <1>4. CASE FileRecovers
    <2>1. Control' /\ SnapInv'
      BY <1>4 DEF FileRecovers, GateInv, DownInv, HeldInv, Running, SnapInv, InFlight
    <2>2. Contents'
      BY <1>4 DEF FileRecovers, AckSurvives, MemoryInv, PendingInv, Running
    <2>3. QED
      BY <2>1, <2>2
  <1>5. CASE Crash
    <2>1. Control' /\ SnapInv'
      BY <1>5 DEF Crash, GateInv, DownInv, HeldInv, Running, SnapInv, InFlight, Typed
    <2>2. Contents'
      BY <1>5 DEF Crash, AckSurvives, MemoryInv, PendingInv, Running, Typed
    <2>3. QED
      BY <2>1, <2>2
  <1> HIDE DEF IInv, Control, Contents
  <1>6. QED
    BY <1>1, <1>2, <1>3, <1>4, <1>5

\* Every step keeps the invariant.
LEMMA InvStep == IInv /\ [Next]_vars => IInv'
  <1> SUFFICES ASSUME IInv, [Next]_vars PROVE IInv'
    OBVIOUS
  <1>1. Typed'
    BY TypeStep DEF IInv
  <1>2. Control' /\ Contents' /\ SnapInv'
    <2>1. CASE UNCHANGED vars
      BY <2>1 DEF vars, memory, threads, storage, IInv, Control, Contents, GateInv, DownInv,
         HeldInv, Running, AckSurvives, MemoryInv, PendingInv, SnapInv, InFlight
    <2>2. ASSUME NEW t \in Threads, Persist(t) \/ Mutate(t) \/ Durable(t)
          PROVE Control' /\ Contents' /\ SnapInv'
      BY <2>2, PersistStep, MutateStep, DurableStep
    <2>3. QED
      BY <2>1, <2>2, ClaimStep, LifeStep DEF Next
  <1>3. QED
    BY <1>1, <1>2 DEF IInv, Control, Contents

\* The inductive invariant holds of every behaviour.
LEMMA Invariance == Spec => []IInv
  BY InitInv, InvStep, PTL DEF Spec

\* The type invariant holds of every behaviour, and nothing newer than the memory is
\* ever counted as saved.
THEOREM TypeCorrect == Spec => []TypeOK
  <1>1. IInv => TypeOK
    BY DEF IInv, SnapInv, TypeOK
  <1>2. QED
    BY <1>1, Invariance, PTL

\* What mutate_durable acknowledged survives any crash, for any number of threads,
\* entries, writes, failures and restarts.
THEOREM AcknowledgedSurvives == Spec => []AckSurvives
  <1>1. IInv => AckSurvives
    BY DEF IInv
  <1>2. QED
    BY <1>1, Invariance, PTL

\* A job is claimed only when all durable entries in memory would survive a crash.
THEOREM ClaimsAreConfirmed == Spec => ClaimOnlyConfirmed
  <1> DEFINE Confirmed == \A c \in survivors : mem \cap Durables \subseteq c
  <1> DEFINE NewClaim == mem' \cap Claims # {} /\ mem \cap Claims = {}
  <1>1. ASSUME IInv, [Next]_vars, NewClaim PROVE Confirmed
    <2> USE EntriesAssumption DEF memory, threads, storage
    <2>1. CASE ClaimCommit
      <3>1. mem' \in Claimed
        BY <2>1 DEF ClaimCommit, CommitAndPersist
      <3>2. ~pending
        BY <1>1, <3>1 DEF Claimed
      <3>3. Running /\ ~held
        BY <1>1, <2>1 DEF ClaimCommit, IInv, HeldInv, Running
      <3>4. QED
        BY <1>1, <3>2, <3>3 DEF IInv, PendingInv
    <2>2. ASSUME NEW t \in Threads, Persist(t) \/ Mutate(t) \/ Durable(t)
          PROVE mem' \cap Claims = {}
      <3>1. CASE Persist(t)
        BY <1>1, <3>1 DEF Persist, Snapshot, PersistNothing, PersistStart, PersistOk,
           PersistUnpublished, PersistUnsynced, EndWrite
      <3>2. CASE Mutate(t)
        BY <1>1, <3>2 DEF Mutate, Changed, CommitAndPersist
      <3>3. CASE Durable(t)
        <4>1. Candidate(t) \cap Claims = {}
          BY <1>1 DEF Candidate, IInv, Typed
        <4>2. mem' = mem \/ mem' = Candidate(t)
          BY <3>3 DEF Durable, DurableNoChange, DurableStart, DurableOk,
             DurableUnpublished, DurableUnsynced, Install
        <4>3. QED
          BY <1>1, <4>1, <4>2
      <3>4. QED
        BY <2>2, <3>1, <3>2, <3>3
    <2>3. ASSUME ClaimStart \/ ClaimCheck \/ Start \/ FileRecovers \/ Crash \/ UNCHANGED vars
          PROVE mem' = mem
      BY <2>3 DEF ClaimStart, ClaimCheck, Start, FileRecovers, Crash, vars
    <2>4. ASSUME Open \/ RetryUnreadable PROVE mem' \cap Claims = {}
      BY <2>4 DEF Open, OpenGood, OpenHeld, OpenSetAside, RetryUnreadable, SetAside, Load
    <2>5. QED
      BY <1>1, <2>1, <2>2, <2>3, <2>4 DEF Next, Claim
  <1>2. IInv /\ [Next]_vars => [NewClaim => Confirmed]_vars
    BY <1>1
  <1>3. QED
    BY <1>2, Invariance, PTL DEF Spec, ClaimOnlyConfirmed

\* No thread's older snapshot takes a published durable entry out of the file.
THEOREM PublishedEntriesStay == Spec => PublishedStays
  <1> DEFINE Stays == file # "damaged" /\ pc[Worker]' # "down" =>
                        disk \cap Durables \subseteq disk'
  <1>1. ASSUME IInv, [Next]_vars PROVE Stays
    <2> USE DEF memory, threads, storage
    <2>1. ASSUME NEW t \in Threads, Persist(t) PROVE Stays
      <3>1. CASE PersistOk(t) \/ PersistUnsynced(t)
        <4>1. Running /\ ~held /\ InFlight(t) /\ snap[t].gen >= saved
          BY <1>1, <3>1 DEF PersistOk, PersistUnsynced, IInv, DownInv, HeldInv, SnapInv, InFlight
        <4>2. disk \cap Durables \subseteq snap[t].content
          BY <1>1, <4>1 DEF IInv, MemoryInv, SnapInv
        <4>3. QED
          BY <3>1, <4>2 DEF PersistOk, PersistUnsynced, Confirm, Publish
      <3>2. CASE disk' = disk
        BY <3>2
      <3>3. QED
        BY <2>1, <3>1, <3>2 DEF Persist, Snapshot, PersistNothing, PersistStart, PersistUnpublished
    <2>2. ASSUME NEW t \in Threads, Durable(t) PROVE Stays
      <3>1. CASE DurableOk(t) \/ DurableUnsynced(t)
        <4>1. Running /\ ~held
          BY <1>1, <3>1 DEF DurableOk, DurableUnsynced, IInv, DownInv, HeldInv
        <4>2. QED
          BY <1>1, <3>1, <4>1 DEF DurableOk, DurableUnsynced, Confirm, Publish, Candidate,
             IInv, MemoryInv
      <3>2. QED
        BY <2>2, <3>1 DEF Durable, DurableNoChange, DurableStart, DurableUnpublished
    <2>3. ASSUME NEW t \in Threads, Mutate(t) PROVE Stays
      BY <2>3 DEF Mutate, CommitAndPersist
    <2>4. ASSUME Claim \/ Open \/ Start \/ RetryUnreadable \/ FileRecovers \/ UNCHANGED vars
          PROVE Stays
      BY <2>4 DEF Claim, ClaimStart, ClaimCheck, ClaimCommit, CommitAndPersist, Open, OpenGood,
         OpenHeld, OpenSetAside, SetAside, Start, RetryUnreadable, FileRecovers, vars
    <2>5. CASE Crash
      BY <1>1, <2>5, ThreadsAssumption DEF Crash, IInv, Typed
    <2>6. QED
      BY <1>1, <2>1, <2>2, <2>3, <2>4, <2>5 DEF Next
  <1>2. IInv /\ [Next]_vars => [Stays]_vars
    BY <1>1
  <1>3. QED
    BY <1>2, Invariance, PTL DEF Spec, PublishedStays

\* A queue file that could not be loaded keeps its content while it is held,
\* whatever the threads and the re-reads of it do.
THEOREM HeldFileStays == Spec => HeldFileUntouched
  <1> DEFINE Untouched == held /\ held' /\ pc[Worker]' # "down" =>
                            UNCHANGED <<disk, survivors>>
  <1>1. ASSUME IInv, [Next]_vars PROVE Untouched
    <2> USE DEF memory, threads, storage
    <2>1. ASSUME NEW t \in Threads, Persist(t) PROVE Untouched
      <3>1. CASE PersistOk(t) \/ PersistUnsynced(t)
        <4>1. Running
          BY <1>1, <3>1 DEF PersistOk, PersistUnsynced, IInv, DownInv
        <4>2. ~held
          BY <1>1, <3>1, <4>1 DEF PersistOk, PersistUnsynced, IInv, HeldInv
        <4>3. QED
          BY <4>2
      <3>2. QED
        BY <2>1, <3>1 DEF Persist, Snapshot, PersistNothing, PersistStart, PersistUnpublished
    <2>2. ASSUME NEW t \in Threads, Durable(t) PROVE Untouched
      <3>1. CASE DurableOk(t) \/ DurableUnsynced(t)
        <4>1. Running
          BY <1>1, <3>1 DEF DurableOk, DurableUnsynced, IInv, DownInv
        <4>2. ~held
          BY <1>1, <3>1, <4>1 DEF DurableOk, DurableUnsynced, IInv, HeldInv
        <4>3. QED
          BY <4>2
      <3>2. QED
        BY <2>2, <3>1 DEF Durable, DurableNoChange, DurableStart, DurableUnpublished
    <2>3. ASSUME OpenSetAside \/ RetryUnreadable PROVE ~held'
      BY <2>3 DEF OpenSetAside, RetryUnreadable, Readmit
    <2>4. CASE Crash
      BY <1>1, <2>4, ThreadsAssumption DEF Crash, IInv, Typed
    <2>5. ASSUME NEW t \in Threads, Mutate(t) PROVE Untouched
      BY <2>5 DEF Mutate, CommitAndPersist
    <2>6. ASSUME Claim \/ OpenGood \/ OpenHeld \/ Start \/ FileRecovers \/ UNCHANGED vars
          PROVE Untouched
      BY <2>6 DEF Claim, ClaimStart, ClaimCheck, ClaimCommit, CommitAndPersist, OpenGood,
         OpenHeld, Start, FileRecovers, vars
    <2>7. QED
      BY <1>1, <2>1, <2>2, <2>3, <2>4, <2>5, <2>6 DEF Next, Open
  <1>2. IInv /\ [Next]_vars => [Untouched]_vars
    BY <1>1
  <1>3. QED
    BY <1>2, Invariance, PTL DEF Spec, HeldFileUntouched

\* The writes of threads keep in every content a crash may leave what each of them held.
LEMMA WritesKeepSure ==
    ASSUME IInv, NEW t \in Threads, Persist(t) \/ Durable(t) \/ Mutate(t)
    PROVE  Sure \subseteq Sure' /\ file' = file
  <1> USE DEF memory, threads, storage
  <1>1. CASE PersistOk(t) \/ PersistUnsynced(t)
    <2>1. Running /\ ~held /\ InFlight(t) /\ snap[t].gen >= saved
      BY <1>1 DEF PersistOk, PersistUnsynced, IInv, DownInv, HeldInv, SnapInv, InFlight
    <2>2. disk \cap Durables \subseteq snap[t].content
      BY <2>1 DEF IInv, MemoryInv, SnapInv
    <2>3. survivors' \subseteq survivors \cup {snap[t].content} /\ file' = file
      BY <1>1 DEF PersistOk, PersistUnsynced, Confirm, Publish
    <2>4. QED
      BY <2>2, <2>3 DEF Sure, IInv
  <1>2. CASE DurableOk(t) \/ DurableUnsynced(t)
    <2>1. Running /\ ~held
      BY <1>2 DEF DurableOk, DurableUnsynced, IInv, DownInv, HeldInv
    <2>2. disk \cap Durables \subseteq Candidate(t)
      BY <2>1 DEF Candidate, IInv, MemoryInv
    <2>3. survivors' \subseteq survivors \cup {Candidate(t)} /\ file' = file
      BY <1>2 DEF DurableOk, DurableUnsynced, Confirm, Publish
    <2>4. QED
      BY <2>2, <2>3 DEF Sure, IInv
  <1>3. CASE UNCHANGED storage
    BY <1>3 DEF Sure
  <1>4. QED
    BY <1>1, <1>2, <1>3 DEF Persist, Snapshot, PersistNothing, PersistStart,
       PersistUnpublished, Durable, DurableNoChange, DurableStart, DurableUnpublished,
       Mutate, CommitAndPersist

\* The store implements the abstract log of durable changes: whatever the threads,
\* failed writes, crashes and restarts do, each step is a step of the log or none.
THEOREM ImplementsLog == Spec => LogKept
  <1>1. Init => Log!Init
    BY DEF Init, Log!Init, Sure
  <1>2. ASSUME IInv, IInv', [Next]_vars PROVE [Log!Next]_Log!vars
    <2> DEFINE Grows == Sure \subseteq Sure' /\ UNCHANGED acked
    <2> USE DEF memory, threads, storage
    <2>0. Sure \in SUBSET Durables /\ Sure' \in SUBSET Durables
      BY DEF Sure
    <2>1. ASSUME Grows, file' = file PROVE [Log!Next]_Log!vars
      BY <2>0, <2>1 DEF Log!Store, Log!Next
    <2>2. ASSUME NEW t \in Threads, Persist(t) \/ Mutate(t) \/ Durable(t)
          PROVE [Log!Next]_Log!vars
      <3>1. Sure \subseteq Sure' /\ file' = file
        BY <1>2, <2>2, WritesKeepSure
      <3>2. CASE UNCHANGED acked
        BY <2>1, <3>1, <3>2
      <3>3. CASE DurableOk(t) \/ DurableNoChange(t)
        <4>1. acked \subseteq acked'
          BY <3>3 DEF DurableOk, DurableNoChange
        <4>2. acked' \subseteq Sure'
          BY <1>2 DEF IInv, AckSurvives, Typed, Sure
        <4>3. QED
          BY <2>0, <3>1, <4>1, <4>2 DEF Log!Promise, Log!Next
      <3>4. QED
        BY <2>2, <3>2, <3>3 DEF Persist, Snapshot, PersistNothing, PersistStart, PersistOk,
           PersistUnpublished, PersistUnsynced, EndWrite, Mutate, CommitAndPersist, Durable,
           DurableStart, DurableUnpublished, DurableUnsynced
    <2>3. ASSUME Claim \/ OpenGood \/ OpenHeld \/ Start \/ UNCHANGED vars
          PROVE UNCHANGED <<storage, acked>>
      BY <2>3 DEF Claim, ClaimStart, ClaimCheck, ClaimCommit, CommitAndPersist, OpenGood,
         OpenHeld, Start, vars
    <2>4. ASSUME UNCHANGED <<survivors, acked>> PROVE Grows
      BY <2>4 DEF Sure
    <2>5. CASE SetAside
      <3>1. Sure' = {} /\ acked' = {}
        BY <2>5 DEF SetAside, Sure
      <3>2. QED
        BY <2>5, <3>1 DEF SetAside, Log!StartOver, Log!Next
    <2>6. CASE FileRecovers
      BY <2>4, <2>0, <2>6 DEF FileRecovers, Log!Fail, Log!Next
    <2>7. CASE Crash
      <3>1. Grows
        BY <2>7 DEF Crash, Sure
      <3>2. QED
        BY <2>0, <3>1 DEF Log!Fail, Log!Next
    <2>8. CASE OpenSetAside \/ RetryUnreadable
      BY <2>1, <2>4, <2>5, <2>8 DEF OpenSetAside, RetryUnreadable
    <2>9. QED
      BY <1>2, <2>1, <2>2, <2>3, <2>4, <2>6, <2>7, <2>8 DEF Next, Open
  <1>3. QED
    BY <1>1, <1>2, Invariance, PTL DEF Spec, LogKept, Log!Spec
=============================================================================
