-------------------------- MODULE AuditLanesProofs --------------------------
(***************************************************************************)
(* Proofs about AuditLanes, for any files, any bounds and anything people   *)
(* and rips do.  First the verdicts: they need nothing of the lanes, what   *)
(* is proved of the file a lane runs is proved should it be one of Files.   *)
(* Then the lanes, and the types of everything.                             *)
(***************************************************************************)
EXTENDS AuditLanes, FiniteSetTheorems, SequenceTheorems, TLAPS

Verdicts == [stamp : Nat, read : Nat, seen : SUBSET Nat,
             deep : {"none", "tried", "due", "done"}]
USE DEF Verdicts

\* The verdict is of the content the file has, should it be filed under that.
TrueVerdict(r, content) ==
    r.stamp = content /\ content # 0 =>
        r.read = content /\ (r.deep = "done" => r.seen = {content})

\* What a state, in memory or in audit.json, must be: nothing in it is stamped later
\* than the clock, and every verdict is true.
Audits(s) ==
    /\ s = [results |-> s.results, queue |-> s.queue, deepQueue |-> s.deepQueue,
            paused |-> s.paused]
    /\ s.results \in [Files -> Verdicts]
    /\ \A p \in Files :
           s.results[p].stamp <= clock /\ TrueVerdict(s.results[p], disk[p])

DiskInv ==
    /\ clock \in Nat
    /\ disk \in [Files -> Nat] /\ \A p \in Files : disk[p] <= clock

\* What the quick thread read is the content its stamp stands for, or that stamp
\* is no longer the file's and never will be again.
QuickInv ==
    /\ q = [pc |-> q.pc, sig |-> q.sig, read |-> q.read]
    /\ quick.live \in Files /\ q.pc \in {"start", "read", "record"} =>
           /\ q.sig \in Nat /\ q.sig <= clock /\ q.sig # 0
           /\ q.pc = "record" =>
                  q.read \in Nat /\ (q.sig = disk[quick.live] => q.read = q.sig)

\* The same of all that a decode has seen.
DeepInv ==
    /\ d = [pc |-> d.pc, sig |-> d.sig, seen |-> d.seen, verdict |-> d.verdict]
    /\ d.verdict \in {"done", "tried"}
    /\ deep.live \in Files /\ d.pc \in {"start", "decode", "verdict", "record"} =>
           /\ d.sig \in Nat /\ d.sig <= clock /\ d.sig # 0
           /\ d.pc # "start" =>
                  d.seen \in SUBSET Nat /\ (d.sig = disk[deep.live] => d.seen = {d.sig})

IInv == DiskInv /\ Audits(st) /\ Audits(saved) /\ QuickInv /\ DeepInv

LEMMA InitInv == Init => IInv
  <1> SUFFICES ASSUME Init PROVE IInv
    OBVIOUS
  <1> USE DEF Init
  <1>1. DiskInv
    BY DEF DiskInv
  <1>2. Audits(st) /\ Audits(saved)
    BY DEF Audits, TrueVerdict, EmptyState, NoRecord
  <1>3. QuickInv /\ DeepInv
    BY NoFileAssumption DEF QuickInv, DeepInv, IdleSlot, IdleDeep
  <1>4. QED
    BY <1>1, <1>2, <1>3 DEF IInv

\* A change of the state that is true leaves state and audit.json true.
LEMMA ChangedInv ==
  ASSUME IInv, NEW s, Audits(s), Changed(s) \/ ChangedIfNew(s), UNCHANGED <<disk, clock>>
  PROVE  Audits(st)' /\ Audits(saved)'
  <1>1. st' \in {st, s} /\ saved' \in {saved, s}
    BY DEF Changed, ChangedIfNew
  <1>2. Audits(st) /\ Audits(saved)
    BY DEF IInv
  <1>3. QED
    BY <1>1, <1>2 DEF Audits

\* The lanes and the pause have no part in it, nor what fills and prunes them.
LEMMA FillAudits ==
  ASSUME NEW s, Audits(s)
  PROVE  Audits(Fill(s))
  BY DEF Audits, Fill

LEMMA PruneAudits ==
  ASSUME NEW s, Audits(s), NEW present, DiskInv
  PROVE  Audits(Prune(s, present))
  <1> DEFINE results == [p \in Files |-> IF p \in present THEN s.results[p] ELSE NoRecord]
             lane == Retain(s.queue, present)
             deepLane == Retain(s.deepQueue, present)
  <1>1. Prune(s, present) = [results |-> results, queue |-> lane, deepQueue |-> deepLane,
                             paused |-> s.paused]
    BY DEF Prune
  <1>2. results \in [Files -> Verdicts]
    BY DEF Audits, NoRecord
  <1>3. \A p \in Files : results[p].stamp <= clock /\ TrueVerdict(results[p], disk[p])
    BY DEF Audits, NoRecord, TrueVerdict, DiskInv
  <1> HIDE DEF lane, deepLane, results
  <1>4. QED
    BY <1>1, <1>2, <1>3 DEF Audits

\* One verdict replaced by a true one.
LEMMA VerdictAudits ==
  ASSUME NEW s, Audits(s), NEW p, NEW r, 
         p \in Files =>
             /\ r \in Verdicts
             /\ r.stamp <= clock /\ TrueVerdict(r, disk[p])
  PROVE  Audits([s EXCEPT !.results[p] = r])
  <1> DEFINE t == [s EXCEPT !.results[p] = r]
  <1>1. t.results = [s.results EXCEPT ![p] = r]
    BY DEF Audits
  <1>2. t = [results |-> t.results, queue |-> t.queue, deepQueue |-> t.deepQueue,
             paused |-> t.paused]
    BY DEF Audits
  <1> HIDE DEF t
  <1>3. t.results \in [Files -> Verdicts]
    BY <1>1 DEF Audits
  <1>4. \A x \in Files : t.results[x].stamp <= clock /\ TrueVerdict(t.results[x], disk[x])
    BY <1>1 DEF Audits
  <1>5. Audits(t)
    BY <1>2, <1>3, <1>4 DEF Audits
  <1>6. QED
    BY <1>5 DEF t

-----------------------------------------------------------------------------
(* The quick lane. *)

LEMMA QuickStepInv == IInv /\ Quick => IInv'
  <1> SUFFICES ASSUME IInv, Quick PROVE IInv'
    OBVIOUS
  <1> USE DEF environment, deepThread, index
  <1>1. DiskInv /\ Audits(st) /\ Audits(saved) /\ QuickInv /\ DeepInv
    BY DEF IInv
  <1>2. DiskInv' /\ DeepInv'
    BY <1>1 DEF DiskInv, DeepInv, Quick, SetDeepEnabled, Refill, QuickTurn, QuickStat,
       QuickStart, QuickRead, RecordFast, QuickDue, EnqueueDeep, QuickFinish
  <1>3. CASE SetDeepEnabled
    <2> DEFINE s == IF setting THEN st ELSE [st EXCEPT !.deepQueue = <<>>]
    <2>1. Audits(s)
      BY <1>1 DEF Audits
    <2>2. Audits(st)' /\ Audits(saved)'
      BY <1>3, <2>1, ChangedInv DEF SetDeepEnabled
    <2>3. QuickInv'
      BY <1>1, <1>3 DEF QuickInv, SetDeepEnabled
    <2>4. QED
      BY <1>2, <2>2, <2>3 DEF IInv
  <1>4. CASE Refill
    <2>1. Audits(st)' /\ Audits(saved)'
      BY <1>1, <1>4, FillAudits, ChangedInv DEF Refill
    <2>2. QuickInv'
      BY <1>1, <1>4 DEF QuickInv, Refill
    <2>3. QED
      BY <1>2, <2>1, <2>2 DEF IInv
  <1>5. CASE QuickTurn
    <2>1. Audits(st)' /\ Audits(saved)'
      BY <1>1, <1>5 DEF Audits, QuickTurn
    <2>2. QuickInv'
      BY <1>1, <1>5 DEF QuickInv, QuickTurn
    <2>3. QED
      BY <1>2, <2>1, <2>2 DEF IInv
  <1>6. CASE QuickStat \/ QuickStart \/ QuickRead \/ QuickDue \/ QuickFinish
    <2>1. Audits(st)' /\ Audits(saved)'
      BY <1>1, <1>6 DEF Audits, QuickStat, QuickStart, QuickRead, QuickDue, QuickFinish
    <2>2. QuickInv'
      <3>1. CASE QuickStat
        BY <1>1, <3>1 DEF QuickInv, DiskInv, QuickStat
      <3>2. CASE QuickStart
        BY <1>1, <3>2 DEF QuickInv, QuickStart, QuickStep
      <3>3. CASE QuickRead
        BY <1>1, <3>3 DEF QuickInv, DiskInv, QuickRead
      <3>4. CASE QuickDue
        BY <1>1, <3>4 DEF QuickInv, QuickDue, QuickStep
      <3>5. CASE QuickFinish
        BY <1>1, <3>5 DEF QuickInv, QuickFinish
      <3>6. QED
        BY <1>6, <3>1, <3>2, <3>3, <3>4, <3>5
    <2>3. QED
      BY <1>2, <2>1, <2>2 DEF IInv
  <1>7. CASE RecordFast
    <2> DEFINE r == RecordOf(st.results[quick.live], q.sig, q.read)
               s == [st EXCEPT !.results[quick.live] = r]
    <2>1. ASSUME quick.live \in Files
          PROVE  /\ r \in Verdicts
                 /\ r.stamp <= clock /\ TrueVerdict(r, disk[quick.live])
      <3>1. /\ q.sig \in Nat /\ q.sig <= clock /\ q.read \in Nat
            /\ q.sig = disk[quick.live] => q.read = q.sig
        BY <1>1, <1>7, <2>1 DEF QuickInv, RecordFast, QuickStep
      <3> DEFINE old == st.results[quick.live]
      <3>2. /\ old \in Verdicts
            /\ old.stamp <= clock /\ TrueVerdict(old, disk[quick.live])
        BY <1>1, <2>1 DEF Audits
      <3> HIDE DEF old
      <3>3. CASE Matches(old, q.sig)
        <4>1. RecordOf(old, q.sig, q.read) = [old EXCEPT !.read = q.read]
          BY <3>3 DEF RecordOf
        <4>2. QED
          BY <3>1, <3>2, <3>3, <4>1 DEF Matches, TrueVerdict, old
      <3>4. CASE ~Matches(old, q.sig)
        <4>1. RecordOf(old, q.sig, q.read) = [NoRecord EXCEPT !.stamp = q.sig, !.read = q.read]
          BY <3>4 DEF RecordOf
        <4>2. QED
          BY <3>1, <4>1 DEF NoRecord, TrueVerdict, old
      <3>5. QED
        BY <3>3, <3>4
    <2>2. Audits(s)
      BY <1>1, <2>1, VerdictAudits
    <2>3. Changed(s)
      BY <1>7 DEF RecordFast
    <2>4. Audits(st)' /\ Audits(saved)'
      BY <1>7, <2>3, <2>2, ChangedInv DEF RecordFast
    <2>5. QuickInv'
      BY <1>1, <1>7 DEF QuickInv, RecordFast, QuickStep
    <2>6. QED
      BY <1>2, <2>4, <2>5 DEF IInv
  <1>8. CASE EnqueueDeep
    <2> DEFINE s == [st EXCEPT !.deepQueue = PushLane(@, deep.live, {quick.live})]
    <2>1. Audits(s)
      BY <1>1 DEF Audits
    <2>2. Audits(st)' /\ Audits(saved)'
      BY <1>8, <2>1, ChangedInv DEF EnqueueDeep
    <2>3. QuickInv'
      BY <1>1, <1>8 DEF QuickInv, EnqueueDeep, QuickStep
    <2>4. QED
      BY <1>2, <2>2, <2>3 DEF IInv
  <1>9. QED
    BY <1>3, <1>4, <1>5, <1>6, <1>7, <1>8 DEF Quick

-----------------------------------------------------------------------------
(* The deep lane. *)

LEMMA DeepStepInv == IInv /\ Deep => IInv'
  <1> SUFFICES ASSUME IInv, Deep PROVE IInv'
    OBVIOUS
  <1> USE DEF environment, quickThread, index
  <1>1. DiskInv /\ Audits(st) /\ Audits(saved) /\ QuickInv /\ DeepInv
    BY DEF IInv
  <1>2. DiskInv' /\ QuickInv'
    BY <1>1 DEF DiskInv, QuickInv, Deep, DeepLook, DeepStat, DeepStart, Decode, DeepCheck,
       RecordDeep, Interrupted, RequeueFront, DeepFinish
  <1>3. Audits(st)' /\ Audits(saved)'
    <2>1. CASE DeepLook \/ DeepStat \/ DeepStart \/ Decode \/ DeepCheck \/ Interrupted
                 \/ DeepFinish
      BY <1>1, <2>1 DEF Audits, DeepLook, DeepStat, DeepStart, Decode, DeepCheck, Interrupted,
         DeepFinish
    <2>2. CASE RequeueFront
      <3> DEFINE s == IF deep.live \in Range(st.deepQueue) THEN st
                      ELSE [st EXCEPT !.deepQueue = <<deep.live>> \o @]
      <3>1. Audits(s)
        BY <1>1 DEF Audits
      <3>2. QED
        BY <2>2, <3>1, ChangedInv DEF RequeueFront
    <2>3. CASE RecordDeep /\ Matches(st.results[deep.live], d.sig)
      <3> DEFINE r == WithDeep(st.results[deep.live])
                 s == [st EXCEPT !.results[deep.live] = r]
      <3>1. ASSUME deep.live \in Files
            PROVE  r \in Verdicts /\ r.stamp <= clock /\ TrueVerdict(r, disk[deep.live])
        <4>1. /\ d.sig \in Nat /\ d.seen \in SUBSET Nat /\ d.verdict \in {"done", "tried"}
              /\ d.sig = disk[deep.live] => d.seen = {d.sig}
          BY <1>1, <2>3, <3>1 DEF DeepInv, RecordDeep, DeepStep
        <4> DEFINE old == st.results[deep.live]
        <4>2. /\ old \in Verdicts /\ old.stamp <= clock /\ old.stamp = d.sig
              /\ TrueVerdict(old, disk[deep.live])
          BY <1>1, <2>3, <3>1 DEF Audits, Matches
        <4> HIDE DEF old
        <4>3. r = [old EXCEPT !.deep = d.verdict, !.seen = d.seen]
          BY DEF WithDeep, old
        <4>4. QED
          BY <4>1, <4>2, <4>3 DEF TrueVerdict
      <3>2. Audits(s)
        BY <1>1, <3>1, VerdictAudits
      <3>3. Changed(s)
        BY <2>3 DEF RecordDeep
      <3>4. QED
        BY <2>3, <3>2, <3>3, ChangedInv DEF RecordDeep
    <2>4. CASE RecordDeep /\ ~Matches(st.results[deep.live], d.sig)
      BY <1>1, <2>4 DEF Audits, RecordDeep
    <2>5. QED
      BY <2>1, <2>2, <2>3, <2>4 DEF Deep
  <1>4. DeepInv'
    <2>1. CASE DeepLook
      BY <1>1, <2>1 DEF DeepInv, DeepLook
    <2>2. CASE DeepStat
      BY <1>1, <2>2 DEF DeepInv, DiskInv, DeepStat
    <2>3. CASE DeepStart
      BY <1>1, <2>3 DEF DeepInv, DiskInv, DeepStart
    <2>4. CASE Decode
      <3>1. /\ d' = [d EXCEPT !.pc = d'.pc, !.seen = d'.seen, !.verdict = d'.verdict]
            /\ d'.verdict \in {"done", "tried"} /\ d'.sig = d.sig
            /\ d'.seen \in {d.seen, d.seen \cup {disk[deep.live]}}
        BY <1>1, <2>4 DEF DeepInv, Decode
      <3>2. d' = [pc |-> d'.pc, sig |-> d'.sig, seen |-> d'.seen, verdict |-> d'.verdict]
        BY <1>1, <3>1 DEF DeepInv
      <3>3. d.pc = "decode" /\ UNCHANGED <<deep, disk, clock>>
        BY <2>4 DEF Decode
      <3>4. deep.live \in Files => disk[deep.live] \in Nat
        BY <1>1 DEF DiskInv
      <3>5. QED
        BY <1>1, <3>1, <3>2, <3>3, <3>4 DEF DeepInv
    <2>5. CASE DeepCheck \/ RecordDeep \/ Interrupted \/ RequeueFront
      BY <1>1, <2>5 DEF DeepInv, DeepStep, DeepCheck, RecordDeep, Interrupted, RequeueFront
    <2>6. CASE DeepFinish
      BY <1>1, <2>6 DEF DeepInv, DeepFinish, IdleDeep
    <2>7. QED
      BY <2>1, <2>2, <2>3, <2>4, <2>5, <2>6 DEF Deep
  <1>5. QED
    BY <1>2, <1>3, <1>4 DEF IInv

LEMMA BackoffInv == IInv /\ Backoff => IInv'
  <1> SUFFICES ASSUME IInv, NEW p \in Files, BackoffOver(p) PROVE IInv'
    BY DEF Backoff
  <1> USE DEF environment, quickThread, deepThread, index
  <1>1. DiskInv /\ Audits(st) /\ Audits(saved) /\ QuickInv /\ DeepInv
    BY DEF IInv
  <1>2. DiskInv' /\ QuickInv' /\ DeepInv' /\ Audits(saved)'
    BY <1>1 DEF DiskInv, QuickInv, DeepInv, Audits, BackoffOver
  <1> DEFINE r == [st.results[p] EXCEPT !.deep = "due"]
  <1>3. r \in Verdicts /\ r.stamp <= clock /\ TrueVerdict(r, disk[p])
    BY <1>1 DEF Audits, TrueVerdict
  <1>4. Audits([st EXCEPT !.results[p] = r])
    BY <1>1, <1>3, VerdictAudits
  <1>5. Audits(st)'
    BY <1>4 DEF BackoffOver, Audits
  <1>6. QED
    BY <1>2, <1>5 DEF IInv

-----------------------------------------------------------------------------
(* The indexer, the web handlers, the world outside. *)

LEMMA IndexInv == IInv /\ Index => IInv'
  <1> SUFFICES ASSUME IInv, Index PROVE IInv'
    OBVIOUS
  <1> USE DEF environment, quickThread, deepThread
  <1>1. DiskInv /\ Audits(st) /\ Audits(saved) /\ QuickInv /\ DeepInv
    BY DEF IInv
  <1>2. DiskInv' /\ QuickInv' /\ DeepInv'
    BY <1>1 DEF DiskInv, QuickInv, DeepInv, Index, Rescan, IndexFill, IndexPrune
  <1>3. CASE Rescan
    BY <1>1, <1>2, <1>3 DEF IInv, Audits, Rescan
  <1>4. CASE IndexFill
    BY <1>1, <1>2, <1>4, FillAudits, ChangedInv DEF IInv, IndexFill
  <1>5. CASE IndexPrune
    <2> DEFINE s == IF ListsEverything THEN Prune(st, ix.present) ELSE st
    <2>1. Audits(s)
      BY <1>1, PruneAudits
    <2>2. QED
      BY <1>2, <1>5, <2>1, ChangedInv DEF IInv, IndexPrune
  <1>6. QED
    BY <1>3, <1>4, <1>5 DEF Index

\* A write gives the file a stamp nothing recorded has, a removal none at all.
LEMMA NewContent ==
  ASSUME IInv, NEW p \in Files, Write(p) \/ Vanish(p)
  PROVE  IInv'
  <1> USE DEF index, quickThread, deepThread
  <1>1. DiskInv /\ Audits(st) /\ Audits(saved) /\ QuickInv /\ DeepInv
    BY DEF IInv
  <1>2. /\ UNCHANGED <<st, saved, quick, q, deep, d>>
        /\ clock' \in Nat /\ clock <= clock'
        /\ disk' = [disk EXCEPT ![p] = disk'[p]] /\ disk'[p] \in Nat /\ disk'[p] <= clock'
        /\ disk'[p] = 0 \/ disk'[p] > clock
    BY <1>1 DEF Write, Vanish, DiskInv
  <1>3. DiskInv'
    BY <1>1, <1>2 DEF DiskInv
  <1>4. \A x \in Files : disk'[x] = disk[x] \/ disk'[x] = 0 \/ disk'[x] > clock
    BY <1>1, <1>2 DEF DiskInv
  <1>5. ASSUME NEW s, Audits(s), NEW x \in Files
        PROVE  s.results[x].stamp <= clock' /\ TrueVerdict(s.results[x], disk'[x])
    <2>1. s.results[x].stamp \in Nat /\ s.results[x].stamp <= clock
          /\ TrueVerdict(s.results[x], disk[x])
      BY <1>5 DEF Audits
    <2>2. clock \in Nat /\ disk'[x] \in Nat /\ disk[x] \in Nat
      BY <1>1, <1>3 DEF DiskInv
    <2>3. s.results[x].stamp <= clock'
      BY <1>2, <2>1, <2>2
    <2>4. CASE disk'[x] = disk[x]
      BY <2>1, <2>3, <2>4
    <2>5. CASE disk'[x] = 0 \/ disk'[x] > clock
      BY <2>1, <2>2, <2>3, <2>5 DEF TrueVerdict
    <2>6. QED
      BY <1>4, <2>4, <2>5
  <1>6. Audits(st)' /\ Audits(saved)'
    BY <1>1, <1>2, <1>5 DEF Audits
  <1>7. QuickInv'
    BY <1>1, <1>2, <1>3, <1>4 DEF QuickInv, DiskInv
  <1>8. DeepInv'
    BY <1>1, <1>2, <1>3, <1>4 DEF DeepInv, DiskInv
  <1>9. QED
    BY <1>3, <1>6, <1>7, <1>8 DEF IInv

\* A verdict without its deep part is as true as it was.
LEMMA WithoutDeep ==
  ASSUME NEW old \in Verdicts, NEW content \in Nat, TrueVerdict(old, content),
         NEW r, r = [old EXCEPT !.deep = "none", !.seen = {}]
  PROVE  r \in Verdicts /\ r.stamp = old.stamp /\ TrueVerdict(r, content)
  <1>1. r = [stamp |-> old.stamp, read |-> old.read, seen |-> {}, deep |-> "none"]
    OBVIOUS
  <1>2. QED
    BY <1>1 DEF TrueVerdict

LEMMA OutsideInv == IInv /\ Outside => IInv'
  <1> SUFFICES ASSUME IInv, Outside PROVE IInv'
    OBVIOUS
  <1> USE DEF environment, index, quickThread, deepThread
  <1>1. DiskInv /\ Audits(st) /\ Audits(saved) /\ QuickInv /\ DeepInv
    BY DEF IInv
  <1>2. ASSUME NEW paused \in BOOLEAN, SetPaused(paused) PROVE IInv'
    <2> DEFINE s == [st EXCEPT !.paused = paused]
    <2>1. Audits(s)
      BY <1>1 DEF Audits
    <2>2. Audits(st)' /\ Audits(saved)'
      BY <1>2, <2>1, ChangedInv DEF SetPaused
    <2>3. QED
      BY <1>1, <1>2, <2>2 DEF IInv, DiskInv, QuickInv, DeepInv, SetPaused
  <1>3. CASE StopAll
    <2> DEFINE s == [results |-> st.results, queue |-> <<>>, deepQueue |-> <<>>,
                     paused |-> TRUE]
    <2>1. Audits(s)
      BY <1>1 DEF Audits
    <2>2. Audits(st)' /\ Audits(saved)'
      BY <1>3, <2>1, ChangedInv DEF StopAll
    <2>3. quick'.live = quick.live \/ quick'.live \notin Files
      BY <1>3 DEF StopAll, StopSlot
    <2>4. QED
      BY <1>1, <1>3, <2>2, <2>3 DEF IInv, DiskInv, QuickInv, DeepInv, StopAll, StopSlot
  <1>4. ASSUME NEW p \in Files, Reaudit(p) PROVE IInv'
    <2> DEFINE r == [st.results[p] EXCEPT !.deep = "none", !.seen = {}]
               lane == PushLane(st.queue, quick.live, {p})
               deepLane == Retain(st.deepQueue, Files \ {p})
               results == [st.results EXCEPT ![p] = r]
               s == [results |-> results, queue |-> lane, deepQueue |-> deepLane,
                     paused |-> st.paused]
    <2>1. Changed(s) /\ UNCHANGED <<disk, clock, quick, q, deep, d>>
      BY <1>4 DEF Reaudit
    <2>2. r \in Verdicts /\ r.stamp <= clock /\ TrueVerdict(r, disk[p])
      <3>1. st.results[p] \in Verdicts /\ st.results[p].stamp <= clock
            /\ TrueVerdict(st.results[p], disk[p]) /\ disk[p] \in Nat
        BY <1>1 DEF Audits, DiskInv
      <3> HIDE DEF lane, deepLane, results, s
      <3>2. QED
        BY <3>1, WithoutDeep
    <2>3. /\ results \in [Files -> Verdicts]
          /\ \A x \in Files : results[x].stamp <= clock /\ TrueVerdict(results[x], disk[x])
      BY <1>1, <2>2 DEF Audits
    <2>4. Audits(s)
      <3> HIDE DEF lane, deepLane, results
      <3>1. QED
        BY <2>3 DEF Audits
    <2>5. Audits(st)' /\ Audits(saved)'
      BY <2>1, <2>4, ChangedInv
    <2>6. QED
      BY <1>1, <2>1, <2>5 DEF IInv, DiskInv, QuickInv, DeepInv
  <1>5. ASSUME NEW p \in Files, NoteLanded(p) PROVE IInv'
    <2> DEFINE s == [st EXCEPT !.queue = PushLane(@, quick.live, {p})]
    <2>1. Audits(s)
      BY <1>1 DEF Audits
    <2>2. Audits(st)' /\ Audits(saved)'
      BY <1>5, <2>1, ChangedInv DEF NoteLanded
    <2>3. QED
      BY <1>1, <1>5, <2>2 DEF IInv, DiskInv, QuickInv, DeepInv, NoteLanded
  <1>6. CASE Disks \/ Setting
    BY <1>1, <1>6 DEF IInv, DiskInv, Audits, QuickInv, DeepInv, Disks, Setting
  <1>7. CASE Crash
    <2>1. Audits(EmptyState)
      BY <1>1 DEF Audits, EmptyState, NoRecord, TrueVerdict, DiskInv
    <2>2. /\ st' \in {saved, EmptyState} /\ saved' \in {saved, EmptyState}
          /\ UNCHANGED <<disk, clock>>
      BY <1>7 DEF Crash
    <2>3. Audits(st)' /\ Audits(saved)'
      BY <1>1, <2>1, <2>2 DEF Audits
    <2>4. DiskInv' /\ QuickInv' /\ DeepInv'
      BY <1>1, <1>7, NoFileAssumption DEF DiskInv, QuickInv, DeepInv, Crash, IdleSlot, IdleDeep
    <2>5. QED
      BY <2>3, <2>4 DEF IInv
  <1>8. QED
    BY <1>2, <1>3, <1>4, <1>5, <1>6, <1>7, NewContent DEF Outside

-----------------------------------------------------------------------------
(* Theorems. *)

LEMMA InvStep == IInv /\ [Next]_vars => IInv'
  <1>1. IInv /\ Next => IInv'
    BY QuickStepInv, DeepStepInv, BackoffInv, IndexInv, OutsideInv DEF Next
  <1>2. IInv /\ UNCHANGED vars => IInv'
    BY DEF IInv, DiskInv, Audits, TrueVerdict, QuickInv, DeepInv, vars, environment,
       quickThread, deepThread
  <1>3. QED
    BY <1>1, <1>2

LEMMA Invariance == Spec => []IInv
  BY InitInv, InvStep, PTL DEF Spec

\* What is shown of a file is of the content it has, however often it is replaced
\* while quick_one and deep_one work on it, with any number of files, writes, faults
\* and crashes.
THEOREM ShownOfTheFile == Spec => []ShownIsOfTheFile
  <1>1. IInv => ShownIsOfTheFile
    BY DEF IInv, Audits, TrueVerdict, ShownIsOfTheFile, Shown
  <1>2. QED
    BY <1>1, Invariance, PTL

\* The indexer's listing: what a complete scan does not have was not there.
ListingInv ==
    /\ ix = [pc |-> ix.pc, complete |-> ix.complete, present |-> ix.present,
             gone |-> ix.gone]
    /\ ix.complete /\ ix.pc = "fill" => \A p \in Files : snap[p] = 0 => p \in ix.gone
    /\ ix.complete /\ ix.pc = "prune" =>
           \A p \in Files : p \notin ix.present => p \in ix.gone
    /\ snap \in [Files -> Nat]
    /\ faults \in Nat

LEMMA ListingInit == Init => ListingInv
  BY DEF Init, ListingInv, IdleIndex

LEMMA ListingStep == IInv /\ ListingInv /\ [Next]_vars => ListingInv'
  <1> SUFFICES ASSUME IInv, ListingInv, [Next]_vars PROVE ListingInv'
    OBVIOUS
  <1> USE DEF ListingInv, index
  <1>1. CASE Quick
    <2>1. UNCHANGED <<snap, ix>> /\ faults' \in {faults, faults + 1}
      BY <1>1 DEF Quick, SetDeepEnabled, Refill, QuickTurn, QuickStat, QuickStart, QuickRead,
         RecordFast, QuickDue, EnqueueDeep, QuickFinish, Changed, ChangedIfNew, Fault
    <2>2. QED
      BY <2>1
  <1>2. CASE Deep \/ Backoff
    <2>1. UNCHANGED <<snap, ix>> /\ faults' \in {faults, faults + 1}
      BY <1>2 DEF Deep, DeepLook, DeepStat, DeepStart, Decode, DeepCheck, RecordDeep,
         Interrupted, RequeueFront, DeepFinish, Backoff, BackoffOver, Changed, ChangedIfNew,
         Fault
    <2>2. QED
      BY <2>1
  <1>3. CASE Rescan
    <2>1. PICK missed \in SUBSET Files :
             /\ IF missed = {} THEN UNCHANGED faults ELSE Fault
             /\ snap' = [p \in Files |-> IF p \in missed THEN 0 ELSE disk[p]]
             /\ ix' = [ix EXCEPT !.pc = "fill", !.complete = missed = {},
                                 !.gone = {p \in Files : disk[p] = 0}]
      BY <1>3 DEF Rescan
    <2>2. disk \in [Files -> Nat]
      BY DEF IInv, DiskInv
    <2>3. snap' \in [Files -> Nat] /\ faults' \in Nat
      BY <2>1, <2>2 DEF Fault
    <2>4. /\ ix'.pc = "fill"
          /\ ix' = [pc |-> ix'.pc, complete |-> ix'.complete, present |-> ix'.present,
                    gone |-> ix'.gone]
      BY <2>1
    <2>5. ix'.complete => \A p \in Files : snap'[p] = 0 => p \in ix'.gone
      <3>1. ix'.complete = (missed = {}) /\ ix'.gone = {p \in Files : disk[p] = 0}
        BY <2>1
      <3>2. QED
        BY <2>1, <3>1
    <2>6. QED
      BY <2>3, <2>4, <2>5 DEF ListingInv
  <1>4. CASE IndexFill
    <2>1. UNCHANGED snap /\ faults' \in {faults, faults + 1}
          /\ ix.pc = "fill" /\ ix' = [ix EXCEPT !.pc = "prune", !.present = Listed]
      BY <1>4 DEF IndexFill, Changed, ChangedIfNew, Fault
    <2>2. /\ ix' = [pc |-> "prune", complete |-> ix.complete, present |-> Listed,
                    gone |-> ix.gone]
      BY <2>1
    <2>3. ix.complete => \A p \in Files : p \notin Listed => p \in ix.gone
      BY <2>1 DEF Listed
    <2>4. ix'.complete = ix.complete /\ ix'.present = Listed /\ ix'.gone = ix.gone
      BY <2>2
    <2>5. ix'.complete => \A p \in Files : p \notin ix'.present => p \in ix'.gone
      BY <2>3, <2>4
    <2>6. ix' = [pc |-> ix'.pc, complete |-> ix'.complete, present |-> ix'.present,
                 gone |-> ix'.gone] /\ ix'.pc = "prune"
      BY <2>2
    <2>7. snap' \in [Files -> Nat] /\ faults' \in Nat
      BY <2>1
    <2>8. QED
      BY <2>5, <2>6, <2>7
  <1>5. CASE IndexPrune
    <2>1. UNCHANGED snap /\ faults' \in {faults, faults + 1} /\ ix' = IdleIndex
      BY <1>5 DEF IndexPrune, Changed, ChangedIfNew, Fault
    <2>2. QED
      BY <2>1 DEF IdleIndex
  <1>6. ASSUME NEW p \in Files, NoteLanded(p) PROVE ListingInv'
    <2>1. UNCHANGED ix /\ faults' \in {faults, faults + 1}
          /\ disk[p] # 0 /\ snap' = [snap EXCEPT ![p] = disk[p]]
      BY <1>6 DEF NoteLanded, Changed, ChangedIfNew, Fault
    <2>2. disk[p] \in Nat
      BY DEF IInv, DiskInv
    <2>3. QED
      BY <2>1, <2>2
  <1>7. CASE Crash
    BY <1>7 DEF Crash, Fault, IdleIndex
  <1>8. ASSUME Outside, \A p \in Files : ~NoteLanded(p), ~Crash PROVE ListingInv'
    <2>1. UNCHANGED <<snap, ix>> /\ faults' \in {faults, faults + 1}
      BY <1>8 DEF Outside, SetPaused, StopAll, Reaudit, Write, Vanish, Disks, Setting, Changed,
         ChangedIfNew, Fault
    <2>2. QED
      BY <2>1
  <1>9. CASE UNCHANGED vars
    BY <1>9 DEF vars
  <1>10. QED
    BY <1>1, <1>2, <1>3, <1>4, <1>5, <1>6, <1>7, <1>8, <1>9 DEF Next, Index

\* Of all steps only a complete scan and a crash take a verdict away.
LEMMA KeptStep ==
  ASSUME IInv, ListingInv, [Next]_vars, NEW p \in Files,
         st.results[p].stamp # 0, st'.results[p].stamp = 0
  PROVE  p \in ix.gone \/ faults' # faults
  <1> DEFINE Same == st'.results[p].stamp = st.results[p].stamp
  <1>1. Audits(st) /\ QuickInv
    BY DEF IInv
  <1>2. st = [results |-> st.results, queue |-> st.queue, deepQueue |-> st.deepQueue,
              paused |-> st.paused] /\ st.results \in [Files -> Verdicts]
    BY <1>1 DEF Audits
  <1>3. CASE \/ SetDeepEnabled \/ Refill \/ QuickTurn \/ QuickStat \/ QuickStart \/ QuickRead
             \/ QuickDue \/ EnqueueDeep \/ QuickFinish
    <2>1. st'.results = st.results
      BY <1>2, <1>3 DEF SetDeepEnabled, Refill, QuickTurn, QuickStat, QuickStart, QuickRead,
         QuickDue, EnqueueDeep, QuickFinish, Changed, ChangedIfNew, Fill
    <2>2. QED
      BY <2>1
  <1>4. CASE RecordFast
    <2>1. st'.results = [st.results EXCEPT ![quick.live] =
                            RecordOf(st.results[quick.live], q.sig, q.read)]
      BY <1>2, <1>4 DEF RecordFast, Changed
    <2>2. quick.live = p
      BY <1>2, <2>1
    <2>3. q.sig # 0
      BY <1>1, <1>4, <2>2 DEF QuickInv, RecordFast, QuickStep
    <2>4. st'.results[p] = RecordOf(st.results[p], q.sig, q.read)
      BY <1>2, <2>1, <2>2
    <2>5. st'.results[p].stamp \in {q.sig, st.results[p].stamp}
      BY <1>2, <2>4 DEF RecordOf, NoRecord
    <2>6. QED
      BY <2>3, <2>5
  <1>5. CASE Deep
    <2>1. CASE RecordDeep
      <3>1. \/ st'.results = st.results
            \/ st'.results = [st.results EXCEPT ![deep.live] = WithDeep(st.results[deep.live])]
        BY <1>2, <2>1 DEF RecordDeep, Changed
      <3>2. WithDeep(st.results[p]).stamp = st.results[p].stamp
        BY <1>2 DEF WithDeep
      <3>3. QED
        BY <1>2, <3>1, <3>2
    <2>2. CASE \/ DeepLook \/ DeepStat \/ DeepStart \/ Decode \/ DeepCheck \/ Interrupted
               \/ RequeueFront \/ DeepFinish
      <3>1. st'.results = st.results
        BY <1>2, <2>2 DEF DeepLook, DeepStat, DeepStart, Decode, DeepCheck, Interrupted,
           RequeueFront, DeepFinish, Changed, ChangedIfNew
      <3>2. QED
        BY <3>1
    <2>3. QED
      BY <1>5, <2>1, <2>2 DEF Deep
  <1>6. ASSUME NEW x \in Files, BackoffOver(x) PROVE Same
    <2>1. st'.results = [st.results EXCEPT ![x] = [st.results[x] EXCEPT !.deep = "due"]]
      BY <1>2, <1>6 DEF BackoffOver
    <2>2. QED
      BY <1>2, <2>1
  <1>7. CASE Rescan \/ IndexFill
    <2>1. st'.results = st.results
      BY <1>2, <1>7 DEF Rescan, IndexFill, Changed, ChangedIfNew, Fill
    <2>2. QED
      BY <2>1
  <1>8. CASE IndexPrune
    <2>1. \/ st' = st
          \/ ListsEverything /\ st' = Prune(st, ix.present)
      BY <1>8 DEF IndexPrune, Changed, ChangedIfNew
    <2>2. ListsEverything /\ st'.results[p] = IF p \in ix.present THEN st.results[p] ELSE NoRecord
      BY <2>1 DEF Prune
    <2>3. p \notin ix.present
      BY <2>2
    <2>4. QED
      BY <1>8, <2>2, <2>3 DEF ListingInv, ListsEverything, IndexPrune
  <1>9. ASSUME NEW x \in Files, Reaudit(x) PROVE Same
    <2>1. st'.results = [st.results EXCEPT ![x] =
                            [st.results[x] EXCEPT !.deep = "none", !.seen = {}]]
      BY <1>9 DEF Reaudit, Changed
    <2>2. QED
      BY <1>2, <2>1
  <1>10. ASSUME Outside, \A x \in Files : ~Reaudit(x), ~Crash PROVE Same
    <2>1. ASSUME NEW paused \in BOOLEAN, SetPaused(paused) PROVE st'.results = st.results
      BY <1>2, <2>1 DEF SetPaused, Changed
    <2>2. CASE StopAll
      BY <2>2 DEF StopAll, Changed
    <2>3. ASSUME NEW x \in Files, Write(x) \/ Vanish(x) \/ NoteLanded(x)
          PROVE  st'.results = st.results
      BY <1>2, <2>3 DEF Write, Vanish, NoteLanded, Changed, ChangedIfNew
    <2>4. CASE Disks \/ Setting
      BY <2>4 DEF Disks, Setting
    <2>5. st'.results = st.results
      BY <1>10, <2>1, <2>2, <2>3, <2>4 DEF Outside
    <2>6. QED
      BY <2>5
  <1>11. CASE Crash
    BY <1>11 DEF Crash, Fault, ListingInv
  <1>12. CASE UNCHANGED vars
    BY <1>12 DEF vars
  <1>13. QED
    BY <1>3, <1>4, <1>5, <1>6, <1>7, <1>8, <1>9, <1>10, <1>11, <1>12
    DEF Next, Quick, Index, Backoff

\* Only a file that a complete listing of the folders did not find loses its verdict,
\* however scans fail and files come and go while the indexer works.
THEOREM VerdictsAreKept == Spec => VerdictsKept
  <1>1. IInv /\ ListingInv /\ [Next]_vars =>
          [\A p \in Files : st.results[p].stamp # 0 /\ st'.results[p].stamp = 0
              => p \in ix.gone \/ faults' # faults]_vars
    BY KeptStep
  <1>2. Spec => []ListingInv
    <2>1. IInv /\ IInv' /\ ListingInv /\ [Next]_vars => ListingInv'
      BY ListingStep
    <2>2. QED
      BY <2>1, ListingInit, Invariance, PTL DEF Spec
  <1>3. QED
    BY <1>1, <1>2, Invariance, PTL DEF Spec, VerdictsKept

-----------------------------------------------------------------------------
(***************************************************************************)
(* The lanes.  A list operation of the code is characterised by what it     *)
(* does to the set of files a lane holds, to its head, and to each file     *)
(* being in it once; the steps are then argued about sets.                  *)
(***************************************************************************)

\* What `retain` leaves of a lane: its files of `keep`, each as often as before, and
\* its head when that stays.
LEMMA RetainMakes ==
    ASSUME NEW S, NEW lane \in Seq(S), NEW keep
    PROVE  /\ Retain(lane, keep) \in Seq(S)
           /\ Range(Retain(lane, keep)) = Range(lane) \cap keep
           /\ IsInjective(lane) => IsInjective(Retain(lane, keep))
           /\ lane # <<>> /\ Head(lane) \in keep =>
                /\ Retain(lane, keep) # <<>>
                /\ Head(Retain(lane, keep)) = Head(lane)
<1> DEFINE kept == {i \in DOMAIN lane : lane[i] \in keep}
           n == Cardinality(kept)
           upTo(i) == {j \in kept : j <= i}
           place == [i \in kept |-> Cardinality(upTo(i))]
           at(k) == CHOOSE i \in kept : place[i] = k
           r == [k \in 1..n |-> lane[at(k)]]
<1>1. /\ DOMAIN lane = 1..Len(lane) /\ Len(lane) \in Nat
      /\ lane \in [1..Len(lane) -> S]
  BY LenProperties
<1>2. IsFiniteSet(kept) /\ n \in Nat
  <2>1. IsFiniteSet(1..Len(lane))
    BY <1>1, FS_Interval
  <2>2. kept \in SUBSET (1..Len(lane))
    BY <1>1
  <2>3. IsFiniteSet(kept)
    BY <2>1, <2>2, FS_Subset
  <2> QED
    BY <2>3, FS_CardinalityType
<1>3. \A i \in kept : i \in 1..Len(lane)
  BY <1>1
<1>4. Retain(lane, keep) = r
  BY DEF Retain
<1>5. \A i \in kept : upTo(i) \in SUBSET kept /\ i \in upTo(i)
  BY <1>3
<1> HIDE DEF kept, n
<1>6. \A i \in kept : Cardinality(upTo(i)) \in 1..n
  <2> SUFFICES ASSUME NEW i \in kept PROVE Cardinality(upTo(i)) \in 1..n
    OBVIOUS
  <2>1. upTo(i) \in SUBSET kept /\ i \in upTo(i)
    BY <1>5
  <2> HIDE DEF upTo
  <2>2. IsFiniteSet(upTo(i)) /\ Cardinality(upTo(i)) <= n
    BY <1>2, <2>1, FS_Subset DEF n
  <2>3. Cardinality(upTo(i)) \in Nat /\ Cardinality(upTo(i)) # 0
    BY <2>1, <2>2, FS_CardinalityType, FS_EmptySet
  <2> QED
    BY <1>2, <2>2, <2>3
<1>7. \A i, j \in kept : i < j => Cardinality(upTo(i)) # Cardinality(upTo(j))
  <2> SUFFICES ASSUME NEW i \in kept, NEW j \in kept, i < j
               PROVE  Cardinality(upTo(i)) # Cardinality(upTo(j))
    OBVIOUS
  <2>1. i \in 1..Len(lane) /\ j \in 1..Len(lane)
    BY <1>3
  <2>2. \A k \in upTo(i) : k \in upTo(j)
    BY <1>1, <1>3, <2>1
  <2>3. upTo(i) \in SUBSET upTo(j)
    BY <2>2
  <2>4. j \in upTo(j) /\ j \notin upTo(i)
    BY <1>1, <2>1
  <2>5. upTo(j) \in SUBSET kept
    BY <1>5
  <2> HIDE DEF upTo
  <2>6. IsFiniteSet(upTo(j))
    BY <1>2, <2>5, FS_Subset
  <2>7. Cardinality(upTo(j)) = Cardinality(upTo(i)) => upTo(j) = upTo(i)
    BY <2>3, <2>6, FS_Subset
  <2> QED
    BY <2>4, <2>7
<1>8. \A i, j \in kept : place[i] = place[j] => i = j
  <2> SUFFICES ASSUME NEW i \in kept, NEW j \in kept, place[i] = place[j]
               PROVE  i = j
    OBVIOUS
  <2>1. i \in 1..Len(lane) /\ j \in 1..Len(lane)
    BY <1>3
  <2>2. Cardinality(upTo(i)) = Cardinality(upTo(j))
    OBVIOUS
  <2> HIDE DEF upTo, place
  <2>3. ~(i < j) /\ ~(j < i)
    BY <1>7, <2>2
  <2> QED
    BY <1>1, <2>1, <2>3
<1>9. place \in Injection(kept, 1..n)
  <2>1. place \in [kept -> 1..n]
    BY <1>6
  <2> HIDE DEF place, upTo
  <2> QED
    BY <1>8, <2>1 DEF Injection, IsInjective
<1>10. \A k \in 1..n : \E i \in kept : place[i] = k
  <2> HIDE DEF place, upTo
  <2>1. IsFiniteSet(1..n) /\ Cardinality(1..n) = n
    BY <1>2, FS_Interval
  <2>2. place \in Surjection(kept, 1..n)
    BY <1>2, <1>9, <2>1, FS_Injection DEF n
  <2> QED
    BY <2>2 DEF Surjection
<1>11. \A k \in 1..n : at(k) \in kept /\ place[at(k)] = k
  <2> HIDE DEF place, upTo
  <2> QED
    BY <1>10
<1>12. \A i \in kept : place[i] \in 1..n /\ at(place[i]) = i
  <2>1. \A i \in kept : place[i] \in 1..n
    BY <1>6
  <2> HIDE DEF place, upTo
  <2> QED
    BY <1>8, <1>11, <2>1
<1>13. \A k \in 1..n : at(k) \in 1..Len(lane) /\ lane[at(k)] \in keep
  BY <1>11, <1>3 DEF kept
<1>14. r \in Seq(S) /\ Len(r) = n
  <2> HIDE DEF at
  <2>1. r \in [1..n -> S]
    BY <1>1, <1>13
  <2> QED
    BY <1>2, <2>1, SeqDef
<1>15. DOMAIN r = 1..n /\ \A k \in 1..n : r[k] = lane[at(k)]
  OBVIOUS
<1> HIDE DEF r, at, place
<1>16. Range(r) = Range(lane) \cap keep
  <2>1. \A k \in 1..n : r[k] \in Range(lane) /\ r[k] \in keep
    BY <1>1, <1>13, <1>15 DEF Range
  <2>2. \A x \in Range(lane) : x \in keep => x \in Range(r)
    <3> SUFFICES ASSUME NEW i \in DOMAIN lane, lane[i] \in keep
                 PROVE  lane[i] \in Range(r)
      BY DEF Range
    <3>1. i \in kept
      BY DEF kept
    <3>2. place[i] \in 1..n /\ r[place[i]] = lane[i]
      BY <3>1, <1>12, <1>15
    <3> QED
      BY <3>2, <1>15 DEF Range
  <2> QED
    BY <1>15, <2>1, <2>2 DEF Range
<1>17. IsInjective(lane) => IsInjective(r)
  <2> SUFFICES ASSUME IsInjective(lane), NEW k \in 1..n, NEW l \in 1..n,
                      r[k] = r[l]
               PROVE  k = l
    BY <1>15 DEF IsInjective
  <2>1. at(k) = at(l)
    BY <1>1, <1>13, <1>15 DEF IsInjective
  <2> QED
    BY <1>11, <2>1
<1>18. lane # <<>> /\ Head(lane) \in keep => r # <<>> /\ Head(r) = Head(lane)
  <2> SUFFICES ASSUME lane # <<>>, Head(lane) \in keep
               PROVE  r # <<>> /\ Head(r) = Head(lane)
    OBVIOUS
  <2>1. 1 \in 1..Len(lane) /\ lane[1] = Head(lane)
    BY <1>1, EmptySeq
  <2>2. 1 \in kept
    BY <2>1, <1>1 DEF kept
  <2>3. upTo(1) = {1}
    BY <1>1, <1>3, <2>2
  <2>4. place[1] = 1
    BY <2>2, <2>3, FS_Singleton DEF place
  <2>5. 1 \in 1..n /\ at(1) = 1
    BY <2>2, <2>4, <1>12
  <2>6. r[1] = lane[1]
    BY <2>5, <1>15
  <2> QED
    BY <1>2, <1>14, <2>1, <2>5, <2>6, EmptySeq
<1> QED
  BY <1>4, <1>14, <1>16, <1>17, <1>18

\* SetToSeq lists a finite set, each element once.
LEMMA SetToSeqMakes ==
    ASSUME NEW S, IsFiniteSet(S)
    PROVE  /\ SetToSeq(S) \in Seq(S) /\ Range(SetToSeq(S)) = S
           /\ IsInjective(SetToSeq(S))
<1> DEFINE n == Cardinality(S)
<1>1. n \in Nat
  BY FS_CardinalityType
<1>2. IsFiniteSet(1..n) /\ Cardinality(1..n) = n
  BY <1>1, FS_Interval
<1>3. ExistsBijection(1..n, S)
  BY <1>2, FS_SameCardinalityBij
<1>4. \E f \in [1..n -> S] : IsInjective(f)
  BY <1>3 DEF ExistsBijection, Bijection, Injection
<1>5. SetToSeq(S) \in [1..n -> S] /\ IsInjective(SetToSeq(S))
  BY <1>4 DEF SetToSeq
<1> DEFINE f == SetToSeq(S)
<1> HIDE DEF n, f
<1>6. f \in Injection(1..n, S)
  BY <1>5 DEF Injection, f
<1>7. f \in Surjection(1..n, S)
  BY <1>2, <1>6, FS_Injection DEF n
<1>8. Range(f) = S
  BY <1>7, <1>6 DEF Surjection, Injection, Range
<1>9. f \in Seq(S)
  BY <1>1, <1>5, SeqDef DEF f
<1> QED
  BY <1>5, <1>8, <1>9 DEF f

\* A lane: files, each at most once.
Lane(lane) == lane \in Seq(Files) /\ IsInjective(lane)

\* One lane after another holds nothing twice when they share nothing.
LEMMA Joined ==
    ASSUME NEW S, NEW s \in Seq(S), NEW t \in Seq(S),
           IsInjective(s), IsInjective(t), Range(s) \cap Range(t) = {}
    PROVE  /\ s \o t \in Seq(S) /\ IsInjective(s \o t)
           /\ Range(s \o t) = Range(s) \cup Range(t)
           /\ s # <<>> => s \o t # <<>> /\ Head(s \o t) = Head(s)
<1> DEFINE u == s \o t
<1>1. /\ s \in [1..Len(s) -> S] /\ t \in [1..Len(t) -> S]
      /\ DOMAIN s = 1..Len(s) /\ DOMAIN t = 1..Len(t)
      /\ Len(s) \in Nat /\ Len(t) \in Nat
  BY LenProperties
<1>2. /\ u \in Seq(S) /\ Len(u) = Len(s) + Len(t)
      /\ \A i \in 1..Len(u) : u[i] = IF i <= Len(s) THEN s[i] ELSE t[i - Len(s)]
  BY ConcatProperties
<1>3. Range(u) = Range(s) \cup Range(t)
  BY RangeConcatenation
<1>4. DOMAIN u = 1..Len(u)
  BY <1>2, LenProperties
<1> HIDE DEF u
<1>5. \A i \in 1..Len(s) : s[i] \in Range(s)
  BY <1>1 DEF Range
<1>6. \A i \in 1..Len(t) : t[i] \in Range(t)
  BY <1>1 DEF Range
<1>7. IsInjective(u)
  <2> SUFFICES ASSUME NEW i \in 1..Len(u), NEW j \in 1..Len(u), u[i] = u[j]
               PROVE  i = j
    BY <1>4 DEF IsInjective
  <2>1. CASE i <= Len(s) /\ j <= Len(s)
    BY <1>1, <1>2, <2>1 DEF IsInjective
  <2>2. CASE ~(i <= Len(s)) /\ ~(j <= Len(s))
    <3>1. i - Len(s) \in 1..Len(t) /\ j - Len(s) \in 1..Len(t)
      BY <1>1, <1>2, <2>2
    <3>2. t[i - Len(s)] = t[j - Len(s)]
      BY <1>2, <2>2
    <3>3. i - Len(s) = j - Len(s)
      BY <1>1, <3>1, <3>2 DEF IsInjective
    <3> QED
      BY <1>1, <1>2, <3>3
  <2>3. CASE i <= Len(s) /\ ~(j <= Len(s))
    <3>1. i \in 1..Len(s) /\ j - Len(s) \in 1..Len(t)
      BY <1>1, <1>2, <2>3
    <3>2. u[i] \in Range(s) /\ u[j] \in Range(t)
      BY <1>2, <1>5, <1>6, <2>3, <3>1
    <3> QED
      BY <3>2
  <2>4. CASE ~(i <= Len(s)) /\ j <= Len(s)
    <3>1. j \in 1..Len(s) /\ i - Len(s) \in 1..Len(t)
      BY <1>1, <1>2, <2>4
    <3>2. u[j] \in Range(s) /\ u[i] \in Range(t)
      BY <1>2, <1>5, <1>6, <2>4, <3>1
    <3> QED
      BY <3>2
  <2> QED
    BY <2>1, <2>2, <2>3, <2>4
<1>8. s # <<>> => u # <<>> /\ Head(u) = Head(s)
  <2> SUFFICES ASSUME s # <<>> PROVE u # <<>> /\ Head(u) = Head(s)
    OBVIOUS
  <2>1. Len(s) \in Nat \ {0}
    BY EmptySeq
  <2>2. 1 \in 1..Len(u) /\ 1 <= Len(s)
    BY <1>1, <1>2, <2>1
  <2>3. u[1] = s[1]
    BY <1>2, <2>2
  <2>4. u # <<>>
    BY <1>2, <2>2, EmptySeq
  <2> QED
    BY <1>2, <2>3, <2>4
<1> QED
  BY <1>2, <1>3, <1>7, <1>8 DEF u

\* What `push_lane` makes of a lane.
LEMMA PushLaneMakes ==
    ASSUME NEW lane, Lane(lane), NEW running, NEW S \in SUBSET Files
    PROVE  /\ Lane(PushLane(lane, running, S))
           /\ Range(PushLane(lane, running, S)) = Range(lane) \cup (S \ {running})
           /\ lane # <<>> => /\ PushLane(lane, running, S) # <<>>
                             /\ Head(PushLane(lane, running, S)) = Head(lane)
<1> DEFINE fresh == S \ (Range(lane) \cup {running})
           t == SetToSeq(fresh)
<1>1. fresh \in SUBSET Files /\ IsFiniteSet(fresh)
  <2>1. fresh \in SUBSET Files
    OBVIOUS
  <2> QED
    BY <2>1, FilesAssumption, FS_Subset
<1>2. Range(t) = fresh /\ t \in Seq(fresh) /\ IsInjective(t)
  <2> HIDE DEF fresh
  <2> QED
    BY <1>1, SetToSeqMakes
<1>3. t \in Seq(Files)
  <2> HIDE DEF fresh, t
  <2> QED
    BY <1>1, <1>2, SeqMonotonic
<1>4. Range(lane) \cap Range(t) = {}
  BY <1>2
<1>5. PushLane(lane, running, S) = lane \o t
  BY DEF PushLane
<1>6. Range(lane) \cup fresh = Range(lane) \cup (S \ {running})
  OBVIOUS
<1> HIDE DEF t, fresh
<1>7. /\ lane \o t \in Seq(Files) /\ IsInjective(lane \o t)
      /\ Range(lane \o t) = Range(lane) \cup Range(t)
      /\ lane # <<>> => lane \o t # <<>> /\ Head(lane \o t) = Head(lane)
  BY <1>2, <1>3, <1>4, Joined DEF Lane
<1> QED
  BY <1>2, <1>5, <1>6, <1>7 DEF Lane

\* What `retain` makes of a lane.
LEMMA RetainLane ==
    ASSUME NEW lane, Lane(lane), NEW keep
    PROVE  Lane(Retain(lane, keep))
  BY RetainMakes DEF Lane

\* What taking the head of a lane leaves.
LEMMA TakeLane ==
    ASSUME NEW lane, Lane(lane), lane # <<>>
    PROVE  /\ Head(lane) \in Files /\ Lane(Tail(lane))
           /\ Head(lane) \notin Range(Tail(lane))
           /\ Range(Tail(lane)) \subseteq Range(lane)
<1> DEFINE t == Tail(lane)
<1>1. /\ Head(lane) \in Files /\ t \in Seq(Files)
      /\ Len(t) = Len(lane) - 1
      /\ \A i \in 1..Len(t) : t[i] = lane[i + 1]
  BY HeadTailProperties DEF Lane
<1>2. /\ Len(lane) \in Nat \ {0} /\ DOMAIN lane = 1..Len(lane)
      /\ Head(lane) = lane[1]
  BY LenProperties, EmptySeq DEF Lane
<1>3. DOMAIN t = 1..Len(t) /\ Len(t) \in Nat
  BY <1>1, LenProperties
<1> HIDE DEF t
<1>4. \A i \in 1..Len(t) : i + 1 \in DOMAIN lane /\ i + 1 # 1
  BY <1>1, <1>2, <1>3
<1>5. IsInjective(t)
  BY <1>1, <1>3, <1>4 DEF IsInjective, Lane
<1>6. \A i \in 1..Len(t) : t[i] # lane[1]
  BY <1>1, <1>2, <1>4 DEF IsInjective, Lane
<1>7. Range(t) \subseteq Range(lane)
  BY <1>1, <1>3, <1>4 DEF Range
<1>8. Head(lane) \notin Range(t)
  BY <1>2, <1>3, <1>6 DEF Range
<1> QED
  BY <1>1, <1>5, <1>7, <1>8 DEF Lane, t

\* What putting a file in front of a lane makes.
LEMMA FrontLane ==
    ASSUME NEW lane, Lane(lane), NEW p \in Files, p \notin Range(lane)
    PROVE  /\ Lane(<<p>> \o lane) /\ <<p>> \o lane # <<>>
           /\ Head(<<p>> \o lane) = p
<1>1. <<p>> \in Seq(Files) /\ <<p>> # <<>> /\ Head(<<p>>) = p
  OBVIOUS
<1>2. Range(<<p>>) = {p} /\ IsInjective(<<p>>)
  BY DEF Range, IsInjective
<1>3. Range(<<p>>) \cap Range(lane) = {}
  BY <1>2
<1>4. lane \in Seq(Files) /\ IsInjective(lane)
  BY DEF Lane
<1> QED
  BY <1>1, <1>2, <1>3, <1>4, Joined DEF Lane

\* An empty lane is a lane, and holds nothing.
LEMMA NoLane == Lane(<<>>) /\ Range(<<>>) = {}
  BY DEF Lane, IsInjective, Range

\* A state whose lanes hold nothing twice.
Good(s) ==
    s \in States /\ IsInjective(s.queue) /\ IsInjective(s.deepQueue)

\* Neither lane's file waits in it, but for a decode put back.
Keeps(s) ==
    /\ Good(s)
    /\ quick.live \notin Range(s.queue)
    /\ deep.live \in Range(s.deepQueue) =>
         d.pc = "finish" /\ deep.live = Head(s.deepQueue)

\* The types of everything but the state and its file.
QuickThreads == [pc : {"turn", "refill", "look", "stat", "start", "read", "record",
                       "due", "enqueue", "finish"}, sig : Stamps, read : Stamps]
DeepThreads == [pc : {"look", "stat", "start", "decode", "verdict", "record",
                      "interrupted", "requeue", "finish"},
                sig : Stamps, seen : SUBSET Stamps, verdict : {"done", "tried"}]
Indexers == [pc : {"scan", "fill", "prune"}, complete : BOOLEAN,
             present : SUBSET Files, gone : SUBSET Files]
WorldTyped ==
    /\ disk \in [Files -> Stamps] /\ clock \in Stamps
    /\ snap \in [Files -> Stamps] /\ ix \in Indexers
    /\ setting \in BOOLEAN /\ busy \in BOOLEAN
QuickTyped ==
    /\ quick \in Slots /\ q \in QuickThreads /\ deepOn \in BOOLEAN
    /\ quick.live = NoFile <=> q.pc \in {"turn", "refill", "look"}
    /\ quick.cancel => quick.live # NoFile
DeepTyped ==
    /\ deep \in Slots /\ d \in DeepThreads
    /\ deep.live = NoFile <=> d.pc = "look"
    /\ deep.cancel => deep.live # NoFile

\* The inductive invariant of the lanes: everything has its type, the state in memory
\* keeps what the lanes promise, and so, but for the running files, does audit.json:
\* a restart starts from it with no file running.
LInv ==
    /\ WorldTyped /\ QuickTyped /\ DeepTyped /\ faults \in 0..MaxFaults
    /\ Keeps(st) /\ Good(saved)

\* The invariant has in it what TypeOK and LanesHoldOnce say.
LEMMA LInvIsTypeOK == LInv => TypeOK /\ LanesHoldOnce
  BY DEF LInv, WorldTyped, QuickTyped, DeepTyped, Keeps, Good, TypeOK, Typed,
         LanesHoldOnce, QuickThreads, DeepThreads, Indexers

\* The parts of a state.
LEMMA StateParts ==
    ASSUME NEW s, Good(s)
    PROVE  /\ s = [results |-> s.results, queue |-> s.queue,
                   deepQueue |-> s.deepQueue, paused |-> s.paused]
           /\ s.results \in [Files -> Records] /\ s.paused \in BOOLEAN
           /\ Lane(s.queue) /\ Lane(s.deepQueue)
  BY DEF Good, States, Lane

\* A state put together from two lanes.
LEMMA GoodMakes ==
    ASSUME NEW a, Lane(a), NEW b, Lane(b),
           NEW results \in [Files -> Records], NEW paused \in BOOLEAN
    PROVE  Good([results |-> results, queue |-> a, deepQueue |-> b,
                 paused |-> paused])
  BY DEF Good, States, Lane

\* A state with other verdicts, another lane, another pause.
LEMMA StateChanges ==
    ASSUME NEW s, Good(s)
    PROVE  /\ \A results \in [Files -> Records] :
                Good([s EXCEPT !.results = results])
           /\ \A lane : Lane(lane) =>
                /\ Good([s EXCEPT !.queue = lane])
                /\ Good([s EXCEPT !.deepQueue = lane])
           /\ \A paused \in BOOLEAN : Good([s EXCEPT !.paused = paused])
<1>1. ASSUME NEW results \in [Files -> Records]
      PROVE  Good([s EXCEPT !.results = results])
  <2>1. [s EXCEPT !.results = results] =
          [results |-> results, queue |-> s.queue, deepQueue |-> s.deepQueue,
           paused |-> s.paused]
    BY StateParts
  <2> QED
    BY <2>1, StateParts, GoodMakes
<1>2. ASSUME NEW lane, Lane(lane) PROVE Good([s EXCEPT !.queue = lane])
  <2>1. [s EXCEPT !.queue = lane] =
          [results |-> s.results, queue |-> lane, deepQueue |-> s.deepQueue,
           paused |-> s.paused]
    BY StateParts
  <2> QED
    BY <1>2, <2>1, StateParts, GoodMakes
<1>3. ASSUME NEW lane, Lane(lane) PROVE Good([s EXCEPT !.deepQueue = lane])
  <2>1. [s EXCEPT !.deepQueue = lane] =
          [results |-> s.results, queue |-> s.queue, deepQueue |-> lane,
           paused |-> s.paused]
    BY StateParts
  <2> QED
    BY <1>3, <2>1, StateParts, GoodMakes
<1>4. ASSUME NEW paused \in BOOLEAN PROVE Good([s EXCEPT !.paused = paused])
  <2>1. [s EXCEPT !.paused = paused] =
          [results |-> s.results, queue |-> s.queue, deepQueue |-> s.deepQueue,
           paused |-> paused]
    BY StateParts
  <2> QED
    BY <2>1, StateParts, GoodMakes
<1> QED
  BY <1>1, <1>2, <1>3, <1>4

\* A change of the state, written or not.
LEMMA ChangeKeeps ==
    ASSUME Good(st), Good(saved), faults \in 0..MaxFaults,
           NEW t, Good(t), Changed(t) \/ ChangedIfNew(t)
    PROVE  /\ st' \in {st, t} /\ Good(saved') /\ faults' \in 0..MaxFaults
<1>1. st' \in {st, t} /\ saved' \in {saved, t}
  BY DEF Changed, ChangedIfNew
<1>2. faults' = faults \/ Fault
  BY DEF Changed, ChangedIfNew
<1>3. faults' \in 0..MaxFaults
  BY <1>2, BoundsAssumption DEF Fault
<1> QED
  BY <1>1, <1>3

\* What `push_lane`, `fill` and `prune` leave of what the lanes promise.
LEMMA QueueKeeps ==
    ASSUME NEW s, Keeps(s), NEW S \in SUBSET Files
    PROVE  Keeps([s EXCEPT !.queue = PushLane(@, quick.live, S)])
<1> DEFINE lane == PushLane(s.queue, quick.live, S)
           t == [s EXCEPT !.queue = lane]
<1>1. Lane(s.queue) /\ Lane(s.deepQueue) /\ Good(s)
  BY StateParts DEF Keeps
<1>2. Lane(lane) /\ Range(lane) = Range(s.queue) \cup (S \ {quick.live})
  BY <1>1, PushLaneMakes
<1> HIDE DEF lane
<1>3. t.queue = lane /\ t.deepQueue = s.deepQueue /\ Good(t)
  <2>1. Good(t)
    BY <1>1, <1>2, StateChanges
  <2>2. s = [results |-> s.results, queue |-> s.queue,
             deepQueue |-> s.deepQueue, paused |-> s.paused]
    BY <1>1, StateParts
  <2>3. t.queue = lane /\ t.deepQueue = s.deepQueue
    BY <2>2
  <2> QED
    BY <2>1, <2>3
<1> HIDE DEF t
<1>4. Keeps(t)
  BY <1>2, <1>3 DEF Keeps
<1> QED
  BY <1>4 DEF t, lane

\* `push_lane` on the deep lane: the head, which a decode put back may be, stays.
LEMMA DeepQueueKeeps ==
    ASSUME NEW s, Keeps(s), NEW S \in SUBSET Files
    PROVE  Keeps([s EXCEPT !.deepQueue = PushLane(@, deep.live, S)])
<1> DEFINE lane == PushLane(s.deepQueue, deep.live, S)
           t == [s EXCEPT !.deepQueue = lane]
<1>1. Lane(s.queue) /\ Lane(s.deepQueue) /\ Good(s)
  BY StateParts DEF Keeps
<1>2. /\ Lane(lane) /\ Range(lane) = Range(s.deepQueue) \cup (S \ {deep.live})
      /\ s.deepQueue # <<>> => Head(lane) = Head(s.deepQueue)
  BY <1>1, PushLaneMakes
<1>3. deep.live \in Range(s.deepQueue) => s.deepQueue # <<>>
  BY NoLane
<1> HIDE DEF lane
<1>4. t.queue = s.queue /\ t.deepQueue = lane /\ Good(t)
  <2>1. Good(t)
    BY <1>1, <1>2, StateChanges
  <2>2. s = [results |-> s.results, queue |-> s.queue,
             deepQueue |-> s.deepQueue, paused |-> s.paused]
    BY <1>1, StateParts
  <2>3. t.queue = s.queue /\ t.deepQueue = lane
    BY <2>2
  <2> QED
    BY <2>1, <2>3
<1> HIDE DEF t
<1>5. Keeps(t)
  BY <1>2, <1>3, <1>4 DEF Keeps
<1> QED
  BY <1>5 DEF t, lane

\* `fill_locked` of a listing, to both lanes.
LEMMA FillKeeps ==
    ASSUME NEW s, Keeps(s) PROVE Keeps(Fill(s))
<1> DEFINE A == {p \in Listed : ~Matches(s.results[p], snap[p])}
           B == {p \in Listed : /\ Matches(s.results[p], snap[p])
                                /\ deepOn /\ DeepDue(s.results[p])}
           t == [s EXCEPT !.queue = PushLane(@, quick.live, A)]
           u == [t EXCEPT !.deepQueue = PushLane(@, deep.live, B)]
<1>1. A \in SUBSET Files /\ B \in SUBSET Files
  BY DEF Listed
<1>2. Fill(s) = IF s.paused THEN s
                ELSE [s EXCEPT !.queue = PushLane(@, quick.live, A),
                               !.deepQueue = PushLane(@, deep.live, B)]
  BY DEF Fill
<1> HIDE DEF A, B
<1>3. Keeps(t)
  BY <1>1, QueueKeeps
<1>4. s = [results |-> s.results, queue |-> s.queue,
           deepQueue |-> s.deepQueue, paused |-> s.paused]
  BY StateParts DEF Keeps
<1>5. [s EXCEPT !.queue = PushLane(@, quick.live, A),
                !.deepQueue = PushLane(@, deep.live, B)] = u
  BY <1>4
<1> HIDE DEF t
<1>6. Keeps(u)
  BY <1>1, <1>3, DeepQueueKeeps
<1> QED
  BY <1>2, <1>5, <1>6

\* `prune_locked`: a decode put back stays the head of its lane, or leaves it.
LEMMA PruneKeeps ==
    ASSUME NEW s, Keeps(s), NEW present PROVE Keeps(Prune(s, present))
<1> DEFINE results == [p \in Files |-> IF p \in present THEN s.results[p] ELSE NoRecord]
           a == Retain(s.queue, present)
           b == Retain(s.deepQueue, present)
           t == [results |-> results, queue |-> a, deepQueue |-> b,
                 paused |-> s.paused]
<1>1. Prune(s, present) = t
  BY DEF Prune
<1>2. /\ Good(s) /\ Lane(s.queue) /\ Lane(s.deepQueue)
      /\ s.results \in [Files -> Records] /\ s.paused \in BOOLEAN
  BY StateParts DEF Keeps
<1>3. NoRecord \in Records
  BY BoundsAssumption DEF NoRecord, Records, Stamps
<1>4. results \in [Files -> Records]
  BY <1>2, <1>3
<1>5. /\ Lane(a) /\ Lane(b) /\ Range(a) = Range(s.queue) \cap present
      /\ Range(b) = Range(s.deepQueue) \cap present
      /\ s.deepQueue # <<>> /\ Head(s.deepQueue) \in present =>
           Head(b) = Head(s.deepQueue)
  BY <1>2, RetainMakes, RetainLane DEF Lane
<1>6. deep.live \in Range(s.deepQueue) => s.deepQueue # <<>>
  BY NoLane
<1> HIDE DEF results, a, b
<1>7. Good(t)
  BY <1>2, <1>4, <1>5, GoodMakes
<1>8. t.queue = a /\ t.deepQueue = b
  OBVIOUS
<1> HIDE DEF t
<1>9. Keeps(t)
  BY <1>5, <1>6, <1>7, <1>8 DEF Keeps
<1> QED
  BY <1>1, <1>9

\* The lanes start empty.
LEMMA InitLanes == Init => LInv
<1> SUFFICES ASSUME Init PROVE LInv
  OBVIOUS
<1>1. 0 \in Stamps /\ 1 \in Stamps /\ 0 \in 0..MaxFaults
  BY BoundsAssumption DEF Stamps
<1>2. WorldTyped
  BY <1>1 DEF Init, WorldTyped, Indexers, IdleIndex
<1>3. QuickTyped /\ DeepTyped
  BY <1>1, NoFileAssumption
     DEF Init, QuickTyped, DeepTyped, Slots, IdleSlot, QuickThreads,
         DeepThreads, IdleDeep
<1>4. NoRecord \in Records
  BY <1>1 DEF NoRecord, Records
<1>5. Good(EmptyState)
  BY <1>4, NoLane, GoodMakes DEF EmptyState
<1>6. EmptyState.queue = <<>> /\ EmptyState.deepQueue = <<>>
  BY DEF EmptyState
<1> QED
  BY <1>1, <1>2, <1>3, <1>5, <1>6, NoLane DEF Init, LInv, Keeps

\* A step that leaves the lanes' files and the deep thread's place alone and makes
\* of the state one that keeps the lanes' promise, keeps it.
LEMMA KeptByChange ==
    ASSUME LInv, NEW t, Keeps(t), Changed(t) \/ ChangedIfNew(t),
           quick'.live = quick.live \/ quick'.live = NoFile,
           deep'.live = deep.live, d.pc = "finish" => d'.pc = "finish"
    PROVE  Keeps(st)' /\ Good(saved)' /\ faults' \in 0..MaxFaults
<1>1. st' \in {st, t} /\ Good(saved') /\ faults' \in 0..MaxFaults
  BY ChangeKeeps DEF LInv, Keeps
<1>2. Keeps(st) /\ Lane(st.queue) /\ Lane(t.queue)
  BY StateParts DEF LInv, Keeps
<1>3. Range(st.queue) \subseteq Files /\ Range(t.queue) \subseteq Files
  BY <1>2, RangeOfSeq DEF Lane
<1> QED
  BY <1>1, <1>2, <1>3, NoFileAssumption DEF Keeps, Good

\* A step that leaves the state alone and at most finishes a lane's file keeps the
\* promise: only a decode at its end may have its file waiting.
LEMMA KeptAsIs ==
    ASSUME LInv, UNCHANGED <<st, saved>>,
           quick'.live = quick.live \/ quick'.live = NoFile,
           deep'.live = deep.live \/ deep'.live = NoFile,
           deep'.live = deep.live /\ d.pc = "finish" => d'.pc = "finish"
    PROVE  Keeps(st)' /\ Good(saved)'
<1>1. Keeps(st) /\ Lane(st.queue) /\ Lane(st.deepQueue) /\ Good(saved)
  BY StateParts DEF LInv, Keeps
<1>2. Range(st.queue) \subseteq Files /\ Range(st.deepQueue) \subseteq Files
  BY <1>1, RangeOfSeq DEF Lane
<1> QED
  BY <1>1, <1>2, NoFileAssumption DEF Keeps, Good

\* Verdicts have no part in it.
LEMMA VerdictKeeps ==
    ASSUME Keeps(st), NEW p \in Files, NEW r \in Records
    PROVE  Keeps([st EXCEPT !.results[p] = r])
<1> DEFINE t == [st EXCEPT !.results[p] = r]
           results == [st.results EXCEPT ![p] = r]
<1>1. /\ Good(st) /\ st.results \in [Files -> Records]
      /\ Lane(st.queue) /\ Lane(st.deepQueue) /\ st.paused \in BOOLEAN
      /\ st = [results |-> st.results, queue |-> st.queue,
               deepQueue |-> st.deepQueue, paused |-> st.paused]
  BY StateParts DEF Keeps
<1>2. results \in [Files -> Records]
  BY <1>1
<1>3. t = [results |-> results, queue |-> st.queue,
           deepQueue |-> st.deepQueue, paused |-> st.paused]
  BY <1>1
<1> HIDE DEF t, results
<1>4. Good(t) /\ t.queue = st.queue /\ t.deepQueue = st.deepQueue
  BY <1>1, <1>2, <1>3, GoodMakes
<1>5. Keeps(t)
  BY <1>4 DEF Keeps
<1> QED
  BY <1>5 DEF t

-----------------------------------------------------------------------------
\* A step of the quick thread keeps everyone's types.
LEMMA QuickKinds == LInv /\ Quick => (QuickTyped /\ WorldTyped /\ DeepTyped)'
<1> SUFFICES ASSUME LInv, Quick PROVE (QuickTyped /\ WorldTyped /\ DeepTyped)'
  OBVIOUS
<1> USE DEF environment, index, deepThread
<1>0. WorldTyped /\ QuickTyped /\ DeepTyped /\ 0 \in Stamps
  BY BoundsAssumption DEF LInv, Stamps
<1>1. WorldTyped' /\ DeepTyped'
  BY <1>0
     DEF WorldTyped, DeepTyped, Quick, SetDeepEnabled, Refill, QuickTurn,
         QuickStat, QuickStart, QuickRead, RecordFast, QuickDue, EnqueueDeep,
         QuickFinish
<1>2. quick.live # NoFile => quick.live \in Files /\ disk[quick.live] \in Stamps
  BY <1>0 DEF QuickTyped, WorldTyped, Slots
<1>3. CASE SetDeepEnabled \/ Refill
  BY <1>0, <1>1, <1>3
     DEF QuickTyped, WorldTyped, QuickThreads, SetDeepEnabled, Refill
<1>4. CASE QuickTurn
  <2>1. CASE ~DisksTaken /\ Takes(st.queue)
    <3>1. Lane(st.queue) /\ st.queue # <<>>
      BY <2>1, StateParts DEF LInv, Keeps, Takes
    <3>2. Head(st.queue) \in Files
      BY <3>1, TakeLane
    <3>3. /\ quick' = [live |-> Head(st.queue), cancel |-> FALSE]
          /\ q' = [q EXCEPT !.pc = "stat"] /\ deepOn' = deepOn
      BY <1>4, <2>1 DEF QuickTurn
    <3>4. quick' \in Slots /\ quick'.live # NoFile /\ ~quick'.cancel
      BY <3>2, <3>3, NoFileAssumption DEF Slots
    <3>5. q' \in QuickThreads /\ q'.pc = "stat" /\ deepOn' \in BOOLEAN
      BY <1>0, <3>3 DEF QuickTyped, QuickThreads
    <3> QED
      BY <1>1, <3>4, <3>5 DEF QuickTyped
  <2>2. CASE ~(~DisksTaken /\ Takes(st.queue))
    BY <1>0, <1>1, <1>4, <2>2 DEF QuickTyped, QuickThreads, QuickTurn
  <2> QED
    BY <1>1, <2>1, <2>2
<1>5. CASE QuickStat
  BY <1>0, <1>1, <1>2, <1>5 DEF QuickTyped, QuickThreads, QuickStat
<1>6. CASE QuickStart \/ RecordFast \/ QuickDue \/ EnqueueDeep
  BY <1>0, <1>1, <1>6
     DEF QuickTyped, QuickThreads, QuickStart, RecordFast, QuickDue,
         EnqueueDeep, QuickStep
<1>7. CASE QuickRead
  BY <1>0, <1>1, <1>2, <1>7 DEF QuickTyped, QuickThreads, QuickRead
<1>8. CASE QuickFinish
  BY <1>0, <1>1, <1>8
     DEF QuickTyped, QuickThreads, QuickFinish, IdleSlot, Slots
<1> QED
  BY <1>1, <1>3, <1>4, <1>5, <1>6, <1>7, <1>8 DEF Quick

\* A step of the quick thread keeps the lanes' promise: the file taken off the lane
\* was in it once, what it enqueues is not what the deep thread runs.
LEMMA QuickKeeps ==
    LInv /\ Quick => Keeps(st)' /\ Good(saved)' /\ faults' \in 0..MaxFaults
<1> SUFFICES ASSUME LInv, Quick
             PROVE  Keeps(st)' /\ Good(saved)' /\ faults' \in 0..MaxFaults
  OBVIOUS
<1> USE DEF environment, index, deepThread
<1>0. /\ Keeps(st) /\ Good(st) /\ Good(saved) /\ faults \in 0..MaxFaults
      /\ Lane(st.queue) /\ Lane(st.deepQueue) /\ QuickTyped /\ DeepTyped
  BY StateParts DEF LInv, Keeps
<1>1. CASE SetDeepEnabled
  <2> DEFINE s == IF setting THEN st ELSE [st EXCEPT !.deepQueue = <<>>]
  <2>1. Good([st EXCEPT !.deepQueue = <<>>])
    BY <1>0, NoLane, StateChanges
  <2>2. st = [results |-> st.results, queue |-> st.queue,
              deepQueue |-> st.deepQueue, paused |-> st.paused]
    BY <1>0, StateParts
  <2>3. Keeps(s)
    BY <1>0, <2>1, <2>2, NoLane DEF Keeps
  <2>4. ChangedIfNew(s) /\ UNCHANGED <<quick, deep, d>>
    BY <1>1 DEF SetDeepEnabled
  <2> QED
    BY <2>3, <2>4, KeptByChange
<1>2. CASE Refill
  BY <1>0, <1>2, FillKeeps, KeptByChange DEF Refill
<1>3. CASE QuickTurn
  <2>1. CASE ~DisksTaken /\ Takes(st.queue)
    <3>1. st.queue # <<>>
      BY <2>1 DEF Takes
    <3>2. /\ Lane(Tail(st.queue)) /\ Head(st.queue) \notin Range(Tail(st.queue))
      BY <1>0, <3>1, TakeLane
    <3>3. /\ st' = [st EXCEPT !.queue = Tail(@)]
          /\ quick'.live = Head(st.queue)
          /\ UNCHANGED <<saved, deep, faults>> /\ d' = d
      BY <1>3, <2>1 DEF QuickTurn
    <3>4. Good(st')
      BY <1>0, <3>2, <3>3, StateChanges
    <3>5. st'.queue = Tail(st.queue) /\ st'.deepQueue = st.deepQueue
      BY <1>0, <3>3, StateParts
    <3> QED
      BY <1>0, <3>2, <3>3, <3>4, <3>5 DEF Keeps, Good
  <2>2. CASE ~(~DisksTaken /\ Takes(st.queue))
    <3>1. UNCHANGED <<st, saved, quick, deep, d, faults>>
      BY <1>3, <2>2 DEF QuickTurn
    <3> QED
      BY <1>0, <3>1, KeptAsIs
  <2> QED
    BY <2>1, <2>2
<1>4. CASE QuickStat \/ QuickStart \/ QuickRead \/ QuickDue \/ QuickFinish
  <2>1. /\ UNCHANGED <<st, saved, deep, d>>
        /\ quick'.live = quick.live \/ quick'.live = NoFile
        /\ faults' = faults \/ Fault
    BY <1>4
       DEF QuickStat, QuickStart, QuickRead, QuickDue, QuickFinish, IdleSlot
  <2>2. faults' \in 0..MaxFaults
    BY <1>0, <2>1, BoundsAssumption DEF Fault
  <2> QED
    BY <2>1, <2>2, KeptAsIs
<1>5. CASE RecordFast
  <2> DEFINE r == RecordOf(st.results[quick.live], q.sig, q.read)
             s == [st EXCEPT !.results[quick.live] = r]
  <2>1. quick.live \in Files
    BY <1>0, <1>5 DEF RecordFast, QuickStep, QuickTyped, Slots
  <2>2. st.results[quick.live] \in Records /\ q.sig \in Stamps /\ q.read \in Stamps
    BY <1>0, <2>1, StateParts DEF QuickTyped, QuickThreads
  <2>3. r \in Records
    <3> DEFINE old == st.results[quick.live]
    <3> HIDE DEF old
    <3>1. /\ [old EXCEPT !.read = q.read] \in Records
          /\ [NoRecord EXCEPT !.stamp = q.sig, !.read = q.read] \in Records
      BY <2>2 DEF old, Records, NoRecord
    <3> QED
      BY <3>1 DEF RecordOf, old
  <2> HIDE DEF r
  <2>4. Keeps(s)
    BY <1>0, <2>1, <2>3, VerdictKeeps
  <2>5. Changed(s) /\ UNCHANGED <<quick, deep, d>>
    BY <1>5 DEF RecordFast, r
  <2> QED
    BY <2>4, <2>5, KeptByChange
<1>6. CASE EnqueueDeep
  <2> DEFINE s == [st EXCEPT !.deepQueue = PushLane(@, deep.live, {quick.live})]
  <2>1. {quick.live} \in SUBSET Files
    BY <1>0, <1>6 DEF EnqueueDeep, QuickStep, QuickTyped, Slots
  <2>2. Keeps(s)
    BY <1>0, <2>1, DeepQueueKeeps
  <2>3. ChangedIfNew(s) /\ UNCHANGED <<quick, deep, d>>
    BY <1>6 DEF EnqueueDeep
  <2> QED
    BY <2>2, <2>3, KeptByChange
<1> QED
  BY <1>1, <1>2, <1>3, <1>4, <1>5, <1>6 DEF Quick

\* A step of the deep thread keeps everyone's types.
LEMMA DeepKinds == LInv /\ Deep => (QuickTyped /\ WorldTyped /\ DeepTyped)'
<1> SUFFICES ASSUME LInv, Deep PROVE (QuickTyped /\ WorldTyped /\ DeepTyped)'
  OBVIOUS
<1> USE DEF environment, index, quickThread
<1>0. WorldTyped /\ QuickTyped /\ DeepTyped /\ 0 \in Stamps
  BY BoundsAssumption DEF LInv, Stamps
<1>1. WorldTyped' /\ QuickTyped'
  BY <1>0
     DEF WorldTyped, QuickTyped, Deep, DeepLook, DeepStat, DeepStart, Decode,
         DeepCheck, RecordDeep, Interrupted, RequeueFront, DeepFinish
<1>2. deep.live # NoFile => deep.live \in Files /\ disk[deep.live] \in Stamps
  BY <1>0 DEF DeepTyped, WorldTyped, Slots
<1>3. CASE DeepLook
  <2>1. Lane(st.deepQueue) /\ st.deepQueue # <<>>
    BY <1>3, StateParts DEF LInv, Keeps, Takes, DeepLook
  <2>2. Head(st.deepQueue) \in Files
    BY <2>1, TakeLane
  <2> QED
    BY <1>0, <1>1, <1>3, <2>2, NoFileAssumption
       DEF DeepTyped, DeepThreads, Slots, DeepLook
<1>4. CASE DeepStat
  BY <1>0, <1>1, <1>2, <1>4 DEF DeepTyped, DeepThreads, DeepStat
<1>5. CASE DeepStart
  BY <1>0, <1>1, <1>2, <1>5 DEF DeepTyped, DeepThreads, DeepStart
<1>6. CASE Decode
  <2>1. /\ d.pc = "decode" /\ deep' = deep
        /\ d' = [d EXCEPT !.pc = d'.pc, !.seen = d'.seen,
                          !.verdict = d'.verdict]
        /\ d'.pc \in {"verdict", "interrupted"}
        /\ d'.verdict \in {"done", "tried", d.verdict}
        /\ d'.seen \in {d.seen, d.seen \cup {disk[deep.live]}}
    BY <1>0, <1>6 DEF DeepTyped, DeepThreads, Decode
  <2>2. d.seen \cup {disk[deep.live]} \in SUBSET Stamps
    BY <1>0, <1>2, <2>1 DEF DeepTyped, DeepThreads
  <2> QED
    BY <1>0, <1>1, <2>1, <2>2 DEF DeepTyped, DeepThreads
<1>7. CASE DeepCheck \/ RecordDeep \/ Interrupted \/ RequeueFront
  BY <1>0, <1>1, <1>7
     DEF DeepTyped, DeepThreads, DeepCheck, RecordDeep, Interrupted,
         RequeueFront, DeepStep
<1>8. CASE DeepFinish
  BY <1>0, <1>1, <1>8
     DEF DeepTyped, DeepThreads, DeepFinish, IdleDeep, IdleSlot, Slots
<1> QED
  BY <1>3, <1>4, <1>5, <1>6, <1>7, <1>8 DEF Deep

\* A step of the deep thread keeps the lanes' promise: the file put back in front was
\* not in the lane, because no one else enqueues a running file.
LEMMA DeepKeeps ==
    LInv /\ Deep => Keeps(st)' /\ Good(saved)' /\ faults' \in 0..MaxFaults
<1> SUFFICES ASSUME LInv, Deep
             PROVE  Keeps(st)' /\ Good(saved)' /\ faults' \in 0..MaxFaults
  OBVIOUS
<1> USE DEF environment, index, quickThread
<1>0. /\ Keeps(st) /\ Good(st) /\ Good(saved) /\ faults \in 0..MaxFaults
      /\ Lane(st.queue) /\ Lane(st.deepQueue) /\ QuickTyped /\ DeepTyped
  BY StateParts DEF LInv, Keeps
<1>1. CASE DeepLook
  <2>1. st.deepQueue # <<>>
    BY <1>1 DEF DeepLook, Takes
  <2>2. /\ Lane(Tail(st.deepQueue))
        /\ Head(st.deepQueue) \notin Range(Tail(st.deepQueue))
    BY <1>0, <2>1, TakeLane
  <2>3. /\ st' = [st EXCEPT !.deepQueue = Tail(@)]
        /\ deep'.live = Head(st.deepQueue)
        /\ UNCHANGED <<saved, quick, faults>>
    BY <1>1 DEF DeepLook
  <2>4. Good(st')
    BY <1>0, <2>2, <2>3, StateChanges
  <2>5. st'.queue = st.queue /\ st'.deepQueue = Tail(st.deepQueue)
    BY <1>0, <2>3, StateParts
  <2> QED
    BY <1>0, <2>2, <2>3, <2>4, <2>5 DEF Keeps, Good
<1>2. CASE \/ DeepStat \/ DeepStart \/ Decode \/ DeepCheck \/ Interrupted
           \/ DeepFinish
  <2>1. /\ UNCHANGED <<st, saved, quick>>
        /\ deep'.live = deep.live \/ deep'.live = NoFile
        /\ faults' = faults \/ Fault
    BY <1>2
       DEF DeepStat, DeepStart, Decode, DeepCheck, Interrupted, DeepFinish,
           DeepStep, IdleSlot
  <2>2. deep'.live = deep.live /\ d.pc = "finish" => d'.pc = "finish"
    <3>1. CASE DeepFinish
      BY <1>0, <3>1 DEF DeepFinish, IdleSlot, DeepTyped
    <3>2. CASE DeepStat \/ DeepStart \/ Decode \/ DeepCheck \/ Interrupted
      BY <3>2
         DEF DeepStat, DeepStart, Decode, DeepCheck, Interrupted, DeepStep
    <3> QED
      BY <1>2, <3>1, <3>2
  <2>3. faults' \in 0..MaxFaults
    BY <1>0, <2>1, BoundsAssumption DEF Fault
  <2> QED
    BY <2>1, <2>2, <2>3, KeptAsIs
<1>3. CASE RecordDeep
  <2>1. d.pc = "record" /\ d'.pc = "finish" /\ UNCHANGED <<quick, deep>>
    BY <1>0, <1>3 DEF RecordDeep, DeepStep, DeepTyped, DeepThreads
  <2>2. CASE Matches(st.results[deep.live], d.sig)
    <3> DEFINE old == st.results[deep.live]
               r == WithDeep(old)
               s == [st EXCEPT !.results[deep.live] = r]
    <3>1. deep.live \in Files
      BY <1>0, <2>1 DEF DeepTyped, Slots
    <3>2. old \in Records /\ d.seen \in SUBSET Stamps /\ d.verdict \in {"done", "tried"}
      BY <1>0, <3>1, StateParts DEF DeepTyped, DeepThreads
    <3>3. r \in Records
      <4> HIDE DEF old
      <4> QED
        BY <3>2 DEF Records, WithDeep
    <3>4. Changed(s)
      BY <1>3, <2>2 DEF RecordDeep
    <3> HIDE DEF r
    <3>5. Keeps(s)
      BY <1>0, <3>1, <3>3, VerdictKeeps
    <3> QED
      BY <2>1, <3>4, <3>5, KeptByChange
  <2>3. CASE ~Matches(st.results[deep.live], d.sig)
    <3>1. UNCHANGED <<st, saved, faults>>
      BY <1>3, <2>3 DEF RecordDeep
    <3> QED
      BY <1>0, <2>1, <3>1, KeptAsIs
  <2> QED
    BY <2>2, <2>3
<1>4. CASE RequeueFront
  <2>1. d.pc = "requeue" /\ d'.pc = "finish" /\ UNCHANGED <<quick, deep>>
    BY <1>0, <1>4 DEF RequeueFront, DeepStep, DeepTyped, DeepThreads
  <2>2. deep.live \in Files /\ deep.live \notin Range(st.deepQueue)
    BY <1>0, <2>1 DEF DeepTyped, Slots, Keeps
  <2> DEFINE lane == <<deep.live>> \o st.deepQueue
             t == [st EXCEPT !.deepQueue = lane]
  <2>3. Lane(lane) /\ lane # <<>> /\ Head(lane) = deep.live
    BY <1>0, <2>2, FrontLane
  <2>4. ChangedIfNew(t)
    BY <1>4, <2>2 DEF RequeueFront
  <2> HIDE DEF lane
  <2>5. Good(t)
    BY <1>0, <2>3, StateChanges
  <2>6. t.queue = st.queue /\ t.deepQueue = lane
    BY <1>0, StateParts
  <2> HIDE DEF t
  <2>7. st' \in {st, t} /\ Good(saved') /\ faults' \in 0..MaxFaults
    BY <1>0, <2>4, <2>5, ChangeKeeps
  <2> QED
    BY <1>0, <2>1, <2>2, <2>3, <2>5, <2>6, <2>7 DEF Keeps, Good
<1> QED
  BY <1>1, <1>2, <1>3, <1>4 DEF Deep

\* A backoff that runs out changes a verdict only.
LEMMA BackoffLanes == LInv /\ Backoff => LInv'
<1> SUFFICES ASSUME LInv, NEW p \in Files, BackoffOver(p) PROVE LInv'
  BY DEF Backoff
<1> USE DEF environment, index, quickThread, deepThread
<1>0. WorldTyped /\ QuickTyped /\ DeepTyped /\ Keeps(st) /\ Good(st) /\ Good(saved)
  BY DEF LInv, Keeps
<1>1. (WorldTyped /\ QuickTyped /\ DeepTyped)' /\ UNCHANGED <<saved, faults, quick, deep, d>>
  BY <1>0 DEF WorldTyped, QuickTyped, DeepTyped, BackoffOver
<1> DEFINE r == [st.results[p] EXCEPT !.deep = "due"]
           t == [st EXCEPT !.results[p] = r]
<1>2. st.results[p] \in Records
  BY <1>0, StateParts
<1>3. r \in Records
  BY <1>2 DEF Records
<1>4. st' = t
  BY DEF BackoffOver
<1> HIDE DEF r
<1>5. Keeps(t)
  BY <1>0, <1>3, VerdictKeeps
<1> HIDE DEF t
<1>6. Keeps(st)'
  BY <1>1, <1>4, <1>5 DEF Keeps, Good
<1> QED
  BY <1>0, <1>1, <1>6 DEF LInv, Good

\* A step of the indexer keeps the invariant.
LEMMA IndexLanes == LInv /\ Index => LInv'
<1> SUFFICES ASSUME LInv, Index PROVE LInv'
  OBVIOUS
<1> USE DEF environment, quickThread, deepThread
<1>0. /\ WorldTyped /\ QuickTyped /\ DeepTyped /\ Keeps(st) /\ Good(saved)
      /\ faults \in 0..MaxFaults /\ 0 \in Stamps
  BY BoundsAssumption DEF LInv, Stamps
<1>1. QuickTyped' /\ DeepTyped' /\ UNCHANGED <<quick, deep, d>>
  BY <1>0 DEF QuickTyped, DeepTyped, Index, Rescan, IndexFill, IndexPrune
<1>2. WorldTyped'
  <2>1. CASE Rescan
    <3>1. PICK missed \in SUBSET Files :
            /\ snap' = [p \in Files |-> IF p \in missed THEN 0 ELSE disk[p]]
            /\ ix' = [ix EXCEPT !.pc = "fill", !.complete = missed = {},
                                !.gone = {p \in Files : disk[p] = 0}]
      BY <2>1 DEF Rescan
    <3>2. snap' \in [Files -> Stamps]
      BY <1>0, <3>1 DEF WorldTyped
    <3>3. ix' \in Indexers
      <4> DEFINE gone == {p \in Files : disk[p] = 0}
                 complete == missed = {}
      <4>1. gone \in SUBSET Files /\ complete \in BOOLEAN
        OBVIOUS
      <4>2. ix' = [ix EXCEPT !.pc = "fill", !.complete = complete, !.gone = gone]
        BY <3>1
      <4> HIDE DEF gone, complete
      <4> QED
        BY <1>0, <4>1, <4>2 DEF WorldTyped, Indexers
    <3> QED
      BY <1>0, <2>1, <3>2, <3>3 DEF WorldTyped, Rescan
  <2>2. CASE IndexFill
    <3>1. Listed \in SUBSET Files
      BY DEF Listed
    <3> QED
      BY <1>0, <2>2, <3>1 DEF WorldTyped, IndexFill, Indexers
  <2>3. CASE IndexPrune
    BY <1>0, <2>3 DEF WorldTyped, IndexPrune, Indexers, IdleIndex
  <2> QED
    BY <2>1, <2>2, <2>3 DEF Index
<1>3. Keeps(st)' /\ Good(saved)' /\ faults' \in 0..MaxFaults
  <2>1. CASE Rescan
    <3>1. UNCHANGED <<st, saved>> /\ (faults' = faults \/ Fault)
      BY <2>1 DEF Rescan
    <3>2. faults' \in 0..MaxFaults
      BY <1>0, <3>1, BoundsAssumption DEF Fault
    <3> QED
      BY <1>1, <3>1, <3>2, KeptAsIs
  <2>2. CASE IndexFill
    BY <1>0, <1>1, <2>2, FillKeeps, KeptByChange DEF IndexFill
  <2>3. CASE IndexPrune
    <3> DEFINE s == IF ListsEverything THEN Prune(st, ix.present) ELSE st
    <3>1. Keeps(s)
      BY <1>0, PruneKeeps
    <3>2. ChangedIfNew(s)
      BY <2>3 DEF IndexPrune
    <3> QED
      BY <1>1, <3>1, <3>2, KeptByChange
  <2> QED
    BY <2>1, <2>2, <2>3 DEF Index
<1> QED
  BY <1>1, <1>2, <1>3 DEF LInv

\* Anything people, rips, the disks and a crash do keeps the invariant.
LEMMA OutsideLanes == LInv /\ Outside => LInv'
<1> SUFFICES ASSUME LInv, Outside PROVE LInv'
  OBVIOUS
<1> USE DEF environment, index, quickThread, deepThread
<1>0. /\ WorldTyped /\ QuickTyped /\ DeepTyped /\ Keeps(st) /\ Good(st)
      /\ Good(saved) /\ faults \in 0..MaxFaults /\ 0 \in Stamps
      /\ Lane(st.queue) /\ Lane(st.deepQueue) /\ st.paused \in BOOLEAN
      /\ st.results \in [Files -> Records]
      /\ st = [results |-> st.results, queue |-> st.queue,
               deepQueue |-> st.deepQueue, paused |-> st.paused]
  BY BoundsAssumption, StateParts DEF LInv, Keeps, Stamps
\* A change of the state alone.
<1>1. ASSUME NEW t, Keeps(t), Changed(t) \/ ChangedIfNew(t),
             UNCHANGED <<environment, index, quickThread, deepThread>>
      PROVE  LInv'
  <2>1. Keeps(st)' /\ Good(saved)' /\ faults' \in 0..MaxFaults
    BY <1>1, KeptByChange
  <2> QED
    BY <1>0, <1>1, <2>1 DEF LInv, WorldTyped, QuickTyped, DeepTyped
<1>2. ASSUME NEW paused \in BOOLEAN, SetPaused(paused) PROVE LInv'
  <2> DEFINE t == [st EXCEPT !.paused = paused]
  <2>1. Good(t)
    BY <1>0, StateChanges
  <2>2. t.queue = st.queue /\ t.deepQueue = st.deepQueue
    BY <1>0
  <2>3. Changed(t) /\ UNCHANGED <<environment, index, quickThread, deepThread>>
    BY <1>2 DEF SetPaused
  <2> HIDE DEF t
  <2>4. Keeps(t)
    BY <1>0, <2>1, <2>2 DEF Keeps
  <2> QED
    BY <1>1, <2>3, <2>4
<1>3. CASE StopAll
  <2> DEFINE t == [results |-> st.results, queue |-> <<>>, deepQueue |-> <<>>,
                   paused |-> TRUE]
  <2>1. Good(t)
    BY <1>0, NoLane, GoodMakes
  <2>2. t.queue = <<>> /\ t.deepQueue = <<>>
    OBVIOUS
  <2>3. /\ Changed(t) /\ quick' = StopSlot(quick) /\ deep' = StopSlot(deep)
        /\ UNCHANGED <<environment, index, deepOn, q, d>>
    BY <1>3 DEF StopAll
  <2>4. /\ quick' \in Slots /\ quick'.live = quick.live
        /\ quick'.cancel => quick'.live # NoFile
        /\ deep' \in Slots /\ deep'.live = deep.live
        /\ deep'.cancel => deep'.live # NoFile
    <3>1. ASSUME NEW slot \in Slots, slot.cancel => slot.live # NoFile
          PROVE  /\ StopSlot(slot) \in Slots /\ StopSlot(slot).live = slot.live
                 /\ StopSlot(slot).cancel => slot.live # NoFile
      BY <3>1 DEF StopSlot, Slots
    <3> QED
      BY <1>0, <2>3, <3>1 DEF QuickTyped, DeepTyped
  <2> HIDE DEF t
  <2>5. Keeps(t)
    BY <2>1, <2>2, NoLane DEF Keeps
  <2>6. Keeps(st)' /\ Good(saved)' /\ faults' \in 0..MaxFaults
    BY <2>3, <2>4, <2>5, KeptByChange
  <2>7. (WorldTyped /\ QuickTyped /\ DeepTyped)'
    BY <1>0, <2>3, <2>4 DEF WorldTyped, QuickTyped, DeepTyped
  <2> QED
    BY <2>6, <2>7 DEF LInv
<1>4. ASSUME NEW p \in Files, Reaudit(p) PROVE LInv'
  <2> DEFINE results == [st.results EXCEPT ![p] = [@ EXCEPT !.deep = "none",
                                                           !.seen = {}]]
             a == PushLane(st.queue, quick.live, {p})
             b == Retain(st.deepQueue, Files \ {p})
             t == [results |-> results, queue |-> a, deepQueue |-> b,
                   paused |-> st.paused]
  <2>1. Changed(t) /\ UNCHANGED <<environment, index, quickThread, deepThread>>
    BY <1>4 DEF Reaudit
  <2>2. results \in [Files -> Records]
    <3>1. st.results[p] \in Records
      BY <1>0
    <3>2. [st.results[p] EXCEPT !.deep = "none", !.seen = {}] \in Records
      BY <3>1 DEF Records
    <3> QED
      BY <1>0, <3>2
  <2>3. Lane(a) /\ Range(a) = Range(st.queue) \cup ({p} \ {quick.live})
    BY <1>0, PushLaneMakes
  <2>4. /\ Lane(b) /\ Range(b) = Range(st.deepQueue) \cap (Files \ {p})
        /\ st.deepQueue # <<>> /\ Head(st.deepQueue) \in Files \ {p} =>
             Head(b) = Head(st.deepQueue)
    BY <1>0, RetainMakes, RetainLane DEF Lane
  <2>5. deep.live \in Range(st.deepQueue) => st.deepQueue # <<>>
    BY NoLane
  <2> HIDE DEF results, a, b
  <2>6. Good(t)
    BY <1>0, <2>2, <2>3, <2>4, GoodMakes
  <2>7. t.queue = a /\ t.deepQueue = b
    OBVIOUS
  <2> HIDE DEF t
  <2>8. Keeps(t)
    BY <1>0, <2>3, <2>4, <2>5, <2>6, <2>7 DEF Keeps
  <2> QED
    BY <1>1, <2>1, <2>8
<1>5. ASSUME NEW p \in Files, NoteLanded(p) PROVE LInv'
  <2> DEFINE t == [st EXCEPT !.queue = PushLane(@, quick.live, {p})]
  <2>1. Keeps(t)
    BY <1>0, QueueKeeps
  <2>2. /\ ChangedIfNew(t) /\ snap' = [snap EXCEPT ![p] = disk[p]]
        /\ UNCHANGED <<environment, ix, quickThread, deepThread>>
    BY <1>5 DEF NoteLanded
  <2>3. Keeps(st)' /\ Good(saved)' /\ faults' \in 0..MaxFaults
    BY <2>1, <2>2, KeptByChange
  <2>4. (WorldTyped /\ QuickTyped /\ DeepTyped)'
    BY <1>0, <2>2 DEF WorldTyped, QuickTyped, DeepTyped
  <2> QED
    BY <2>3, <2>4 DEF LInv
<1>6. ASSUME NEW p \in Files, Write(p) \/ Vanish(p) PROVE LInv'
  <2>1. WorldTyped'
    BY <1>0, <1>6, BoundsAssumption DEF WorldTyped, Write, Vanish, Stamps
  <2>2. UNCHANGED <<st, saved, quick, q, deepOn, deep, d, faults>>
    BY <1>6 DEF Write, Vanish
  <2> QED
    BY <1>0, <2>1, <2>2, KeptAsIs DEF LInv, QuickTyped, DeepTyped
<1>7. CASE Disks \/ Setting
  <2>1. WorldTyped' /\ UNCHANGED <<st, saved, quick, q, deepOn, deep, d, faults>>
    BY <1>0, <1>7 DEF WorldTyped, Disks, Setting
  <2> QED
    BY <1>0, <2>1, KeptAsIs DEF LInv, QuickTyped, DeepTyped
<1>8. CASE Crash
  <2>1. NoRecord \in Records
    BY <1>0 DEF NoRecord, Records
  <2>2. Good(EmptyState)
    BY <2>1, NoLane, GoodMakes DEF EmptyState
  <2>3. Good(st') /\ Good(saved')
    BY <1>0, <1>8, <2>2 DEF Crash
  <2>4. quick'.live = NoFile /\ deep'.live = NoFile
    BY <1>8 DEF Crash, IdleSlot
  <2>5. Lane(st'.queue) /\ Lane(st'.deepQueue)
    BY <2>3, StateParts
  <2>6. Range(st'.queue) \subseteq Files /\ Range(st'.deepQueue) \subseteq Files
    BY <2>5, RangeOfSeq DEF Lane
  <2>7. Keeps(st)'
    BY <2>3, <2>4, <2>6, NoFileAssumption DEF Keeps, Good
  <2>8. faults' \in 0..MaxFaults
    BY <1>0, <1>8, BoundsAssumption DEF Crash, Fault
  <2>9. WorldTyped'
    BY <1>0, <1>8 DEF WorldTyped, Crash, IdleIndex, Indexers
  <2>10. QuickTyped' /\ DeepTyped'
    BY <1>0, <1>8
       DEF Crash, QuickTyped, DeepTyped, IdleSlot, Slots, QuickThreads,
           DeepThreads, IdleDeep
  <2> QED
    BY <2>3, <2>7, <2>8, <2>9, <2>10 DEF LInv, Good
<1> QED
  BY <1>2, <1>3, <1>4, <1>5, <1>6, <1>7, <1>8 DEF Outside

\* Every step keeps the invariant.
LEMMA LanesStep == LInv /\ [Next]_vars => LInv'
<1> SUFFICES ASSUME LInv, [Next]_vars PROVE LInv'
  OBVIOUS
<1>1. CASE UNCHANGED vars
  BY <1>1
     DEF LInv, WorldTyped, QuickTyped, DeepTyped, Keeps, Good, vars,
         environment, index, quickThread, deepThread
<1>2. CASE Quick
  BY <1>2, QuickKinds, QuickKeeps DEF LInv
<1>3. CASE Deep
  BY <1>3, DeepKinds, DeepKeeps DEF LInv
<1> QED
  BY <1>1, <1>2, <1>3, BackoffLanes, IndexLanes, OutsideLanes DEF Next

\* The lanes' invariant holds of every state a run reaches.
LEMMA LanesInvariance == Spec => []LInv
  BY InitLanes, LanesStep, PTL DEF Spec

\* The audit state, its file, both threads, the indexer and the listing always have
\* their types: what a lane holds and runs is always one of Files.
THEOREM TypeCorrect == Spec => []TypeOK
  BY LInvIsTypeOK, LanesInvariance, PTL

\* `push_lane`, `retain`, `remove(0)` and `insert(0)` between them never let a file wait
\* twice in a lane, nor wait while the lane runs it, but for a decode put back.
THEOREM LanesOnce == Spec => []LanesHoldOnce
  BY LInvIsTypeOK, LanesInvariance, PTL
=============================================================================
