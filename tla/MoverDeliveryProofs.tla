------------------------ MODULE MoverDeliveryProofs ------------------------
(***************************************************************************)
(* What holds of MoverDelivery for every set of rips, every number of       *)
(* variants and every number of faults and acts of people.                  *)
(***************************************************************************)
EXTENDS MoverDelivery, TLAPS

-----------------------------------------------------------------------------
(* The inductive invariant *)

\* A pass works on a job whose staging is there, and knows whether its plan is frozen.
PassKnows ==
    m.at # "idle" =>
        /\ m.job \in Jobs \ gone
        /\ m.at \in {"plan", "freeze"} => ~Frozen(m.job)
        /\ m.at \notin {"check", "plan", "freeze"} => Frozen(m.job)
        /\ m.at = "freeze" => m.variant \in Variants

\* A file being published is still in staging, one being discarded is on the list.
PassHolds ==
    /\ m.at \in {"rename", "copy", "stalled"} => <<m.job, m.part>> \in staged
    /\ m.at = "remove" => \A p \in {"mkv", "iso"} : <<m.job, p>> \in staged => p \in m.todo
    /\ m.at = "last" => \A p \in {"mkv", "iso"} : <<m.job, p>> \notin staged

\* The name about to be frozen is in no other journal.
StillReserved ==
    m.at = "freeze" =>
        \A k \in Jobs \ ({m.job} \cup gone) : journal[k].variant # m.variant

\* Whatever is announced, or about to be cleaned up, is in the source links.
AnnouncedIsLinked ==
    /\ \A j \in Jobs : journal[j].announced => j \in linked
    /\ m.at \in {"mark", "clean", "remove", "last"} => m.job \in linked

PassOK == PassKnows /\ PassHolds /\ StillReserved /\ AnnouncedIsLinked

\* While its staging is there, a file is nowhere but under the name its journal froze.
UnderItsName ==
    \A j \in Jobs \ gone, p \in {"mkv", "iso"}, n \in Variants :
        dest[<<p, n>>] = j => journal[j].variant = n

FilesOK == UnderItsName /\ MediaKept /\ FiledOnce /\ OneName

\* A journal counts every failure since the last Retry and waits after none past the second.
JournalCounts ==
    \A j \in Jobs \ gone :
        /\ j \notin unsaved => spent[j] <= journal[j].tries
        /\ ~Frozen(j) \/ journal[j].until = "none" => journal[j].tries = 0
        /\ journal[j].until = "wait" => journal[j].tries <= 2

\* A row that lets a pass begin, or will, has counted at most two failures.
RowWaits ==
    \A j \in Jobs :
        /\ row[j].at # "held" => row[j].tries <= 2 /\ row[j].resume = "no"
        /\ row[j].resume = "wait" => row[j].tries <= 2

\* In a pass the row counts every failure, and only a stall holds it before the end.
PassCounts ==
    m.at # "idle" =>
        /\ m.job \notin unsaved => spent[m.job] <= row[m.job].tries
        /\ m.at \notin {"stalled", "judge"} => "stalled" \notin m.out
        /\ m.at # "stalled" /\ "stalled" \notin m.out => row[m.job].at \in {"none", "due"}

CountsOK == JournalCounts /\ RowWaits /\ PassCounts /\ BudgetHolds

IInv == TypeOK /\ PassOK /\ GoneWasLinked /\ FilesOK /\ CountsOK

-----------------------------------------------------------------------------
(* The shape of the state *)

Journals == [variant : 0 .. MaxVariant, prepared : SUBSET {"mkv", "iso"},
             completed : SUBSET {"mkv", "iso"}, announced : BOOLEAN,
             tries : Nat, until : {"none", "wait", "held"}]
Rows == [at : {"none", "due", "wait", "held"}, tries : Nat, waits : {"no", "root", "folder"},
         busy : BOOLEAN, resume : {"no", "wait", "held"}, tears : Nat]
Passes == [at : Steps, job : Jobs \cup {"none"}, how : {"due", "retry", "recreate"},
           variant : 0 .. MaxVariant, todo : SUBSET {"mkv", "iso"}, part : {"mkv", "iso"},
           out : SUBSET Outcomes]

\* The parts of TypeOK, by what the actions touch together.
LibraryOK == /\ dest \in [Slots -> Jobs \cup {"free", "empty", "foreign"}]
             /\ share \in {"up", "failing", "down"} /\ folder \in BOOLEAN
             /\ sameDevice \in BOOLEAN
StagingOK == staged \subseteq Files /\ extra \subseteq Jobs /\ gone \subseteq Jobs /\ shaky \in BOOLEAN
RequestOK == request \in [Jobs -> {"no", "retry", "recreate"}]
HistoryOK == /\ taken \subseteq Files /\ spent \in [Jobs -> Nat]
             /\ unsaved \subseteq Jobs /\ asked \subseteq Jobs

LEMMA TypeParts ==
    TypeOK <=> /\ LibraryOK /\ StagingOK /\ RequestOK /\ HistoryOK
               /\ journal \in [Jobs -> Journals] /\ row \in [Jobs -> Rows] /\ m \in Passes
               /\ linked \subseteq Jobs /\ acts \in 0 .. MaxActs
  BY DEF TypeOK, LibraryOK, StagingOK, RequestOK, HistoryOK, Journals, Rows, Passes

LEMMA TypeAfter ==
    ASSUME LibraryOK', StagingOK', RequestOK', HistoryOK', journal' \in [Jobs -> Journals],
           row' \in [Jobs -> Rows], m' \in Passes, linked' \subseteq Jobs, acts' \in 0 .. MaxActs
    PROVE  TypeOK'
  BY DEF TypeOK, LibraryOK, StagingOK, RequestOK, HistoryOK, Journals, Rows, Passes

LEMMA ConstantsTyped ==
    /\ NoJournal \in Journals /\ NoRow \in Rows /\ Idle \in Passes
    /\ \A j \in Jobs : Parts(j) \in SUBSET {"mkv", "iso"} /\ "mkv" \in Parts(j)
    /\ Variants \subseteq 0 .. MaxVariant
  BY BoundsAssumption
  DEF NoJournal, NoRow, Idle, Journals, Rows, Passes, Steps, Outcomes, Parts, Variants

\* Rows keep their shape whatever is recorded, waited for or counted.
LEMMA RecordedTyped ==
    ASSUME NEW r \in Rows
    PROVE  /\ Recorded(r) \in Rows
           /\ Recorded(r).tries = r.tries /\ Recorded(r).tears = r.tears
           /\ Recorded(r).resume = "no" /\ Recorded(r).busy = FALSE
           /\ Recorded(r).at = IF r.at = "none" THEN "due" ELSE r.at
  BY DEF Rows, Recorded

LEMMA RetryDelayTyped ==
    ASSUME NEW n \in Nat
    PROVE  RetryDelay(n) \in {"wait", "held"} /\ (RetryDelay(n) = "wait" <=> n <= 2)
  BY DEF RetryDelay

LEMMA AppliedTyped ==
    ASSUME NEW r \in Rows, NEW n \in Nat, NEW until \in {"wait", "held"}
    PROVE  /\ Applied(r, n, until) \in Rows
           /\ Applied(r, n, until).tries = n
           /\ Applied(r, n, until).at = IF r.busy THEN "held" ELSE until
           /\ Applied(r, n, until).resume = IF r.busy THEN until ELSE r.resume
  BY DEF Rows, Applied

\* What a counted, held or resumed delivery changes.
LEMMA CommitRetryTyped ==
    ASSUME TypeOK, NEW j \in Jobs, NEW r \in Rows, NEW n \in Nat, NEW until \in {"wait", "held"},
           CommitRetry(j, r, n, until)
    PROVE  /\ journal' \in [Jobs -> Journals] /\ row' \in [Jobs -> Rows]
           /\ unsaved' \subseteq Jobs /\ asked' \subseteq Jobs
           /\ \A k \in Jobs : k # j => journal'[k] = journal[k] /\ row'[k] = row[k]
           /\ \A k \in Jobs : /\ journal'[k].variant = journal[k].variant
                              /\ journal'[k].announced = journal[k].announced
  <1>1. j \in Jobs /\ journal \in [Jobs -> Journals] /\ row \in [Jobs -> Rows]
    BY TypeParts
  <1>2. asked' = asked \ {j} /\ asked \subseteq Jobs /\ unsaved \subseteq Jobs
    BY DEF CommitRetry, TypeOK
  <1> DEFINE new == [journal[j] EXCEPT !.tries = n, !.until = until]
  <1>3. /\ new \in Journals
        /\ new.variant = journal[j].variant /\ new.announced = journal[j].announced
    BY <1>1 DEF Journals
  <1>4. journal' = journal \/ journal' = [journal EXCEPT ![j] = new]
    BY DEF CommitRetry, Saved, SaveFails
  <1>5. row' = [row EXCEPT ![j] = Applied(r, n, until)] \/ row' = [row EXCEPT ![j] = Applied(r, n, "held")]
    BY DEF CommitRetry
  <1>6. Applied(r, n, until) \in Rows /\ Applied(r, n, "held") \in Rows
    BY AppliedTyped
  <1>7. unsaved' = unsaved \/ unsaved' = unsaved \cup {j}
    BY DEF CommitRetry
  <1> HIDE DEF new
  <1> QED
    BY <1>1, <1>2, <1>3, <1>4, <1>5, <1>6, <1>7

-----------------------------------------------------------------------------
(* Type correctness *)

\* The conjuncts a step leaves alone.
LEMMA Untouched ==
    ASSUME TypeOK
    PROVE  /\ UNCHANGED library => LibraryOK'
           /\ UNCHANGED staging => StagingOK'
           /\ UNCHANGED history => HistoryOK'
           /\ UNCHANGED request => RequestOK'
  BY DEF TypeOK, library, staging, history, LibraryOK, StagingOK, HistoryOK, RequestOK

LEMMA ScheduleTyped ==
    ASSUME TypeOK, NEW j \in Jobs, NEW r \in Rows, Schedule(j, r)
    PROVE  /\ journal' \in [Jobs -> Journals] /\ row' \in [Jobs -> Rows] /\ HistoryOK'
  <1>1. r.tries + 1 \in Nat
    BY DEF Rows
  <1>2. CommitRetry(j, r, r.tries + 1, RetryDelay(r.tries + 1))
    BY DEF Schedule
  <1>3. RetryDelay(r.tries + 1) \in {"wait", "held"}
    BY <1>1, RetryDelayTyped
  <1>4. /\ journal' \in [Jobs -> Journals] /\ row' \in [Jobs -> Rows]
        /\ unsaved' \subseteq Jobs /\ asked' \subseteq Jobs
    BY <1>1, <1>2, <1>3, CommitRetryTyped
  <1>5. spent' = [spent EXCEPT ![j] = spent[j] + 1] /\ taken' = taken
    BY DEF Schedule
  <1>6. spent \in [Jobs -> Nat] /\ taken \subseteq Files
    BY DEF TypeOK
  <1> QED
    BY <1>4, <1>5, <1>6 DEF HistoryOK

LEMMA HoldTyped ==
    ASSUME TypeOK, NEW j \in Jobs, NEW r \in Rows, Hold(j, r)
    PROVE  /\ journal' \in [Jobs -> Journals] /\ row' \in [Jobs -> Rows] /\ HistoryOK'
  <1>1. CommitRetry(j, r, r.tries, "held") /\ r.tries \in Nat
    BY DEF Hold, Rows
  <1> QED
    BY <1>1, CommitRetryTyped DEF Hold, HistoryOK, TypeOK

\* A pass that ends with the row shown.
LEMMA EndTyped ==
    ASSUME TypeOK, Stop, row' \in [Jobs -> Rows],
           UNCHANGED <<library, staging, journal, request, linked, acts, history>>
    PROVE  TypeOK'
  <1>1. m' \in Passes
    BY ConstantsTyped DEF Stop
  <1>2. LibraryOK' /\ StagingOK' /\ HistoryOK' /\ RequestOK'
    BY Untouched
  <1> QED
    BY <1>1, <1>2, TypeParts, TypeAfter

LEMMA RowsTyped ==
    ASSUME TypeOK, NEW j \in Jobs
    PROVE  /\ RecordError(j) => row' \in [Jobs -> Rows]
           /\ BackOff(j) => row' \in [Jobs -> Rows]
           /\ TeardownBlocked(j) => row' \in [Jobs -> Rows]
           /\ \A for \in {"root", "folder"} : WaitRow(j, for) => row' \in [Jobs -> Rows]
           /\ Recovered(j) \in [Jobs -> Rows]
  <1>1. row \in [Jobs -> Rows] /\ row[j] \in Rows
    BY TypeParts
  <1> DEFINE r == Recorded(row[j])
  <1>2. r \in Rows
    BY <1>1, RecordedTyped
  <1> HIDE DEF r
  <1>3. r.tries + 1 \in Nat /\ r.tears + 1 \in Nat
    BY <1>2 DEF Rows
  <1>4. /\ [r EXCEPT !.tries = @ + 1, !.at = RetryDelay(r.tries + 1)] \in Rows
        /\ [r EXCEPT !.tears = @ + 1, !.at = RetryDelay(r.tears + 1)] \in Rows
        /\ \A for \in {"root", "folder"} : [r EXCEPT !.waits = for] \in Rows
    BY <1>2, <1>3, RetryDelayTyped DEF Rows
  <1>5. Recovered(j) \in [Jobs -> Rows]
    BY <1>1, ConstantsTyped DEF Recovered
  <1> QED
    BY <1>1, <1>2, <1>4, <1>5 DEF RecordError, BackOff, TeardownBlocked, WaitRow, r

\* Where a pass goes, and the outcome of a file, keep its shape.
LEMMA GoTyped ==
    ASSUME m \in Passes, NEW at \in Steps, Go(at)
    PROVE  m' \in Passes
  BY DEF Passes, Go

LEMMA OutcomeTyped ==
    ASSUME m \in Passes, NEW p \in {"mkv", "iso"}, NEW o \in Outcomes, Outcome(p, o)
    PROVE  m' \in Passes
  <1>1. "judge" \in Steps /\ "deliver" \in Steps
    BY DEF Steps
  <1>2. m.todo \ {p} \in SUBSET {"mkv", "iso"} /\ m.out \cup {o} \in SUBSET Outcomes
    BY DEF Passes
  <1>3. m' = [m EXCEPT !.todo = m.todo \ {p}, !.out = m.out \cup {o}, !.part = "mkv",
                       !.at = IF m.todo = {p} THEN "judge" ELSE "deliver"]
    BY DEF Outcome
  <1> QED
    BY <1>1, <1>2, <1>3 DEF Passes

LEMMA TriedTyped ==
    ASSUME m \in Passes, NEW p \in {"mkv", "iso"}, Fails(p) \/ Published(p)
    PROVE  m' \in Passes
  <1>1. "settle" \in Steps /\ "failed" \in Outcomes /\ "unsupported" \in Outcomes
    BY DEF Steps, Outcomes
  <1>2. CASE m' = [m EXCEPT !.at = "settle"]
    BY <1>1, <1>2 DEF Passes
  <1>3. CASE \E o \in {"failed", "unsupported"} : Outcome(p, o)
    BY <1>1, <1>3, OutcomeTyped
  <1> QED
    BY <1>2, <1>3 DEF Fails, Published

LEMMA JournalTyped ==
    ASSUME journal \in [Jobs -> Journals], NEW j \in Jobs, NEW new \in Journals
    PROVE  Saved(j, new) \/ SaveFails(j, new) => journal' \in [Jobs -> Journals]
  BY DEF Saved, SaveFails

LEMMA BeginTyped ==
    ASSUME TypeOK, NEW j \in Jobs, Begin(j)
    PROVE  TypeOK'
  <1>0. /\ journal[j] \in Journals /\ row[j] \in Rows /\ m \in Passes
        /\ journal \in [Jobs -> Journals] /\ row \in [Jobs -> Rows]
        /\ linked \subseteq Jobs /\ acts \in 0 .. MaxActs
        /\ LibraryOK /\ StagingOK /\ RequestOK /\ HistoryOK
    BY TypeParts
  <1>1. CASE LoadFails(j)
    BY <1>1, EndTyped, RowsTyped DEF LoadFails, EndWith
  <1>2. CASE BeginRequested(j)
    <2> DEFINE new == [journal[j] EXCEPT !.tries = 0, !.until = "none"]
    <2>1. new \in Journals
      BY <1>0 DEF Journals
    <2>2. journal' \in [Jobs -> Journals]
      BY <1>0, <1>2, <2>1, JournalTyped DEF BeginRequested
    <2>3. row' \in [Jobs -> Rows]
      BY <1>0, <1>2, RowsTyped DEF BeginRequested
    <2>4. m' \in Passes
      <3>1. "check" \in Steps /\ Idle \in Passes
        BY ConstantsTyped DEF Steps
      <3>2. \A how \in {"due", "retry", "recreate"} :
                [Idle EXCEPT !.at = "check", !.job = j, !.how = how] \in Passes
        BY <3>1 DEF Passes
      <3>3. request[j] \in {"retry", "recreate"}
        BY <1>0, <1>2 DEF BeginRequested, RequestOK
      <3> QED
        BY <1>0, <1>2, <3>2, <3>3 DEF BeginRequested
    <2>5. RequestOK' /\ HistoryOK'
      BY <1>0, <1>2 DEF BeginRequested, RequestOK, HistoryOK
    <2>6. LibraryOK' /\ StagingOK' /\ linked' = linked /\ acts' = acts
      BY <1>0, <1>2, Untouched DEF BeginRequested
    <2> QED
      BY <1>0, <2>2, <2>3, <2>4, <2>5, <2>6, TypeAfter
  <1>3. CASE BeginDue(j)
    <2>1. m' \in Passes
      <3>1. "check" \in Steps /\ Idle \in Passes
        BY ConstantsTyped DEF Steps
      <3> QED
        BY <1>3, <3>1 DEF BeginDue, Passes
    <2> QED
      BY <1>0, <1>3, <2>1, Untouched, TypeAfter DEF BeginDue, memory
  <1>4. CASE Restore(j)
    <2>1. [row[j] EXCEPT !.tries = journal[j].tries, !.at = journal[j].until] \in Rows
      BY <1>0, <1>4 DEF Restore, Stands, Rows, Journals
    <2>2. row' \in [Jobs -> Rows]
      BY <1>0, <1>4, <2>1 DEF Restore, EndWith
    <2> QED
      BY <1>4, <2>2, EndTyped DEF Restore, EndWith
  <1> QED
    BY <1>1, <1>2, <1>3, <1>4 DEF Begin

LEMMA PlanTyped ==
    ASSUME TypeOK, PassKnows,
           \/ CheckFails \/ CheckPasses
           \/ Plan \/ PlanUncertain \/ PlanHeld \/ Freeze \/ FreezeFails \/ Recreate
           \/ Locks \/ LocksFail \/ LocksBusy
    PROVE  TypeOK'
  <1>0. /\ m \in Passes /\ journal \in [Jobs -> Journals] /\ row \in [Jobs -> Rows]
        /\ linked \subseteq Jobs /\ acts \in 0 .. MaxActs
        /\ LibraryOK /\ StagingOK /\ RequestOK /\ HistoryOK
    BY TypeParts
  <1>1. m.at # "idle" => m.job \in Jobs /\ row[m.job] \in Rows
    BY <1>0 DEF PassKnows
  <1>2. CASE CheckFails
    <2>1. row' \in [Jobs -> Rows]
      BY <1>1, <1>2, RowsTyped DEF CheckFails, EndWith
    <2> QED
      BY <1>2, <2>1, EndTyped DEF CheckFails, EndWith
  <1>3. CASE CheckPasses
    <2>1. m' \in Passes
      BY <1>0, <1>3 DEF CheckPasses, AfterCheck, Passes, Steps
    <2>2. row' \in [Jobs -> Rows]
      BY <1>1, <1>3, RowsTyped DEF CheckPasses
    <2> QED
      BY <1>0, <1>3, <2>1, <2>2, Untouched, TypeAfter DEF CheckPasses
  <1>4. CASE Plan
    <2>1. m' \in Passes
      BY <1>0, <1>4, ConstantsTyped DEF Plan, Passes, Steps
    <2> QED
      BY <1>0, <1>4, <2>1, Untouched, TypeAfter DEF Plan, memory
  <1>5. CASE PlanUncertain
    BY <1>1, <1>5, RowsTyped, EndTyped DEF PlanUncertain, EndWith
  <1>6. CASE PlanHeld
    <2>1. Hold(m.job, Recorded(row[m.job])) /\ m.job \in Jobs /\ Recorded(row[m.job]) \in Rows
      BY <1>1, <1>6, RecordedTyped DEF PlanHeld
    <2>2. journal' \in [Jobs -> Journals] /\ row' \in [Jobs -> Rows] /\ HistoryOK'
      BY <2>1, HoldTyped
    <2>3. m' \in Passes
      BY <1>6, ConstantsTyped DEF PlanHeld, Stop
    <2> QED
      BY <1>0, <1>6, <2>2, <2>3, Untouched, TypeAfter DEF PlanHeld
  <1>7. CASE Freeze
    <2>1. m.job \in Jobs /\ m.variant \in Variants
      BY <1>1, <1>7 DEF Freeze, PassKnows
    <2>2. [NoJournal EXCEPT !.variant = m.variant] \in Journals
      BY <2>1, ConstantsTyped DEF Journals
    <2>3. journal' \in [Jobs -> Journals]
      BY <1>0, <1>7, <2>1, <2>2, JournalTyped DEF Freeze
    <2>4. m' \in Passes
      <3>1. "locks" \in Steps /\ 0 \in 0 .. MaxVariant
        BY BoundsAssumption DEF Steps
      <3>2. [m EXCEPT !.at = "locks", !.variant = 0] \in Passes
        BY <1>0, <3>1 DEF Passes
      <3> QED
        BY <1>7, <3>2, ConstantsTyped DEF Freeze, Stop
    <2>5. row' \in [Jobs -> Rows]
      BY <1>0, <1>7, ConstantsTyped DEF Freeze
    <2>6. LibraryOK' /\ StagingOK'
      BY <1>0, <1>7 DEF Freeze, LibraryOK, StagingOK
    <2> QED
      BY <1>0, <1>7, <2>3, <2>4, <2>5, <2>6, Untouched, TypeAfter DEF Freeze
  <1>8. CASE FreezeFails
    BY <1>1, <1>8, RowsTyped, EndTyped DEF FreezeFails, EndWith
  <1>9. CASE Recreate
    <2>1. m' \in Passes
      <3>1. "locks" \in Steps
        BY DEF Steps
      <3> QED
        BY <1>0, <1>9, <3>1, GoTyped, ConstantsTyped DEF Recreate, Stop
    <2>2. row' \in [Jobs -> Rows]
      BY <1>0, <1>1, <1>9, RowsTyped DEF Recreate
    <2>3. LibraryOK'
      BY <1>0, <1>9 DEF Recreate, LibraryOK
    <2> QED
      BY <1>0, <1>9, <2>1, <2>2, <2>3, Untouched, TypeAfter DEF Recreate
  <1>10. CASE Locks
    <2>1. m' \in Passes
      BY <1>0, <1>1, <1>10, ConstantsTyped DEF Locks, Passes, Steps
    <2> QED
      BY <1>0, <1>10, <2>1, Untouched, TypeAfter DEF Locks, memory
  <1>11. CASE LocksFail
    BY <1>1, <1>11, RowsTyped, EndTyped DEF LocksFail, EndWith
  <1>12. CASE LocksBusy
    <2>1. row' \in [Jobs -> Rows] /\ m' \in Passes
      BY <1>0, <1>1, <1>12, RowsTyped, ConstantsTyped DEF LocksBusy, Stop
    <2>2. acts' \in 0 .. MaxActs
      BY <1>0, <1>12, BoundsAssumption DEF LocksBusy, Act
    <2> QED
      BY <1>0, <1>12, <2>1, <2>2, Untouched, TypeAfter DEF LocksBusy
  <1> QED
    BY <1>2, <1>3, <1>4, <1>5, <1>6, <1>7, <1>8, <1>9, <1>10, <1>11, <1>12

LEMMA DeliverTyped ==
    ASSUME TypeOK, PassKnows, Deliver
    PROVE  TypeOK'
  <1>0. /\ m \in Passes /\ journal \in [Jobs -> Journals] /\ row \in [Jobs -> Rows]
        /\ linked \subseteq Jobs /\ acts \in 0 .. MaxActs
        /\ LibraryOK /\ StagingOK /\ RequestOK /\ HistoryOK
    BY TypeParts
  <1>1. m.at \in {"deliver", "rename", "copy", "settle"} =>
            m.job \in Jobs /\ row[m.job] \in Rows /\ journal[m.job] \in Journals
    BY <1>0 DEF PassKnows
  <1>2. m.part \in {"mkv", "iso"}
    BY <1>0 DEF Passes
  <1>3. Outcomes = {"moved", "skipped", "collision", "failed", "held", "unsupported", "stalled"}
    BY DEF Outcomes
  <1>4. \A p \in {"mkv", "iso"} :
            /\ [journal[m.job] EXCEPT !.completed = @ \cup {p}] \in Journals
            /\ [journal[m.job] EXCEPT !.prepared = @ \cup {p}] \in Journals
        \/ m.at \notin {"deliver", "rename", "copy", "settle"}
    BY <1>1 DEF Journals
  <1>5. ASSUME NEW p \in {"mkv", "iso"}, Refuses(p) PROVE TypeOK'
    <2>1. m' \in Passes
      BY <1>0, <1>3, <1>5, OutcomeTyped DEF Refuses
    <2> QED
      BY <1>0, <1>5, <2>1, Untouched, TypeAfter DEF Refuses, memory
  <1>6. ASSUME NEW p \in {"mkv", "iso"}, Adopt(p) PROVE TypeOK'
    <2>1. m' \in Passes
      BY <1>0, <1>3, <1>6, OutcomeTyped DEF Adopt
    <2>2. journal' \in [Jobs -> Journals]
      BY <1>0, <1>1, <1>4, <1>6, JournalTyped DEF Adopt, Delivers
    <2> QED
      BY <1>0, <1>6, <2>1, <2>2, Untouched, TypeAfter DEF Adopt, memory
  <1>7. ASSUME NEW p \in {"mkv", "iso"}, Prepare(p) PROVE TypeOK'
    <2>1. ASSUME m' = [m EXCEPT !.at = "rename", !.part = p] PROVE m' \in Passes
      <3>1. "rename" \in Steps
        BY DEF Steps
      <3> QED
        BY <1>0, <2>1, <3>1 DEF Passes
    <2>2. m' \in Passes
      BY <1>0, <1>3, <1>7, <2>1, OutcomeTyped DEF Prepare
    <2>3. journal' \in [Jobs -> Journals]
      BY <1>0, <1>1, <1>4, <1>7, JournalTyped DEF Prepare, Delivers
    <2> QED
      BY <1>0, <1>7, <2>2, <2>3, Untouched, TypeAfter DEF Prepare, memory
  <1>8. CASE Rename
    <2>1. "copy" \in Steps
      BY DEF Steps
    <2>2. m' \in Passes
      BY <1>0, <1>2, <1>3, <1>8, <2>1, OutcomeTyped, TriedTyped, GoTyped DEF Rename
    <2>3. LibraryOK' /\ StagingOK'
      BY <1>0, <1>1, <1>8 DEF Rename, LibraryOK, StagingOK
    <2> QED
      BY <1>0, <1>8, <2>2, <2>3, Untouched, TypeAfter DEF Rename, memory
  <1>9. CASE Copy
    <2>1. m' \in Passes
      BY <1>0, <1>2, <1>3, <1>9, OutcomeTyped, TriedTyped DEF Copy
    <2>2. journal' \in [Jobs -> Journals]
      BY <1>0, <1>1, <1>2, <1>4, <1>9, JournalTyped DEF Copy
    <2>3. LibraryOK'
      BY <1>0, <1>1, <1>9 DEF Copy, LibraryOK
    <2> QED
      BY <1>0, <1>9, <2>1, <2>2, <2>3, Untouched, TypeAfter DEF Copy, memory
  <1>10. CASE Stall
    <2>1. [Recorded(row[m.job]) EXCEPT !.busy = TRUE, !.at = "held"] \in Rows /\ m.job \in Jobs
      BY <1>1, <1>10, RecordedTyped DEF Stall, Rows
    <2>2. journal' \in [Jobs -> Journals] /\ row' \in [Jobs -> Rows] /\ HistoryOK'
      BY <1>10, <2>1, ScheduleTyped DEF Stall
    <2>3. "stalled" \in Steps
      BY DEF Steps
    <2>4. m' \in Passes
      BY <1>0, <1>10, <2>3, GoTyped DEF Stall
    <2> QED
      BY <1>0, <1>10, <2>2, <2>4, Untouched, TypeAfter DEF Stall
  <1>11. CASE Settle
    <2>1. m' \in Passes
      BY <1>0, <1>2, <1>3, <1>11, OutcomeTyped DEF Settle
    <2>2. journal' \in [Jobs -> Journals]
      BY <1>0, <1>1, <1>2, <1>4, <1>11, JournalTyped DEF Settle
    <2> QED
      BY <1>0, <1>11, <2>1, <2>2, Untouched, TypeAfter DEF Settle, memory
  <1> QED
    BY <1>5, <1>6, <1>7, <1>8, <1>9, <1>10, <1>11 DEF Deliver

LEMMA JudgeTyped ==
    ASSUME TypeOK, PassKnows, Judge
    PROVE  TypeOK'
  <1>0. /\ m \in Passes /\ journal \in [Jobs -> Journals] /\ row \in [Jobs -> Rows]
        /\ linked \subseteq Jobs /\ acts \in 0 .. MaxActs
        /\ LibraryOK /\ StagingOK /\ RequestOK /\ HistoryOK
    BY TypeParts
  <1>1. m.at = "judge"
    BY DEF Judge, FinishStall, JudgeUnsupported, JudgeFailed, JudgeDelivered, Judges
  <1>2. m.job \in Jobs /\ row[m.job] \in Rows /\ Recorded(row[m.job]) \in Rows
    BY <1>0, <1>1, RecordedTyped DEF PassKnows
  <1>3. ASSUME Judges, journal' \in [Jobs -> Journals], row' \in [Jobs -> Rows], HistoryOK'
        PROVE  TypeOK'
    BY <1>0, <1>3, ConstantsTyped, Untouched, TypeAfter DEF Judges, Stop
  <1>4. CASE FinishStall
    <2>1. row[m.job].tries \in Nat /\ [row[m.job] EXCEPT !.resume = "no"] \in Rows
      BY <1>2 DEF Rows
    <2>2. CASE /\ CommitRetry(m.job, [row[m.job] EXCEPT !.resume = "no"], row[m.job].tries,
                              RetryDelay(row[m.job].tries))
               /\ UNCHANGED <<taken, spent>>
      BY <1>2, <1>3, <1>4, <2>1, <2>2, CommitRetryTyped, RetryDelayTyped
      DEF FinishStall, HistoryOK, TypeOK
    <2>3. CASE /\ row' = [row EXCEPT ![m.job] = [@ EXCEPT !.at = "held", !.resume = "no"]]
               /\ UNCHANGED <<journal, history>>
      <3>1. [row[m.job] EXCEPT !.at = "held", !.resume = "no"] \in Rows
        BY <1>2 DEF Rows
      <3> QED
        BY <1>0, <1>2, <1>3, <1>4, <2>3, <3>1, Untouched DEF FinishStall
    <2>4. CASE UNCHANGED <<journal, row, history>>
      BY <1>0, <1>3, <1>4, <2>4, Untouched DEF FinishStall
    <2> QED
      BY <1>4, <2>2, <2>3, <2>4 DEF FinishStall
  <1>5. CASE JudgeUnsupported
    BY <1>2, <1>3, <1>5, HoldTyped DEF JudgeUnsupported
  <1>6. CASE JudgeFailed
    BY <1>0, <1>2, <1>3, <1>6, ScheduleTyped, RowsTyped, Untouched DEF JudgeFailed
  <1>7. CASE JudgeDelivered
    <2>1. "verify" \in Steps
      BY DEF Steps
    <2> QED
      BY <1>0, <1>7, <2>1, GoTyped, Untouched, TypeAfter DEF JudgeDelivered, memory
  <1> QED
    BY <1>4, <1>5, <1>6, <1>7 DEF Judge

LEMMA FinishTyped ==
    ASSUME TypeOK, PassKnows, Finish
    PROVE  TypeOK'
  <1>0. /\ m \in Passes /\ journal \in [Jobs -> Journals] /\ row \in [Jobs -> Rows]
        /\ linked \subseteq Jobs /\ acts \in 0 .. MaxActs
        /\ LibraryOK /\ StagingOK /\ RequestOK /\ HistoryOK
    BY TypeParts
  <1>1. m.at # "idle"
    BY DEF Finish, Verify, Link, LinkFails, Mark, Clean, CleanBlocked, Remove, Last
  <1>2. m.job \in Jobs /\ row[m.job] \in Rows /\ journal[m.job] \in Journals
    BY <1>0, <1>1 DEF PassKnows
  <1>3. {"clean", "link", "mark", "remove", "last"} \subseteq Steps
    BY DEF Steps
  <1>4. CASE Verify
    <2>1. CASE UNCHANGED row /\ Go(IF journal[m.job].announced THEN "clean" ELSE "link")
      <3>1. m' \in Passes
        BY <1>0, <1>3, <2>1, GoTyped
      <3> QED
        BY <1>0, <1>4, <2>1, <3>1, Untouched, TypeAfter DEF Verify
    <2>2. CASE RecordError(m.job) /\ Stop
      BY <1>2, <1>4, <2>2, RowsTyped, EndTyped DEF Verify
    <2> QED
      BY <1>4, <2>1, <2>2 DEF Verify
  <1>5. CASE Link
    <2>1. m' \in Passes
      BY <1>0, <1>3, <1>5, GoTyped DEF Link
    <2> QED
      BY <1>0, <1>2, <1>5, <2>1, Untouched, TypeAfter DEF Link, memory
  <1>6. CASE LinkFails
    <2>1. journal' \in [Jobs -> Journals] /\ row' \in [Jobs -> Rows] /\ HistoryOK'
      BY <1>2, <1>6, RecordedTyped, ScheduleTyped DEF LinkFails
    <2>2. acts' \in 0 .. MaxActs /\ m' \in Passes
      BY <1>0, <1>6, BoundsAssumption, ConstantsTyped DEF LinkFails, Act, Stop
    <2> QED
      BY <1>0, <1>6, <2>1, <2>2, Untouched, TypeAfter DEF LinkFails
  <1>7. CASE Mark
    <2>1. [journal[m.job] EXCEPT !.announced = TRUE] \in Journals
      BY <1>2 DEF Journals
    <2>2. journal' \in [Jobs -> Journals]
      BY <1>0, <1>2, <1>7, <2>1, JournalTyped DEF Mark
    <2>3. m' \in Passes
      BY <1>0, <1>3, <1>7, GoTyped DEF Mark
    <2> QED
      BY <1>0, <1>7, <2>2, <2>3, Untouched, TypeAfter DEF Mark, memory
  <1>8. CASE Clean
    <2>1. m' \in Passes
      BY <1>0, <1>2, <1>3, <1>8, ConstantsTyped DEF Clean, Passes
    <2> QED
      BY <1>0, <1>8, <2>1, Untouched, TypeAfter DEF Clean, memory
  <1>9. CASE CleanBlocked
    BY <1>2, <1>9, RowsTyped, EndTyped DEF CleanBlocked, EndWith
  <1>10. ASSUME NEW p \in {"mkv", "iso"}, Remove(p) PROVE TypeOK'
    <2>1. m' \in Passes
      BY <1>0, <1>3, <1>10 DEF Remove, Passes
    <2>2. StagingOK'
      BY <1>0, <1>10 DEF Remove, StagingOK
    <2> QED
      BY <1>0, <1>10, <2>1, <2>2, Untouched, TypeAfter DEF Remove, memory
  <1>11. CASE Last
    <2>1. m' \in Passes /\ journal' \in [Jobs -> Journals] /\ row' \in [Jobs -> Rows]
      BY <1>0, <1>2, <1>11, ConstantsTyped DEF Last, Stop
    <2>2. StagingOK' /\ RequestOK'
      BY <1>0, <1>2, <1>11 DEF Last, StagingOK, RequestOK
    <2> QED
      BY <1>0, <1>11, <2>1, <2>2, Untouched, TypeAfter DEF Last
  <1> QED
    BY <1>4, <1>5, <1>6, <1>7, <1>8, <1>9, <1>10, <1>11 DEF Finish

LEMMA OthersTyped ==
    ASSUME TypeOK, PassKnows,
           WorkerReturns \/ Outside \/ \E j \in Jobs : TimePasses(j) \/ Retry(j)
    PROVE  TypeOK'
  <1>0. /\ m \in Passes /\ journal \in [Jobs -> Journals] /\ row \in [Jobs -> Rows]
        /\ linked \subseteq Jobs /\ acts \in 0 .. MaxActs
        /\ LibraryOK /\ StagingOK /\ RequestOK /\ HistoryOK
    BY TypeParts
  <1>1. Act => acts' \in 0 .. MaxActs
    BY <1>0, BoundsAssumption DEF Act
  <1>2. ASSUME NEW j \in Jobs, TimePasses(j) PROVE TypeOK'
    <2>1. [row[j] EXCEPT !.at = "due"] \in Rows
      BY <1>0 DEF Rows
    <2> QED
      BY <1>0, <1>2, <2>1, Untouched, TypeAfter DEF TimePasses
  <1>3. ASSUME NEW j \in Jobs, Retry(j) PROVE TypeOK'
    <2>1. row' \in [Jobs -> Rows]
      BY <1>0, <1>3, ConstantsTyped DEF Retry
    <2>2. RequestOK' /\ HistoryOK'
      BY <1>0, <1>3 DEF Retry, Consent, RequestOK, HistoryOK
    <2> QED
      BY <1>0, <1>1, <1>3, <2>1, <2>2, Untouched, TypeAfter DEF Retry
  <1>4. CASE WorkerReturns
    <2>0. m.job \in Jobs /\ row[m.job] \in Rows
      BY <1>0, <1>4 DEF WorkerReturns, PassKnows
    <2>1. m.job \in Jobs /\ [row[m.job] EXCEPT !.busy = FALSE] \in Rows
      BY <2>0 DEF Rows
    <2>2. "judge" \in Steps /\ m.out \cup {"stalled"} \in SUBSET Outcomes
      BY <1>0 DEF Steps, Outcomes, Passes
    <2>3. m' \in Passes
      BY <1>0, <1>4, <2>2 DEF WorkerReturns, Passes
    <2>4. LibraryOK'
      BY <1>0, <1>4, <2>1 DEF WorkerReturns, LibraryOK
    <2> QED
      BY <1>0, <1>4, <2>1, <2>3, <2>4, Untouched, TypeAfter DEF WorkerReturns
  <1>5. CASE People
    <2>1. LibraryOK' /\ HistoryOK'
      BY <1>0, <1>5 DEF People, LibraryOK, HistoryOK, OnlyCopies
    <2> QED
      BY <1>0, <1>1, <1>5, <2>1, Untouched, TypeAfter DEF People, memory
  <1>6. CASE FolderRemoved
    <2>1. LibraryOK' /\ HistoryOK'
      BY <1>0, <1>6 DEF FolderRemoved, LibraryOK, HistoryOK, OnlyCopies
    <2> QED
      BY <1>0, <1>1, <1>6, <2>1, Untouched, TypeAfter DEF FolderRemoved, memory
  <1>7. CASE ShareChanges
    <2>1. LibraryOK'
      BY <1>0, <1>7 DEF ShareChanges, LibraryOK
    <2> QED
      BY <1>0, <1>1, <1>7, <2>1, Untouched, TypeAfter DEF ShareChanges, memory
  <1>8. CASE StagingChanges
    <2>1. StagingOK'
      BY <1>0, <1>8 DEF StagingChanges, StagingOK
    <2> QED
      BY <1>0, <1>1, <1>8, <2>1, Untouched, TypeAfter DEF StagingChanges, memory
  <1>9. CASE Crash
    <2>1. RequestOK' /\ row' \in [Jobs -> Rows] /\ m' \in Passes
      BY <1>9, ConstantsTyped DEF Crash, RequestOK
    <2> QED
      BY <1>0, <1>1, <1>9, <2>1, Untouched, TypeAfter DEF Crash
  <1> QED
    BY <1>2, <1>3, <1>4, <1>5, <1>6, <1>7, <1>8, <1>9 DEF Outside

\* One step of the program keeps the shape of the state.
LEMMA TypeStep ==
    ASSUME TypeOK, PassKnows, [Next]_vars
    PROVE  TypeOK'
  <1>1. CASE Next
    <2>1. ASSUME NEW j \in Jobs, Begin(j) PROVE TypeOK'
      BY <2>1, BeginTyped
    <2>2. CASE Pass
      BY <2>2, PlanTyped, DeliverTyped, JudgeTyped, FinishTyped DEF Pass
    <2>3. CASE WorkerReturns \/ Outside \/ \E j \in Jobs : TimePasses(j) \/ Retry(j)
      BY <2>3, OthersTyped
    <2> QED
      BY <1>1, <2>1, <2>2, <2>3 DEF Next
  <1>2. CASE UNCHANGED vars
    BY <1>2, TypeParts, Untouched, TypeAfter DEF vars, memory
  <1> QED
    BY <1>1, <1>2

-----------------------------------------------------------------------------
(* Where a pass is *)

\* The plans and announcements of the journals stay as they are.
PlansStay ==
    \A k \in Jobs : journal'[k].variant = journal[k].variant
                    /\ journal'[k].announced = journal[k].announced

LEMMA CommitKeepsPlans ==
    ASSUME TypeOK, NEW j \in Jobs, NEW r \in Rows, Schedule(j, r) \/ Hold(j, r)
    PROVE  PlansStay
  <1>1. r.tries \in Nat /\ r.tries + 1 \in Nat
    BY DEF Rows
  <1>2. RetryDelay(r.tries + 1) \in {"wait", "held"}
    BY <1>1, RetryDelayTyped
  <1>3. \/ CommitRetry(j, r, r.tries + 1, RetryDelay(r.tries + 1))
        \/ CommitRetry(j, r, r.tries, "held")
    BY DEF Schedule, Hold
  <1> QED
    BY <1>1, <1>2, <1>3, CommitRetryTyped DEF PlansStay

LEMMA SaveKeepsPlans ==
    ASSUME TypeOK, NEW j \in Jobs, NEW new \in Journals, Saved(j, new) \/ SaveFails(j, new),
           new.variant = journal[j].variant, new.announced = journal[j].announced
    PROVE  PlansStay
  <1>1. journal \in [Jobs -> Journals]
    BY TypeParts
  <1> QED
    BY <1>1 DEF Saved, SaveFails, PlansStay

\* A pass that ends leaves nothing to know.
LEMMA EndsOK ==
    ASSUME PassOK, Stop, PlansStay, linked' = linked
    PROVE  PassOK'
  <1>1. m'.at = "idle"
    BY DEF Stop, Idle
  <1> QED
    BY <1>1 DEF PassOK, PassKnows, PassHolds, StillReserved, AnnouncedIsLinked, PlansStay

LEMMA StaysOK ==
    ASSUME PassOK, UNCHANGED <<m, staged, gone, journal, linked>>
    PROVE  PassOK'
  BY DEF PassOK, PassKnows, PassHolds, StillReserved, AnnouncedIsLinked, Frozen

\* A pass over a frozen plan goes on.
LEMMA GoesOnOK ==
    ASSUME PassOK, m.at # "idle", m'.job = m.job, Frozen(m.job), PlansStay,
           gone' = gone, linked \subseteq linked',
           m'.at \notin {"check", "plan", "freeze"}, PassHolds',
           m'.at \in {"mark", "clean", "remove", "last"} => m.job \in linked'
    PROVE  PassOK'
  BY DEF PassOK, PassKnows, StillReserved, AnnouncedIsLinked, Frozen, PlansStay

LEMMA BeginOK ==
    ASSUME TypeOK, PassOK, NEW j \in Jobs, Begin(j)
    PROVE  PassOK'
  <1>1. CASE LoadFails(j) \/ Restore(j)
    BY <1>1, EndsOK DEF LoadFails, Restore, EndWith, PlansStay
  <1>2. CASE BeginDue(j)
    <2>1. m'.at = "check" /\ m'.job = j
      BY <1>2 DEF BeginDue, Idle
    <2>2. UNCHANGED <<gone, journal, linked>> /\ j \notin gone
      BY <1>2 DEF BeginDue, Takes, staging
    <2> QED
      BY <2>1, <2>2 DEF PassOK, PassKnows, PassHolds, StillReserved, AnnouncedIsLinked
  <1>3. CASE BeginRequested(j)
    <2> DEFINE new == [journal[j] EXCEPT !.tries = 0, !.until = "none"]
    <2>1. journal[j] \in Journals
      BY TypeParts
    <2>2. new \in Journals /\ new.variant = journal[j].variant /\ new.announced = journal[j].announced
      BY <2>1 DEF Journals
    <2>3. PlansStay
      BY <1>3, <2>2, SaveKeepsPlans DEF BeginRequested
    <2>4. m.at = "idle" /\ j \notin gone /\ gone' = gone /\ linked' = linked
      BY <1>3 DEF BeginRequested, Takes, staging
    <2>5. m' = m \/ (m'.at = "check" /\ m'.job = j)
      BY <1>3 DEF BeginRequested, Idle
    <2> QED
      BY <2>3, <2>4, <2>5 DEF PassOK, PassKnows, PassHolds, StillReserved, AnnouncedIsLinked, PlansStay
  <1> QED
    BY <1>1, <1>2, <1>3 DEF Begin

LEMMA PlanOK ==
    ASSUME TypeOK, PassOK,
           \/ CheckFails \/ CheckPasses
           \/ Plan \/ PlanUncertain \/ PlanHeld \/ Freeze \/ FreezeFails \/ Recreate
           \/ Locks \/ LocksFail \/ LocksBusy
    PROVE  PassOK'
  <1>0. m \in Passes /\ row \in [Jobs -> Rows] /\ journal \in [Jobs -> Journals]
    BY TypeParts
  <1>1. m.at # "idle" => m.job \in Jobs \ gone
    BY DEF PassOK, PassKnows
  <1>2. CASE CheckFails \/ PlanUncertain \/ FreezeFails \/ LocksFail \/ LocksBusy
    BY <1>2, EndsOK DEF CheckFails, PlanUncertain, FreezeFails, LocksFail, LocksBusy, EndWith, PlansStay
  <1>3. CASE CheckPasses
    <2>1. m'.at = AfterCheck(m.job) /\ m'.job = m.job
      BY <1>0, <1>3 DEF CheckPasses, Passes
    <2>2. UNCHANGED <<gone, journal, linked>> /\ m.at = "check"
      BY <1>3 DEF CheckPasses, staging
    <2> QED
      BY <1>1, <2>1, <2>2
      DEF AfterCheck, PassOK, PassKnows, PassHolds, StillReserved, AnnouncedIsLinked, Frozen
  <1>4. CASE Plan
    <2>1. PICK n \in Variants : Untaken(m.job, n) /\ m' = [m EXCEPT !.at = "freeze", !.variant = n]
      BY <1>4 DEF Plan
    <2>2. m'.at = "freeze" /\ m'.variant = n /\ m'.job = m.job
      BY <1>0, <2>1 DEF Passes
    <2>3. UNCHANGED <<gone, journal, linked>> /\ m.at = "plan"
      BY <1>4 DEF Plan, staging
    <2>4. ASSUME NEW k \in Jobs \ ({m.job} \cup gone) PROVE journal[k].variant # n
      <3>1. "mkv" \in Parts(m.job) /\ "mkv" \in Parts(k)
        BY <1>1, <2>3, ConstantsTyped
      <3>2. Claim(m.job, "mkv", n) = "free"
        BY <2>1, <3>1 DEF Untaken
      <3>3. ~Reserved(m.job, "mkv", n)
        BY <3>2 DEF Claim
      <3> QED
        BY <3>1, <3>3 DEF Reserved
    <2> QED
      BY <1>1, <2>2, <2>3, <2>4 DEF PassOK, PassKnows, PassHolds, StillReserved, AnnouncedIsLinked, Frozen
  <1>5. CASE PlanHeld
    <2>1. Recorded(row[m.job]) \in Rows /\ m.job \in Jobs
      BY <1>0, <1>1, <1>5, RecordedTyped DEF PlanHeld
    <2>2. PlansStay
      BY <1>5, <2>1, CommitKeepsPlans DEF PlanHeld
    <2> QED
      BY <1>5, <2>2, EndsOK DEF PlanHeld
  <1>6. CASE Freeze
    <2>1. m.job \in Jobs \ gone /\ m.variant \in Variants /\ m.at = "freeze"
      BY <1>6 DEF Freeze, PassOK, PassKnows
    <2>2. journal'[m.job] = [NoJournal EXCEPT !.variant = m.variant]
      BY <1>0, <1>6, <2>1 DEF Freeze, Saved
    <2>3. journal'[m.job].variant = m.variant /\ journal'[m.job].announced = FALSE
      BY <2>2 DEF NoJournal
    <2>4. \A k \in Jobs : k # m.job => journal'[k] = journal[k]
      BY <1>0, <1>6, <2>1 DEF Freeze, Saved
    <2>5. (m'.at = "locks" /\ m'.job = m.job) \/ m'.at = "idle"
      <3>1. CASE m' = [m EXCEPT !.at = "locks", !.variant = 0]
        BY <1>0, <3>1 DEF Passes
      <3>2. CASE Stop
        BY <3>2 DEF Stop, Idle
      <3> QED
        BY <1>6, <3>1, <3>2 DEF Freeze
    <2>6. gone' = gone /\ linked' = linked
      BY <1>6 DEF Freeze
    <2>7. m.variant # 0
      BY <2>1 DEF Variants
    <2>8. AnnouncedIsLinked'
      BY <2>3, <2>4, <2>5, <2>6 DEF PassOK, AnnouncedIsLinked
    <2> QED
      BY <2>1, <2>3, <2>5, <2>6, <2>7, <2>8 DEF PassOK, PassKnows, PassHolds, StillReserved, Frozen
  <1>7. CASE Recreate
    <2>1. CASE Go("locks")
      <3>1. m'.at = "locks" /\ m'.job = m.job
        BY <1>0, <2>1 DEF Go, Passes
      <3>2. UNCHANGED <<journal, gone, linked>> /\ m.at = "recreate"
        BY <1>7 DEF Recreate, staging
      <3> QED
        BY <3>1, <3>2, GoesOnOK DEF PassOK, PassKnows, PassHolds, PlansStay
    <2>2. CASE Stop
      BY <1>7, <2>2, EndsOK DEF Recreate, PlansStay
    <2> QED
      BY <1>7, <2>1, <2>2 DEF Recreate
  <1>8. CASE Locks
    <2>1. m'.at = "deliver" /\ m'.job = m.job
      BY <1>0, <1>8 DEF Locks, Passes
    <2>2. UNCHANGED <<journal, gone, linked>> /\ m.at = "locks"
      BY <1>8 DEF Locks, staging
    <2> QED
      BY <2>1, <2>2, GoesOnOK DEF PassOK, PassKnows, PassHolds, PlansStay
  <1> QED
    BY <1>2, <1>3, <1>4, <1>5, <1>6, <1>7, <1>8

\* After the outcome of a file the pass delivers the next one or judges the batch.
LEMMA OutcomeOK ==
    ASSUME TypeOK, PassOK, m.at \in {"deliver", "rename", "copy", "settle"}, PlansStay,
           gone' = gone, linked' = linked, NEW p, NEW o, Outcome(p, o)
    PROVE  PassOK'
  <1>1. m \in Passes
    BY TypeParts
  <1>2. m'.job = m.job /\ m'.at \in {"deliver", "judge"}
    BY <1>1 DEF Outcome, Passes
  <1> QED
    BY <1>2, GoesOnOK DEF PassOK, PassKnows, PassHolds

LEMMA DeliverOK ==
    ASSUME TypeOK, PassOK, Deliver
    PROVE  PassOK'
  <1>0. m \in Passes /\ row \in [Jobs -> Rows] /\ journal \in [Jobs -> Journals]
    BY TypeParts
  <1>1. m.at \in {"deliver", "rename", "copy", "settle"}
    BY DEF Deliver, Refuses, Adopt, Prepare, Delivers, Rename, Copy, Stall, Settle
  <1>2. m.job \in Jobs \ gone /\ Frozen(m.job) /\ journal[m.job] \in Journals
    BY <1>0, <1>1 DEF PassOK, PassKnows
  <1>3. ASSUME NEW p PROVE
            LET c == [journal[m.job] EXCEPT !.completed = @ \cup {p}]
                q == [journal[m.job] EXCEPT !.prepared = @ \cup {p}]
            IN  /\ Saved(m.job, c) \/ SaveFails(m.job, c) => PlansStay
                /\ Saved(m.job, q) \/ SaveFails(m.job, q) => PlansStay
    BY <1>0, <1>2 DEF Saved, SaveFails, PlansStay, Journals
  <1>4. gone' = gone /\ linked' = linked
    BY DEF Deliver, Refuses, Adopt, Prepare, Rename, Copy, Stall, Settle, staging
  <1>5. ASSUME m'.at = "settle", m'.job = m.job, PlansStay PROVE PassOK'
    BY <1>1, <1>2, <1>4, <1>5, GoesOnOK DEF PassHolds
  <1>6. ASSUME NEW p \in {"mkv", "iso"}, Refuses(p) PROVE PassOK'
    <2>1. PlansStay
      BY <1>6 DEF Refuses, PlansStay
    <2> QED
      BY <1>1, <1>4, <1>6, <2>1, OutcomeOK DEF Refuses
  <1>7. ASSUME NEW p \in {"mkv", "iso"}, Adopt(p) PROVE PassOK'
    <2>1. PlansStay
      BY <1>3, <1>7 DEF Adopt
    <2> QED
      BY <1>1, <1>4, <1>7, <2>1, OutcomeOK DEF Adopt
  <1>8. ASSUME NEW p \in {"mkv", "iso"}, Prepare(p) PROVE PassOK'
    <2>1. PlansStay
      BY <1>3, <1>8 DEF Prepare
    <2>2. ASSUME m' = [m EXCEPT !.at = "rename", !.part = p] PROVE PassOK'
      <3>1. m'.at = "rename" /\ m'.job = m.job /\ m'.part = p
        BY <1>0, <2>2 DEF Passes
      <3>2. <<m.job, p>> \in staged'
        BY <1>8 DEF Prepare, staging
      <3> QED
        BY <1>1, <1>2, <1>4, <2>1, <3>1, <3>2, GoesOnOK DEF PassHolds
    <2> QED
      BY <1>1, <1>4, <1>8, <2>1, <2>2, OutcomeOK DEF Prepare
  <1>9. CASE Rename
    <2>1. PlansStay
      BY <1>9 DEF Rename, PlansStay
    <2>2. ASSUME Go("copy"), staged' = staged PROVE PassOK'
      <3>1. m'.at = "copy" /\ m'.job = m.job /\ m'.part = m.part
        BY <1>0, <2>2 DEF Go, Passes
      <3>2. <<m.job, m.part>> \in staged
        BY <1>9 DEF Rename, PassOK, PassHolds
      <3> QED
        BY <1>1, <1>2, <1>4, <2>1, <2>2, <3>1, <3>2, GoesOnOK DEF PassHolds
    <2>3. ASSUME Published(m.part) PROVE PassOK'
      <3>1. m' = [m EXCEPT !.at = "settle"] => m'.at = "settle" /\ m'.job = m.job
        BY <1>0 DEF Passes
      <3> QED
        BY <1>1, <1>4, <1>5, <2>1, <2>3, <3>1, OutcomeOK DEF Published
    <2>4. ASSUME Fails(m.part) PROVE PassOK'
      BY <1>1, <1>4, <2>1, <2>4, OutcomeOK DEF Fails
    <2> QED
      BY <1>1, <1>4, <1>9, <2>1, <2>2, <2>3, <2>4, OutcomeOK DEF Rename
  <1>10. CASE Copy
    <2>1. PlansStay
      BY <1>3, <1>10 DEF Copy, PlansStay
    <2>2. ASSUME Published(m.part) PROVE PassOK'
      <3>1. m' = [m EXCEPT !.at = "settle"] => m'.at = "settle" /\ m'.job = m.job
        BY <1>0 DEF Passes
      <3> QED
        BY <1>1, <1>4, <1>5, <2>1, <2>2, <3>1, OutcomeOK DEF Published
    <2>3. ASSUME Fails(m.part) PROVE PassOK'
      BY <1>1, <1>4, <2>1, <2>3, OutcomeOK DEF Fails
    <2> QED
      BY <1>1, <1>4, <1>10, <2>1, <2>2, <2>3, OutcomeOK DEF Copy
  <1>11. CASE Stall
    <2>0. Recorded(row[m.job]) \in Rows
      BY <1>0, <1>2, RecordedTyped
    <2>1. [Recorded(row[m.job]) EXCEPT !.busy = TRUE, !.at = "held"] \in Rows
      BY <2>0 DEF Rows
    <2>2. PlansStay
      BY <1>2, <1>11, <2>1, CommitKeepsPlans DEF Stall
    <2>3. m'.at = "stalled" /\ m'.job = m.job /\ m'.part = m.part
      BY <1>0, <1>11 DEF Stall, Go, Passes
    <2>4. <<m.job, m.part>> \in staged /\ staged' = staged
      BY <1>11 DEF Stall, staging, PassOK, PassHolds
    <2> QED
      BY <1>1, <1>2, <1>4, <2>2, <2>3, <2>4, GoesOnOK DEF PassHolds
  <1>12. CASE Settle
    <2>1. PlansStay
      BY <1>3, <1>12 DEF Settle, PlansStay
    <2> QED
      BY <1>1, <1>4, <1>12, <2>1, OutcomeOK DEF Settle
  <1> QED
    BY <1>6, <1>7, <1>8, <1>9, <1>10, <1>11, <1>12 DEF Deliver

LEMMA JudgeOK ==
    ASSUME TypeOK, PassOK, Judge
    PROVE  PassOK'
  <1>0. m \in Passes /\ row \in [Jobs -> Rows]
    BY TypeParts
  <1>1. m.at = "judge"
    BY DEF Judge, FinishStall, JudgeUnsupported, JudgeFailed, JudgeDelivered, Judges
  <1>2. m.job \in Jobs \ gone /\ Frozen(m.job) /\ row[m.job] \in Rows
    BY <1>0, <1>1 DEF PassOK, PassKnows
  <1>3. CASE JudgeDelivered
    <2>1. m'.at = "verify" /\ m'.job = m.job
      BY <1>0, <1>3 DEF JudgeDelivered, Go, Passes
    <2>2. UNCHANGED <<journal, gone, linked>>
      BY <1>3 DEF JudgeDelivered, staging
    <2> QED
      BY <1>1, <1>2, <2>1, <2>2, GoesOnOK DEF PassHolds, PlansStay
  <1>4. CASE JudgeUnsupported \/ JudgeFailed
    <2>1. Recorded(row[m.job]) \in Rows
      BY <1>2, RecordedTyped
    <2>2. PlansStay
      BY <1>2, <1>4, <2>1, CommitKeepsPlans DEF JudgeUnsupported, JudgeFailed, PlansStay
    <2> QED
      BY <1>4, <2>2, EndsOK DEF JudgeUnsupported, JudgeFailed, Judges
  <1>5. CASE FinishStall
    <2>1. row[m.job].tries \in Nat /\ [row[m.job] EXCEPT !.resume = "no"] \in Rows
      BY <1>2 DEF Rows
    <2>2. PlansStay
      BY <1>2, <1>5, <2>1, CommitRetryTyped, RetryDelayTyped DEF FinishStall, PlansStay
    <2> QED
      BY <1>5, <2>2, EndsOK DEF FinishStall, Judges
  <1> QED
    BY <1>3, <1>4, <1>5 DEF Judge

LEMMA FinishOK ==
    ASSUME TypeOK, PassOK, Finish
    PROVE  PassOK'
  <1>0. m \in Passes /\ row \in [Jobs -> Rows] /\ journal \in [Jobs -> Journals]
    BY TypeParts
  <1>1. m.at \in {"verify", "link", "mark", "clean", "remove", "last"}
    BY DEF Finish, Verify, Link, LinkFails, Mark, Clean, CleanBlocked, Remove, Last
  <1>2. /\ m.job \in Jobs \ gone /\ Frozen(m.job)
        /\ row[m.job] \in Rows /\ journal[m.job] \in Journals
    BY <1>0, <1>1 DEF PassOK, PassKnows
  <1>3. \A at : Go(at) => m'.at = at /\ m'.job = m.job
    BY <1>0 DEF Go, Passes
  <1>4. CASE Verify
    <2>1. UNCHANGED <<journal, gone, linked>> /\ PlansStay
      BY <1>4 DEF Verify, staging, PlansStay
    <2>2. CASE Go(IF journal[m.job].announced THEN "clean" ELSE "link")
      <3>1. m'.at = "clean" => m.job \in linked
        BY <1>2, <1>3, <2>2 DEF PassOK, AnnouncedIsLinked
      <3> QED
        BY <1>1, <1>2, <1>3, <2>1, <2>2, <3>1, GoesOnOK DEF PassHolds
    <2>3. CASE Stop
      BY <2>1, <2>3, EndsOK
    <2> QED
      BY <1>4, <2>2, <2>3 DEF Verify
  <1>5. CASE Link
    BY <1>1, <1>2, <1>3, <1>5, GoesOnOK DEF Link, staging, PlansStay, PassHolds
  <1>6. CASE LinkFails
    <2>1. Recorded(row[m.job]) \in Rows
      BY <1>2, RecordedTyped
    <2>2. PlansStay
      BY <1>2, <1>6, <2>1, CommitKeepsPlans DEF LinkFails
    <2> QED
      BY <1>6, <2>2, EndsOK DEF LinkFails
  <1>7. CASE Mark
    <2>1. m.job \in linked /\ linked' = linked /\ gone' = gone
      BY <1>7 DEF Mark, PassOK, AnnouncedIsLinked, staging
    <2>2. m'.at = "clean" /\ m'.job = m.job
      BY <1>3, <1>7 DEF Mark
    <2>3. \A k \in Jobs : journal'[k].variant = journal[k].variant
                          /\ (k # m.job => journal'[k].announced = journal[k].announced)
      BY <1>0, <1>2, <1>7 DEF Mark, Saved, SaveFails, Journals
    <2> QED
      BY <1>1, <1>2, <2>1, <2>2, <2>3
      DEF PassOK, PassKnows, PassHolds, StillReserved, AnnouncedIsLinked, Frozen
  <1>8. CASE Clean
    <2>1. m'.at = "remove" /\ m'.job = m.job /\ m'.todo = Parts(m.job)
      BY <1>0, <1>8 DEF Clean, Passes
    <2>2. UNCHANGED <<journal, gone, linked, staged>> /\ PlansStay /\ m.job \in linked
      BY <1>8 DEF Clean, staging, PlansStay, PassOK, AnnouncedIsLinked
    <2>3. \A p \in {"mkv", "iso"} : <<m.job, p>> \in staged => p \in Parts(m.job)
      BY DEF TypeOK, Files
    <2> QED
      BY <1>1, <1>2, <2>1, <2>2, <2>3, GoesOnOK DEF PassHolds
  <1>9. CASE CleanBlocked
    BY <1>9, EndsOK DEF CleanBlocked, EndWith, PlansStay
  <1>10. ASSUME NEW p \in {"mkv", "iso"}, Remove(p) PROVE PassOK'
    <2>1. /\ m'.at = IF m.todo = {p} THEN "last" ELSE "remove"
          /\ m'.job = m.job /\ m'.todo = m.todo \ {p}
      BY <1>0, <1>10 DEF Remove, Passes
    <2>2. /\ UNCHANGED <<journal, gone, linked>> /\ PlansStay /\ m.job \in linked
          /\ staged' = staged \ {<<m.job, p>>} /\ m.at = "remove"
      BY <1>10 DEF Remove, PlansStay, PassOK, AnnouncedIsLinked
    <2>3. \A q \in {"mkv", "iso"} : <<m.job, q>> \in staged' => q \in m.todo \ {p}
      BY <2>2 DEF PassOK, PassHolds
    <2>4. PassHolds'
      BY <2>1, <2>3 DEF PassHolds
    <2> QED
      BY <1>1, <1>2, <2>1, <2>2, <2>4, GoesOnOK
  <1>11. CASE Last
    <2>1. m'.at = "idle"
      BY <1>11 DEF Last, Stop, Idle
    <2>2. /\ journal' = [journal EXCEPT ![m.job] = NoJournal] /\ linked' = linked
      BY <1>11 DEF Last
    <2>3. AnnouncedIsLinked'
      BY <1>0, <1>2, <2>1, <2>2 DEF NoJournal, PassOK, AnnouncedIsLinked
    <2> QED
      BY <2>1, <2>3 DEF PassOK, PassKnows, PassHolds, StillReserved
  <1> QED
    BY <1>4, <1>5, <1>6, <1>7, <1>8, <1>9, <1>10, <1>11 DEF Finish

LEMMA OthersOK ==
    ASSUME TypeOK, PassOK,
           WorkerReturns \/ Outside \/ \E j \in Jobs : TimePasses(j) \/ Retry(j)
    PROVE  PassOK'
  <1>1. CASE WorkerReturns
    <2>1. m'.at = "judge" /\ m'.job = m.job
      BY <1>1, TypeParts DEF WorkerReturns, Passes
    <2>2. UNCHANGED <<journal, gone, linked>> /\ PlansStay /\ m.at = "stalled"
      BY <1>1 DEF WorkerReturns, staging, PlansStay
    <2>3. Frozen(m.job)
      BY <2>2 DEF PassOK, PassKnows
    <2> QED
      BY <2>1, <2>2, <2>3, GoesOnOK DEF PassHolds
  <1>2. CASE Crash
    BY <1>2, EndsOK DEF Crash, Stop, PlansStay
  <1>3. CASE People \/ FolderRemoved \/ ShareChanges \/ StagingChanges
             \/ \E j \in Jobs : TimePasses(j) \/ Retry(j)
    BY <1>3, StaysOK DEF People, FolderRemoved, ShareChanges, StagingChanges, TimePasses, Retry, staging
  <1> QED
    BY <1>1, <1>2, <1>3 DEF Outside

\* One step of the program keeps what a pass knows of its job.
LEMMA PassStep ==
    ASSUME TypeOK, PassOK, [Next]_vars
    PROVE  PassOK'
  <1>1. CASE UNCHANGED vars
    BY <1>1, StaysOK DEF vars, staging
  <1>2. CASE Next
    BY <1>2, BeginOK, PlanOK, DeliverOK, JudgeOK, FinishOK, OthersOK DEF Next, Pass
  <1> QED
    BY <1>1, <1>2

-----------------------------------------------------------------------------
(* What a step does to the files and to the plans *)

\* Nothing of staging or the library changes.
LeavesFiles == UNCHANGED <<dest, staged, gone, taken>>

\* The pass publishes its file under its name, which was free.
Publishes ==
    /\ m.at \in {"rename", "copy", "stalled"}
    /\ Vacant(Slot(m.job, m.part))
    /\ dest' = [dest EXCEPT ![Slot(m.job, m.part)] = m.job]
    /\ staged' \in {staged, staged \ {<<m.job, m.part>>}}
    /\ UNCHANGED <<gone, taken>>

\* The pass discards a staged file that the library holds.
Discards ==
    /\ m.at = "remove"
    /\ \E p \in {"mkv", "iso"} : Holds(m.job, p) /\ staged' = staged \ {<<m.job, p>>}
    /\ UNCHANGED <<dest, gone, taken>>

\* The staging of the pass's job goes.
Leaves ==
    /\ m.at = "last"
    /\ gone' = gone \cup {m.job}
    /\ UNCHANGED <<dest, staged, taken>>

\* People take what they take out of the library.
PeopleTake ==
    /\ dest' \in [Slots -> Jobs \cup {"free", "empty", "foreign"}]
    /\ \A s \in Slots : dest'[s] = dest[s] \/ dest'[s] \in {"free", "empty", "foreign"}
    /\ \A f \in Files \ staged, n \in Variants :
            dest[<<f[2], n>>] = f[1] => dest'[<<f[2], n>>] = f[1] \/ f \in taken'
    /\ taken \subseteq taken'
    /\ UNCHANGED <<staged, gone>>

LEMMA PeopleStep ==
    ASSUME TypeOK, People \/ FolderRemoved
    PROVE  PeopleTake
  <1>1. dest \in [Slots -> Jobs \cup {"free", "empty", "foreign"}]
    BY DEF TypeOK
  <1>2. \A p \in {"mkv", "iso"}, n \in Variants : <<p, n>> \in Slots
    BY DEF Slots
  <1>3. \A f \in Files : f[2] \in {"mkv", "iso"}
    BY DEF Files
  <1>4. ASSUME NEW slots \in SUBSET Slots, taken' = taken \cup OnlyCopies(slots),
               \A s \in Slots \ slots : dest'[s] = dest[s],
               NEW f \in Files \ staged, NEW n \in Variants, dest[<<f[2], n>>] = f[1]
        PROVE  dest'[<<f[2], n>>] = f[1] \/ f \in taken'
    BY <1>2, <1>3, <1>4 DEF OnlyCopies
  <1>5. CASE People
    <2>1. PICK s \in Slots, what \in {"free", "empty", "foreign"} :
            dest' = [dest EXCEPT ![s] = what] /\ taken' = taken \cup OnlyCopies({s})
      BY <1>5 DEF People
    <2>2. {s} \in SUBSET Slots /\ \A t \in Slots \ {s} : dest'[t] = dest[t]
      BY <1>1, <2>1
    <2>3. UNCHANGED <<staged, gone>>
      BY <1>5 DEF People, staging
    <2> QED
      BY <1>1, <1>4, <2>1, <2>2, <2>3 DEF PeopleTake
  <1>6. CASE FolderRemoved
    <2>1. dest' = [s \in Slots |-> "free"] /\ taken' = taken \cup OnlyCopies(Slots)
      BY <1>6 DEF FolderRemoved
    <2>2. UNCHANGED <<staged, gone>>
      BY <1>6 DEF FolderRemoved, staging
    <2> QED
      BY <1>4, <2>1, <2>2 DEF PeopleTake
  <1> QED
    BY <1>5, <1>6

\* Every step does one of these.
LEMMA Footprint ==
    ASSUME TypeOK, [Next]_vars
    PROVE  LeavesFiles \/ Publishes \/ Discards \/ Leaves \/ PeopleTake
  <1>1. ASSUME NEW j \in Jobs, Begin(j) \/ TimePasses(j) \/ Retry(j) PROVE LeavesFiles
    BY <1>1 DEF LeavesFiles, Begin, LoadFails, BeginRequested, BeginDue, Restore, EndWith, TimePasses,
      Retry, library, staging, history
  <1>2. CASE \/ CheckFails \/ CheckPasses \/ Plan \/ PlanUncertain \/ PlanHeld \/ Freeze
             \/ FreezeFails \/ Recreate \/ Locks \/ LocksFail \/ LocksBusy
    BY <1>2 DEF LeavesFiles, CheckFails, CheckPasses, Plan, PlanUncertain, PlanHeld, Hold, Freeze,
      FreezeFails, Recreate, Locks, LocksFail, LocksBusy, EndWith, library, staging, history
  <1>3. ASSUME NEW p \in {"mkv", "iso"}, Refuses(p) \/ Adopt(p) \/ Prepare(p) PROVE LeavesFiles
    BY <1>3 DEF LeavesFiles, Refuses, Adopt, Prepare, library, staging, history
  <1>4. CASE Rename
    BY <1>4 DEF Rename, LeavesFiles, Publishes, history
  <1>5. CASE Copy
    BY <1>5 DEF Copy, LeavesFiles, Publishes, staging, history
  <1>6. CASE Stall \/ Settle
    BY <1>6 DEF Stall, Settle, Schedule, LeavesFiles, library, staging, history
  <1>7. CASE Judge
    BY <1>7 DEF Judge, FinishStall, JudgeUnsupported, JudgeFailed, JudgeDelivered, Judges, Schedule, Hold,
      LeavesFiles, library, staging, history
  <1>8. CASE Verify \/ Link \/ LinkFails \/ Mark \/ Clean \/ CleanBlocked
    BY <1>8 DEF Verify, Link, LinkFails, Schedule, Mark, Clean, CleanBlocked, EndWith, LeavesFiles,
      library, staging, history
  <1>9. ASSUME NEW p \in {"mkv", "iso"}, Remove(p) PROVE Discards
    BY <1>9 DEF Remove, Discards, library, history
  <1>10. CASE Last
    BY <1>10 DEF Last, Leaves, library, history
  <1>11. CASE WorkerReturns
    BY <1>11 DEF WorkerReturns, LeavesFiles, Publishes, staging, history
  <1>12. CASE People \/ FolderRemoved
    BY <1>12, PeopleStep
  <1>13. CASE ShareChanges \/ StagingChanges \/ Crash \/ UNCHANGED vars
    BY <1>13 DEF ShareChanges, StagingChanges, Crash, LeavesFiles, library, staging, history, vars
  <1> QED
    BY <1>1, <1>2, <1>3, <1>4, <1>5, <1>6, <1>7, <1>8, <1>9, <1>10, <1>11, <1>12, <1>13
    DEF Next, Pass, Deliver, Finish, Outside

\* A job's plan changes when it is frozen and when its journal goes with its staging.
PlanKept(k) ==
    \/ journal'[k].variant = journal[k].variant
    \/ k = m.job /\ m.at = "freeze" /\ journal'[k].variant = m.variant /\ LeavesFiles
    \/ k = m.job /\ m.at = "last" /\ k \in gone'

LEMMA PlanStep ==
    ASSUME TypeOK, PassOK, [Next]_vars, NEW k \in Jobs
    PROVE  PlanKept(k)
  <1>0. row \in [Jobs -> Rows] /\ journal \in [Jobs -> Journals]
    BY TypeParts
  <1>1. ASSUME m.at # "idle" PROVE m.job \in Jobs /\ row[m.job] \in Rows /\ journal[m.job] \in Journals
    BY <1>0, <1>1 DEF PassOK, PassKnows
  <1>2. PlansStay => PlanKept(k)
    BY DEF PlansStay, PlanKept
  <1>3. UNCHANGED journal => PlanKept(k)
    BY DEF PlanKept
  <1>4. ASSUME NEW j \in Jobs, Begin(j) PROVE PlanKept(k)
    <2>1. CASE BeginRequested(j)
      <3> DEFINE new == [journal[j] EXCEPT !.tries = 0, !.until = "none"]
      <3>1. journal[j] \in Journals
        BY <1>0
      <3>2. new \in Journals /\ new.variant = journal[j].variant /\ new.announced = journal[j].announced
        BY <3>1 DEF Journals
      <3> QED
        BY <1>2, <2>1, <3>2, SaveKeepsPlans DEF BeginRequested
    <2>2. CASE LoadFails(j) \/ BeginDue(j) \/ Restore(j)
      BY <1>3, <2>2 DEF LoadFails, BeginDue, Restore, EndWith
    <2> QED
      BY <1>4, <2>1, <2>2 DEF Begin
  <1>5. CASE \/ CheckFails \/ CheckPasses \/ Plan \/ PlanUncertain
             \/ FreezeFails \/ Recreate \/ Locks \/ LocksFail \/ LocksBusy
    BY <1>3, <1>5 DEF CheckFails, CheckPasses, Plan, PlanUncertain, FreezeFails, Recreate, Locks, LocksFail,
      LocksBusy, EndWith
  <1>6. CASE PlanHeld
    BY <1>1, <1>2, <1>6, RecordedTyped, CommitKeepsPlans DEF PlanHeld
  <1>7. CASE Freeze
    <2>1. \/ journal'[k] = journal[k]
          \/ k = m.job /\ journal'[k] = [NoJournal EXCEPT !.variant = m.variant]
      BY <1>0, <1>7 DEF Freeze, Saved
    <2>2. LeavesFiles /\ m.at = "freeze"
      BY <1>7 DEF Freeze, LeavesFiles, history
    <2> QED
      BY <2>1, <2>2 DEF PlanKept, NoJournal
  <1>8. ASSUME NEW p, Refuses(p) \/ Adopt(p) \/ Prepare(p) PROVE PlanKept(k)
    BY <1>0, <1>1, <1>8 DEF Refuses, Adopt, Prepare, Delivers, Saved, SaveFails, PlanKept, Journals
  <1>9. CASE Rename \/ Copy \/ Settle
    BY <1>0, <1>1, <1>9 DEF Rename, Copy, Settle, Saved, SaveFails, PlanKept, Journals
  <1>10. CASE Stall
    <2>1. Recorded(row[m.job]) \in Rows /\ m.job \in Jobs
      BY <1>1, <1>10, RecordedTyped DEF Stall
    <2>2. [Recorded(row[m.job]) EXCEPT !.busy = TRUE, !.at = "held"] \in Rows
      BY <2>1 DEF Rows
    <2> QED
      BY <1>2, <1>10, <2>1, <2>2, CommitKeepsPlans DEF Stall
  <1>11. CASE FinishStall
    <2>1. row[m.job] \in Rows /\ m.job \in Jobs
      BY <1>1, <1>11 DEF FinishStall, Judges
    <2>2. row[m.job].tries \in Nat /\ [row[m.job] EXCEPT !.resume = "no"] \in Rows
      BY <2>1 DEF Rows
    <2>3. ASSUME CommitRetry(m.job, [row[m.job] EXCEPT !.resume = "no"], row[m.job].tries,
                             RetryDelay(row[m.job].tries))
          PROVE  PlansStay
      BY <2>1, <2>2, <2>3, CommitRetryTyped, RetryDelayTyped DEF PlansStay
    <2> QED
      BY <1>2, <1>3, <1>11, <2>3 DEF FinishStall
  <1>12. CASE JudgeUnsupported \/ JudgeFailed \/ LinkFails
    <2>1. Recorded(row[m.job]) \in Rows /\ m.job \in Jobs
      BY <1>1, <1>12, RecordedTyped DEF JudgeUnsupported, JudgeFailed, LinkFails, Judges
    <2> QED
      BY <1>2, <1>3, <1>12, <2>1, CommitKeepsPlans DEF JudgeUnsupported, JudgeFailed, LinkFails
  <1>13. CASE Mark
    BY <1>0, <1>1, <1>13 DEF Mark, Saved, SaveFails, PlanKept, Journals
  <1>14. CASE Last
    BY <1>0, <1>14 DEF Last, PlanKept
  <1>15. CASE JudgeDelivered \/ Verify \/ Link \/ Clean \/ CleanBlocked \/ \E p \in {"mkv", "iso"} : Remove(p)
    BY <1>3, <1>15 DEF JudgeDelivered, Verify, Link, Clean, CleanBlocked, EndWith, Remove
  <1>16. CASE WorkerReturns \/ Outside \/ (\E j \in Jobs : TimePasses(j) \/ Retry(j)) \/ UNCHANGED vars
    BY <1>3, <1>16 DEF WorkerReturns, Outside, People, FolderRemoved, ShareChanges, StagingChanges, Crash,
      TimePasses, Retry, vars
  <1> QED
    BY <1>4, <1>5, <1>6, <1>7, <1>8, <1>9, <1>10, <1>11, <1>12, <1>13, <1>14, <1>15, <1>16
    DEF Next, Pass, Deliver, Judge, Finish

-----------------------------------------------------------------------------
(* The files *)

LEMMA GoneStep ==
    ASSUME TypeOK, PassOK, GoneWasLinked, [Next]_vars
    PROVE  GoneWasLinked'
  <1>1. gone' = gone \/ (m.at = "last" /\ gone' = gone \cup {m.job})
    BY Footprint DEF LeavesFiles, Publishes, Discards, Leaves, PeopleTake
  <1>2. linked \subseteq linked'
    <2>1. linked' = linked \/ linked' = linked \cup {m.job}
      BY DEF Next, Begin, LoadFails, BeginRequested, BeginDue, Restore, EndWith, TimePasses, Retry, Pass,
        CheckFails, CheckPasses, Plan, PlanUncertain, PlanHeld, Freeze, FreezeFails, Recreate, Locks,
        LocksFail, LocksBusy, Deliver, Refuses, Adopt, Prepare, Rename, Copy, Stall, Settle, Judge,
        FinishStall, JudgeUnsupported, JudgeFailed, JudgeDelivered, Judges, Finish, Verify, Link,
        LinkFails, Mark, Clean, CleanBlocked, Remove, Last, WorkerReturns, Outside, People,
        FolderRemoved, ShareChanges, StagingChanges, Crash, vars
    <2> QED
      BY <2>1
  <1> QED
    BY <1>1, <1>2 DEF GoneWasLinked, PassOK, AnnouncedIsLinked

\* Where a pass publishes: a slot of its own, which no file holds.
LEMMA PublishedSlot ==
    ASSUME TypeOK, PassOK, Publishes
    PROVE  /\ m.job \in Jobs \ gone /\ m.part \in {"mkv", "iso"}
           /\ journal[m.job].variant \in Variants
           /\ <<m.job, m.part>> \in staged /\ <<m.job, m.part>> \in Files
           /\ dest[<<m.part, journal[m.job].variant>>] = "free"
           /\ dest' = [dest EXCEPT ![<<m.part, journal[m.job].variant>>] = m.job]
           /\ <<m.part, journal[m.job].variant>> \in Slots
           /\ \A j \in Jobs : j # "free"
  <1>1. m \in Passes /\ journal \in [Jobs -> Journals] /\ staged \subseteq Files
    BY TypeParts DEF StagingOK
  <1>2. m.job \in Jobs \ gone /\ Frozen(m.job) /\ <<m.job, m.part>> \in staged
    BY DEF Publishes, PassOK, PassKnows, PassHolds
  <1>3. m.part \in {"mkv", "iso"} /\ journal[m.job].variant \in 0 .. MaxVariant
    BY <1>1, <1>2 DEF Passes, Journals
  <1>4. journal[m.job].variant \in Variants
    BY <1>2, <1>3, BoundsAssumption DEF Variants, Frozen
  <1> QED
    BY <1>1, <1>2, <1>3, <1>4, JobsAssumption DEF Publishes, Vacant, Slot, Slots

LEMMA FilesStep ==
    ASSUME TypeOK, PassOK, FilesOK, [Next]_vars
    PROVE  FilesOK'
  <1>0. /\ dest \in [Slots -> Jobs \cup {"free", "empty", "foreign"}]
        /\ staged \subseteq Files /\ gone \subseteq Jobs
        /\ \A p \in {"mkv", "iso"}, n \in Variants : <<p, n>> \in Slots
        /\ \A f \in Files : f[1] \in Jobs /\ f[2] \in {"mkv", "iso"} /\ f = <<f[1], f[2]>>
    BY DEF TypeOK, Slots, Files
  <1>1. \A k \in Jobs : PlanKept(k)
    BY PlanStep
  <1>2. \A k \in Jobs : journal[k].variant = 0 => \A p \in {"mkv", "iso"}, n \in Variants :
                            k \in gone \/ dest[<<p, n>>] # k
    BY DEF FilesOK, UnderItsName, Variants
  <1>3. CASE LeavesFiles
    <2>1. UnderItsName'
      <3> SUFFICES ASSUME NEW j \in Jobs \ gone', NEW p \in {"mkv", "iso"}, NEW n \in Variants,
                          dest'[<<p, n>>] = j
                   PROVE  journal'[j].variant = n
        BY DEF UnderItsName
      <3>1. j \notin gone /\ dest[<<p, n>>] = j
        BY <1>3 DEF LeavesFiles
      <3>2. journal[j].variant = n /\ journal[j].variant # 0
        BY <1>2, <3>1 DEF FilesOK, UnderItsName
      <3>3. journal'[j].variant = journal[j].variant
        BY <1>1, <3>2 DEF PlanKept, PassOK, PassKnows, Frozen
      <3> QED
        BY <3>2, <3>3
    <2>2. MediaKept' /\ FiledOnce'
      BY <1>3 DEF LeavesFiles, FilesOK, MediaKept, FiledOnce
    <2>3. OneName'
      <3> SUFFICES ASSUME NEW j \in Jobs \ gone', NEW k \in Jobs \ gone', j # k, Frozen(j)', Frozen(k)'
                   PROVE  journal'[j].variant # journal'[k].variant
        BY DEF OneName
      <3>1. j \notin gone /\ k \notin gone
        BY <1>3 DEF LeavesFiles
      <3>2. CASE journal'[j].variant = journal[j].variant /\ journal'[k].variant = journal[k].variant
        BY <3>1, <3>2 DEF Frozen, FilesOK, OneName
      <3>3. CASE j = m.job /\ m.at = "freeze" /\ journal'[j].variant = m.variant
        BY <1>1, <3>1, <3>3 DEF PlanKept, PassOK, StillReserved
      <3>4. CASE k = m.job /\ m.at = "freeze" /\ journal'[k].variant = m.variant
        BY <1>1, <3>1, <3>4 DEF PlanKept, PassOK, StillReserved
      <3> QED
        BY <1>1, <3>2, <3>3, <3>4 DEF PlanKept
    <2> QED
      BY <2>1, <2>2, <2>3 DEF FilesOK
  <1>4. ASSUME Publishes \/ Discards \/ PeopleTake, ~LeavesFiles
        PROVE  \A k \in Jobs \ gone : journal'[k].variant = journal[k].variant
    <2>1. gone' = gone
      BY <1>4 DEF Publishes, Discards, PeopleTake
    <2> QED
      BY <1>1, <1>4, <2>1 DEF PlanKept
  <1>5. ASSUME gone' = gone, \A k \in Jobs \ gone : journal'[k].variant = journal[k].variant
        PROVE  OneName'
    BY <1>5 DEF FilesOK, OneName, Frozen
  <1>6. CASE Publishes /\ ~LeavesFiles
    <2> DEFINE j == m.job
               p == m.part
               v == journal[m.job].variant
    <2>1. /\ j \in Jobs \ gone /\ p \in {"mkv", "iso"} /\ v \in Variants
          /\ <<j, p>> \in staged /\ <<j, p>> \in Files
          /\ dest[<<p, v>>] = "free" /\ dest' = [dest EXCEPT ![<<p, v>>] = j]
          /\ <<p, v>> \in Slots /\ \A k \in Jobs : k # "free"
      BY <1>6, PublishedSlot
    <2>2. /\ staged' \in {staged, staged \ {<<j, p>>}} /\ gone' = gone /\ taken' = taken
          /\ \A k \in Jobs \ gone : journal'[k].variant = journal[k].variant
      BY <1>4, <1>6 DEF Publishes
    <2> HIDE DEF j, p, v
    <2>3. \A q \in {"mkv", "iso"}, n \in Variants :
            dest'[<<q, n>>] = IF q = p /\ n = v THEN j ELSE dest[<<q, n>>]
      BY <1>0, <2>1
    <2>4. UnderItsName'
      BY <2>1, <2>2, <2>3 DEF UnderItsName, FilesOK, v, j
    <2>5. MediaKept'
      <3> SUFFICES ASSUME NEW f \in Files, f \notin staged' \cup taken'
                   PROVE  \E n \in Variants : dest'[<<f[2], n>>] = f[1]
        BY DEF MediaKept
      <3>1. CASE f = <<j, p>>
        <4>1. f[2] = p /\ f[1] = j
          BY <3>1
        <4> QED
          BY <2>1, <2>3, <4>1
      <3>2. CASE f # <<j, p>>
        <4>1. PICK n \in Variants : dest[<<f[2], n>>] = f[1]
          BY <2>2, <3>2 DEF FilesOK, MediaKept
        <4>2. dest'[<<f[2], n>>] = f[1]
          BY <1>0, <2>1, <2>3, <4>1
        <4> QED
          BY <4>2
      <3> QED
        BY <3>1, <3>2
    <2>6. FiledOnce'
      <3> SUFFICES ASSUME NEW f \in Files, NEW n \in Variants, NEW k \in Variants,
                          dest'[<<f[2], n>>] = f[1], dest'[<<f[2], k>>] = f[1]
                   PROVE  n = k
        BY DEF FiledOnce
      <3>1. CASE f[2] # p \/ f[1] # j
        BY <1>0, <2>3, <3>1 DEF FilesOK, FiledOnce
      <3>2. CASE f[2] = p /\ f[1] = j
        <4>1. \A i \in Variants : dest'[<<p, i>>] = j => i = v
          BY <2>1, <2>3 DEF FilesOK, UnderItsName, v, j
        <4> QED
          BY <3>2, <4>1
      <3> QED
        BY <3>1, <3>2
    <2> QED
      BY <1>5, <2>2, <2>4, <2>5, <2>6 DEF FilesOK
  <1>7. CASE Discards /\ ~LeavesFiles
    <2>1. /\ UNCHANGED <<dest, gone, taken>> /\ m.at = "remove"
          /\ \A k \in Jobs \ gone : journal'[k].variant = journal[k].variant
      BY <1>4, <1>7 DEF Discards
    <2>2. PICK p \in {"mkv", "iso"} : Holds(m.job, p) /\ staged' = staged \ {<<m.job, p>>}
      BY <1>7 DEF Discards
    <2>3. journal[m.job].variant \in Variants /\ dest[<<p, journal[m.job].variant>>] = m.job
      <3>1. m.job \in Jobs /\ Frozen(m.job)
        BY <2>1 DEF PassOK, PassKnows
      <3>2. journal[m.job].variant \in 0 .. MaxVariant
        BY <3>1 DEF TypeOK
      <3> QED
        BY <2>2, <3>1, <3>2, BoundsAssumption DEF Frozen, Variants, Holds, Slot
    <2>4. MediaKept'
      <3> SUFFICES ASSUME NEW f \in Files, f \notin staged' \cup taken'
                   PROVE  \E n \in Variants : dest[<<f[2], n>>] = f[1]
        BY <2>1 DEF MediaKept
      <3>1. CASE f = <<m.job, p>>
        <4>1. f[2] = p /\ f[1] = m.job
          BY <3>1
        <4> QED
          BY <2>3, <4>1
      <3>2. CASE f # <<m.job, p>>
        BY <2>1, <2>2, <3>2 DEF FilesOK, MediaKept
      <3> QED
        BY <3>1, <3>2
    <2>5. UnderItsName' /\ FiledOnce'
      BY <2>1 DEF FilesOK, UnderItsName, FiledOnce
    <2> QED
      BY <1>5, <2>1, <2>4, <2>5 DEF FilesOK
  <1>8. CASE Leaves /\ ~LeavesFiles
    <2>1. UNCHANGED <<dest, staged, taken>> /\ gone' = gone \cup {m.job} /\ m.at = "last"
      BY <1>8 DEF Leaves
    <2>2. \A k \in Jobs \ gone' : journal'[k].variant = journal[k].variant
      BY <1>1, <2>1 DEF PlanKept
    <2> QED
      BY <2>1, <2>2 DEF FilesOK, UnderItsName, MediaKept, FiledOnce, OneName, Frozen
  <1>9. CASE PeopleTake /\ ~LeavesFiles
    <2>1. /\ staged' = staged /\ gone' = gone /\ taken \subseteq taken'
          /\ \A k \in Jobs \ gone : journal'[k].variant = journal[k].variant
          /\ \A f \in Files \ staged, n \in Variants :
                dest[<<f[2], n>>] = f[1] => dest'[<<f[2], n>>] = f[1] \/ f \in taken'
      BY <1>4, <1>9 DEF PeopleTake
    <2>2. \A j \in Jobs, p \in {"mkv", "iso"}, n \in Variants :
            dest'[<<p, n>>] = j => dest[<<p, n>>] = j
      BY <1>0, <1>9, JobsAssumption DEF PeopleTake
    <2>3. MediaKept'
      BY <2>1 DEF FilesOK, MediaKept
    <2>4. UnderItsName' /\ FiledOnce'
      BY <1>0, <2>1, <2>2 DEF FilesOK, UnderItsName, FiledOnce
    <2> QED
      BY <1>5, <2>1, <2>3, <2>4 DEF FilesOK
  <1> QED
    BY <1>3, <1>6, <1>7, <1>8, <1>9, Footprint

-----------------------------------------------------------------------------
(* The counts *)

\* A row that lets a pass begin, or will, has counted no more than it may.
WaitsWell(r) ==
    /\ r.at # "held" => r.tries <= 2 /\ r.resume = "no"
    /\ r.resume = "wait" => r.tries <= 2

LEMMA RowsWaitWell == RowWaits <=> \A j \in Jobs : WaitsWell(row[j])
  BY DEF RowWaits, WaitsWell

\* Commits keep both kinds of counts, and lift the count to the one they commit.
LEMMA CommitCounts ==
    ASSUME TypeOK, JournalCounts, RowWaits, NEW j \in Jobs \ gone, NEW r \in Rows, NEW n \in Nat,
           NEW until \in {"wait", "held"}, CommitRetry(j, r, n, until),
           until = "wait" => n <= 2, r.resume = "no", gone' = gone,
           j \notin unsaved => spent'[j] <= n,
           ~Frozen(j) => spent' = spent,
           \A k \in Jobs : k # j => spent'[k] = spent[k]
    PROVE  /\ JournalCounts' /\ RowWaits'
           /\ unsaved \subseteq unsaved' /\ row'[j].tries = n
  <1>0. journal \in [Jobs -> Journals] /\ row \in [Jobs -> Rows]
    BY TypeParts
  <1> DEFINE new == [journal[j] EXCEPT !.tries = n, !.until = until]
  <1>1. /\ new.variant = journal[j].variant /\ new.tries = n /\ new.until = until
    BY <1>0 DEF Journals
  <1>2. /\ row' = [row EXCEPT ![j] = Applied(r, n, until)] \/ row' = [row EXCEPT ![j] = Applied(r, n, "held")]
        /\ UNCHANGED unsaved \/ unsaved' = unsaved \cup {j}
    BY DEF CommitRetry
  <1>3. WaitsWell(Applied(r, n, until)) /\ WaitsWell(Applied(r, n, "held"))
    <2>1. ASSUME NEW u \in {until, "held"}, u = "wait" => n <= 2 PROVE WaitsWell(Applied(r, n, u))
      <3>1. /\ Applied(r, n, u).tries = n
            /\ Applied(r, n, u).at = IF r.busy THEN "held" ELSE u
            /\ Applied(r, n, u).resume = IF r.busy THEN u ELSE r.resume
        BY AppliedTyped
      <3> QED
        BY <2>1, <3>1 DEF WaitsWell
    <2> QED
      BY <2>1
  <1>4. RowWaits'
    BY <1>0, <1>2, <1>3, RowsWaitWell DEF RowWaits, WaitsWell
  <1>5. row'[j].tries = n
    BY <1>0, <1>2, AppliedTyped
  <1>6. /\ \A k \in Jobs : k # j => journal'[k] = journal[k]
        /\ Frozen(j) => journal'[j] \in {journal[j], new}
        /\ ~Frozen(j) => journal'[j] = journal[j]
        /\ Frozen(j) /\ j \notin unsaved' => journal'[j] = new
    BY <1>0 DEF CommitRetry, Saved, SaveFails
  <1> HIDE DEF new
  <1>7. Frozen(j) <=> journal[j].variant # 0
    BY DEF Frozen
  <1>8. JournalCounts'
    <2> SUFFICES ASSUME NEW k \in Jobs \ gone
                 PROVE  /\ k \notin unsaved' => spent'[k] <= journal'[k].tries
                        /\ journal'[k].variant = 0 \/ journal'[k].until = "none" => journal'[k].tries = 0
                        /\ journal'[k].until = "wait" => journal'[k].tries <= 2
      BY DEF JournalCounts, Frozen
    <2>1. CASE k # j
      BY <1>2, <1>6, <2>1 DEF JournalCounts, Frozen
    <2>2. CASE k = j /\ ~Frozen(j)
      BY <1>2, <1>6, <2>2 DEF JournalCounts, Frozen
    <2>3. CASE k = j /\ Frozen(j)
      BY <1>1, <1>2, <1>6, <1>7, <2>3 DEF JournalCounts, Frozen
    <2> QED
      BY <2>1, <2>2, <2>3
  <1> QED
    BY <1>2, <1>4, <1>5, <1>8

\* A failed delivery is the third at most, unless a count was not saved.
LEMMA ScheduleCounts ==
    ASSUME TypeOK, CountsOK, NEW j \in Jobs \ gone, NEW r \in Rows, Schedule(j, r), Frozen(j),
           r.resume = "no", r.tries = row[j].tries, r.tries <= 2, gone' = gone,
           j \notin unsaved => spent[j] <= row[j].tries
    PROVE  /\ JournalCounts' /\ RowWaits' /\ BudgetHolds'
           /\ j \notin unsaved' => spent'[j] <= row'[j].tries
  <1>1. r.tries \in Nat /\ r.tries + 1 \in Nat
    BY DEF Rows
  <1>2. RetryDelay(r.tries + 1) \in {"wait", "held"} /\ (RetryDelay(r.tries + 1) = "wait" => r.tries + 1 <= 2)
    BY <1>1, RetryDelayTyped
  <1>3. CommitRetry(j, r, r.tries + 1, RetryDelay(r.tries + 1)) /\ spent' = [spent EXCEPT ![j] = @ + 1]
    BY DEF Schedule
  <1>4. spent \in [Jobs -> Nat]
    BY DEF TypeOK
  <1>5. spent'[j] = spent[j] + 1 /\ \A k \in Jobs : k # j => spent'[k] = spent[k]
    BY <1>3, <1>4
  <1>6. j \notin unsaved => spent'[j] <= r.tries + 1 /\ spent'[j] <= 3
    BY <1>1, <1>4, <1>5
  <1>7. /\ JournalCounts' /\ RowWaits' /\ unsaved \subseteq unsaved' /\ row'[j].tries = r.tries + 1
    BY <1>1, <1>2, <1>3, <1>5, <1>6, CommitCounts DEF CountsOK
  <1> QED
    BY <1>5, <1>6, <1>7 DEF CountsOK, BudgetHolds

LEMMA RowStep ==
    ASSUME row \in [Jobs -> Rows], RowWaits, NEW j \in Jobs, NEW w \in Rows, WaitsWell(w),
           row' = [row EXCEPT ![j] = w]
    PROVE  RowWaits'
  BY DEF RowWaits, WaitsWell

\* What is recorded or waited for keeps the count; the two back-offs keep it well.
LEMMA RecordsWait ==
    ASSUME TypeOK, RowWaits, NEW j \in Jobs
    PROVE  /\ RecordError(j) => RowWaits'
           /\ BackOff(j) => RowWaits'
           /\ TeardownBlocked(j) /\ row[j].at # "held" => RowWaits'
           /\ \A for \in {"root", "folder"} : WaitRow(j, for) => RowWaits'
  <1>1. row \in [Jobs -> Rows] /\ row[j] \in Rows
    BY TypeParts
  <1> DEFINE r == Recorded(row[j])
  <1>2. r \in Rows /\ WaitsWell(r) /\ r.resume = "no" /\ (row[j].at # "held" => r.tries <= 2)
    <2>1. /\ r \in Rows /\ r.tries = row[j].tries /\ r.resume = "no"
          /\ r.at = IF row[j].at = "none" THEN "due" ELSE row[j].at
      BY <1>1, RecordedTyped
    <2>2. row[j].at # "held" => row[j].tries <= 2
      BY DEF RowWaits
    <2> QED
      BY <2>1, <2>2 DEF WaitsWell
  <1> HIDE DEF r
  <1>3. r.tries \in Nat /\ r.tears \in Nat /\ r.tries + 1 \in Nat /\ r.tears + 1 \in Nat
    BY <1>2 DEF Rows
  <1>4. /\ RetryDelay(r.tries + 1) \in {"wait", "held"} /\ RetryDelay(r.tears + 1) \in {"wait", "held"}
        /\ RetryDelay(r.tries + 1) = "wait" => r.tries + 1 <= 2
    BY <1>3, RetryDelayTyped
  <1>5. ASSUME RecordError(j) PROVE RowWaits'
    BY <1>1, <1>2, <1>5, RowStep DEF RecordError, r
  <1>6. ASSUME BackOff(j) PROVE RowWaits'
    <2> DEFINE w == [r EXCEPT !.tries = @ + 1, !.at = RetryDelay(r.tries + 1)]
    <2>1. w \in Rows /\ WaitsWell(w)
      BY <1>2, <1>3, <1>4 DEF Rows, WaitsWell
    <2>2. row' = [row EXCEPT ![j] = w]
      BY <1>6 DEF BackOff, r
    <2> QED
      BY <1>1, <2>1, <2>2, RowStep
  <1>7. ASSUME TeardownBlocked(j), row[j].at # "held" PROVE RowWaits'
    <2> DEFINE w == [r EXCEPT !.tears = @ + 1, !.at = RetryDelay(r.tears + 1)]
    <2>1. w \in Rows /\ WaitsWell(w)
      BY <1>2, <1>3, <1>4, <1>7 DEF Rows, WaitsWell
    <2>2. row' = [row EXCEPT ![j] = w]
      BY <1>7 DEF TeardownBlocked, r
    <2> QED
      BY <1>1, <2>1, <2>2, RowStep
  <1>8. ASSUME NEW for \in {"root", "folder"}, WaitRow(j, for) PROVE RowWaits'
    <2> DEFINE w == [r EXCEPT !.waits = for]
    <2>1. w \in Rows /\ WaitsWell(w)
      BY <1>2 DEF Rows, WaitsWell
    <2>2. row' = [row EXCEPT ![j] = w]
      BY <1>8 DEF WaitRow, r
    <2> QED
      BY <1>1, <2>1, <2>2, RowStep
  <1> QED
    BY <1>5, <1>6, <1>7, <1>8

\* Journals keep their counts.
CountsStay ==
    \A k \in Jobs : /\ journal'[k].tries = journal[k].tries
                    /\ journal'[k].until = journal[k].until
                    /\ journal'[k].variant = journal[k].variant

\* A step that counts nothing.
LEMMA CountsNothing ==
    ASSUME CountsOK, CountsStay, UNCHANGED <<gone, spent, unsaved>>, RowWaits', PassCounts'
    PROVE  CountsOK'
  <1>1. JournalCounts'
    BY DEF CountsOK, CountsStay, JournalCounts, Frozen
  <1> QED
    BY <1>1 DEF CountsOK, BudgetHolds

LEMMA EndsCounted ==
    ASSUME Stop
    PROVE  PassCounts'
  BY DEF Stop, Idle, PassCounts

\* A pass that ends with a row counts nothing.
LEMMA EndsUncounted ==
    ASSUME TypeOK, CountsOK, Stop, UNCHANGED <<staging, journal, spent, unsaved>>, RowWaits'
    PROVE  CountsOK'
  BY CountsNothing, EndsCounted DEF staging, CountsStay

\* A pass that goes on with its row counts nothing.
LEMMA GoesOnCounted ==
    ASSUME TypeOK, CountsOK, CountsStay, UNCHANGED <<gone, row, spent, unsaved>>,
           m.at \notin {"idle", "stalled"}, m'.at # "stalled", m'.job = m.job,
           "stalled" \notin m.out, "stalled" \notin m'.out
    PROVE  CountsOK'
  <1>1. PassCounts'
    BY DEF CountsOK, PassCounts
  <1>2. RowWaits'
    BY DEF CountsOK, RowWaits
  <1> QED
    BY <1>1, <1>2, CountsNothing

LEMMA BeginCounts ==
    ASSUME TypeOK, PassOK, CountsOK, NEW j \in Jobs, Begin(j)
    PROVE  CountsOK'
  <1>0. /\ journal \in [Jobs -> Journals] /\ row \in [Jobs -> Rows] /\ spent \in [Jobs -> Nat]
        /\ journal[j] \in Journals /\ row[j] \in Rows
    BY TypeParts DEF HistoryOK
  <1>1. j \notin gone /\ m.at = "idle" /\ row[j].at \in {"none", "due"}
    BY DEF Begin, LoadFails, BeginRequested, BeginDue, Restore, Takes, Ready
  <1>2. CASE LoadFails(j)
    BY <1>2, EndsUncounted, RecordsWait DEF LoadFails, EndWith, history, CountsOK
  <1>3. CASE BeginRequested(j)
    <2> DEFINE new == [journal[j] EXCEPT !.tries = 0, !.until = "none"]
    <2>1. new.tries = 0 /\ new.until = "none" /\ new.variant = journal[j].variant
      BY <1>0 DEF Journals
    <2>2. /\ \A k \in Jobs : k # j => journal'[k] = journal[k]
          /\ journal'[j] \in {journal[j], new}
      BY <1>0, <1>3 DEF BeginRequested, Saved, SaveFails
    <2>3. spent' = [spent EXCEPT ![j] = 0] /\ UNCHANGED <<gone, unsaved>>
      BY <1>3 DEF BeginRequested, staging
    <2>4. spent'[j] = 0 /\ \A k \in Jobs : k # j => spent'[k] = spent[k]
      BY <1>0, <2>3
    <2>5. journal[j].tries \in Nat /\ row[j].tries \in Nat
      BY <1>0 DEF Journals, Rows
    <2> HIDE DEF new
    <2>6. JournalCounts'
      BY <1>0, <2>1, <2>2, <2>3, <2>4, <2>5 DEF CountsOK, JournalCounts, Frozen
    <2>7. RowWaits'
      BY <1>3, RecordsWait DEF BeginRequested, CountsOK, RowWaits
    <2>8. PassCounts'
      <3>1. m' = m \/ (UNCHANGED row /\ m'.at = "check" /\ m'.job = j /\ m'.out = {})
        BY <1>3 DEF BeginRequested, Idle
      <3> QED
        BY <1>1, <2>4, <2>5, <3>1 DEF PassCounts
    <2> QED
      BY <2>3, <2>4, <2>6, <2>7, <2>8 DEF CountsOK, BudgetHolds
  <1>4. CASE BeginDue(j)
    <2>1. m'.at = "check" /\ m'.job = j /\ m'.out = {}
      BY <1>4 DEF BeginDue, Idle
    <2>2. UNCHANGED <<journal, row, gone, spent, unsaved>> /\ Stands(j)
      BY <1>4 DEF BeginDue, staging, memory, history
    <2>3. j \notin unsaved => spent[j] <= row[j].tries
      <3>1. spent[j] \in Nat /\ journal[j].tries \in Nat /\ row[j].tries \in Nat
        BY <1>0 DEF Journals, Rows
      <3> QED
        BY <1>1, <2>2, <3>1 DEF Stands, CountsOK, JournalCounts
    <2>4. PassCounts'
      BY <1>1, <2>1, <2>2, <2>3 DEF PassCounts
    <2>5. RowWaits'
      BY <2>2 DEF CountsOK, RowWaits
    <2> QED
      BY <2>2, <2>4, <2>5, CountsNothing DEF CountsStay
  <1>5. CASE Restore(j)
    <2> DEFINE w == [row[j] EXCEPT !.tries = journal[j].tries, !.at = journal[j].until]
    <2>1. w \in Rows /\ w.tries = journal[j].tries /\ w.at = journal[j].until /\ w.resume = row[j].resume
      BY <1>0, <1>5 DEF Restore, Stands, Rows, Journals
    <2>2. row[j].resume = "no" /\ (journal[j].until # "held" => journal[j].tries <= 2)
      BY <1>0, <1>1 DEF CountsOK, RowWaits, JournalCounts, Journals
    <2>3. WaitsWell(w)
      BY <2>1, <2>2 DEF WaitsWell
    <2>4. row' = [row EXCEPT ![j] = w]
      BY <1>5 DEF Restore, EndWith
    <2>5. RowWaits'
      BY <1>0, <2>1, <2>3, <2>4, RowStep DEF CountsOK
    <2> QED
      BY <1>5, <2>5, EndsUncounted DEF Restore, EndWith, history
  <1> QED
    BY <1>2, <1>3, <1>4, <1>5 DEF Begin

LEMMA PlanCounts ==
    ASSUME TypeOK, PassOK, CountsOK,
           \/ CheckFails \/ CheckPasses
           \/ Plan \/ PlanUncertain \/ PlanHeld \/ Freeze \/ FreezeFails \/ Recreate
           \/ Locks \/ LocksFail \/ LocksBusy
    PROVE  CountsOK'
  <1>0. /\ m \in Passes /\ row \in [Jobs -> Rows] /\ journal \in [Jobs -> Journals]
        /\ spent \in [Jobs -> Nat]
    BY TypeParts DEF HistoryOK
  <1>1. m.at \in {"check", "plan", "freeze", "recreate", "locks"}
    BY DEF CheckFails, CheckPasses, Plan, PlanUncertain, PlanHeld, Freeze, FreezeFails, Recreate, Locks,
      LocksFail, LocksBusy
  <1>2. /\ m.job \in Jobs \ gone /\ row[m.job] \in Rows /\ "stalled" \notin m.out
        /\ row[m.job].at \in {"none", "due"}
        /\ m.job \notin unsaved => spent[m.job] <= row[m.job].tries
    BY <1>0, <1>1 DEF PassOK, PassKnows, CountsOK, PassCounts
  <1>3. RowWaits
    BY DEF CountsOK
  <1>4. CASE CheckFails
    BY <1>2, <1>3, <1>4, EndsUncounted, RecordsWait DEF CheckFails, EndWith, history
  <1>5. CASE PlanUncertain \/ FreezeFails \/ LocksFail \/ LocksBusy
    BY <1>2, <1>3, <1>5, EndsUncounted, RecordsWait
    DEF PlanUncertain, FreezeFails, LocksFail, LocksBusy, EndWith, library, history
  <1>6. CASE CheckPasses
    <2>1. /\ UNCHANGED <<journal, gone, spent, unsaved>> /\ row' = Recovered(m.job)
          /\ m' = [m EXCEPT !.how = "due", !.at = AfterCheck(m.job)]
      BY <1>6 DEF CheckPasses, staging, history
    <2>2. m'.job = m.job /\ m'.out = m.out
      BY <1>0, <2>1 DEF Passes
    <2>3. \A k \in Jobs : row'[k] = row[k] \/ (row'[k] = NoRow /\ row[k].tries = 0)
      BY <2>1 DEF Recovered
    <2>4. WaitsWell(NoRow) /\ NoRow.tries = 0 /\ NoRow.at = "none"
      BY DEF NoRow, WaitsWell
    <2>5. RowWaits'
      BY <1>3, <2>3, <2>4 DEF RowWaits, WaitsWell
    <2>6. PassCounts'
      BY <1>2, <2>1, <2>2, <2>3, <2>4 DEF PassCounts
    <2> QED
      BY <2>1, <2>5, <2>6, CountsNothing DEF CountsStay
  <1>7. CASE Plan \/ Locks
    <2>1. UNCHANGED <<journal, gone, row, spent, unsaved>>
      BY <1>7 DEF Plan, Locks, staging, memory, history
    <2>2. m'.job = m.job /\ m'.out = m.out /\ m'.at \in {"freeze", "deliver"}
      BY <1>0, <1>7 DEF Plan, Locks, Passes
    <2> QED
      BY <1>1, <1>2, <2>1, <2>2, GoesOnCounted DEF CountsStay
  <1>8. CASE Recreate
    <2>1. UNCHANGED <<staging, journal, spent, unsaved>>
      BY <1>8 DEF Recreate, history
    <2>2. CASE Go("locks") /\ UNCHANGED row
      <3>1. m'.job = m.job /\ m'.out = m.out /\ m'.at = "locks"
        BY <1>0, <2>2 DEF Go, Passes
      <3> QED
        BY <1>1, <1>2, <2>1, <2>2, <3>1, GoesOnCounted DEF CountsStay, staging
    <2>3. CASE RecordError(m.job) /\ Stop
      BY <1>2, <1>3, <2>1, <2>3, EndsUncounted, RecordsWait
    <2> QED
      BY <1>8, <2>2, <2>3 DEF Recreate
  <1>9. CASE PlanHeld
    <2> DEFINE r == Recorded(row[m.job])
    <2>1. r \in Rows /\ r.tries = row[m.job].tries /\ r.resume = "no" /\ r.tries \in Nat
      BY <1>2, RecordedTyped DEF Rows
    <2>2. Hold(m.job, r) /\ Stop /\ gone' = gone
      BY <1>9 DEF PlanHeld, staging
    <2>3. CommitRetry(m.job, r, r.tries, "held") /\ spent' = spent
      BY <2>2 DEF Hold
    <2> HIDE DEF r
    <2>4. JournalCounts' /\ RowWaits' /\ unsaved \subseteq unsaved'
      BY <1>2, <2>1, <2>2, <2>3, CommitCounts DEF CountsOK
    <2> QED
      BY <2>2, <2>3, <2>4, EndsCounted DEF CountsOK, BudgetHolds
  <1>10. CASE Freeze
    <2>1. /\ row' = [row EXCEPT ![m.job] = NoRow] /\ UNCHANGED <<gone, spent, unsaved>>
          /\ journal' = [journal EXCEPT ![m.job] = [NoJournal EXCEPT !.variant = m.variant]]
          /\ ~Frozen(m.job)
      BY <1>10 DEF Freeze, Saved, history, PassOK, PassKnows
    <2>2. m'.at = "idle" \/ (m'.at = "locks" /\ m'.job = m.job /\ m'.out = m.out)
      <3>1. CASE m' = [m EXCEPT !.at = "locks", !.variant = 0]
        BY <1>0, <3>1 DEF Passes
      <3>2. CASE Stop
        BY <3>2 DEF Stop, Idle
      <3> QED
        BY <1>10, <3>1, <3>2 DEF Freeze
    <2>3. /\ NoRow \in Rows /\ WaitsWell(NoRow) /\ NoRow.tries = 0 /\ NoRow.at = "none"
      BY ConstantsTyped DEF NoRow, WaitsWell
    <2>4. RowWaits'
      BY <1>0, <1>2, <1>3, <2>1, <2>3, RowStep
    <2>5. /\ journal'[m.job] = [NoJournal EXCEPT !.variant = m.variant]
          /\ \A k \in Jobs : k # m.job => journal'[k] = journal[k]
      BY <1>0, <1>2, <2>1
    <2>6. journal'[m.job].tries = 0 /\ journal'[m.job].until = "none"
      BY <2>5 DEF NoJournal
    <2>7. m.job \notin unsaved => spent[m.job] <= 0
      BY <1>2, <2>1 DEF CountsOK, JournalCounts
    <2>8. JournalCounts'
      <3> SUFFICES ASSUME NEW k \in Jobs \ gone
                   PROVE  /\ k \notin unsaved => spent[k] <= journal'[k].tries
                          /\ journal'[k].variant = 0 \/ journal'[k].until = "none" => journal'[k].tries = 0
                          /\ journal'[k].until = "wait" => journal'[k].tries <= 2
        BY <2>1 DEF JournalCounts, Frozen
      <3>1. CASE k = m.job
        BY <2>6, <2>7, <3>1
      <3>2. CASE k # m.job
        BY <2>5, <3>2 DEF CountsOK, JournalCounts, Frozen
      <3> QED
        BY <3>1, <3>2
    <2>9. PassCounts'
      <3>1. row'[m.job] = NoRow
        BY <1>0, <1>2, <2>1
      <3> QED
        BY <1>2, <2>1, <2>2, <2>3, <2>7, <3>1 DEF PassCounts
    <2> QED
      BY <2>1, <2>4, <2>8, <2>9 DEF CountsOK, BudgetHolds
  <1> QED
    BY <1>4, <1>5, <1>6, <1>7, <1>8, <1>9, <1>10

LEMMA OutcomeCounts ==
    ASSUME TypeOK, CountsOK, CountsStay, UNCHANGED <<gone, row, spent, unsaved>>,
           m.at \notin {"idle", "stalled"}, "stalled" \notin m.out,
           NEW p, NEW o, o # "stalled", Outcome(p, o)
    PROVE  CountsOK'
  <1>1. m \in Passes
    BY TypeParts
  <1>2. m'.job = m.job /\ m'.at \in {"deliver", "judge"} /\ m'.out = m.out \cup {o}
    BY <1>1 DEF Outcome, Passes
  <1> QED
    BY <1>2, GoesOnCounted

LEMMA DeliverCounts ==
    ASSUME TypeOK, PassOK, CountsOK, Deliver
    PROVE  CountsOK'
  <1>0. /\ m \in Passes /\ row \in [Jobs -> Rows] /\ journal \in [Jobs -> Journals]
        /\ spent \in [Jobs -> Nat]
    BY TypeParts DEF HistoryOK
  <1>1. m.at \in {"deliver", "rename", "copy", "settle"}
    BY DEF Deliver, Refuses, Adopt, Prepare, Delivers, Rename, Copy, Stall, Settle
  <1>2. /\ m.job \in Jobs \ gone /\ Frozen(m.job) /\ "stalled" \notin m.out
        /\ row[m.job].at \in {"none", "due"} /\ row[m.job] \in Rows /\ journal[m.job] \in Journals
        /\ m.job \notin unsaved => spent[m.job] <= row[m.job].tries
    BY <1>0, <1>1 DEF PassOK, PassKnows, CountsOK, PassCounts
  <1>3. ASSUME NEW p PROVE
            LET c == [journal[m.job] EXCEPT !.completed = @ \cup {p}]
                q == [journal[m.job] EXCEPT !.prepared = @ \cup {p}]
            IN  /\ Saved(m.job, c) \/ SaveFails(m.job, c) => CountsStay
                /\ Saved(m.job, q) \/ SaveFails(m.job, q) => CountsStay
    <2> DEFINE c == [journal[m.job] EXCEPT !.completed = @ \cup {p}]
               q == [journal[m.job] EXCEPT !.prepared = @ \cup {p}]
    <2>1. /\ c.tries = journal[m.job].tries /\ c.until = journal[m.job].until
          /\ c.variant = journal[m.job].variant
          /\ q.tries = journal[m.job].tries /\ q.until = journal[m.job].until
          /\ q.variant = journal[m.job].variant
      BY <1>2 DEF Journals
    <2> HIDE DEF c, q
    <2>2. /\ Saved(m.job, c) \/ SaveFails(m.job, c) => CountsStay
          /\ Saved(m.job, q) \/ SaveFails(m.job, q) => CountsStay
      BY <1>0, <1>2, <2>1 DEF Saved, SaveFails, CountsStay
    <2> QED
      BY <2>2 DEF c, q
  <1>4. UNCHANGED journal => CountsStay
    BY DEF CountsStay
  <1>5. ~Stall => UNCHANGED <<gone, row, spent, unsaved>>
    BY DEF Deliver, Refuses, Adopt, Prepare, Rename, Copy, Settle, staging, memory, history
  <1>6. m.at \notin {"idle", "stalled"} /\ gone' = gone
    BY <1>1, <1>5 DEF Stall, staging
  <1>7. ASSUME ~Stall, CountsStay, NEW p, NEW o \in Outcomes, o # "stalled", Outcome(p, o)
        PROVE  CountsOK'
    BY <1>2, <1>5, <1>6, <1>7, OutcomeCounts
  <1>8. ASSUME ~Stall, CountsStay, NEW p, Published(p) \/ Fails(p)
        PROVE  CountsOK'
    <2>1. CASE m' = [m EXCEPT !.at = "settle"]
      <3>1. m'.at = "settle" /\ m'.job = m.job /\ m'.out = m.out
        BY <1>0, <2>1 DEF Passes
      <3> QED
        BY <1>2, <1>5, <1>6, <1>8, <3>1, GoesOnCounted
    <2>2. CASE \E o \in {"failed", "unsupported"} : Outcome(p, o)
      BY <1>7, <1>8, <2>2 DEF Outcomes
    <2> QED
      BY <1>8, <2>1, <2>2 DEF Published, Fails
  <1>9. \A o \in {"moved", "skipped", "collision", "failed", "held"} : o \in Outcomes /\ o # "stalled"
    BY DEF Outcomes
  <1>10. CASE Stall
    <2> DEFINE r == [Recorded(row[m.job]) EXCEPT !.busy = TRUE, !.at = "held"]
    <2>1. /\ Recorded(row[m.job]) \in Rows /\ Recorded(row[m.job]).tries = row[m.job].tries
          /\ Recorded(row[m.job]).resume = "no"
      BY <1>2, RecordedTyped
    <2>2. r \in Rows /\ r.tries = row[m.job].tries /\ r.resume = "no"
      BY <2>1 DEF Rows
    <2>3. row[m.job].tries <= 2
      BY <1>2 DEF CountsOK, RowWaits
    <2>4. Schedule(m.job, r)
      BY <1>10 DEF Stall
    <2> HIDE DEF r
    <2>5. /\ JournalCounts' /\ RowWaits' /\ BudgetHolds'
          /\ m.job \notin unsaved' => spent'[m.job] <= row'[m.job].tries
      BY <1>2, <1>6, <2>2, <2>3, <2>4, ScheduleCounts
    <2>6. m'.at = "stalled" /\ m'.job = m.job
      BY <1>0, <1>10 DEF Stall, Go, Passes
    <2> QED
      BY <2>5, <2>6 DEF CountsOK, PassCounts
  <1>11. CASE ~Stall
    <2>1. ASSUME NEW p \in {"mkv", "iso"}, Refuses(p) PROVE CountsOK'
      <3>1. CountsStay
        BY <1>4, <2>1 DEF Refuses
      <3> QED
        BY <1>7, <1>9, <1>11, <2>1, <3>1 DEF Refuses
    <2>2. ASSUME NEW p \in {"mkv", "iso"}, Adopt(p) PROVE CountsOK'
      <3>1. CountsStay
        BY <1>3, <2>2 DEF Adopt
      <3> QED
        BY <1>7, <1>9, <1>11, <2>2, <3>1 DEF Adopt
    <2>3. ASSUME NEW p \in {"mkv", "iso"}, Prepare(p) PROVE CountsOK'
      <3>1. CountsStay
        BY <1>3, <2>3 DEF Prepare
      <3>2. ASSUME m' = [m EXCEPT !.at = "rename", !.part = p] PROVE CountsOK'
        <4>1. m'.at = "rename" /\ m'.job = m.job /\ m'.out = m.out
          BY <1>0, <3>2 DEF Passes
        <4> QED
          BY <1>2, <1>5, <1>6, <1>11, <3>1, <4>1, GoesOnCounted
      <3> QED
        BY <1>7, <1>9, <1>11, <2>3, <3>1, <3>2 DEF Prepare
    <2>4. CASE Rename
      <3>1. CountsStay
        BY <1>4, <2>4 DEF Rename
      <3>2. ASSUME Go("copy") PROVE CountsOK'
        <4>1. m'.at = "copy" /\ m'.job = m.job /\ m'.out = m.out
          BY <1>0, <3>2 DEF Go, Passes
        <4> QED
          BY <1>2, <1>5, <1>6, <1>11, <3>1, <4>1, GoesOnCounted
      <3> QED
        BY <1>7, <1>8, <1>9, <1>11, <2>4, <3>1, <3>2 DEF Rename
    <2>5. CASE Copy
      <3>1. CountsStay
        BY <1>3, <1>4, <2>5 DEF Copy
      <3> QED
        BY <1>7, <1>8, <1>9, <1>11, <2>5, <3>1 DEF Copy
    <2>6. CASE Settle
      <3>1. CountsStay
        BY <1>3, <1>4, <2>6 DEF Settle
      <3> QED
        BY <1>7, <1>9, <1>11, <2>6, <3>1 DEF Settle
    <2> QED
      BY <1>11, <2>1, <2>2, <2>3, <2>4, <2>5, <2>6 DEF Deliver
  <1> QED
    BY <1>10, <1>11

\* A failed delivery that ends its pass.
LEMMA FailsCounted ==
    ASSUME TypeOK, PassOK, CountsOK, m.at \notin {"idle", "stalled"}, "stalled" \notin m.out,
           Frozen(m.job), Stop, gone' = gone,
           \/ Schedule(m.job, Recorded(row[m.job]))
           \/ Hold(m.job, Recorded(row[m.job]))
    PROVE  CountsOK'
  <1> DEFINE r == Recorded(row[m.job])
  <1>1. /\ m.job \in Jobs \ gone /\ row[m.job] \in Rows /\ row[m.job].at \in {"none", "due"}
        /\ m.job \notin unsaved => spent[m.job] <= row[m.job].tries
    BY TypeParts DEF PassOK, PassKnows, CountsOK, PassCounts
  <1>2. r \in Rows /\ r.tries = row[m.job].tries /\ r.resume = "no" /\ r.tries \in Nat
    BY <1>1, RecordedTyped DEF Rows
  <1>3. r.tries <= 2
    BY <1>1, <1>2 DEF CountsOK, RowWaits
  <1> HIDE DEF r
  <1>4. CASE Schedule(m.job, r)
    <2>1. JournalCounts' /\ RowWaits' /\ BudgetHolds'
      BY <1>1, <1>2, <1>3, <1>4, ScheduleCounts
    <2> QED
      BY <2>1, EndsCounted DEF CountsOK
  <1>5. CASE Hold(m.job, r)
    <2>1. CommitRetry(m.job, r, r.tries, "held") /\ spent' = spent
      BY <1>5 DEF Hold
    <2>2. JournalCounts' /\ RowWaits' /\ unsaved \subseteq unsaved'
      BY <1>1, <1>2, <2>1, CommitCounts DEF CountsOK
    <2> QED
      BY <2>1, <2>2, EndsCounted DEF CountsOK, BudgetHolds
  <1> QED
    BY <1>4, <1>5 DEF r

LEMMA JudgeCounts ==
    ASSUME TypeOK, PassOK, CountsOK, Judge
    PROVE  CountsOK'
  <1>0. /\ m \in Passes /\ row \in [Jobs -> Rows] /\ journal \in [Jobs -> Journals]
        /\ spent \in [Jobs -> Nat]
    BY TypeParts DEF HistoryOK
  <1>1. m.at = "judge"
    BY DEF Judge, FinishStall, JudgeUnsupported, JudgeFailed, JudgeDelivered, Judges
  <1>2. /\ m.job \in Jobs \ gone /\ Frozen(m.job) /\ row[m.job] \in Rows
        /\ m.job \notin unsaved => spent[m.job] <= row[m.job].tries
    BY <1>0, <1>1 DEF PassOK, PassKnows, CountsOK, PassCounts
  <1>3. gone' = gone
    BY DEF Judge, FinishStall, JudgeUnsupported, JudgeFailed, JudgeDelivered, Judges, staging
  <1>4. CASE JudgeUnsupported
    BY <1>1, <1>2, <1>3, <1>4, FailsCounted DEF JudgeUnsupported, Judges
  <1>5. CASE JudgeFailed
    <2>1. "stalled" \notin m.out /\ Stop /\ UNCHANGED staging
      BY <1>5 DEF JudgeFailed, Judges
    <2>2. CASE Schedule(m.job, Recorded(row[m.job]))
      BY <1>1, <1>2, <1>3, <2>1, <2>2, FailsCounted
    <2>3. CASE RecordError(m.job) /\ UNCHANGED <<journal, history>>
      BY <1>2, <2>1, <2>3, EndsUncounted, RecordsWait DEF history, CountsOK
    <2> QED
      BY <1>5, <2>2, <2>3 DEF JudgeFailed
  <1>6. CASE FinishStall
    <2> DEFINE r == [row[m.job] EXCEPT !.resume = "no"]
    <2>1. /\ r \in Rows /\ r.tries = row[m.job].tries /\ r.tries \in Nat /\ r.resume = "no"
          /\ row[m.job].tries \in Nat
      BY <1>2 DEF Rows
    <2>2. Stop /\ UNCHANGED staging
      BY <1>6 DEF FinishStall, Judges
    <2>3. CASE CommitRetry(m.job, r, row[m.job].tries, RetryDelay(row[m.job].tries)) /\ UNCHANGED spent
      <3>1. /\ RetryDelay(row[m.job].tries) \in {"wait", "held"}
            /\ RetryDelay(row[m.job].tries) = "wait" => row[m.job].tries <= 2
        BY <2>1, RetryDelayTyped
      <3> HIDE DEF r
      <3>2. JournalCounts' /\ RowWaits' /\ unsaved \subseteq unsaved'
        BY <1>2, <1>3, <2>1, <2>3, <3>1, CommitCounts DEF CountsOK
      <3> QED
        BY <2>2, <2>3, <3>2, EndsCounted DEF CountsOK, BudgetHolds
    <2>4. CASE /\ row' = [row EXCEPT ![m.job] = [@ EXCEPT !.at = "held", !.resume = "no"]]
               /\ UNCHANGED <<journal, history>>
      <3> DEFINE w == [row[m.job] EXCEPT !.at = "held", !.resume = "no"]
      <3>1. w \in Rows /\ WaitsWell(w)
        BY <1>2 DEF Rows, WaitsWell
      <3>2. RowWaits'
        BY <1>0, <1>2, <2>4, <3>1, RowStep DEF CountsOK
      <3> QED
        BY <2>2, <2>4, <3>2, EndsUncounted DEF history
    <2>5. CASE UNCHANGED <<journal, row, history>>
      <3>1. RowWaits'
        BY <2>5 DEF CountsOK, RowWaits
      <3> QED
        BY <2>2, <2>5, <3>1, EndsUncounted DEF history
    <2> QED
      BY <1>6, <2>3, <2>4, <2>5 DEF FinishStall
  <1>7. CASE JudgeDelivered
    <2>1. m'.at = "verify" /\ m'.job = m.job /\ m'.out = m.out /\ "stalled" \notin m.out
      BY <1>0, <1>7 DEF JudgeDelivered, Go, Passes
    <2>2. UNCHANGED <<journal, gone, row, spent, unsaved>>
      BY <1>7 DEF JudgeDelivered, staging, memory, history
    <2> QED
      BY <1>1, <2>1, <2>2, GoesOnCounted DEF CountsStay
  <1> QED
    BY <1>4, <1>5, <1>6, <1>7 DEF Judge

LEMMA FinishCounts ==
    ASSUME TypeOK, PassOK, CountsOK, Finish
    PROVE  CountsOK'
  <1>0. /\ m \in Passes /\ row \in [Jobs -> Rows] /\ journal \in [Jobs -> Journals]
        /\ spent \in [Jobs -> Nat]
    BY TypeParts DEF HistoryOK
  <1>1. m.at \in {"verify", "link", "mark", "clean", "remove", "last"}
    BY DEF Finish, Verify, Link, LinkFails, Mark, Clean, CleanBlocked, Remove, Last
  <1>2. /\ m.job \in Jobs \ gone /\ Frozen(m.job) /\ "stalled" \notin m.out
        /\ row[m.job].at \in {"none", "due"} /\ row[m.job] \in Rows /\ journal[m.job] \in Journals
    BY <1>0, <1>1 DEF PassOK, PassKnows, CountsOK, PassCounts
  <1>3. ASSUME CountsStay, UNCHANGED <<gone, row, spent, unsaved>>, m'.job = m.job, m'.out = m.out,
               m'.at # "stalled"
        PROVE  CountsOK'
    BY <1>1, <1>2, <1>3, GoesOnCounted
  <1>4. \A at : Go(at) => m'.at = at /\ m'.job = m.job /\ m'.out = m.out
    BY <1>0 DEF Go, Passes
  <1>5. CASE Verify
    <2>1. CASE UNCHANGED row /\ Go(IF journal[m.job].announced THEN "clean" ELSE "link")
      BY <1>3, <1>4, <1>5, <2>1 DEF Verify, CountsStay, staging, history
    <2>2. CASE RecordError(m.job) /\ Stop
      BY <1>2, <1>5, <2>2, EndsUncounted, RecordsWait DEF Verify, history, CountsOK
    <2> QED
      BY <1>5, <2>1, <2>2 DEF Verify
  <1>6. CASE Link
    BY <1>3, <1>4, <1>6 DEF Link, CountsStay, staging, memory, history
  <1>7. CASE LinkFails
    BY <1>1, <1>2, <1>7, FailsCounted DEF LinkFails, staging
  <1>8. CASE Mark
    <2>1. CountsStay
      BY <1>0, <1>2, <1>8 DEF Mark, Saved, SaveFails, CountsStay, Journals
    <2> QED
      BY <1>3, <1>4, <1>8, <2>1 DEF Mark, staging, memory, history
  <1>9. CASE Clean
    <2>1. m'.at = "remove" /\ m'.job = m.job /\ m'.out = m.out
      BY <1>0, <1>9 DEF Clean, Passes
    <2> QED
      BY <1>3, <1>9, <2>1 DEF Clean, CountsStay, staging, memory, history
  <1>10. CASE CleanBlocked
    BY <1>2, <1>10, EndsUncounted, RecordsWait DEF CleanBlocked, EndWith, history, CountsOK
  <1>11. ASSUME NEW p \in {"mkv", "iso"}, Remove(p) PROVE CountsOK'
    <2>1. m'.at \in {"last", "remove"} /\ m'.job = m.job /\ m'.out = m.out
      BY <1>0, <1>11 DEF Remove, Passes
    <2> QED
      BY <1>3, <1>11, <2>1 DEF Remove, CountsStay, memory, history
  <1>12. CASE Last
    <2>1. /\ journal' = [journal EXCEPT ![m.job] = NoJournal] /\ gone' = gone \cup {m.job}
          /\ row' = [row EXCEPT ![m.job] = NoRow] /\ UNCHANGED <<spent, unsaved>> /\ Stop
      BY <1>12 DEF Last, history
    <2>2. NoRow \in Rows /\ WaitsWell(NoRow)
      BY ConstantsTyped DEF NoRow, WaitsWell
    <2>3. RowWaits'
      BY <1>0, <1>2, <2>1, <2>2, RowStep DEF CountsOK
    <2>4. JournalCounts'
      BY <1>0, <1>2, <2>1 DEF CountsOK, JournalCounts, Frozen
    <2> QED
      BY <2>1, <2>3, <2>4, EndsCounted DEF CountsOK, BudgetHolds
  <1> QED
    BY <1>5, <1>6, <1>7, <1>8, <1>9, <1>10, <1>11, <1>12 DEF Finish

LEMMA OthersCount ==
    ASSUME TypeOK, PassOK, CountsOK,
           WorkerReturns \/ Outside \/ \E j \in Jobs : TimePasses(j) \/ Retry(j)
    PROVE  CountsOK'
  <1>0. /\ m \in Passes /\ row \in [Jobs -> Rows] /\ journal \in [Jobs -> Journals]
        /\ spent \in [Jobs -> Nat]
    BY TypeParts DEF HistoryOK
  <1>1. ASSUME NEW j \in Jobs, TimePasses(j) PROVE CountsOK'
    <2> DEFINE w == [row[j] EXCEPT !.at = "due"]
    <2>1. w \in Rows /\ w.tries = row[j].tries /\ w.at = "due" /\ w.resume = row[j].resume
      BY <1>0 DEF Rows
    <2>2. row' = [row EXCEPT ![j] = w] /\ row[j].at = "wait"
      BY <1>0, <1>1 DEF TimePasses, Rows
    <2>3. WaitsWell(w)
      BY <2>1, <2>2 DEF WaitsWell, CountsOK, RowWaits
    <2>4. RowWaits'
      BY <1>0, <2>1, <2>2, <2>3, RowStep DEF CountsOK
    <2>5. UNCHANGED <<m, journal, gone, spent, unsaved>>
      BY <1>1 DEF TimePasses, staging, history
    <2>6. PassCounts'
      BY <1>0, <2>1, <2>2, <2>5 DEF CountsOK, PassCounts
    <2> QED
      BY <2>4, <2>5, <2>6, CountsNothing DEF CountsStay
  <1>2. ASSUME NEW j \in Jobs, Retry(j) PROVE CountsOK'
    <2>1. /\ row' = [row EXCEPT ![j] = NoRow] /\ spent' = [spent EXCEPT ![j] = 0]
          /\ unsaved' = unsaved \ {j} /\ UNCHANGED <<m, journal, gone>>
      BY <1>2 DEF Retry, staging
    <2>2. NoRow \in Rows /\ WaitsWell(NoRow) /\ NoRow.tries = 0 /\ NoRow.at = "none"
      BY ConstantsTyped DEF NoRow, WaitsWell
    <2>3. RowWaits'
      BY <1>0, <2>1, <2>2, RowStep DEF CountsOK
    <2>4. /\ row'[j] = NoRow /\ spent'[j] = 0
          /\ \A k \in Jobs : k # j => row'[k] = row[k] /\ spent'[k] = spent[k]
      BY <1>0, <2>1
    <2>5. \A k \in Jobs : journal[k].tries \in Nat
      BY <1>0 DEF Journals
    <2>6. JournalCounts'
      <3> SUFFICES ASSUME NEW k \in Jobs \ gone, k \notin unsaved'
                   PROVE  spent'[k] <= journal[k].tries
        BY <2>1 DEF CountsOK, JournalCounts, Frozen
      <3> QED
        BY <2>1, <2>4, <2>5 DEF CountsOK, JournalCounts
    <2>7. PassCounts'
      <3> SUFFICES ASSUME m.at # "idle" PROVE PassCounts'
        BY <2>1 DEF PassCounts
      <3>1. m.job \in Jobs
        BY DEF PassOK, PassKnows
      <3> QED
        BY <2>1, <2>2, <2>4, <3>1 DEF CountsOK, PassCounts
    <2> QED
      BY <2>1, <2>3, <2>4, <2>6, <2>7 DEF CountsOK, BudgetHolds
  <1>3. CASE WorkerReturns
    <2>1. m.job \in Jobs /\ row[m.job] \in Rows /\ m.at = "stalled"
      BY <1>0, <1>3 DEF WorkerReturns, PassOK, PassKnows
    <2> DEFINE w == [row[m.job] EXCEPT !.busy = FALSE]
    <2>2. w \in Rows /\ w.tries = row[m.job].tries /\ w.at = row[m.job].at /\ w.resume = row[m.job].resume
      BY <2>1 DEF Rows
    <2>3. row' = [row EXCEPT ![m.job] = w]
      BY <1>0, <1>3, <2>1 DEF WorkerReturns, Rows
    <2>4. WaitsWell(w)
      BY <2>1, <2>2 DEF WaitsWell, CountsOK, RowWaits
    <2>5. RowWaits'
      BY <1>0, <2>1, <2>2, <2>3, <2>4, RowStep DEF CountsOK
    <2>6. UNCHANGED <<journal, gone, spent, unsaved>>
      BY <1>3 DEF WorkerReturns, staging, history
    <2>7. m'.at = "judge" /\ m'.job = m.job /\ "stalled" \in m'.out
      BY <1>0, <1>3 DEF WorkerReturns, Passes
    <2>8. PassCounts'
      BY <1>0, <2>1, <2>2, <2>3, <2>6, <2>7 DEF CountsOK, PassCounts
    <2> QED
      BY <2>5, <2>6, <2>8, CountsNothing DEF CountsStay
  <1>4. CASE Crash
    <2>1. UNCHANGED <<journal, gone, spent, unsaved>> /\ Stop /\ row' = [j \in Jobs |-> NoRow]
      BY <1>4 DEF Crash, Stop, staging, history
    <2>2. RowWaits'
      BY <2>1 DEF RowWaits, NoRow
    <2> QED
      BY <2>1, <2>2, EndsCounted, CountsNothing DEF CountsStay
  <1>5. CASE People \/ FolderRemoved \/ ShareChanges \/ StagingChanges
    <2>1. UNCHANGED <<m, row, journal, gone, spent, unsaved>>
      BY <1>5 DEF People, FolderRemoved, ShareChanges, StagingChanges, staging, memory, history
    <2> QED
      BY <2>1 DEF CountsOK, JournalCounts, RowWaits, PassCounts, BudgetHolds, Frozen
  <1> QED
    BY <1>1, <1>2, <1>3, <1>4, <1>5 DEF Outside

\* One step of the program keeps the counts.
LEMMA CountsStep ==
    ASSUME TypeOK, PassOK, CountsOK, [Next]_vars
    PROVE  CountsOK'
  <1>1. CASE UNCHANGED vars
    BY <1>1 DEF vars, memory, staging, history, CountsOK, JournalCounts, RowWaits, PassCounts, BudgetHolds,
      Frozen
  <1>2. CASE Next
    BY <1>2, BeginCounts, PlanCounts, DeliverCounts, JudgeCounts, FinishCounts, OthersCount DEF Next, Pass
  <1> QED
    BY <1>1, <1>2

-----------------------------------------------------------------------------
(* The theorems *)

LEMMA Initial == Init => IInv
<1> SUFFICES ASSUME Init PROVE IInv
  OBVIOUS
<1>1. TypeOK
  <2>1. LibraryOK /\ StagingOK /\ RequestOK /\ HistoryOK
    BY DEF Init, LibraryOK, StagingOK, RequestOK, HistoryOK
  <2>2. journal \in [Jobs -> Journals] /\ row \in [Jobs -> Rows] /\ m \in Passes
    BY ConstantsTyped DEF Init
  <2>3. linked \subseteq Jobs /\ acts \in 0 .. MaxActs
    BY BoundsAssumption DEF Init
  <2> QED
    BY <2>1, <2>2, <2>3, TypeParts
<1>2. PassOK /\ GoneWasLinked
  BY DEF Init, PassOK, PassKnows, PassHolds, StillReserved, AnnouncedIsLinked, GoneWasLinked, Idle, NoJournal
<1>3. FilesOK
  <2>1. \A s \in Slots, j \in Jobs : dest[s] # j
    BY JobsAssumption DEF Init
  <2>2. UnderItsName /\ FiledOnce
    BY <2>1 DEF UnderItsName, FiledOnce, Slots, Files
  <2> QED
    BY <2>2 DEF Init, FilesOK, MediaKept, OneName, Frozen, NoJournal
<1>4. CountsOK
  BY DEF Init, CountsOK, JournalCounts, RowWaits, PassCounts, BudgetHolds, Idle, NoJournal, NoRow
<1> QED
  BY <1>1, <1>2, <1>3, <1>4 DEF IInv

LEMMA Preserved == IInv /\ [Next]_vars => IInv'
<1> SUFFICES ASSUME IInv, [Next]_vars PROVE IInv'
  OBVIOUS
<1>1. TypeOK'
  BY TypeStep DEF IInv, PassOK
<1>2. PassOK'
  BY PassStep DEF IInv
<1>3. GoneWasLinked'
  BY <1>2, GoneStep DEF IInv
<1>4. FilesOK'
  BY FilesStep DEF IInv
<1>5. CountsOK'
  BY CountsStep DEF IInv
<1> QED
  BY <1>1, <1>2, <1>3, <1>4, <1>5 DEF IInv

LEMMA Invariant == Spec => []IInv
  BY Initial, Preserved, PTL DEF Spec

\* The state of the mover, its journals and its rows keeps its shape.
THEOREM TypeCorrect == Spec => []TypeOK
<1>1. IInv => TypeOK
  BY DEF IInv
<1> QED
  BY <1>1, Invariant, PTL

\* No file of a rip is lost, whatever fails or crashes in the middle of a delivery: it is in
\* staging or under its name in the library, unless people took it from there.
THEOREM NoFileLost == Spec => []MediaKept
<1>1. IInv => MediaKept
  BY DEF IInv, FilesOK
<1> QED
  BY <1>1, Invariant, PTL

\* A file of a rip is never under two names in the library: a delivery tried again after a
\* failure or a crash goes where the frozen journal says.
THEOREM FiledUnderOneName == Spec => []FiledOnce
<1>1. IInv => FiledOnce
  BY DEF IInv, FilesOK
<1> QED
  BY <1>1, Invariant, PTL

\* No two deliveries freeze the same name, published or not, though the mover looks for a
\* free name and journals it in two steps.
THEOREM NamesAreReserved == Spec => []OneName
<1>1. IInv => OneName
  BY DEF IInv, FilesOK
<1> QED
  BY <1>1, Invariant, PTL

\* Between two Retries of the operator a delivery fails at most three times, across restarts,
\* stalls and lost rows, unless its count could not be saved.
THEOREM ThreeFailuresAtMost == Spec => []BudgetHolds
<1>1. IInv => BudgetHolds
  BY DEF IInv, CountsOK
<1> QED
  BY <1>1, Invariant, PTL

\* The staging folder of a rip is removed only after the source links name its delivery.
THEOREM LinkedBeforeGone == Spec => []GoneWasLinked
<1>1. IInv => GoneWasLinked
  BY DEF IInv
<1> QED
  BY <1>1, Invariant, PTL

\* Every step of the mover is a step of the abstract filing or leaves it alone.
LEMMA FilingStep ==
    ASSUME IInv, [Next]_vars
    PROVE  [Filings!Next]_(Filings!vars)
<1>0. TypeOK /\ PassOK
  BY DEF IInv
<1>1. CASE LeavesFiles
  BY <1>1 DEF LeavesFiles, Filings!vars
<1>2. CASE Publishes
  <2> DEFINE j == m.job
             p == m.part
             v == journal[m.job].variant
  <2>1. /\ j \in Jobs /\ p \in {"mkv", "iso"} /\ v \in Variants /\ <<j, p>> \in staged
        /\ dest[<<p, v>>] = "free" /\ dest' = [dest EXCEPT ![<<p, v>>] = j]
    BY <1>0, <1>2, PublishedSlot
  <2>2. staged' \in {staged, staged \ {<<j, p>>}} /\ gone' = gone
    BY <1>2 DEF Publishes
  <2> HIDE DEF j, p, v
  <2>3. Filings!Publish(j, p)
    BY <2>1, <2>2 DEF Filings!Publish
  <2> QED
    BY <2>1, <2>3 DEF Filings!Next
<1>3. CASE Discards
  <2>1. PICK p \in {"mkv", "iso"} : Holds(m.job, p) /\ staged' = staged \ {<<m.job, p>>}
    BY <1>3 DEF Discards
  <2>2. m.job \in Jobs /\ Frozen(m.job)
    BY <1>0, <1>3 DEF Discards, PassOK, PassKnows
  <2>3. journal[m.job].variant \in 0 .. MaxVariant
    BY <1>0, <2>2 DEF TypeOK
  <2>4. Filings!Filed(m.job, p)
    BY <2>1, <2>2, <2>3, BoundsAssumption DEF Filings!Filed, Holds, Slot, Frozen, Variants
  <2>5. Filings!Discard(m.job, p)
    BY <1>3, <2>1, <2>4 DEF Discards, Filings!Discard
  <2> QED
    BY <2>2, <2>5 DEF Filings!Next
<1>4. CASE Leaves
  <2>1. m.job \in Jobs /\ \A p \in {"mkv", "iso"} : <<m.job, p>> \notin staged
    BY <1>0, <1>4 DEF Leaves, PassOK, PassKnows, PassHolds
  <2>2. Filings!Finish(m.job)
    BY <1>4, <2>1 DEF Leaves, Filings!Finish
  <2> QED
    BY <2>1, <2>2 DEF Filings!Next
<1>5. CASE PeopleTake
  <2>1. Filings!People
    BY <1>5 DEF PeopleTake, Filings!People, Slots
  <2> QED
    BY <2>1 DEF Filings!Next
<1> QED
  BY <1>0, <1>1, <1>2, <1>3, <1>4, <1>5, Footprint

\* The mover, with its journals, retries, holds, crashes and failing storage, implements the
\* abstract filing: names are taken only when free and staged files discarded only while the
\* library holds them.
THEOREM ImplementsFiling == Spec => FilingKept
<1>1. Init => Filings!Init
  BY DEF Init, Filings!Init, Slots, Files
<1>2. IInv /\ [Next]_vars => [Filings!Next]_(Filings!vars)
  BY FilingStep
<1> QED
  BY <1>1, <1>2, Invariant, PTL DEF Spec, FilingKept, Filings!Spec
=============================================================================
