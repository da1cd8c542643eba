-------------------------- MODULE DriveSessionProofs --------------------------
(***************************************************************************)
(* What holds of DriveSession for every setting and every bound.           *)
(***************************************************************************)
EXTENDS DriveSession, TLAPS

\* What the proofs need of the shape of the workers.
Shape == /\ DOMAIN worker = Claimants
         /\ \A a \in Claimants : "pc" \in DOMAIN worker[a]

\* The thread that works is the one whose handle is registered: a handle is
\* replaced or taken only when its thread has finished.
Owned == \A a \in Claimants : Live(a) => thread = a

IInv == Shape /\ Owned

LEMMA OwnedIsOne == IInv => OneWorker
  BY DEF IInv, Owned, OneWorker

LEMMA Initial == Init => IInv
  BY DEF Init, IInv, Shape, Owned, Live, NoWork

\* No thread comes to life, and a handle goes only when nothing runs.
Quiet == /\ Shape'
         /\ \A a \in Claimants : Live(a)' => Live(a)
         /\ thread' = thread \/ ~Running

LEMMA QuietKeeps == IInv /\ Quiet => IInv'
  BY DEF IInv, Quiet, Owned, Running, NoOne, Claimants

LEMMA IdleIsQuiet == IInv /\ UNCHANGED <<thread, worker>> => Quiet
  BY DEF IInv, Quiet, Shape, Live

\* A thread that works on goes on working, or ends.
LEMMA WorkIsQuiet ==
    ASSUME IInv, NEW a \in Claimants, Live(a), thread' = thread,
           NEW w, "pc" \in DOMAIN w, worker' = [worker EXCEPT ![a] = w]
    PROVE  Quiet
  BY DEF IInv, Quiet, Shape, Live

LEMMA GoesIsQuiet ==
    ASSUME IInv, NEW a \in Claimants, Live(a), thread' = thread,
           NEW pc, Goes(a, pc)
    PROVE  Quiet
<1> DEFINE w == [worker[a] EXCEPT !.pc = pc]
<1>1. "pc" \in DOMAIN w
  BY DEF IInv, Shape
<1>2. worker' = [worker EXCEPT ![a] = w]
  BY DEF Goes
<1> QED
  BY <1>1, <1>2, WorkIsQuiet

\* A spawn registers the handle of the thread it starts, over none that runs.
LEMMA SpawnKeeps ==
    ASSUME IInv, NEW a \in Claimants, NEW kind, NEW gen, Spawn(a, kind, gen)
    PROVE  IInv'
<1>1. CASE UNCHANGED <<thread, worker>>
  BY <1>1, IdleIsQuiet, QuietKeeps
<1>2. CASE /\ ~Running /\ thread' = a
           /\ worker' = [worker EXCEPT ![a] =
                           [NoWork EXCEPT !.pc = "start", !.kind = kind]]
  <2>1. \A b \in Claimants : ~Live(b)
    BY <1>2 DEF IInv, Owned, Running, NoOne, Claimants
  <2>2. "pc" \in DOMAIN [NoWork EXCEPT !.pc = "start", !.kind = kind]
    BY DEF NoWork
  <2>3. \A b \in Claimants : b # a => ~Live(b)'
    BY <1>2, <2>1 DEF Live, IInv, Shape
  <2> QED
    BY <1>2, <2>2, <2>3 DEF IInv, Shape, Owned
<1> QED
  BY <1>1, <1>2 DEF Spawn

\* Every step of a worker is one of its own thread, which it neither starts nor
\* hands over.
LEMMA WorkerIsQuiet ==
    ASSUME IInv, NEW a \in Claimants, Worker(a) \/ Panics(a)
    PROVE  Quiet
<1> DEFINE Ended == [NoWork EXCEPT !.pc = "ended"]
<1>0. "pc" \in DOMAIN worker[a] /\ "pc" \in DOMAIN Ended
  BY DEF IInv, Shape, NoWork
<1>1. CASE ScanBegins(a)
  <2>1. Live(a) /\ thread' = thread /\ Goes(a, "scanning")
    BY <1>1 DEF ScanBegins, At, Live
  <2> QED
    BY <2>1, GoesIsQuiet
<1>2. CASE ScanSkipped(a)
  <2>1. Live(a) /\ thread' = thread /\ Goes(a, "guard")
    BY <1>2 DEF ScanSkipped, At, Live
  <2> QED
    BY <2>1, GoesIsQuiet
<1>3. CASE ScanEnds(a)
  <2>1. Live(a) /\ thread' = thread /\ Scanned(a)
    BY <1>3 DEF ScanEnds, At, Live
  <2> QED
    BY <2>1, GoesIsQuiet DEF Scanned
<1>4. CASE RipFollows(a)
  <2>1. Live(a) /\ thread' = thread
    BY <1>4 DEF RipFollows, At, Live
  <2>2. CASE Goes(a, "tail")
    BY <2>1, <2>2, GoesIsQuiet
  <2>3. CASE worker' = [worker EXCEPT ![a].pc = "start", ![a].kind = "auto"]
    <3> DEFINE w == [worker[a] EXCEPT !.pc = "start", !.kind = "auto"]
    <3>1. worker' = [worker EXCEPT ![a] = w] /\ "pc" \in DOMAIN w
      BY <1>0, <2>3 DEF IInv, Shape
    <3> QED
      BY <2>1, <3>1, WorkIsQuiet
  <2> QED
    BY <1>4, <2>2, <2>3 DEF RipFollows
<1>5. CASE Dispatches(a)
  <2>1. Live(a) /\ thread' = thread
    BY <1>5 DEF Dispatches, At, Live
  <2>2. Goes(a, "tail") \/ Goes(a, "install")
    BY <1>5 DEF Dispatches
  <2> QED
    BY <2>1, <2>2, GoesIsQuiet
<1>6. CASE Installs(a)
  <2>1. Live(a) /\ thread' = thread
    BY <1>6 DEF Installs, At, Live
  <2>2. CASE Goes(a, "tail")
    BY <2>1, <2>2, GoesIsQuiet
  <2>3. CASE worker' = [worker EXCEPT ![a].pc = "take", ![a].job = row.job]
    <3> DEFINE w == [worker[a] EXCEPT !.pc = "take", !.job = row.job]
    <3>1. worker' = [worker EXCEPT ![a] = w] /\ "pc" \in DOMAIN w
      BY <1>0, <2>3 DEF IInv, Shape
    <3> QED
      BY <2>1, <3>1, WorkIsQuiet
  <2> QED
    BY <1>6, <2>2, <2>3 DEF Installs
<1>7. CASE Takes(a)
  <2> DEFINE d == IF session # 0 THEN session ELSE tray.disc
  <2>1. Live(a) /\ thread' = thread
    BY <1>7 DEF Takes, At, Live
  <2>2. CASE Goes(a, "tail")
    BY <2>1, <2>2, GoesIsQuiet
  <2>3. CASE worker' = [worker EXCEPT ![a].pc = "begin", ![a].disc = d]
    <3> DEFINE w == [worker[a] EXCEPT !.pc = "begin", !.disc = d]
    <3>1. worker' = [worker EXCEPT ![a] = w] /\ "pc" \in DOMAIN w
      BY <1>0, <2>3 DEF IInv, Shape
    <3> QED
      BY <2>1, <3>1, WorkIsQuiet
  <2> QED
    BY <1>7, <2>2, <2>3 DEF Takes
<1>8. CASE Begins(a)
  <2>1. Live(a) /\ thread' = thread
    BY <1>8 DEF Begins, At, Live
  <2>2. CASE Goes(a, "tail")
    BY <2>1, <2>2, GoesIsQuiet
  <2>3. CASE worker' = [worker EXCEPT ![a].pc = "sweep",
                                      ![a].tok = <<a, "drive">>]
    <3> DEFINE w == [worker[a] EXCEPT !.pc = "sweep", !.tok = <<a, "drive">>]
    <3>1. worker' = [worker EXCEPT ![a] = w] /\ "pc" \in DOMAIN w
      BY <1>0, <2>3 DEF IInv, Shape
    <3> QED
      BY <2>1, <3>1, WorkIsQuiet
  <2> QED
    BY <1>8, <2>2, <2>3 DEF Begins
<1>9. CASE SweepEnds(a)
  <2>1. Live(a) /\ thread' = thread
    BY <1>9 DEF SweepEnds, At, Live
  <2>2. \E pc \in {"eject", "tail"} : Goes(a, pc)
    BY <1>9 DEF SweepEnds
  <2> QED
    BY <2>1, <2>2, GoesIsQuiet
<1>10. CASE AutoEjects(a)
  <2>1. Live(a) /\ thread' = thread /\ Goes(a, "tail")
    BY <1>10 DEF AutoEjects, At, Live
  <2> QED
    BY <2>1, GoesIsQuiet
<1>11. CASE Ends(a)
  <2>1. Live(a) /\ thread' = thread /\ worker' = [worker EXCEPT ![a] = Ended]
    BY <1>11 DEF Ends, At, Live
  <2> QED
    BY <1>0, <2>1, WorkIsQuiet
<1>12. CASE Panics(a)
  <2>1. Live(a) /\ thread' = thread /\ worker' = [worker EXCEPT ![a] = Ended]
    BY <1>12 DEF Panics
  <2> QED
    BY <1>0, <2>1, WorkIsQuiet
<1> QED
  BY <1>1, <1>2, <1>3, <1>4, <1>5, <1>6, <1>7, <1>8, <1>9, <1>10, <1>11, <1>12
     DEF Worker

\* The handle is taken by a join that found nothing running.
LEMMA ReapIsQuiet == IInv /\ Reap /\ worker' = worker => Quiet
  BY DEF IInv, Reap, Quiet, Shape, Live

LEMMA Step == IInv /\ [Next]_vars => IInv'
<1> SUFFICES ASSUME IInv, [Next]_vars PROVE IInv'
  OBVIOUS
<1>1. CASE UNCHANGED vars
  BY <1>1, IdleIsQuiet, QuietKeeps DEF vars
<1>2. CASE Poll
  <2>1. CASE PollSpawns
    BY <2>1, SpawnKeeps DEF PollSpawns, Claimants
  <2>2. CASE UNCHANGED <<thread, worker>>
    BY <2>2, IdleIsQuiet, QuietKeeps
  <2> QED
    BY <1>2, <2>1, <2>2 DEF Poll, PollCheck, PollFails, PollAnswers, PollShows,
                            PollClaims, PollRefused, PollRegisters
<1>3. CASE WebAsks \/ WebHandles
  <2>1. CASE WebSpawns
    BY <2>1, SpawnKeeps DEF WebSpawns, Claimants
  <2>2. CASE UNCHANGED <<thread, worker>>
    BY <2>2, IdleIsQuiet, QuietKeeps
  <2> QED
    BY <1>3, <2>1, <2>2 DEF WebAsks, WebHandles, WebClaims, WebRefused,
                            WebRegisters
<1>4. CASE EjectAsks \/ EjectHandles
  <2>1. CASE EjectJoins
    BY <2>1, ReapIsQuiet, IdleIsQuiet, QuietKeeps DEF EjectJoins
  <2>2. CASE UNCHANGED <<thread, worker>>
    BY <2>2, IdleIsQuiet, QuietKeeps
  <2> QED
    BY <1>4, <2>1, <2>2 DEF EjectAsks, EjectHandles, EjectClaims, EjectRefused,
                       EjectCancels, EjectOpens, EjectFails, EjectAnswers
<1>5. CASE StopPrepares \/ StopHandles
  <2>1. CASE StopDrains
    BY <2>1, ReapIsQuiet, IdleIsQuiet, QuietKeeps DEF StopDrains
  <2>2. CASE UNCHANGED <<thread, worker>>
    BY <2>2, IdleIsQuiet, QuietKeeps
  <2> QED
    BY <1>5, <2>1, <2>2 DEF StopPrepares, StopHandles, StopCancels, StopApplies,
                            StopAnswers
<1>6. CASE CooldownEnds \/ TakeOut \/ PutIn
  BY <1>6, IdleIsQuiet, QuietKeeps DEF CooldownEnds, TakeOut, PutIn
<1>7. CASE \E a \in Claimants : Worker(a) \/ Panics(a)
  BY <1>7, WorkerIsQuiet, QuietKeeps
<1> QED
  BY <1>1, <1>2, <1>3, <1>4, <1>5, <1>6, <1>7 DEF Next

\* One thread at a time works on a drive, for every on_insert setting and any
\* number of discs, requests, Stops and failures, also when requests overtake
\* each other between any two of their steps (spawn_rip_thread, join_rip_thread
\* and register_rip_thread keep the handle of a thread that runs).
THEOREM OneWorkerAtATime == Spec => []OneWorker
<1>1. Spec => []IInv
  BY Initial, Step, PTL DEF Spec
<1> QED
  BY <1>1, OwnedIsOne, PTL

-----------------------------------------------------------------------------
(* A Stop that reports the drive free.                                     *)

\* A request that claimed the row and has not started its thread yet.
Claimed == \/ poll.pc \in {"claimed", "armed"}
           \/ web.pc \in {"claimed", "armed"}

Records == /\ "gen" \in DOMAIN row /\ row.gen \in Nat
           /\ {"pc", "gen"} \subseteq DOMAIN stop /\ stop.gen \in Nat
           /\ "pc" \in DOMAIN poll /\ "pc" \in DOMAIN web

\* While the row is of the generation a Stop read, no request stands between
\* its claim and its thread, and once the Stop has drained nothing runs.
Drained ==
    stop.pc # "rest" =>
      /\ stop.gen <= row.gen
      /\ row.gen = stop.gen => /\ ~Claimed
                               /\ stop.pc \in {"drained", "release"} =>
                                    \A a \in Claimants : ~Live(a)

SInv == IInv /\ Records /\ Drained

LEMMA DrainedIsFree == SInv => StoppedIsFree
  BY DEF SInv, Drained, StoppedIsFree

LEMMA InitiallyDrained == Init => SInv
<1> SUFFICES ASSUME Init PROVE SInv
  OBVIOUS
<1>1. /\ row = [status |-> "idle", gen |-> 0, job |-> 0]
      /\ stop = [pc |-> "rest", gen |-> 0]
  BY DEF Init
<1>2. "gen" \in DOMAIN row /\ row.gen \in Nat
  BY <1>1
<1>3. {"pc", "gen"} \subseteq DOMAIN stop /\ stop.gen \in Nat /\ stop.pc = "rest"
  BY <1>1
<1>4. "pc" \in DOMAIN poll /\ "pc" \in DOMAIN web
  BY DEF Init
<1>5. Records /\ Drained
  BY <1>2, <1>3, <1>4 DEF Records, Drained
<1> QED
  BY <1>5, Initial DEF SInv

\* The row keeps its generation and the Stop its place, and no request claims.
Calm == /\ "gen" \in DOMAIN row' /\ row'.gen = row.gen
        /\ stop' = stop
        /\ "pc" \in DOMAIN poll' /\ "pc" \in DOMAIN web'
        /\ Claimed' => Claimed

LEMMA CalmKeeps ==
    ASSUME SInv, IInv', Calm, Claimed \/ \A a \in Claimants : Live(a)' => Live(a)
    PROVE  SInv'
  BY DEF SInv, Calm, Records, Drained

LEMMA ClaimKeeps ==
    ASSUME SInv, IInv', Claim, stop' = stop,
           "pc" \in DOMAIN poll', "pc" \in DOMAIN web'
    PROVE  SInv'
<1>1. "gen" \in DOMAIN row' /\ row'.gen = row.gen + 1
  BY DEF SInv, Records, Claim
<1>2. Records'
  BY <1>1 DEF SInv, Records
<1> QED
  BY <1>1, <1>2 DEF SInv, Records, Drained

\* Every row the program paints keeps the generation.
LEMMA PaintKeepsGen ==
    ASSUME SInv,
           \/ row' = row
           \/ \E status, present : row' = Put(status, present)
           \/ \E status : row' = [row EXCEPT !.status = status]
           \/ \E status, job : row' = [row EXCEPT !.status = status, !.job = job]
    PROVE  "gen" \in DOMAIN row' /\ row'.gen = row.gen
<1>1. CASE row' = row
  BY <1>1 DEF SInv, Records
<1>2. ASSUME NEW status, NEW present, row' = Put(status, present)
      PROVE  "gen" \in DOMAIN row' /\ row'.gen = row.gen
  <2> DEFINE job == IF present THEN row.job ELSE 0
  <2>1. row' = [status |-> status, gen |-> row.gen, job |-> job]
    BY <1>2 DEF Put
  <2> HIDE DEF job
  <2> QED
    BY <2>1
<1>3. ASSUME NEW status, row' = [row EXCEPT !.status = status]
      PROVE  "gen" \in DOMAIN row' /\ row'.gen = row.gen
  BY <1>3 DEF SInv, Records
<1>4. ASSUME NEW status, NEW job,
             row' = [row EXCEPT !.status = status, !.job = job]
      PROVE  "gen" \in DOMAIN row' /\ row'.gen = row.gen
  BY <1>4 DEF SInv, Records
<1> QED
  BY <1>1, <1>2, <1>3, <1>4

LEMMA SpawnIsCalm ==
    ASSUME SInv, NEW a \in Claimants, NEW kind, NEW gen, Spawn(a, kind, gen),
           stop' = stop, "pc" \in DOMAIN poll', "pc" \in DOMAIN web',
           Claimed' => Claimed
    PROVE  Calm
  BY PaintKeepsGen DEF Spawn, Rollback, Calm

LEMMA WorkerIsCalm ==
    ASSUME SInv, NEW a \in Claimants, Worker(a) \/ Panics(a)
    PROVE  Calm
<1>1. UNCHANGED <<poll, web, stop>>
  BY DEF Worker, ScanBegins, ScanSkipped, ScanEnds, RipFollows, Dispatches,
         Installs, Takes, Begins, SweepEnds, AutoEjects, Ends, Panics
<1>2. CASE ScanEnds(a)
  <2>1. \/ row' = [row EXCEPT !.status = "idle", !.job = tray.disc]
        \/ row' = Put("error", FALSE)
        \/ row' \in HeldRows
    BY <1>2 DEF ScanEnds
  <2> QED
    BY <1>1, <2>1, PaintKeepsGen DEF HeldRows, Calm, SInv, Records, Claimed
<1>3. CASE ~ScanEnds(a)
  <2>1. row' = row \/ \E status, present : row' = Put(status, present)
    <3>1. CASE \/ ScanBegins(a) \/ ScanSkipped(a) \/ RipFollows(a)
               \/ Dispatches(a) \/ Installs(a)
      BY <3>1 DEF ScanBegins, ScanSkipped, RipFollows, Dispatches, Installs
    <3>2. CASE \/ Takes(a) \/ Begins(a) \/ SweepEnds(a) \/ AutoEjects(a)
               \/ Ends(a) \/ Panics(a)
      BY <3>2 DEF Takes, Begins, SweepEnds, AutoEjects, Ends, Panics
    <3> QED
      BY <1>3, <3>1, <3>2 DEF Worker
  <2> QED
    BY <1>1, <2>1, PaintKeepsGen DEF Calm, SInv, Records, Claimed
<1> QED
  BY <1>2, <1>3

\* What a step of the poll loop leaves or paints of the row.
LEMMA PollRows ==
    ASSUME SInv, NEW status, Publish(status)
    PROVE  "gen" \in DOMAIN row' /\ row'.gen = row.gen
  BY PaintKeepsGen DEF Publish

LEMMA ShownKeepsGen ==
    ASSUME SInv, NEW idle, row' = ShownRow(idle)
    PROVE  "gen" \in DOMAIN row' /\ row'.gen = row.gen
<1>1. \/ row' = row
      \/ row' = Put("idle", FALSE)
      \/ row' = [row EXCEPT !.status = "idle"]
  BY DEF ShownRow
<1> QED
  BY <1>1, PaintKeepsGen

LEMMA PollKeeps == ASSUME SInv, IInv', Poll PROVE SInv'
<1>0. stop' = stop /\ web' = web
  BY DEF Poll, PollCheck, PollFails, PollAnswers, PollShows, PollClaims,
         PollRefused, PollRegisters, PollSpawns
<1>00. "pc" \in DOMAIN poll' /\ "pc" \in DOMAIN web'
  BY <1>0 DEF SInv, Records, Poll, PollCheck, PollFails, PollAnswers, Answer,
         PollShows, PollClaims, PollRefused, PollRegisters, PollSpawns
<1>1. CASE PollClaims
  BY <1>0, <1>00, <1>1, ClaimKeeps DEF PollClaims
<1>2. CASE PollSpawns
  <2>1. Claimed
    BY <1>2 DEF PollSpawns, Claimed
  <2>2. Calm
    BY <1>0, <1>00, <1>2, <2>1, SpawnIsCalm DEF PollSpawns, Claimants
  <2> QED
    BY <2>1, <2>2, CalmKeeps
<1>3. CASE PollCheck \/ PollFails \/ PollAnswers \/ PollShows \/ PollRefused
           \/ PollRegisters
  <2>1. "gen" \in DOMAIN row' /\ row'.gen = row.gen
    BY <1>3, PollRows, ShownKeepsGen, PaintKeepsGen
       DEF PollCheck, PollFails, PollAnswers, Answer, PollShows, PollRefused,
           PollRegisters
  <2>2. worker' = worker
    BY <1>3 DEF PollCheck, PollFails, PollAnswers, PollShows, PollRefused,
                PollRegisters
  <2>3. Claimed' => Claimed
    BY <1>0, <1>3 DEF SInv, Records, Claimed, PollCheck, PollFails, PollAnswers,
                      Answer, PollShows, PollRefused, PollRegisters
  <2>4. Calm
    BY <1>0, <1>00, <2>1, <2>3 DEF Calm
  <2> QED
    BY <2>2, <2>4, CalmKeeps DEF Live
<1> QED
  BY <1>1, <1>2, <1>3 DEF Poll

LEMMA WebKeeps == ASSUME SInv, IInv', WebAsks \/ WebHandles PROVE SInv'
<1>0. stop' = stop /\ poll' = poll
  BY DEF WebAsks, WebHandles, WebClaims, WebRefused, WebRegisters, WebSpawns
<1>00. "pc" \in DOMAIN poll' /\ "pc" \in DOMAIN web'
  BY <1>0 DEF SInv, Records, WebAsks, WebHandles, WebClaims, WebRefused,
              WebRegisters, WebSpawns
<1>1. CASE WebClaims
  BY <1>0, <1>00, <1>1, ClaimKeeps DEF WebClaims
<1>2. CASE WebSpawns
  <2>1. Claimed
    BY <1>2 DEF WebSpawns, Claimed
  <2>2. Calm
    BY <1>0, <1>00, <1>2, <2>1, SpawnIsCalm DEF WebSpawns, Claimants
  <2> QED
    BY <2>1, <2>2, CalmKeeps
<1>3. CASE WebAsks \/ WebRefused \/ WebRegisters
  <2>1. "gen" \in DOMAIN row' /\ row'.gen = row.gen
    BY <1>3, PaintKeepsGen DEF WebAsks, WebRefused, WebRegisters
  <2>2. worker' = worker
    BY <1>3 DEF WebAsks, WebRefused, WebRegisters
  <2>3. Claimed' => Claimed
    BY <1>0, <1>3 DEF SInv, Records, Claimed, WebAsks, WebRefused, WebRegisters
  <2>4. Calm
    BY <1>0, <1>00, <2>1, <2>3 DEF Calm
  <2> QED
    BY <2>2, <2>4, CalmKeeps DEF Live
<1> QED
  BY <1>1, <1>2, <1>3 DEF WebHandles

LEMMA EjectKeeps == ASSUME SInv, IInv', EjectAsks \/ EjectHandles PROVE SInv'
<1>0. UNCHANGED <<poll, web, stop, worker>>
  BY DEF EjectAsks, EjectHandles, EjectClaims, EjectRefused, EjectCancels,
         EjectJoins, EjectOpens, EjectFails, EjectAnswers
<1>1. CASE EjectClaims
  BY <1>0, <1>1, ClaimKeeps DEF EjectClaims, SInv, Records
<1>2. CASE ~EjectClaims
  <2>1. row' = row \/ \E status, present : row' = Put(status, present)
    BY <1>2 DEF EjectAsks, EjectHandles, EjectRefused, EjectCancels,
                EjectJoins, EjectOpens, EjectFails, EjectAnswers
  <2>2. Calm
    BY <1>0, <2>1, PaintKeepsGen DEF Calm, SInv, Records, Claimed
  <2> QED
    BY <1>0, <2>2, CalmKeeps DEF Live
<1> QED
  BY <1>1, <1>2

\* The steps of a Stop: it reads the generation while no request is between its
\* claim and its thread, and is drained when its look at the thread found none.
LEMMA StopKeeps ==
    ASSUME SInv, IInv', Overtaken = FALSE, StopPrepares \/ StopHandles
    PROVE  SInv'
<1>0. UNCHANGED <<poll, web, worker>>
  BY DEF StopPrepares, StopHandles, StopCancels, StopDrains, StopApplies,
         StopAnswers
<1>1. /\ {"pc", "gen"} \subseteq DOMAIN stop /\ stop.gen \in Nat
      /\ "gen" \in DOMAIN row /\ row.gen \in Nat
  BY DEF SInv, Records
<1>2. (Claimed' <=> Claimed) /\ \A a \in Claimants : Live(a)' <=> Live(a)
  BY <1>0 DEF Claimed, Live
<1>3. CASE StopPrepares
  <2>1. ~Claimed
    BY <1>3 DEF StopPrepares, MidRequest, Claimed
  <2>2. stop' = [pc |-> "prepared", gen |-> row.gen] /\ row' = row
    BY <1>3 DEF StopPrepares
  <2>3. /\ stop'.pc = "prepared" /\ stop'.gen = row.gen
        /\ {"pc", "gen"} \subseteq DOMAIN stop'
    BY <2>2
  <2> QED
    BY <1>0, <1>1, <1>2, <2>1, <2>2, <2>3 DEF SInv, Records, Drained
<1>4. ASSUME NEW pc, stop.pc # "rest", stop' = [stop EXCEPT !.pc = pc],
             "gen" \in DOMAIN row', row'.gen = row.gen,
             pc \in {"drained", "release"} =>
               \/ stop.pc \in {"drained", "release"}
               \/ \A a \in Claimants : ~Live(a)
      PROVE  SInv'
  <2>1. /\ stop'.pc = pc /\ stop'.gen = stop.gen
        /\ {"pc", "gen"} \subseteq DOMAIN stop'
    BY <1>1, <1>4
  <2>2. Records'
    BY <1>0, <1>1, <1>4, <2>1 DEF SInv, Records
  <2>3. Drained'
    BY <1>2, <1>4, <2>1 DEF SInv, Drained
  <2> QED
    BY <2>2, <2>3 DEF SInv
<1>5. CASE StopCancels
  <2>1. /\ stop.pc # "rest" /\ stop' = [stop EXCEPT !.pc = "draining"]
        /\ row' = row
    BY <1>5 DEF StopCancels
  <2> QED
    BY <1>1, <1>4, <2>1
<1>6. CASE StopDrains
  <2>1. stop.pc # "rest" /\ row' = row
    BY <1>6 DEF StopDrains
  <2>2. CASE Reap /\ stop' = [stop EXCEPT !.pc = "drained"]
    <3>1. \A a \in Claimants : ~Live(a)
      BY <2>2 DEF Reap, SInv, IInv, Owned, Running, NoOne, Claimants
    <3> QED
      BY <1>1, <1>4, <2>1, <2>2, <3>1
  <2>3. CASE stop' = [stop EXCEPT !.pc = "timed out"]
    BY <1>1, <1>4, <2>1, <2>3
  <2> QED
    BY <1>6, <2>2, <2>3 DEF StopDrains
<1>7. CASE StopApplies
  <2> DEFINE pc == IF stop.pc = "drained" THEN "release" ELSE "answer"
  <2>1. stop.pc # "rest" /\ stop' = [stop EXCEPT !.pc = pc]
    BY <1>1, <1>7 DEF StopApplies
  <2>2. row' = row \/ \E status, present : row' = Put(status, present)
    BY <1>7 DEF StopApplies
  <2>3. pc = "release" => stop.pc = "drained"
    OBVIOUS
  <2>4. pc # "drained"
    OBVIOUS
  <2> HIDE DEF pc
  <2> QED
    BY <1>4, <2>1, <2>2, <2>3, <2>4, PaintKeepsGen
<1>8. CASE StopAnswers
  <2>1. /\ stop.pc # "rest" /\ stop' = [stop EXCEPT !.pc = "rest"]
        /\ row' = row
    BY <1>8 DEF StopAnswers
  <2> QED
    BY <1>1, <1>4, <2>1
<1> QED
  BY <1>3, <1>5, <1>6, <1>7, <1>8 DEF StopHandles

LEMMA SStep == ASSUME Overtaken = FALSE PROVE SInv /\ [Next]_vars => SInv'
<1> SUFFICES ASSUME SInv, [Next]_vars PROVE SInv'
  OBVIOUS
<1>0. IInv'
  BY Step DEF SInv
<1>1. CASE Poll
  BY <1>0, <1>1, PollKeeps
<1>2. CASE WebAsks \/ WebHandles
  BY <1>0, <1>2, WebKeeps
<1>3. CASE EjectAsks \/ EjectHandles
  BY <1>0, <1>3, EjectKeeps
<1>4. CASE StopPrepares \/ StopHandles
  BY <1>0, <1>4, StopKeeps
<1>5. CASE UNCHANGED vars \/ CooldownEnds \/ TakeOut \/ PutIn
  <2>1. UNCHANGED <<row, poll, web, stop, worker>>
    BY <1>5 DEF vars, CooldownEnds, TakeOut, PutIn
  <2>2. Calm
    BY <2>1 DEF Calm, SInv, Records, Claimed
  <2> QED
    BY <1>0, <2>1, <2>2, CalmKeeps DEF Live
<1>6. ASSUME NEW a \in Claimants, Worker(a) \/ Panics(a) PROVE SInv'
  <2>1. Calm /\ Quiet
    BY <1>6, WorkerIsCalm, WorkerIsQuiet DEF SInv
  <2> QED
    BY <1>0, <2>1, CalmKeeps DEF Quiet
<1> QED
  BY <1>1, <1>2, <1>3, <1>4, <1>5, <1>6 DEF Next

\* A Stop that found the thread gone reports the drive free only while nobody
\* works on it, for every setting and any number of discs, requests, Stops and
\* failures (stop_and_drain, apply_stop_to_state, release_stopped_drive): a
\* request that claims the row afterwards gives it another generation.  A Stop
\* does not fall into a request that stands between its claim and its thread.
THEOREM StoppedFree == ASSUME Overtaken = FALSE PROVE Spec => []StoppedIsFree
<1>1. Spec => []SInv
  BY InitiallyDrained, SStep, PTL DEF Spec
<1> QED
  BY <1>1, DrainedIsFree, PTL
=============================================================================
