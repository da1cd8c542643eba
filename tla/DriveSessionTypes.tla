--------------------------- MODULE DriveSessionTypes ---------------------------
(***************************************************************************)
(* The types of DriveSession, for every setting and every bound: the sets  *)
(* of records under names that the proofs leave closed, what the operators *)
(* make of a record, and then actor by actor and variable by variable that *)
(* a step keeps the types.                                                 *)
(***************************************************************************)
EXTENDS DriveSessionProofs

\* The types of the variables that hold records.
Trays == [disc : Discs, seen : Discs, changed : BOOLEAN, flaky : BOOLEAN]
Rows == [status : Statuses, gen : Nat, job : Discs]
Marks == [hold : {"none", "armed", "absent"}, cooldown : BOOLEAN,
          finished : BOOLEAN, changed : BOOLEAN, waiting : BOOLEAN]
Polls == [pc : {"rest", "probe", "dispatch", "claimed", "armed"}, gen : Nat,
          had : BOOLEAN]
Webs == [pc : {"rest", "asked", "claimed", "armed"}, gen : Nat,
         kind : {"scan", "rip"}]
Ejects == {"rest", "asked", "claimed", "joining", "ejecting", "ejected",
           "failed"}
Stops == [pc : {"rest", "prepared", "draining", "drained", "timed out",
                "release", "answer"}, gen : Nat]
Works == [pc : WorkerPcs, kind : {"scan", "rip", "insert", "auto"},
          disc : Discs, job : Discs, tok : Tokens \cup {NoToken}]
Pasts == [stopped : Discs, absent : 0 .. 2, delivered : Discs,
          attended : SUBSET Discs, asked : SUBSET Claimants,
          late : BOOLEAN, owed : BOOLEAN]
Lefts == [stops : Nat, requests : Nat, faults : Nat]

\* TypeOK, with its sets under names.
Typed ==
    /\ tray \in Trays /\ row \in Rows /\ marks \in Marks /\ session \in Discs
    /\ thread \in Claimants \cup {NoOne}
    /\ halt \in Tokens \cup {NoToken} /\ cancelled \subseteq Tokens
    /\ poll \in Polls /\ web \in Webs /\ eject \in Ejects /\ stop \in Stops
    /\ worker \in [Claimants -> Works] /\ past \in Pasts /\ left \in Lefts

LEMMA TypedIsTypeOK == Typed <=> TypeOK
  BY DEF Typed, TypeOK, Trays, Rows, Marks, Polls, Webs, Ejects, Stops, Works,
         Pasts, Lefts

\* The constants of the model are in their types.
LEMMA NamesTyped ==
    /\ 0 \in Discs
    /\ {"poll", "web"} = Claimants /\ NoOne \notin Claimants
    /\ {"idle", "scanning", "ripping", "done", "error", "wedged"} = Statuses
    /\ \A a \in Claimants, s \in {"claim", "rip", "drive"} : <<a, s>> \in Tokens
    /\ NoToken \notin Tokens
    /\ {"none", "start", "scanning", "again", "guard", "install", "take",
        "begin", "sweep", "eject", "tail", "ended"} = WorkerPcs
<1>1. 0 \in Discs
  BY SMT, DriveAssumption DEF Discs
<1>2. NoToken \notin Tokens
  BY DEF NoToken, Tokens, Claimants
<1> QED
  BY <1>1, <1>2 DEF Claimants, NoOne, Statuses, Tokens, WorkerPcs

\* What a thread is before it starts, when it starts and when it has ended.
LEMMA NoWorkTyped ==
    /\ NoWork \in Works /\ [NoWork EXCEPT !.pc = "ended"] \in Works
    /\ \A k \in {"scan", "rip", "insert", "auto"} :
         [NoWork EXCEPT !.pc = "start", !.kind = k] \in Works
  BY NamesTyped DEF NoWork, Works

\* What the steps make of a row, of a record and of the history.
LEMMA RowTyped ==
    ASSUME row \in Rows, NEW s \in Statuses
    PROVE  /\ \A b \in BOOLEAN : Put(s, b) \in Rows
           /\ [row EXCEPT !.status = s] \in Rows
           /\ [row EXCEPT !.status = s, !.gen = @ + 1] \in Rows
           /\ \A d \in Discs : [row EXCEPT !.status = s, !.job = d] \in Rows
<1>1. \A b \in BOOLEAN : Put(s, b) \in Rows
  BY NamesTyped DEF Put, Rows
<1>2. [row EXCEPT !.status = s, !.gen = @ + 1] \in Rows
  <2>1. row.gen + 1 \in Nat
    BY DEF Rows
  <2>2. \A g \in Nat : [row EXCEPT !.status = s, !.gen = g] \in Rows
    BY DEF Rows
  <2> QED
    BY <2>1, <2>2
<1>3. \A d \in Discs : [row EXCEPT !.status = s, !.job = d] \in Rows
  BY DEF Rows
<1>4. [row EXCEPT !.status = s] \in Rows
  BY DEF Rows
<1> QED
  BY <1>1, <1>2, <1>3, <1>4

\* A claim gives the row and the request that makes it the next generation.
LEMMA GenTyped ==
    ASSUME row \in Rows
    PROVE  /\ row.gen \in Nat /\ row.gen + 1 \in Nat /\ row.job \in Discs
           /\ poll \in Polls => \A pc \in {"claimed"}, g \in Nat :
                                  [poll EXCEPT !.pc = pc, !.gen = g] \in Polls
           /\ web \in Webs => \A pc \in {"claimed"}, g \in Nat :
                                [web EXCEPT !.pc = pc, !.gen = g] \in Webs
<1>1. row.gen \in Nat /\ row.gen + 1 \in Nat /\ row.job \in Discs
  BY DEF Rows
<1>2. poll \in Polls => \A pc \in {"claimed"}, g \in Nat :
                          [poll EXCEPT !.pc = pc, !.gen = g] \in Polls
  BY DEF Polls
<1>3. web \in Webs => \A pc \in {"claimed"}, g \in Nat :
                        [web EXCEPT !.pc = pc, !.gen = g] \in Webs
  BY DEF Webs
<1> QED
  BY <1>1, <1>2, <1>3

\* A disc is one of the discs, and there is room for one that is put in.
LEMMA DiscTyped ==
    ASSUME tray \in Trays
    PROVE  /\ tray.disc \in Discs /\ tray.disc \in Int
           /\ tray.seen \in Discs /\ tray.seen \in Nat
           /\ tray.seen < MaxDiscs => tray.seen + 1 \in Discs
<1>1. tray.disc \in Discs /\ tray.seen \in Discs
  BY DEF Trays
<1> QED
  BY <1>1, SMT, DriveAssumption DEF Discs

\* Every change of the history keeps its type.
LEMMA PastTyped ==
    ASSUME NEW p \in Pasts, NEW d \in Discs
    PROVE  /\ [p EXCEPT !.stopped = 0, !.absent = 0, !.delivered = 0] \in Pasts
           /\ [p EXCEPT !.attended = @ \cup ({d} \ {0})] \in Pasts
           /\ \A b \in BOOLEAN : /\ [p EXCEPT !.owed = b] \in Pasts
                                 /\ [p EXCEPT !.late = @ \/ b] \in Pasts
                                 /\ [p EXCEPT !.delivered = d, !.owed = b]
                                      \in Pasts
           /\ [p EXCEPT !.stopped = d, !.absent = 0] \in Pasts
           /\ \A n \in 0 .. 2 : [p EXCEPT !.absent = n] \in Pasts
           /\ \A a \in Claimants : /\ [p EXCEPT !.asked = @ \cup {a}] \in Pasts
                                   /\ [p EXCEPT !.asked = @ \ {a}] \in Pasts
                                   /\ \A s \in SUBSET Discs :
                                        [p EXCEPT !.asked = @ \ {a},
                                                  !.attended = s] \in Pasts
<1>0. 0 \in Discs /\ 0 \in 0 .. 2
  BY NamesTyped, SMT
<1>1. [p EXCEPT !.stopped = 0, !.absent = 0, !.delivered = 0] \in Pasts
  BY <1>0 DEF Pasts
<1>2. [p EXCEPT !.attended = @ \cup ({d} \ {0})] \in Pasts
  BY DEF Pasts
<1>3. ASSUME NEW b \in BOOLEAN
      PROVE  /\ [p EXCEPT !.owed = b] \in Pasts
             /\ [p EXCEPT !.late = @ \/ b] \in Pasts
             /\ [p EXCEPT !.delivered = d, !.owed = b] \in Pasts
  BY DEF Pasts
<1>4. [p EXCEPT !.stopped = d, !.absent = 0] \in Pasts
  BY <1>0 DEF Pasts
<1>5. \A n \in 0 .. 2 : [p EXCEPT !.absent = n] \in Pasts
  BY DEF Pasts
<1>6. ASSUME NEW a \in Claimants
      PROVE  /\ [p EXCEPT !.asked = @ \cup {a}] \in Pasts
             /\ [p EXCEPT !.asked = @ \ {a}] \in Pasts
             /\ \A s \in SUBSET Discs :
                   [p EXCEPT !.asked = @ \ {a}, !.attended = s] \in Pasts
  BY DEF Pasts
<1> QED
  BY <1>1, <1>2, <1>3, <1>4, <1>5, <1>6

\* An answer lifts a hold, counts an absence or ends the insertion's marks.
LEMMA AnswerMarks ==
    ASSUME Typed, PollAnswers
    PROVE  marks' \in Marks
<1>0. \A h \in {"none", "armed", "absent"}, b \in BOOLEAN :
        /\ [marks EXCEPT !.hold = h] \in Marks
        /\ [marks EXCEPT !.hold = "none", !.finished = FALSE, !.changed = FALSE]
             \in Marks
  BY DEF Typed, Marks
<1>1. \A over \in BOOLEAN : Released(over) \in Marks
  BY <1>0 DEF Typed, Released
<1>2. \A m \in Marks : \A seen :
        HeldAfter(seen, m.hold) \in {"none", "armed", "absent"}
  BY DEF HeldAfter, Marks
<1>3. \A m \in Marks, h \in {"none", "armed", "absent"} :
        LET k == [m EXCEPT !.hold = h]
        IN  /\ k \in Marks
            /\ [k EXCEPT !.finished = FALSE, !.waiting = FALSE] \in Marks
            /\ [k EXCEPT !.waiting = FALSE] \in Marks
  BY DEF Marks
<1>4. ASSUME NEW seen, NEW ready, Answer(seen, ready) PROVE marks' \in Marks
  <2> DEFINE over == tray.changed \/ marks.changed
             freed == Released(over)
             held == [freed EXCEPT !.hold = HeldAfter(seen, freed.hold)]
  <2>1. freed \in Marks
    BY <1>1
  <2>2. /\ held \in Marks
        /\ [held EXCEPT !.finished = FALSE, !.waiting = FALSE] \in Marks
        /\ [held EXCEPT !.waiting = FALSE] \in Marks
    BY <1>2, <1>3, <2>1
  <2>3. marks' \in {held, [held EXCEPT !.waiting = FALSE],
                    [held EXCEPT !.finished = FALSE, !.waiting = FALSE]}
    BY <1>4 DEF Answer
  <2> QED
    BY <2>2, <2>3
<1> QED
  BY <1>4 DEF PollAnswers

\* A Stop keeps the generation it reads.
LEMMA PreparedStop ==
    ASSUME Typed, StopPrepares
    PROVE  stop' \in Stops
<1>1. \A g \in Nat : [pc |-> "prepared", gen |-> g] \in Stops
  BY DEF Stops
<1> QED
  BY <1>1, GenTyped DEF Typed, StopPrepares

\* A request starts a thread of its kind.
LEMMA SpawnedWork ==
    ASSUME Typed, WebSpawns
    PROVE  worker' \in [Claimants -> Works]
<1>1. web.kind \in {"scan", "rip"}
  BY DEF Typed, Webs
<1>2. [NoWork EXCEPT !.pc = "start", !.kind = web.kind] \in Works
  BY <1>1, NoWorkTyped
<1> QED
  BY <1>2 DEF Typed, WebSpawns, Spawn

\* What a delivery adds to the history,
LEMMA DeliversTyped ==
    ASSUME Typed, NEW d \in Discs
    PROVE  Delivers(d) \in Pasts
  BY PastTyped DEF Typed, Delivers

\* at the end of a capture;
LEMMA DeliveredPast ==
    ASSUME Typed, NEW a \in Claimants, SweepEnds(a)
    PROVE  past' \in Pasts
<1>1. worker[a].disc \in Discs
  BY DEF Typed, Works
<1> QED
  BY <1>1, DeliversTyped DEF SweepEnds, Typed

\* A Stop that gives up waiting is a failure.
LEMMA DrainLeft ==
    ASSUME Typed, StopDrains
    PROVE  left' \in Lefts
<1>1. left' = left \/ Fault
  BY DEF StopDrains, NoFault
<1> QED
  BY <1>1 DEF Typed, Fault, Lefts

\* A scan paints its job, its error or the row of a hold.
LEMMA ScanRow ==
    ASSUME Typed, NEW a \in Claimants, ScanEnds(a)
    PROVE  row' \in Rows
<1>1. tray.disc \in Discs /\ row \in Rows
  BY DiscTyped DEF Typed
<1>2. \/ row' = [row EXCEPT !.status = "idle", !.job = tray.disc]
      \/ \E b \in BOOLEAN : row' = Put("error", b)
  BY DEF ScanEnds, HeldRows
<1> QED
  BY <1>1, <1>2, RowTyped, NamesTyped

\* and what a thread that ends leaves behind.
LEMMA LeftTyped ==
    ASSUME Typed, NEW a \in Claimants
    PROVE  Left(a) \in Pasts
<1> DEFINE s == IF ByInsert(a) /\ marks.waiting THEN past.attended
                ELSE past.attended \cup ({tray.disc} \ {0})
<1>1. s \in SUBSET Discs
  BY DiscTyped DEF Typed, Pasts
<1>2. Left(a) = [past EXCEPT !.asked = @ \ {a}, !.attended = s]
  BY DEF Left
<1>3. past \in Pasts /\ 0 \in Discs
  BY NamesTyped DEF Typed
<1> HIDE DEF s
<1>4. [past EXCEPT !.asked = @ \ {a}, !.attended = s] \in Pasts
  BY <1>1, <1>3, PastTyped
<1> QED
  BY <1>2, <1>4

\* A thread that ends or panics leaves the history typed.
LEMMA LeftPast ==
    ASSUME Typed, NEW a \in Claimants, Ends(a) \/ Panics(a)
    PROVE  past' \in Pasts
  BY LeftTyped DEF Ends, Panics

-----------------------------------------------------------------------------
(* The steps.                                                              *)

\* A step of the poll loop keeps every type.
LEMMA PollTyped ==
    ASSUME Typed, Poll
    PROVE  Typed'
<1>1. UNCHANGED <<web, eject, stop>>
  BY DEF Poll, PollCheck, PollFails, PollAnswers, PollShows, PollClaims,
         PollRefused, PollRegisters, PollSpawns
<1>2. tray' \in Trays
  <2>1. CASE PollFails \/ PollAnswers
    BY <2>1 DEF Typed, Trays, PollFails, PollAnswers, Answer
  <2>2. CASE tray' = tray
    BY <2>2 DEF Typed
  <2> QED
    BY <2>1, <2>2
       DEF Poll, PollCheck, PollShows, PollClaims, PollRefused, PollRegisters,
           PollSpawns
<1>3. row' \in Rows
  <2>1. CASE PollFails \/ PollAnswers \/ PollShows \/ PollClaims \/ PollSpawns
    BY <2>1, RowTyped, NamesTyped
       DEF Typed, PollFails, PollAnswers, PollShows, PollClaims, PollSpawns,
           Publish, Answer, Claim, Spawn, ShownRow, Rollback
  <2>2. CASE row' = row
    BY <2>2 DEF Typed
  <2> QED
    BY <2>1, <2>2 DEF Poll, PollCheck, PollRefused, PollRegisters
<1>4. thread' \in Claimants \cup {NoOne}
  <2>1. CASE PollSpawns
    BY <2>1, NamesTyped DEF Typed, PollSpawns, Spawn
  <2>2. CASE thread' = thread
    BY <2>2 DEF Typed
  <2> QED
    BY <2>1, <2>2
       DEF Poll, PollCheck, PollFails, PollAnswers, PollShows, PollClaims,
           PollRefused, PollRegisters
<1>5. halt' \in Tokens \cup {NoToken}
  <2>1. CASE PollRegisters \/ PollSpawns
    BY <2>1, NamesTyped
       DEF Typed, PollRegisters, PollSpawns, Register, Spawn, Rollback
  <2>2. CASE halt' = halt
    BY <2>2 DEF Typed
  <2> QED
    BY <2>1, <2>2
       DEF Poll, PollCheck, PollFails, PollAnswers, PollShows, PollClaims,
           PollRefused
<1>6. cancelled' \subseteq Tokens
  <2>1. CASE PollRegisters
    BY <2>1 DEF Typed, PollRegisters, Register
  <2>2. CASE cancelled' = cancelled
    BY <2>2 DEF Typed
  <2> QED
    BY <2>1, <2>2
       DEF Poll, PollCheck, PollFails, PollAnswers, PollShows, PollClaims,
           PollRefused, PollSpawns
<1>7. session' \in Discs
  <2>1. CASE PollAnswers
    BY <2>1, NamesTyped DEF Typed, PollAnswers, Answer
  <2>2. CASE session' = session
    BY <2>2 DEF Typed
  <2> QED
    BY <2>1, <2>2
       DEF Poll, PollCheck, PollFails, PollShows, PollClaims, PollRefused,
           PollRegisters, PollSpawns
<1>8. marks' \in Marks
  <2>1. CASE PollFails \/ PollClaims
    BY <2>1 DEF Typed, Marks, PollFails, PollClaims, Released, Claim
  <2>2. CASE PollAnswers
    BY <2>2, AnswerMarks
  <2>3. CASE marks' = marks
    BY <2>3 DEF Typed
  <2> QED
    BY <2>1, <2>2, <2>3
       DEF Poll, PollCheck, PollShows, PollRefused, PollRegisters, PollSpawns
<1>9. poll' \in Polls
  <2>1. CASE PollCheck \/ PollFails \/ PollAnswers \/ PollShows
    BY <2>1
       DEF Typed, Polls, PollCheck, PollFails, PollAnswers, PollShows,
           SameInsertion, Answer
  <2>2. CASE PollRegisters \/ PollSpawns
    BY <2>2 DEF Typed, Polls, PollRegisters, PollSpawns
  <2>3. CASE PollClaims
    BY <2>3, GenTyped DEF Typed, PollClaims
  <2>4. CASE PollRefused
    BY <2>4 DEF Typed, Polls, PollRefused
  <2> QED
    BY <2>1, <2>2, <2>3, <2>4 DEF Poll
<1>10. worker' \in [Claimants -> Works]
  <2>1. CASE PollSpawns
    BY <2>1, NoWorkTyped DEF Typed, PollSpawns, Spawn
  <2>2. CASE worker' = worker
    BY <2>2 DEF Typed
  <2> QED
    BY <2>1, <2>2
       DEF Poll, PollCheck, PollFails, PollAnswers, PollShows, PollClaims,
           PollRefused, PollRegisters
<1>11. past' \in Pasts
  <2>1. CASE PollAnswers
    BY <2>1 DEF Typed, Pasts, PollAnswers, Answer, Seen, SameInsertion
  <2>2. CASE PollShows
    BY <2>2, PastTyped, DiscTyped DEF Typed, PollShows, Attend
  <2>3. CASE PollSpawns
    BY <2>3, PastTyped, DiscTyped DEF Typed, PollSpawns, Spawn, Attend
  <2>4. CASE past' = past
    BY <2>4 DEF Typed
  <2> QED
    BY <2>1, <2>2, <2>3, <2>4
       DEF Poll, PollCheck, PollFails, PollClaims, PollRefused, PollRegisters
<1>12. left' \in Lefts
  <2>1. CASE PollFails \/ PollAnswers \/ PollSpawns
    BY <2>1
       DEF Typed, Lefts, PollFails, PollAnswers, PollSpawns, Fault,
           SameInsertion, NoFault, Answer, Spawn, Put
  <2>2. CASE left' = left
    BY <2>2 DEF Typed
  <2> QED
    BY <2>1, <2>2
       DEF Poll, PollCheck, PollShows, PollClaims, PollRefused, PollRegisters
<1> QED
  BY <1>1, <1>2, <1>3, <1>4, <1>5, <1>6, <1>7, <1>8, <1>9, <1>10, <1>11, <1>12
     DEF Typed

\* So does one of a Scan or a Rip,
LEMMA WebTyped ==
    ASSUME Typed, WebAsks \/ WebHandles
    PROVE  Typed'
<1>1. UNCHANGED <<tray, session, poll, eject, stop>>
  BY DEF WebHandles, WebAsks, WebClaims, WebRefused, WebRegisters, WebSpawns
<1>2. row' \in Rows
  <2>1. CASE WebClaims \/ WebRegisters \/ WebSpawns
    BY <2>1, RowTyped, NamesTyped
       DEF Typed, WebClaims, WebRegisters, WebSpawns, Claim, Spawn, Rollback
  <2>2. CASE row' = row
    BY <2>2 DEF Typed
  <2> QED
    BY <2>1, <2>2 DEF WebHandles, WebAsks, WebRefused
<1>3. thread' \in Claimants \cup {NoOne}
  <2>1. CASE WebSpawns
    BY <2>1, NamesTyped DEF Typed, WebSpawns, Spawn
  <2>2. CASE thread' = thread
    BY <2>2 DEF Typed
  <2> QED
    BY <2>1, <2>2 DEF WebHandles, WebAsks, WebClaims, WebRefused, WebRegisters
<1>4. halt' \in Tokens \cup {NoToken}
  <2>1. CASE WebRegisters \/ WebSpawns
    BY <2>1, NamesTyped
       DEF Typed, WebRegisters, WebSpawns, Register, Spawn, Rollback
  <2>2. CASE halt' = halt
    BY <2>2 DEF Typed
  <2> QED
    BY <2>1, <2>2 DEF WebHandles, WebAsks, WebClaims, WebRefused
<1>5. cancelled' \subseteq Tokens
  <2>1. CASE WebRegisters
    BY <2>1 DEF Typed, WebRegisters, Register
  <2>2. CASE cancelled' = cancelled
    BY <2>2 DEF Typed
  <2> QED
    BY <2>1, <2>2 DEF WebHandles, WebAsks, WebClaims, WebRefused, WebSpawns
<1>6. marks' \in Marks
  <2>1. CASE WebClaims \/ WebRegisters
    BY <2>1 DEF Typed, Marks, WebClaims, WebRegisters, Claim
  <2>2. CASE marks' = marks
    BY <2>2 DEF Typed
  <2> QED
    BY <2>1, <2>2 DEF WebHandles, WebAsks, WebRefused, WebSpawns
<1>7. web' \in Webs
  BY GenTyped
     DEF WebHandles, Typed, Webs, WebAsks, WebClaims, WebRefused, WebRegisters,
         WebSpawns
<1>8. worker' \in [Claimants -> Works]
  <2>1. CASE WebSpawns
    BY <2>1, SpawnedWork
  <2>2. CASE worker' = worker
    BY <2>2 DEF Typed
  <2> QED
    BY <2>1, <2>2 DEF WebHandles, WebAsks, WebClaims, WebRefused, WebRegisters
<1>9. past' \in Pasts
  <2>1. CASE WebClaims
    BY <2>1, PastTyped, DiscTyped DEF Typed, WebClaims, Request, Attend
  <2>2. CASE WebRegisters
    BY <2>2, PastTyped DEF Typed, WebRegisters
  <2>3. CASE WebSpawns
    BY <2>3, PastTyped, DiscTyped DEF Typed, WebSpawns, Spawn, Attend
  <2>4. CASE past' = past
    BY <2>4 DEF Typed
  <2> QED
    BY <2>1, <2>2, <2>3, <2>4 DEF WebHandles, WebAsks, WebRefused
<1>10. left' \in Lefts
  <2>1. CASE WebAsks \/ WebSpawns
    BY <2>1 DEF Typed, Lefts, WebAsks, WebSpawns, Spawn, NoFault, Fault
  <2>2. CASE left' = left
    BY <2>2 DEF Typed
  <2> QED
    BY <2>1, <2>2 DEF WebHandles, WebClaims, WebRefused, WebRegisters
<1> QED
  BY <1>1, <1>2, <1>3, <1>4, <1>5, <1>6, <1>7, <1>8, <1>9, <1>10 DEF Typed

\* one of an Eject,
LEMMA EjectTyped ==
    ASSUME Typed, EjectAsks \/ EjectHandles
    PROVE  Typed'
<1>1. UNCHANGED <<poll, web, stop, worker>>
  BY DEF EjectHandles, EjectAsks, EjectClaims, EjectRefused, EjectCancels,
         EjectJoins, EjectOpens, EjectFails, EjectAnswers
<1>2. tray' \in Trays
  <2>1. CASE EjectOpens
    BY <2>1, NamesTyped DEF Typed, Trays, EjectOpens
  <2>2. CASE tray' = tray
    BY <2>2 DEF Typed
  <2> QED
    BY <2>1, <2>2
       DEF EjectHandles, EjectAsks, EjectClaims, EjectRefused, EjectCancels,
           EjectJoins, EjectFails, EjectAnswers
<1>3. row' \in Rows
  <2>1. CASE EjectClaims
    BY <2>1, RowTyped, NamesTyped DEF Typed, EjectClaims, Claim
  <2>2. CASE EjectAnswers
    BY <2>2, RowTyped, NamesTyped DEF Typed, EjectAnswers
  <2>3. CASE row' = row
    BY <2>3 DEF Typed
  <2> QED
    BY <2>1, <2>2, <2>3
       DEF EjectHandles, EjectAsks, EjectRefused, EjectCancels, EjectJoins,
           EjectOpens, EjectFails
<1>4. thread' \in Claimants \cup {NoOne}
  <2>1. CASE EjectJoins
    BY <2>1 DEF Typed, EjectJoins, Reap
  <2>2. CASE thread' = thread
    BY <2>2 DEF Typed
  <2> QED
    BY <2>1, <2>2
       DEF EjectHandles, EjectAsks, EjectClaims, EjectRefused, EjectCancels,
           EjectOpens, EjectFails, EjectAnswers
<1>5. halt' \in Tokens \cup {NoToken}
  <2>1. CASE EjectJoins
    BY <2>1 DEF EjectJoins
  <2>2. CASE halt' = halt
    BY <2>2 DEF Typed
  <2> QED
    BY <2>1, <2>2
       DEF EjectHandles, EjectAsks, EjectClaims, EjectRefused, EjectCancels,
           EjectOpens, EjectFails, EjectAnswers
<1>6. cancelled' \subseteq Tokens
  <2>1. CASE EjectCancels
    BY <2>1 DEF Typed, EjectCancels
  <2>2. CASE cancelled' = cancelled
    BY <2>2 DEF Typed
  <2> QED
    BY <2>1, <2>2
       DEF EjectHandles, EjectAsks, EjectClaims, EjectRefused, EjectJoins,
           EjectOpens, EjectFails, EjectAnswers
<1>7. session' \in Discs
  <2>1. CASE EjectJoins
    BY <2>1, NamesTyped DEF EjectJoins
  <2>2. CASE session' = session
    BY <2>2 DEF Typed
  <2> QED
    BY <2>1, <2>2
       DEF EjectHandles, EjectAsks, EjectClaims, EjectRefused, EjectCancels,
           EjectOpens, EjectFails, EjectAnswers
<1>8. marks' \in Marks
  <2>1. CASE EjectClaims \/ EjectOpens
    BY <2>1 DEF Typed, Marks, EjectClaims, EjectOpens, Claim
  <2>2. CASE marks' = marks
    BY <2>2 DEF Typed
  <2> QED
    BY <2>1, <2>2
       DEF EjectHandles, EjectAsks, EjectRefused, EjectCancels, EjectJoins,
           EjectFails, EjectAnswers
<1>9. eject' \in Ejects
  <2>1. CASE \/ EjectAsks \/ EjectClaims \/ EjectRefused \/ EjectCancels
             \/ EjectJoins \/ EjectOpens \/ EjectFails
    BY <2>1
       DEF Ejects, EjectAsks, EjectClaims, EjectRefused, EjectCancels,
           EjectJoins, EjectOpens, EjectFails
  <2>2. CASE EjectAnswers
    BY <2>2 DEF Ejects, EjectAnswers
  <2> QED
    BY <2>1, <2>2 DEF EjectHandles
<1>10. past' \in Pasts
  <2>1. CASE EjectClaims \/ EjectJoins \/ EjectOpens
    BY <2>1, PastTyped, DiscTyped
       DEF Typed, EjectClaims, EjectJoins, EjectOpens, Request, NewMedium,
           Attend
  <2>2. CASE past' = past
    BY <2>2 DEF Typed
  <2> QED
    BY <2>1, <2>2
       DEF EjectHandles, EjectAsks, EjectRefused, EjectCancels, EjectFails,
           EjectAnswers
<1>11. left' \in Lefts
  <2>1. CASE EjectAsks \/ EjectJoins \/ EjectFails
    BY <2>1 DEF Typed, Lefts, EjectAsks, EjectJoins, EjectFails, NoFault, Fault
  <2>2. CASE left' = left
    BY <2>2 DEF Typed
  <2> QED
    BY <2>1, <2>2
       DEF EjectHandles, EjectClaims, EjectRefused, EjectCancels, EjectOpens,
           EjectAnswers
<1> QED
  BY <1>1, <1>2, <1>3, <1>4, <1>5, <1>6, <1>7, <1>8, <1>9, <1>10, <1>11
     DEF Typed

\* one of a Stop,
LEMMA StopTyped ==
    ASSUME Typed, StopPrepares \/ StopHandles
    PROVE  Typed'
<1>1. UNCHANGED <<tray, halt, poll, web, eject, worker>>
  BY DEF StopHandles, StopPrepares, StopCancels, StopDrains, StopApplies,
         StopAnswers
<1>2. row' \in Rows
  <2>1. CASE StopApplies
    BY <2>1, RowTyped, NamesTyped DEF Typed, StopApplies
  <2>2. CASE row' = row
    BY <2>2 DEF Typed
  <2> QED
    BY <2>1, <2>2
       DEF StopHandles, StopPrepares, StopCancels, StopDrains, StopAnswers
<1>3. thread' \in Claimants \cup {NoOne}
  <2>1. CASE StopDrains
    BY <2>1 DEF Typed, StopDrains, Reap
  <2>2. CASE thread' = thread
    BY <2>2 DEF Typed
  <2> QED
    BY <2>1, <2>2
       DEF StopHandles, StopPrepares, StopCancels, StopApplies, StopAnswers
<1>4. cancelled' \subseteq Tokens
  <2>1. CASE StopCancels
    BY <2>1 DEF Typed, StopCancels
  <2>2. CASE cancelled' = cancelled
    BY <2>2 DEF Typed
  <2> QED
    BY <2>1, <2>2
       DEF StopHandles, StopPrepares, StopDrains, StopApplies, StopAnswers
<1>5. session' \in Discs
  <2>1. CASE StopAnswers
    BY <2>1, NamesTyped DEF Typed, StopAnswers
  <2>2. CASE session' = session
    BY <2>2 DEF Typed
  <2> QED
    BY <2>1, <2>2
       DEF StopHandles, StopPrepares, StopCancels, StopDrains, StopApplies
<1>6. marks' \in Marks
  <2>1. CASE StopPrepares
    BY <2>1 DEF Typed, Marks, StopPrepares
  <2>2. CASE StopAnswers
    BY <2>2 DEF Typed, Marks, StopAnswers
  <2>3. CASE marks' = marks
    BY <2>3 DEF Typed
  <2> QED
    BY <2>1, <2>2, <2>3 DEF StopHandles, StopCancels, StopDrains, StopApplies
<1>7. stop' \in Stops
  <2>1. CASE StopCancels \/ StopDrains \/ StopApplies
    BY <2>1 DEF Typed, Stops, StopCancels, StopDrains, StopApplies
  <2>2. CASE StopAnswers
    BY <2>2 DEF Typed, Stops, StopAnswers
  <2>3. CASE StopPrepares
    BY <2>3, PreparedStop
  <2> QED
    BY <2>1, <2>2, <2>3 DEF StopHandles
<1>8. past' \in Pasts
  <2>1. CASE StopDrains
    BY <2>1 DEF Typed, Pasts, StopDrains
  <2>2. CASE StopPrepares
    BY <2>2, PastTyped, DiscTyped, NamesTyped DEF Typed, StopPrepares, Attend
  <2>3. CASE StopCancels
    BY <2>3 DEF Typed, Pasts, StopCancels, Running
  <2>4. CASE past' = past
    BY <2>4 DEF Typed
  <2> QED
    BY <2>1, <2>2, <2>3, <2>4 DEF StopHandles, StopApplies, StopAnswers
<1>9. left' \in Lefts
  <2>1. CASE StopPrepares
    BY <2>1 DEF Typed, Lefts, StopPrepares
  <2>2. CASE StopDrains
    BY <2>2, DrainLeft
  <2>3. CASE left' = left
    BY <2>3 DEF Typed
  <2> QED
    BY <2>1, <2>2, <2>3 DEF StopHandles, StopCancels, StopApplies, StopAnswers
<1> QED
  BY <1>1, <1>2, <1>3, <1>4, <1>5, <1>6, <1>7, <1>8, <1>9 DEF Typed

\* one of the people at the drive, and the end of the cooldown,
LEMMA WorldTyped ==
    ASSUME Typed, CooldownEnds \/ TakeOut \/ PutIn
    PROVE  Typed'
<1>1. UNCHANGED <<row, thread, halt, cancelled, session, poll, web, eject,
                stop, worker, left>>
  BY DEF CooldownEnds, TakeOut, PutIn
<1>2. tray' \in Trays
  <2>1. CASE TakeOut
    BY <2>1, NamesTyped DEF Typed, Trays, TakeOut
  <2>2. CASE PutIn
    BY <2>2, DiscTyped DEF Typed, Trays, PutIn
  <2>3. CASE tray' = tray
    BY <2>3 DEF Typed
  <2> QED
    BY <2>1, <2>2, <2>3 DEF CooldownEnds
<1>3. marks' \in Marks
  <2>1. CASE CooldownEnds
    BY <2>1 DEF Typed, Marks, CooldownEnds
  <2>2. CASE marks' = marks
    BY <2>2 DEF Typed
  <2> QED
    BY <2>1, <2>2 DEF TakeOut, PutIn
<1>4. past' \in Pasts
  <2>1. CASE TakeOut
    BY <2>1, PastTyped DEF Typed, TakeOut, NewMedium
  <2>2. CASE past' = past
    BY <2>2 DEF Typed
  <2> QED
    BY <2>1, <2>2 DEF CooldownEnds, PutIn
<1> QED
  BY <1>1, <1>2, <1>3, <1>4 DEF Typed

\* and one of a worker.
LEMMA WorkerTyped ==
    ASSUME Typed, NEW a \in Claimants, Worker(a) \/ Panics(a)
    PROVE  Typed'
<1>1. UNCHANGED <<thread, poll, web, eject, stop>>
  BY DEF Worker, ScanBegins, ScanSkipped, ScanEnds, RipFollows, Dispatches,
         Installs, Takes, Begins, SweepEnds, AutoEjects, Ends, Panics
<1>2. tray' \in Trays
  <2>1. CASE ScanSkipped(a) \/ ScanEnds(a) \/ AutoEjects(a) \/ Ends(a)
    BY <2>1, NamesTyped
       DEF Typed, Trays, ScanSkipped, ScanEnds, AutoEjects, Ends
  <2>2. CASE tray' = tray
    BY <2>2 DEF Typed
  <2> QED
    BY <2>1, <2>2
       DEF Worker, ScanBegins, RipFollows, Dispatches, Installs, Takes, Begins,
           SweepEnds, Panics
<1>3. row' \in Rows
  <2>1. CASE \/ ScanBegins(a) \/ Dispatches(a) \/ Installs(a) \/ Takes(a)
             \/ Begins(a) \/ SweepEnds(a) \/ Panics(a)
    BY <2>1, NamesTyped
       DEF Typed, Rows, ScanBegins, Dispatches, Installs, Takes, Begins,
           SweepEnds, Panics, Put
  <2>2. CASE ScanEnds(a)
    BY <2>2, ScanRow
  <2>3. CASE row' = row
    BY <2>3 DEF Typed
  <2> QED
    BY <2>1, <2>2, <2>3 DEF Worker, ScanSkipped, RipFollows, AutoEjects, Ends
<1>4. halt' \in Tokens \cup {NoToken}
  <2>1. CASE \/ Installs(a) \/ Takes(a) \/ Begins(a) \/ AutoEjects(a) \/ Ends(a)
             \/ Panics(a)
    BY <2>1, NamesTyped
       DEF Typed, Installs, Takes, Begins, AutoEjects, Ends, Panics, Swap
  <2>2. CASE halt' = halt
    BY <2>2 DEF Typed
  <2> QED
    BY <2>1, <2>2
       DEF Worker, ScanBegins, ScanSkipped, ScanEnds, RipFollows, Dispatches,
           SweepEnds
<1>5. cancelled' \subseteq Tokens
  <2>1. CASE Installs(a) \/ Begins(a) \/ AutoEjects(a)
    BY <2>1, NamesTyped DEF Typed, Installs, Begins, AutoEjects, Swap
  <2>2. CASE cancelled' = cancelled
    BY <2>2 DEF Typed
  <2> QED
    BY <2>1, <2>2
       DEF Worker, ScanBegins, ScanSkipped, ScanEnds, RipFollows, Dispatches,
           Takes, SweepEnds, Ends, Panics
<1>6. session' \in Discs
  <2>1. CASE \/ ScanEnds(a) \/ Dispatches(a) \/ Takes(a) \/ AutoEjects(a)
             \/ Panics(a)
    BY <2>1, NamesTyped
       DEF Typed, Trays, ScanEnds, Dispatches, Takes, AutoEjects, Panics
  <2>2. CASE session' = session
    BY <2>2 DEF Typed
  <2> QED
    BY <2>1, <2>2
       DEF Worker, ScanBegins, ScanSkipped, RipFollows, Installs, Begins,
           SweepEnds, Ends
<1>7. marks' \in Marks
  <2>1. CASE ScanEnds(a) \/ Dispatches(a) \/ Begins(a) \/ SweepEnds(a)
    BY <2>1 DEF Typed, Marks, ScanEnds, Dispatches, Begins, SweepEnds
  <2>2. CASE marks' = marks
    BY <2>2 DEF Typed
  <2> QED
    BY <2>1, <2>2
       DEF Worker, ScanBegins, ScanSkipped, RipFollows, Installs, Takes,
           AutoEjects, Ends, Panics
<1>8. worker' \in [Claimants -> Works]
  <2>1. CASE ScanSkipped(a) \/ ScanEnds(a) \/ RipFollows(a) \/ Dispatches(a)
    BY <2>1, NamesTyped
       DEF Typed, Works, ScanSkipped, ScanEnds, RipFollows, Dispatches, Goes,
           Put, Scanned
  <2>2. CASE Installs(a) \/ Takes(a) \/ Begins(a)
    BY <2>2, NamesTyped DEF Typed, Works, Installs, Takes, Begins, Put, Goes
  <2>3. CASE SweepEnds(a) \/ AutoEjects(a)
    BY <2>3, NamesTyped DEF Typed, Works, SweepEnds, AutoEjects, Put, Goes
  <2>4. CASE Ends(a) \/ Panics(a)
    BY <2>4, NoWorkTyped DEF Typed, Ends, Panics
  <2>5. CASE ScanBegins(a)
    BY <2>5, NamesTyped DEF Typed, Works, ScanBegins, Goes
  <2> QED
    BY <2>1, <2>2, <2>3, <2>4, <2>5 DEF Worker
<1>9. past' \in Pasts
  <2>1. CASE Dispatches(a)
    BY <2>1 DEF Typed, Pasts, Dispatches, Delivers
  <2>2. CASE AutoEjects(a)
    BY <2>2, PastTyped DEF Typed, AutoEjects, NewMedium
  <2>3. CASE SweepEnds(a)
    BY <2>3, DeliveredPast
  <2>4. CASE Ends(a) \/ Panics(a)
    BY <2>4, LeftPast
  <2>5. CASE past' = past
    BY <2>5 DEF Typed
  <2> QED
    BY <2>1, <2>2, <2>3, <2>4, <2>5
       DEF Worker, ScanBegins, ScanSkipped, ScanEnds, RipFollows, Installs,
           Takes, Begins
<1>10. left' \in Lefts
  <2>1. CASE \/ ScanEnds(a) \/ Dispatches(a) \/ Begins(a) \/ SweepEnds(a)
             \/ AutoEjects(a) \/ Panics(a)
    BY <2>1
       DEF Typed, Lefts, ScanEnds, Dispatches, Begins, SweepEnds, AutoEjects,
           Panics, NoFault, Fault, Put
  <2>2. CASE left' = left
    BY <2>2 DEF Typed
  <2> QED
    BY <2>1, <2>2
       DEF Worker, ScanBegins, ScanSkipped, RipFollows, Installs, Takes, Ends
<1> QED
  BY <1>1, <1>2, <1>3, <1>4, <1>5, <1>6, <1>7, <1>8, <1>9, <1>10 DEF Typed

-----------------------------------------------------------------------------

\* The first state has its types: an empty drive that nobody works on.
LEMMA InitTyped == Init => Typed
<1> SUFFICES ASSUME Init PROVE Typed
  OBVIOUS
<1>1. tray \in Trays /\ row \in Rows /\ marks \in Marks
  BY NamesTyped DEF Init, Trays, Rows, Marks
<1>2. poll \in Polls /\ web \in Webs /\ eject \in Ejects /\ stop \in Stops
  BY DEF Init, Polls, Webs, Ejects, Stops
<1>3. /\ session \in Discs /\ thread \in Claimants \cup {NoOne}
      /\ halt \in Tokens \cup {NoToken} /\ cancelled \subseteq Tokens
  BY NamesTyped DEF Init
<1>4. worker \in [Claimants -> Works]
  BY NoWorkTyped DEF Init
<1>5. past \in Pasts
  BY NamesTyped DEF Init, Pasts
<1>6. left \in Lefts
  BY DriveAssumption DEF Init, Lefts
<1> QED
  BY <1>1, <1>2, <1>3, <1>4, <1>5, <1>6 DEF Typed

\* Every step keeps the types.
LEMMA TypedStep == Typed /\ [Next]_vars => Typed'
<1> SUFFICES ASSUME Typed, [Next]_vars PROVE Typed'
  OBVIOUS
<1>1. CASE UNCHANGED vars
  BY <1>1 DEF Typed, vars
<1>2. CASE Next
  BY <1>2, PollTyped, WebTyped, EjectTyped, StopTyped, WorldTyped, WorkerTyped
     DEF Next
<1> QED
  BY <1>1, <1>2

\* The registries, the row and the local state of the threads keep their types
\* (session.rs, state.rs), for every setting and any number of discs, requests,
\* Stops and failures, also when requests overtake each other.
THEOREM TypeCorrect == Spec => []TypeOK
<1>1. Spec => []Typed
  BY InitTyped, TypedStep, PTL DEF Spec
<1> QED
  BY <1>1, TypedIsTypeOK, PTL
=============================================================================
