------------------------ MODULE DriveSessionDiscProofs -------------------------
(***************************************************************************)
(* What DriveSession promises of the disc in the drive.                    *)
(*                                                                         *)
(*   - A disc whose rip was stopped is not claimed again by the poll loop  *)
(*     (Held), for every setting.                                          *)
(*                                                                         *)
(* The rest is proved of a drive whose requests are not overtaken between  *)
(* two of their steps (Overtaken = FALSE), and is false of one whose       *)
(* requests are.                                                           *)
(*                                                                         *)
(*   - Stop reaches the rip (ScanOnly, OwnToken, Asked): the token a Stop  *)
(*     cancelled is the one that the sweep asks.                           *)
(*   - A capture writes into the folder of its own disc (Scans, Settled,   *)
(*     Steady): the session, the row's job and the drive go together.      *)
(*   - A disc that was ripped is not ripped again by itself (Known,        *)
(*     Finished).                                                          *)
(***************************************************************************)
EXTENDS DriveSessionTypes

\* What a change of the history leaves alone.
LEMMA LateKeeps ==
    ASSUME Typed, NEW b
    PROVE  LET p == [past EXCEPT !.late = b]
           IN  /\ p.stopped = past.stopped /\ p.absent = past.absent
               /\ p.delivered = past.delivered /\ p.asked = past.asked
               /\ p.owed = past.owed
  BY DEF Typed, Pasts

\* What a delivery does to the history.
LEMMA DeliversKeeps ==
    ASSUME Typed, NEW d
    PROVE  LET p == Delivers(d)
           IN  /\ p.stopped = past.stopped /\ p.absent = past.absent
               /\ p.delivered = d /\ p.asked = past.asked
               /\ p.owed <=> \/ marks.waiting \/ marks.changed
                             \/ past.asked # {} /\ marks.hold # "armed"
<1>1. ASSUME NEW b
      PROVE  LET p == [past EXCEPT !.delivered = d, !.owed = b]
             IN  /\ p.stopped = past.stopped /\ p.absent = past.absent
                 /\ p.delivered = d /\ p.asked = past.asked /\ p.owed = b
  BY DEF Typed, Pasts
<1> QED
  BY <1>1 DEF Delivers

\* What an answer of the drive does to the history.
LEMMA SeenKeeps ==
    ASSUME Typed, NEW seen
    PROVE  LET p == Seen(seen)
           IN  /\ p.stopped = past.stopped /\ p.delivered = past.delivered
               /\ p.asked = past.asked /\ p.owed = past.owed
               /\ p.absent = IF past.stopped = 0 \/ past.absent = 2
                               THEN past.absent
                               ELSE IF seen = "absent" THEN past.absent + 1
                               ELSE 0
<1>1. ASSUME NEW n
      PROVE  LET p == [past EXCEPT !.absent = n]
             IN  /\ p.stopped = past.stopped /\ p.delivered = past.delivered
                 /\ p.asked = past.asked /\ p.owed = past.owed /\ p.absent = n
  BY DEF Typed, Pasts
<1> QED
  BY <1>1 DEF Seen

\* What a thread that ends does to the history.
LEMMA LeftKeeps ==
    ASSUME Typed, NEW a
    PROVE  LET p == Left(a)
           IN  /\ p.stopped = past.stopped /\ p.absent = past.absent
               /\ p.delivered = past.delivered /\ p.asked = past.asked \ {a}
               /\ p.owed = past.owed
<1>1. ASSUME NEW q, NEW s
      PROVE  LET p == [past EXCEPT !.asked = q, !.attended = s]
             IN  /\ p.stopped = past.stopped /\ p.absent = past.absent
                 /\ p.delivered = past.delivered /\ p.asked = q
                 /\ p.owed = past.owed
  BY DEF Typed, Pasts
<1> QED
  BY <1>1 DEF Left

\* What a claim, a request and a Stop do to the history.
LEMMA AttendKeeps ==
    ASSUME Typed
    PROVE  /\ LET p == Attend
              IN  /\ p.stopped = past.stopped /\ p.absent = past.absent
                  /\ p.delivered = past.delivered /\ p.asked = past.asked
                  /\ p.owed = past.owed
           /\ LET p == Request
              IN  /\ p.stopped = past.stopped /\ p.absent = past.absent
                  /\ p.delivered = past.delivered /\ p.asked = past.asked
                  /\ p.owed
           /\ \A d : LET p == [Attend EXCEPT !.stopped = d, !.absent = 0]
                     IN  /\ p.stopped = d /\ p.absent = 0
                         /\ p.delivered = past.delivered /\ p.asked = past.asked
                         /\ p.owed = past.owed
<1>1. ASSUME NEW s
      PROVE  LET p == [past EXCEPT !.attended = s]
             IN  /\ p.stopped = past.stopped /\ p.absent = past.absent
                 /\ p.delivered = past.delivered /\ p.asked = past.asked
                 /\ p.owed = past.owed
  BY DEF Typed, Pasts
<1>2. Attend \in Pasts
  BY PastTyped, DiscTyped DEF Attend, Typed
<1>3. ASSUME NEW p \in Pasts, NEW d
      PROVE  /\ LET q == [p EXCEPT !.owed = TRUE]
                IN  /\ q.stopped = p.stopped /\ q.absent = p.absent
                    /\ q.delivered = p.delivered /\ q.asked = p.asked /\ q.owed
             /\ LET q == [p EXCEPT !.stopped = d, !.absent = 0]
                IN  /\ q.stopped = d /\ q.absent = 0
                    /\ q.delivered = p.delivered /\ q.asked = p.asked
                    /\ q.owed = p.owed
  BY DEF Pasts
<1>4. LET p == Attend
      IN  /\ p.stopped = past.stopped /\ p.absent = past.absent
          /\ p.delivered = past.delivered /\ p.asked = past.asked
          /\ p.owed = past.owed
  BY <1>1 DEF Attend
<1> QED
  BY <1>2, <1>3, <1>4 DEF Request

\* What an answer of the drive does to the drive, the marks and the history.
LEMMA AnswerMakes ==
    ASSUME Typed, NEW seen \in {"present", "absent", "settling"},
           NEW ready \in BOOLEAN, Answer(seen, ready)
    PROVE  LET over == tray.changed \/ marks.changed
               hold == IF over THEN "none" ELSE marks.hold
               shown == HeldPresence(seen, hold)
           IN  /\ tray'.disc = tray.disc /\ tray'.seen = tray.seen
               /\ ~tray'.changed
               /\ tray'.flaky <=>
                    tray.flaky /\ ~(seen = "absent" /\ tray.disc # 0)
               /\ marks'.hold = HeldAfter(seen, hold)
               /\ ~marks'.changed
               /\ marks'.cooldown = marks.cooldown
               /\ marks'.finished <=>
                    shown # "absent" /\ ~over /\ marks.finished
               /\ marks'.waiting =>
                    /\ marks.waiting /\ shown # "absent"
                    /\ shown = "present" => ~ready
<1> DEFINE over == tray.changed \/ marks.changed
           freed == Released(over)
           hold == IF over THEN "none" ELSE marks.hold
           shown == HeldPresence(seen, hold)
           after == HeldAfter(seen, hold)
           held == [freed EXCEPT !.hold = after]
           lifted == shown = "present" /\ marks.waiting /\ ready
<1>0. lifted => shown = "present"
  OBVIOUS
<1>1. /\ freed \in Marks /\ freed.hold = hold
      /\ freed.finished <=> ~over /\ marks.finished
      /\ ~freed.changed /\ freed.waiting = marks.waiting
      /\ freed.cooldown = marks.cooldown
  BY DEF Typed, Marks, Released
<1>2. after \in {"none", "armed", "absent"}
  BY DEF HeldAfter, Typed, Marks
<1>3. tray' = [tray EXCEPT !.changed = FALSE,
                           !.flaky = @ /\ ~(seen = "absent" /\ tray.disc # 0)]
  BY DEF Answer
<1>4. marks' = CASE shown = "absent" ->
                      [held EXCEPT !.finished = FALSE, !.waiting = FALSE]
                 [] lifted -> [held EXCEPT !.waiting = FALSE]
                 [] OTHER -> held
  BY <1>1 DEF Answer
<1>5. /\ tray'.disc = tray.disc /\ tray'.seen = tray.seen /\ ~tray'.changed
      /\ tray'.flaky <=> tray.flaky /\ ~(seen = "absent" /\ tray.disc # 0)
  BY <1>3 DEF Typed, Trays
<1> HIDE DEF over, freed, hold, shown, after, lifted
<1>6. /\ held \in Marks /\ held.hold = after /\ held.changed = freed.changed
      /\ held.finished = freed.finished /\ held.waiting = freed.waiting
      /\ held.cooldown = freed.cooldown
  BY <1>1, <1>2 DEF Marks
<1> HIDE DEF held
<1>7. /\ marks'.hold = after /\ marks'.changed = held.changed
      /\ marks'.cooldown = held.cooldown
      /\ marks'.finished <=> shown # "absent" /\ held.finished
      /\ marks'.waiting <=> shown # "absent" /\ ~lifted /\ held.waiting
  <2>1. CASE shown = "absent"
    <3>1. marks' = [held EXCEPT !.finished = FALSE, !.waiting = FALSE]
      BY <1>0, <1>4, <2>1
    <3> QED
      BY <1>6, <2>1, <3>1 DEF Marks
  <2>2. CASE shown # "absent" /\ lifted
    <3>1. marks' = [held EXCEPT !.waiting = FALSE]
      BY <1>0, <1>4, <2>2
    <3>2. /\ marks'.hold = held.hold /\ marks'.changed = held.changed
          /\ marks'.cooldown = held.cooldown /\ ~marks'.waiting
          /\ marks'.finished = held.finished
      BY <1>6, <3>1 DEF Marks
    <3> QED
      BY <1>6, <2>2, <3>2
  <2>3. CASE shown # "absent" /\ ~lifted
    <3>1. marks' = held
      BY <1>4, <2>3
    <3> QED
      BY <1>6, <2>3, <3>1
  <2> QED
    BY <2>1, <2>2, <2>3
<1>8. /\ ~marks'.changed /\ marks'.cooldown = marks.cooldown
      /\ marks'.finished <=> shown # "absent" /\ ~over /\ marks.finished
  BY <1>1, <1>6, <1>7
<1>9. marks'.waiting =>
        marks.waiting /\ shown # "absent" /\ (shown = "present" => ~ready)
  BY <1>1, <1>6, <1>7 DEF lifted
<1>10. marks'.hold = HeldAfter(seen, hold)
  BY <1>7 DEF after
<1> QED
  BY <1>5, <1>8, <1>9, <1>10, Zenon DEF over, hold, shown

\* What it does to the poll loop's own state, to the session and to the row.
LEMMA AnswerShows ==
    ASSUME Typed, NEW seen \in {"present", "absent", "settling"},
           NEW ready \in BOOLEAN, Answer(seen, ready)
    PROVE  LET over == tray.changed \/ marks.changed
               hold == IF over THEN "none" ELSE marks.hold
               shown == HeldPresence(seen, hold)
               lifted == shown = "present" /\ marks.waiting /\ ready
               had == poll.had /\ ~over /\ ~lifted
               dispatch == shown = "present" /\ ~had /\ ~marks.cooldown
           IN  /\ poll'.pc = IF dispatch THEN "dispatch" ELSE "rest"
               /\ poll'.had <=> shown # "absent" /\ (had \/ dispatch)
               /\ session' = IF shown = "absent" /\ had THEN 0 ELSE session
               /\ row' \in {row, Put("idle", FALSE),
                            [row EXCEPT !.status = "idle"]}
               /\ row.status \in {"scanning", "ripping"} => row' = row
               /\ past' = Seen(seen)
<1> DEFINE over == tray.changed \/ marks.changed
           hold == IF over THEN "none" ELSE marks.hold
           shown == HeldPresence(seen, hold)
           lifted == shown = "present" /\ marks.waiting /\ ready
           had == poll.had /\ ~over /\ ~lifted
           dispatch == shown = "present" /\ ~had /\ ~marks.cooldown
           held == HeldPresence(seen, Released(over).hold)
           lift == held = "present" /\ marks.waiting /\ ready
           same == SameInsertion(FALSE, over) /\ ~lift
           send == held = "present" /\ ~same /\ ~marks.cooldown
<1>1. Released(over).hold = hold
  BY DEF Typed, Marks, Released
<1>2. held = shown
  BY <1>1
<1>3. (lift <=> lifted) /\ (same <=> had) /\ (send <=> dispatch)
  BY <1>2 DEF SameInsertion
<1>4. /\ poll' = [poll EXCEPT !.pc = IF send THEN "dispatch" ELSE "rest",
                              !.had = held # "absent" /\ (same \/ send)]
      /\ session' = IF held = "absent" /\ same THEN 0 ELSE session
      /\ row' = ShownRow(held = "absent" \/ (held = "settling" /\ ~same))
      /\ past' = Seen(seen)
  BY DEF Answer
<1> HIDE DEF over, hold, shown, lifted, had, dispatch, held, lift, same, send
<1>5. ASSUME NEW pc, NEW h, poll' = [poll EXCEPT !.pc = pc, !.had = h]
      PROVE  poll'.pc = pc /\ poll'.had = h
  BY <1>5 DEF Typed, Polls
<1>6. /\ poll'.pc = IF send THEN "dispatch" ELSE "rest"
      /\ poll'.had = (held # "absent" /\ (same \/ send))
  BY <1>4, <1>5, Zenon
<1>7. poll'.had <=> held # "absent" /\ (same \/ send)
  BY <1>6
<1>8. poll'.had <=> shown # "absent" /\ (had \/ dispatch)
  BY <1>2, <1>3, <1>7
<1>9. poll'.pc = IF dispatch THEN "dispatch" ELSE "rest"
  BY <1>3, <1>6
<1>10. session' = IF shown = "absent" /\ had THEN 0 ELSE session
  BY <1>2, <1>3, <1>4
<1>11. /\ row' \in {row, Put("idle", FALSE), [row EXCEPT !.status = "idle"]}
       /\ row.status \in {"scanning", "ripping"} => row' = row
  BY <1>4 DEF ShownRow, Busy
<1> QED
  BY <1>4, <1>8, <1>9, <1>10, <1>11, Zenon
     DEF over, hold, shown, lifted, had, dispatch
-----------------------------------------------------------------------------
(* A stopped disc stays stopped.                                           *)

\* A Stop's hold stays until the second absent answer in a row, and no change
\* of the medium is left to be learnt meanwhile.
Held ==
    /\ past.stopped \in {0, tray.disc}
    /\ past.stopped # 0 /\ past.absent < 2 =>
         /\ marks.hold = IF past.absent = 0 THEN "armed" ELSE "absent"
         /\ ~tray.changed /\ ~marks.changed

\* The answers a probe can have.
LEMMA ProbeAnswers ==
    ASSUME PollAnswers
    PROVE  \E seen \in {"present", "absent", "settling"}, ready \in BOOLEAN :
             /\ Answer(seen, ready)
             /\ seen = "present" => tray.disc # 0
             /\ seen = "absent" => tray.disc = 0 \/ tray.flaky
  BY Zenon DEF PollAnswers

\* An answer takes the hold and the count of absences on together.
LEMMA AnswerHeld ==
    ASSUME Typed, Held, NEW seen \in {"present", "absent", "settling"},
           NEW ready \in BOOLEAN, Answer(seen, ready)
    PROVE  Held'
<1> DEFINE hold == IF tray.changed \/ marks.changed THEN "none" ELSE marks.hold
<1>1. /\ past'.stopped = past.stopped
      /\ past'.absent = IF past.stopped = 0 \/ past.absent = 2
                          THEN past.absent
                          ELSE IF seen = "absent" THEN past.absent + 1 ELSE 0
  <2>1. past' = Seen(seen)
    BY AnswerShows
  <2> QED
    BY <2>1, SeenKeeps
<1>2. /\ tray'.disc = tray.disc /\ ~tray'.changed
      /\ marks'.hold = HeldAfter(seen, hold) /\ ~marks'.changed
  BY AnswerMakes
<1>3. past.absent \in 0 .. 2
  BY DEF Typed, Pasts
<1> QED
  BY <1>1, <1>2, <1>3 DEF Held, HeldAfter

\* Every step keeps the hold of a stopped disc.
LEMMA HeldStep == Typed /\ Held /\ [Next]_vars => Held'
<1> SUFFICES ASSUME Typed, Held, [Next]_vars PROVE Held'
  OBVIOUS
<1>1. CASE UNCHANGED vars
  BY <1>1 DEF Held, vars
<1>2. CASE Poll
  <2>1. CASE PollAnswers
    BY <2>1, ProbeAnswers, AnswerHeld
  <2>2. CASE \/ PollCheck \/ PollFails \/ PollShows \/ PollClaims
             \/ PollRefused \/ PollRegisters \/ PollSpawns
    BY <2>2
       DEF Typed, Trays, Pasts, Held, PollCheck, PollFails, PollShows,
           PollClaims, PollRefused, PollRegisters, PollSpawns, Released,
           Attend, Spawn
  <2> QED
    BY <1>2, <2>1, <2>2 DEF Poll
<1>3. CASE WebAsks \/ WebHandles
  BY <1>3
     DEF Typed, Marks, Pasts, Held, WebAsks, WebHandles, WebClaims, WebRefused,
         WebRegisters, WebSpawns, Claim, Request, Spawn, Attend
<1>4. CASE EjectAsks \/ EjectHandles
  BY <1>4
     DEF Typed, Marks, Pasts, Held, EjectAsks, EjectHandles, EjectClaims,
         EjectRefused, EjectCancels, EjectJoins, EjectOpens, EjectFails,
         EjectAnswers, Claim, Request, NewMedium, Attend
<1>5. CASE StopPrepares \/ StopHandles
  <2>1. CASE StopPrepares
    BY <2>1 DEF Held, StopPrepares, Noticed
  <2>2. CASE StopCancels
    BY <2>2 DEF Held, StopCancels
  <2>3. CASE StopDrains \/ StopApplies \/ StopAnswers
    BY <2>3
       DEF Typed, Marks, Pasts, Held, StopDrains, StopApplies, StopAnswers
  <2> QED
    BY <1>5, <2>1, <2>2, <2>3 DEF StopHandles
<1>6. CASE CooldownEnds \/ TakeOut \/ PutIn
  BY <1>6 DEF Typed, Marks, Pasts, Held, CooldownEnds, TakeOut, PutIn, NewMedium
<1>7. ASSUME NEW a \in Claimants, Worker(a) \/ Panics(a) PROVE Held'
  <2>1. CASE \/ ScanBegins(a) \/ ScanSkipped(a) \/ ScanEnds(a) \/ RipFollows(a)
             \/ Dispatches(a) \/ Installs(a)
    BY <2>1
       DEF Typed, Trays, Marks, Pasts, Held, ScanBegins, ScanSkipped, ScanEnds,
           RipFollows, Dispatches, Installs, Delivers
  <2>2. CASE \/ Takes(a) \/ Begins(a) \/ SweepEnds(a) \/ AutoEjects(a)
             \/ Ends(a) \/ Panics(a)
    BY <2>2
       DEF Typed, Trays, Marks, Pasts, Held, Takes, Begins, SweepEnds,
           AutoEjects, Ends, Panics, Delivers, NewMedium, Left
  <2> QED
    BY <1>7, <2>1, <2>2 DEF Worker
<1> QED
  BY <1>1, <1>2, <1>3, <1>4, <1>5, <1>6, <1>7 DEF Next

\* No action but PollClaims turns a dispatch into a claim.
LEMMA OnlyClaims ==
    ASSUME Typed, [Next]_vars, poll.pc = "dispatch", poll'.pc = "claimed"
    PROVE  PollClaims
<1>1. CASE UNCHANGED <<poll>>
  BY <1>1
<1>2. CASE Poll
  BY <1>2
     DEF Poll, PollCheck, PollFails, PollAnswers, PollShows, PollRefused,
         PollRegisters, PollSpawns, Typed, Polls
<1> QED
  BY <1>1, <1>2
     DEF Next, vars, WebAsks, WebHandles, WebClaims, WebRefused, WebRegisters,
         WebSpawns, EjectAsks, EjectHandles, EjectClaims, EjectRefused,
         EjectCancels, EjectJoins, EjectOpens, EjectFails, EjectAnswers,
         StopPrepares, StopHandles, StopCancels, StopDrains, StopApplies,
         StopAnswers, CooldownEnds, TakeOut, PutIn, Worker, ScanBegins,
         ScanSkipped, ScanEnds, RipFollows, Dispatches, Installs, Takes, Begins,
         SweepEnds, AutoEjects, Ends, Panics

\* A disc the operator stopped does not start by itself (try_claim_insert,
\* stopped_disc_presence), for every setting and any number of discs, requests,
\* Stops and failures, also when requests overtake each other.
THEOREM StoppedStays == Spec => StoppedStaysStopped
<1>1. Init => Held
  BY DEF Init, Held
<1>2. ASSUME Typed, Held, [Next]_vars,
             poll.pc = "dispatch", poll'.pc = "claimed"
      PROVE  past.absent = 2 \/ past.stopped \notin {tray.disc} \ {0}
  <2>1. marks.hold = "none"
    BY <1>2, OnlyClaims DEF PollClaims
  <2>2. past.absent \in 0 .. 2
    BY <1>2 DEF Typed, Pasts
  <2> QED
    BY <1>2, <2>1, <2>2 DEF Held
<1>3. Typed /\ Held /\ [Next]_vars =>
        [poll.pc = "dispatch" /\ poll'.pc = "claimed"
           => past.absent = 2 \/ past.stopped \notin {tray.disc} \ {0}]_vars
  BY <1>2
<1> QED
  BY <1>1, <1>3, InitTyped, TypedStep, HeldStep, PTL
     DEF Spec, StoppedStaysStopped
-----------------------------------------------------------------------------
(* A request that is not overtaken stands alone.                           *)

\* The three requests that claim the row, between the claim and the thread or
\* the answer.
PollMid == poll.pc \in {"claimed", "armed"}
WebMid == web.pc \in {"claimed", "armed"}
EjectMid == eject \notin {"rest", "asked"}

\* While a request is there the row is busy, nothing runs, no other request has
\* come as far, and no Stop has the generation that an Eject claimed.
Apart ==
    /\ MidRequest => Busy /\ \A a \in Claimants : ~Live(a)
    /\ ~(PollMid /\ WebMid) /\ ~(PollMid /\ EjectMid) /\ ~(WebMid /\ EjectMid)
    /\ stop.pc # "rest" /\ row.gen = stop.gen => ~EjectMid

\* Nothing runs when no registered thread does.
LEMMA NothingRuns == IInv /\ ~Running => \A a \in Claimants : ~Live(a)
  BY DEF IInv, Owned, Running, NoOne, Claimants

\* A claim finds no other request and nothing that runs.
LEMMA ClaimAlone ==
    ASSUME Overtaken = FALSE, Typed, SInv, Apart, ClaimAllowed, Claim,
           stop' = stop
    PROVE  /\ ~MidRequest /\ Busy' /\ \A a \in Claimants : ~Live(a)
           /\ row'.gen = row.gen + 1 /\ row'.status = "scanning"
           /\ stop.pc # "rest" => row'.gen # stop'.gen
<1>1. ~MidRequest
  BY DEF Apart, Claim
<1>2. \A a \in Claimants : ~Live(a)
  BY NothingRuns DEF ClaimAllowed, SInv
<1>3. row'.gen = row.gen + 1 /\ row'.status = "scanning"
  BY DEF Claim, Typed, Rows
<1>4. row.gen \in Nat /\ stop.gen \in Nat
  BY DEF Typed, Rows, Stops
<1>5. stop.pc # "rest" => stop.gen <= row.gen
  BY DEF SInv, Drained
<1> QED
  BY <1>1, <1>2, <1>3, <1>4, <1>5 DEF Busy

\* A thread's start or its rollback ends the request it was for.
LEMMA SpawnAlone ==
    ASSUME SInv, NEW a \in Claimants, NEW kind, NEW gen, Spawn(a, kind, gen)
    PROVE  row'.gen = row.gen
  BY PaintKeepsGen DEF Spawn, Rollback

\* The poll loop stands alone as long as its claim is under way.
LEMMA PollApart ==
    ASSUME Overtaken = FALSE, Typed, SInv, Apart, Poll PROVE Apart'
<1>1. UNCHANGED <<web, eject, stop>>
  BY DEF Poll, PollCheck, PollFails, PollAnswers, PollShows, PollClaims,
         PollRefused, PollRegisters, PollSpawns
<1>2. CASE PollCheck \/ PollRefused
  <2>1. poll'.pc \in {"rest", "probe"} /\ UNCHANGED <<row, worker>>
    BY <1>2 DEF PollCheck, PollRefused, Typed, Polls
  <2>2. ~PollMid /\ ~PollMid'
    BY <2>1, <1>2 DEF PollCheck, PollRefused, PollMid
  <2> QED
    BY <1>1, <2>1, <2>2
       DEF Apart, MidRequest, PollMid, WebMid, EjectMid, Live, Busy
<1>3. CASE PollFails \/ PollShows
  <2>1. ~PollMid /\ ~PollMid' /\ worker' = worker
    BY <1>3 DEF PollFails, PollShows, PollMid, Typed, Polls
  <2>2. row'.gen = row.gen
    BY <1>3, PollRows, PaintKeepsGen DEF PollFails, PollShows
  <2>3. MidRequest /\ Busy => row' = row
    BY <1>3 DEF PollFails, PollShows, Publish
  <2> QED
    BY <1>1, <2>1, <2>2, <2>3
       DEF Apart, MidRequest, PollMid, WebMid, EjectMid, Live, Busy
<1>4. CASE PollAnswers
  <2>1. PICK seen \in {"present", "absent", "settling"}, ready \in BOOLEAN :
          Answer(seen, ready)
    BY <1>4, ProbeAnswers
  <2>2. /\ row' \in {row, Put("idle", FALSE), [row EXCEPT !.status = "idle"]}
        /\ row.status \in {"scanning", "ripping"} => row' = row
        /\ poll'.pc \in {"dispatch", "rest"}
    BY <2>1, AnswerShows
  <2>3. ~PollMid /\ ~PollMid' /\ worker' = worker
    BY <1>4, <2>2 DEF PollAnswers, PollMid
  <2>4. row'.gen = row.gen
    BY <2>2, PaintKeepsGen
  <2> QED
    BY <1>1, <2>2, <2>3, <2>4
       DEF Apart, MidRequest, PollMid, WebMid, EjectMid, Live, Busy
<1>5. CASE PollClaims
  <2>1. /\ ~MidRequest /\ Busy' /\ \A a \in Claimants : ~Live(a)
        /\ worker' = worker
    BY <1>1, <1>5, ClaimAlone DEF PollClaims
  <2> QED
    BY <1>1, <2>1 DEF Apart, MidRequest, PollMid, WebMid, EjectMid, Live
<1>6. CASE PollRegisters
  <2>1. /\ poll'.pc = "armed" /\ poll.pc = "claimed"
        /\ UNCHANGED <<row, worker>>
    BY <1>6 DEF PollRegisters, Typed, Polls
  <2> QED
    BY <1>1, <2>1 DEF Apart, MidRequest, PollMid, WebMid, EjectMid, Live, Busy
<1>7. CASE PollSpawns
  <2>1. poll'.pc = "rest" /\ poll.pc = "armed" /\ row'.gen = row.gen
    BY <1>7, SpawnAlone DEF PollSpawns, Typed, Polls, Claimants
  <2> QED
    BY <1>1, <2>1 DEF Apart, MidRequest, PollMid, WebMid, EjectMid
<1> QED
  BY <1>2, <1>3, <1>4, <1>5, <1>6, <1>7 DEF Poll

\* So does a scan or rip request,
LEMMA WebApart ==
    ASSUME Overtaken = FALSE, Typed, SInv, Apart, WebAsks \/ WebHandles
    PROVE  Apart'
<1>1. UNCHANGED <<poll, eject, stop>>
  BY DEF WebAsks, WebHandles, WebClaims, WebRefused, WebRegisters, WebSpawns
<1>2. CASE WebAsks \/ WebRefused
  <2>1. ~WebMid /\ ~WebMid' /\ UNCHANGED <<row, worker>>
    BY <1>2 DEF WebAsks, WebRefused, WebMid, Typed, Webs
  <2> QED
    BY <1>1, <2>1 DEF Apart, MidRequest, PollMid, WebMid, EjectMid, Live, Busy
<1>3. CASE WebClaims
  <2>1. /\ ~MidRequest /\ Busy' /\ \A a \in Claimants : ~Live(a)
        /\ worker' = worker
    BY <1>1, <1>3, ClaimAlone DEF WebClaims
  <2> QED
    BY <1>1, <2>1 DEF Apart, MidRequest, PollMid, WebMid, EjectMid, Live
<1>4. CASE WebRegisters
  <2>1. web'.pc = "armed" /\ web.pc = "claimed" /\ worker' = worker
    BY <1>4 DEF WebRegisters, Typed, Webs
  <2>2. row' = row \/ row' = Put("scanning", TRUE)
    BY <1>4 DEF WebRegisters
  <2>3. row'.gen = row.gen
    BY <2>2, PaintKeepsGen
  <2>4. Busy => Busy'
    BY <2>2 DEF Put, Busy
  <2> QED
    BY <1>1, <2>1, <2>3, <2>4
       DEF Apart, MidRequest, PollMid, WebMid, EjectMid, Live
<1>5. CASE WebSpawns
  <2>1. web'.pc = "rest" /\ web.pc = "armed" /\ row'.gen = row.gen
    BY <1>5, SpawnAlone DEF WebSpawns, Typed, Webs, Claimants
  <2> QED
    BY <1>1, <2>1 DEF Apart, MidRequest, PollMid, WebMid, EjectMid
<1> QED
  BY <1>2, <1>3, <1>4, <1>5 DEF WebHandles

\* and an Eject.
LEMMA EjectApart ==
    ASSUME Overtaken = FALSE, Typed, SInv, Apart, EjectAsks \/ EjectHandles
    PROVE  Apart'
<1>1. UNCHANGED <<poll, web, stop, worker>>
  BY DEF EjectAsks, EjectHandles, EjectClaims, EjectRefused, EjectCancels,
         EjectJoins, EjectOpens, EjectFails, EjectAnswers
<1>2. CASE EjectClaims
  <2>1. /\ ~MidRequest /\ Busy' /\ \A a \in Claimants : ~Live(a)
        /\ stop.pc # "rest" => row'.gen # stop'.gen
    BY <1>1, <1>2, ClaimAlone DEF EjectClaims
  <2> QED
    BY <1>1, <2>1 DEF Apart, MidRequest, PollMid, WebMid, EjectMid, Live
<1>3. CASE EjectAnswers
  <2>1. row'.gen = row.gen
    BY <1>3, PaintKeepsGen DEF EjectAnswers
  <2> QED
    BY <1>1, <1>3, <2>1
       DEF EjectAnswers, Apart, MidRequest, PollMid, WebMid, EjectMid
<1>4. CASE \/ EjectAsks \/ EjectRefused \/ EjectCancels \/ EjectJoins
           \/ EjectOpens \/ EjectFails
  <2>1. row' = row /\ (EjectMid' <=> EjectMid)
    BY <1>4
       DEF EjectAsks, EjectRefused, EjectCancels, EjectJoins, EjectOpens,
           EjectFails, EjectMid
  <2> QED
    BY <1>1, <2>1 DEF Apart, MidRequest, PollMid, WebMid, EjectMid, Live, Busy
<1> QED
  BY <1>2, <1>3, <1>4 DEF EjectHandles

\* A Stop repaints the row only for the generation it read, which is that of
\* no request under way.
LEMMA StopApart ==
    ASSUME Overtaken = FALSE, Typed, SInv, Apart, StopPrepares \/ StopHandles
    PROVE  Apart'
<1>1. UNCHANGED <<poll, web, eject, worker>>
  BY DEF StopPrepares, StopHandles, StopCancels, StopDrains, StopApplies,
         StopAnswers
<1>2. CASE StopPrepares
  <2>1. row' = row /\ ~MidRequest
    BY <1>2 DEF StopPrepares
  <2> QED
    BY <1>1, <2>1 DEF Apart, MidRequest, PollMid, WebMid, EjectMid
<1>3. CASE StopHandles
  <2>0. row'.gen = row.gen
    BY <1>3, PaintKeepsGen
       DEF StopHandles, StopCancels, StopDrains, StopApplies, StopAnswers
  <2>1. stop.pc # "rest" /\ stop'.gen = stop.gen
    BY <1>3
       DEF StopHandles, StopCancels, StopDrains, StopApplies, StopAnswers,
           Typed, Stops
  <2>2. row' = row \/ row.gen = stop.gen
    BY <1>3
       DEF StopHandles, StopCancels, StopDrains, StopApplies, StopAnswers
  <2>3. row.gen = stop.gen => ~PollMid /\ ~WebMid
    BY <2>1 DEF SInv, Drained, Claimed, PollMid, WebMid
  <2> QED
    BY <1>1, <2>0, <2>1, <2>2, <2>3
       DEF Apart, MidRequest, PollMid, WebMid, EjectMid, Live, Busy
<1> QED
  BY <1>2, <1>3

\* A thread that runs has no request beside it.
LEMMA WorkerApart ==
    ASSUME Typed, SInv, Apart, NEW a \in Claimants, Worker(a) \/ Panics(a)
    PROVE  Apart'
<1>1. UNCHANGED <<poll, web, eject, stop>>
  BY DEF Worker, ScanBegins, ScanSkipped, ScanEnds, RipFollows, Dispatches,
         Installs, Takes, Begins, SweepEnds, AutoEjects, Ends, Panics
<1>2. row'.gen = row.gen
  BY WorkerIsCalm DEF Calm
<1>3. Live(a)
  BY DEF Live, At, Worker, ScanBegins, ScanSkipped, ScanEnds, RipFollows,
         Dispatches, Installs, Takes, Begins, SweepEnds, AutoEjects, Ends,
         Panics
<1> QED
  BY <1>1, <1>2, <1>3 DEF Apart, MidRequest, PollMid, WebMid, EjectMid

\* Every step keeps a request alone.
LEMMA ApartStep ==
    ASSUME Overtaken = FALSE
    PROVE  Typed /\ SInv /\ Apart /\ [Next]_vars => Apart'
<1> SUFFICES ASSUME Typed, SInv, Apart, [Next]_vars PROVE Apart'
  OBVIOUS
<1>1. CASE \/ CooldownEnds \/ TakeOut \/ PutIn \/ UNCHANGED vars
  <2>1. UNCHANGED <<poll, web, eject, stop, row, worker>>
    BY <1>1 DEF CooldownEnds, TakeOut, PutIn, vars
  <2> QED
    BY <2>1 DEF Apart, MidRequest, PollMid, WebMid, EjectMid, Live, Busy
<1> QED
  BY <1>1, PollApart, WebApart, EjectApart, StopApart, WorkerApart DEF Next
-----------------------------------------------------------------------------
(* A Stop reaches the rip.                                                 *)

\* A thread that takes a step is live and alone, and the requests and the Stop
\* stay where they are.
LEMMA WorkerAlone ==
    ASSUME Typed, IInv, NEW a \in Claimants, Worker(a) \/ Panics(a)
    PROVE  /\ UNCHANGED <<thread, poll, web, eject, stop>>
           /\ Live(a) /\ thread = a
           /\ \A b \in Claimants : b # a => ~Live(b) /\ worker'[b] = worker[b]
<1>1. UNCHANGED <<thread, poll, web, eject, stop>>
  BY DEF Worker, ScanBegins, ScanSkipped, ScanEnds, RipFollows, Dispatches,
         Installs, Takes, Begins, SweepEnds, AutoEjects, Ends, Panics
<1>2. Live(a)
  BY DEF Live, At, Worker, ScanBegins, ScanSkipped, ScanEnds, RipFollows,
         Dispatches, Installs, Takes, Begins, SweepEnds, AutoEjects, Ends,
         Panics
<1>3. \A b \in Claimants : b # a => worker'[b] = worker[b]
  BY DEF Typed, Worker, ScanBegins, ScanSkipped, ScanEnds, Scanned, RipFollows,
         Dispatches, Installs, Takes, Begins, SweepEnds, AutoEjects, Ends,
         Panics, Goes
<1> QED
  BY <1>1, <1>2, <1>3 DEF IInv, Owned

\* A thread goes on with the same work.
SameWork(a) == /\ worker'[a].kind = worker[a].kind
               /\ worker'[a].disc = worker[a].disc
               /\ worker'[a].job = worker[a].job
               /\ worker'[a].tok = worker[a].tok

\* Where each of its steps takes a thread, and what it keeps.
LEMMA WorkerMoves ==
    ASSUME Typed, NEW a \in Claimants
    PROVE  /\ ScanBegins(a) => worker'[a].pc = "scanning" /\ SameWork(a)
           /\ ScanSkipped(a) => worker'[a].pc = "guard" /\ SameWork(a)
           /\ ScanEnds(a) =>
                /\ worker'[a].pc = IF worker[a].kind = "scan" THEN "tail"
                                   ELSE IF worker[a].kind = "insert" THEN "again"
                                   ELSE "guard"
                /\ SameWork(a)
           /\ RipFollows(a) =>
                \/ worker'[a].pc = "tail" /\ SameWork(a)
                \/ /\ ~Halted
                   /\ worker'[a].pc = "start" /\ worker'[a].kind = "auto"
                   /\ worker'[a].disc = worker[a].disc
           /\ Dispatches(a) =>
                /\ SameWork(a)
                /\ \/ worker'[a].pc = "tail"
                   \/ /\ session # 0 /\ UNCHANGED session
                      /\ worker'[a].pc = "install"
           /\ Installs(a) =>
                \/ worker'[a].pc = "tail" /\ SameWork(a)
                \/ /\ row.job # 0 /\ Swap(<<a, "rip">>)
                   /\ worker'[a].pc = "take" /\ worker'[a].job = row.job
                   /\ worker'[a].kind = worker[a].kind
                   /\ worker'[a].disc = worker[a].disc
           /\ Takes(a) =>
                \/ worker'[a].pc = "tail" /\ SameWork(a)
                \/ /\ UNCHANGED halt /\ worker'[a].pc = "begin"
                   /\ worker'[a].disc =
                        IF session # 0 THEN session ELSE tray.disc
                   /\ worker'[a].kind = worker[a].kind
                   /\ worker'[a].job = worker[a].job
           /\ Begins(a) =>
                \/ worker'[a].pc = "tail" /\ SameWork(a)
                \/ /\ Swap(<<a, "drive">>)
                   /\ worker'[a].pc = "sweep" /\ worker'[a].tok = <<a, "drive">>
                   /\ worker'[a].kind = worker[a].kind
                   /\ worker'[a].disc = worker[a].disc
                   /\ worker'[a].job = worker[a].job
           /\ SweepEnds(a) => worker'[a].pc \in {"tail", "eject"} /\ SameWork(a)
           /\ AutoEjects(a) => worker'[a].pc = "tail" /\ SameWork(a)
           /\ Ends(a) \/ Panics(a) => /\ worker'[a].pc = "ended"
                                      /\ worker'[a].kind = "scan"
                                      /\ worker'[a].disc = 0
<1>0. ASSUME NEW pc, Goes(a, pc) PROVE worker'[a].pc = pc /\ SameWork(a)
  BY <1>0 DEF Typed, Works, Goes, SameWork
<1>1. ScanBegins(a) => worker'[a].pc = "scanning" /\ SameWork(a)
  BY <1>0 DEF ScanBegins
<1>2. ScanSkipped(a) => worker'[a].pc = "guard" /\ SameWork(a)
  BY <1>0 DEF ScanSkipped
<1>3. ScanEnds(a) =>
        /\ worker'[a].pc = IF worker[a].kind = "scan" THEN "tail"
                           ELSE IF worker[a].kind = "insert" THEN "again"
                           ELSE "guard"
        /\ SameWork(a)
  BY <1>0 DEF ScanEnds, Scanned
<1>4. ASSUME RipFollows(a)
      PROVE  \/ worker'[a].pc = "tail" /\ SameWork(a)
             \/ /\ ~Halted
                /\ worker'[a].pc = "start" /\ worker'[a].kind = "auto"
                /\ worker'[a].disc = worker[a].disc
  <2>1. CASE worker' = [worker EXCEPT ![a].pc = "start", ![a].kind = "auto"]
    BY <1>4, <2>1, <1>0 DEF RipFollows, Typed, Works
  <2> QED
    BY <1>4, <2>1, <1>0 DEF RipFollows
<1>5. ASSUME Dispatches(a)
      PROVE  /\ SameWork(a)
             /\ \/ worker'[a].pc = "tail"
                \/ /\ session # 0 /\ UNCHANGED session
                   /\ worker'[a].pc = "install"
  <2>1. \/ Goes(a, "tail")
        \/ session # 0 /\ UNCHANGED session /\ Goes(a, "install")
    BY <1>5, Zenon DEF Dispatches
  <2> QED
    BY <2>1, <1>0
<1>6. ASSUME Installs(a)
      PROVE  \/ worker'[a].pc = "tail" /\ SameWork(a)
             \/ /\ row.job # 0 /\ Swap(<<a, "rip">>)
                /\ worker'[a].pc = "take" /\ worker'[a].job = row.job
                /\ worker'[a].kind = worker[a].kind
                /\ worker'[a].disc = worker[a].disc
  <2>1. \/ Goes(a, "tail")
        \/ /\ row.job # 0 /\ Swap(<<a, "rip">>)
           /\ worker' = [worker EXCEPT ![a].pc = "take", ![a].job = row.job]
    BY <1>6 DEF Installs
  <2>2. CASE worker' = [worker EXCEPT ![a].pc = "take", ![a].job = row.job]
    BY <2>1, <2>2, <1>0 DEF Typed, Works
  <2> QED
    BY <2>1, <2>2, <1>0
<1>7. ASSUME Takes(a)
      PROVE  \/ worker'[a].pc = "tail" /\ SameWork(a)
             \/ /\ UNCHANGED halt /\ worker'[a].pc = "begin"
                /\ worker'[a].disc = IF session # 0 THEN session ELSE tray.disc
                /\ worker'[a].kind = worker[a].kind
                /\ worker'[a].job = worker[a].job
  <2> DEFINE d == IF session # 0 THEN session ELSE tray.disc
  <2>1. \/ Goes(a, "tail")
        \/ /\ UNCHANGED halt
           /\ worker' = [worker EXCEPT ![a].pc = "begin", ![a].disc = d]
    BY <1>7 DEF Takes
  <2> HIDE DEF d
  <2>2. CASE worker' = [worker EXCEPT ![a].pc = "begin", ![a].disc = d]
    <3>1. /\ worker'[a].pc = "begin" /\ worker'[a].disc = d
          /\ worker'[a].kind = worker[a].kind /\ worker'[a].job = worker[a].job
      BY <2>2 DEF Typed, Works
    <3> QED
      BY <2>1, <3>1, <1>0 DEF d
  <2> QED
    BY <2>1, <2>2, <1>0
<1>8. ASSUME Begins(a)
      PROVE  \/ worker'[a].pc = "tail" /\ SameWork(a)
             \/ /\ Swap(<<a, "drive">>)
                /\ worker'[a].pc = "sweep" /\ worker'[a].tok = <<a, "drive">>
                /\ worker'[a].kind = worker[a].kind
                /\ worker'[a].disc = worker[a].disc
                /\ worker'[a].job = worker[a].job
  <2> DEFINE t == <<a, "drive">>
  <2>1. \/ Goes(a, "tail")
        \/ /\ Swap(t)
           /\ worker' = [worker EXCEPT ![a].pc = "sweep", ![a].tok = t]
    BY <1>8, Zenon DEF Begins
  <2> HIDE DEF t
  <2>2. CASE worker' = [worker EXCEPT ![a].pc = "sweep", ![a].tok = t]
    <3>1. /\ worker'[a].pc = "sweep" /\ worker'[a].tok = t
          /\ worker'[a].kind = worker[a].kind
          /\ worker'[a].disc = worker[a].disc /\ worker'[a].job = worker[a].job
      BY <2>2 DEF Typed, Works
    <3> QED
      BY <2>1, <3>1, <1>0 DEF t
  <2> QED
    BY <2>1, <2>2, <1>0
<1>9. ASSUME SweepEnds(a)
      PROVE  worker'[a].pc \in {"tail", "eject"} /\ SameWork(a)
  <2>1. Goes(a, "tail") \/ Goes(a, "eject")
    BY <1>9, Zenon DEF SweepEnds
  <2> QED
    BY <2>1, <1>0
<1>10. AutoEjects(a) => worker'[a].pc = "tail" /\ SameWork(a)
  BY <1>0 DEF AutoEjects
<1>11. ASSUME Ends(a) \/ Panics(a)
       PROVE  /\ worker'[a].pc = "ended" /\ worker'[a].kind = "scan"
              /\ worker'[a].disc = 0
  <2>1. worker'[a] = [NoWork EXCEPT !.pc = "ended"]
    BY <1>11 DEF Typed, Ends, Panics
  <2> QED
    BY <2>1 DEF NoWork
<1> QED
  BY <1>1, <1>2, <1>3, <1>4, <1>5, <1>6, <1>7, <1>8, <1>9, <1>10, <1>11

\* A spawn leaves each worker as it is or puts it to its start.
LEMMA SpawnStarts ==
    ASSUME Typed, NEW a \in Claimants, NEW kind, NEW gen, Spawn(a, kind, gen)
    PROVE  \A b \in Claimants :
             \/ worker'[b] = worker[b]
             \/ /\ b = a
                /\ worker'[b].pc = "start" /\ worker'[b].kind = kind
                /\ worker'[b].disc = 0
<1> DEFINE w == [NoWork EXCEPT !.pc = "start", !.kind = kind]
<1>1. w.pc = "start" /\ w.kind = kind /\ w.disc = 0
  BY DEF NoWork
<1>2. worker' = [worker EXCEPT ![a] = w] \/ worker' = worker
  BY DEF Spawn
<1> HIDE DEF w
<1> QED
  BY <1>1, <1>2 DEF Typed

\* The requests, the poll loop, the Stop and the people put no thread past its
\* start.
LEMMA OthersStart ==
    ASSUME Typed,
           \/ Poll \/ WebAsks \/ WebHandles \/ EjectAsks \/ EjectHandles
           \/ StopPrepares \/ StopHandles \/ CooldownEnds \/ TakeOut \/ PutIn
    PROVE  \A b \in Claimants :
             \/ worker'[b] = worker[b]
             \/ /\ MidRequest
                /\ worker'[b].pc = "start" /\ worker'[b].disc = 0
                /\ worker'[b].kind \in {"insert", web.kind}
<1>1. CASE PollSpawns
  <2>1. Spawn("poll", "insert", poll.gen) /\ MidRequest
    BY <1>1 DEF PollSpawns, MidRequest
  <2> QED
    BY <2>1, SpawnStarts, Zenon DEF Claimants
<1>2. CASE WebSpawns
  <2>1. Spawn("web", web.kind, web.gen) /\ MidRequest
    BY <1>2 DEF WebSpawns, MidRequest
  <2> QED
    BY <2>1, SpawnStarts, Zenon DEF Claimants
<1>3. CASE worker' = worker
  BY <1>3
<1>4. CASE Poll /\ ~PollSpawns
  BY <1>3, <1>4
     DEF Poll, PollCheck, PollFails, PollAnswers, PollShows, PollClaims,
         PollRefused, PollRegisters
<1>5. CASE WebAsks \/ (WebHandles /\ ~WebSpawns)
  BY <1>3, <1>5
     DEF WebAsks, WebHandles, WebClaims, WebRefused, WebRegisters
<1>6. CASE EjectAsks \/ EjectHandles
  BY <1>3, <1>6
     DEF EjectAsks, EjectHandles, EjectClaims, EjectRefused, EjectCancels,
         EjectJoins, EjectOpens, EjectFails, EjectAnswers
<1>7. CASE StopPrepares \/ StopHandles \/ CooldownEnds \/ TakeOut \/ PutIn
  BY <1>3, <1>7
     DEF StopPrepares, StopHandles, StopCancels, StopDrains, StopApplies,
         StopAnswers, CooldownEnds, TakeOut, PutIn
<1> QED
  BY <1>1, <1>2, <1>4, <1>5, <1>6, <1>7 DEF Poll, WebHandles

\* A scan does nothing but scan.
ScanOnly ==
    \A a \in Claimants : worker[a].kind = "scan" =>
        worker[a].pc \in {"none", "start", "scanning", "tail", "ended"}

\* No step makes a scan go on to a rip.
LEMMA ScanOnlyStep == Typed /\ IInv /\ ScanOnly /\ [Next]_vars => ScanOnly'
<1> SUFFICES ASSUME Typed, IInv, ScanOnly, [Next]_vars PROVE ScanOnly'
  OBVIOUS
<1>1. CASE UNCHANGED vars
  BY <1>1 DEF ScanOnly, vars
<1>2. CASE \/ Poll \/ WebAsks \/ WebHandles \/ EjectAsks \/ EjectHandles
           \/ StopPrepares \/ StopHandles \/ CooldownEnds \/ TakeOut \/ PutIn
  BY <1>2, OthersStart DEF ScanOnly
<1>3. ASSUME NEW a \in Claimants, Worker(a) \/ Panics(a) PROVE ScanOnly'
  <2>1. \A b \in Claimants : b # a => worker'[b] = worker[b]
    BY <1>3, WorkerAlone
  <2>2. worker'[a].kind = "scan" =>
          worker'[a].pc \in {"none", "start", "scanning", "tail", "ended"}
    BY <1>3, WorkerMoves
       DEF ScanOnly, SameWork, Worker, Dispatches, Installs, Takes, Begins,
           SweepEnds, AutoEjects, RipFollows, ScanSkipped, At
  <2> QED
    BY <2>1, <2>2 DEF ScanOnly
<1> QED
  BY <1>1, <1>2, <1>3 DEF Next

\* A sweep runs under the token that is registered.
OwnToken ==
    \A a \in Claimants : worker[a].pc = "sweep" =>
        worker[a].tok = halt /\ halt # NoToken

\* No step takes its token from a sweep.
LEMMA OwnTokenStep ==
    ASSUME Overtaken = FALSE
    PROVE  Typed /\ IInv /\ Apart /\ OwnToken /\ [Next]_vars => OwnToken'
<1> SUFFICES ASSUME Typed, IInv, Apart, OwnToken, [Next]_vars PROVE OwnToken'
  OBVIOUS
<1>1. CASE UNCHANGED vars
  BY <1>1 DEF OwnToken, vars
<1>2. CASE \/ Poll \/ WebAsks \/ WebHandles \/ EjectAsks \/ EjectHandles
           \/ StopPrepares \/ StopHandles \/ CooldownEnds \/ TakeOut \/ PutIn
  <2>1. CASE MidRequest
    <3>1. \A b \in Claimants : worker[b].pc # "sweep"
      BY <2>1 DEF Apart, Live
    <3> QED
      BY <1>2, <3>1, OthersStart DEF OwnToken
  <2>2. CASE ~MidRequest
    <3>1. halt' = halt
      BY <1>2, <2>2
         DEF MidRequest, Poll, PollCheck, PollFails, PollAnswers, PollShows,
             PollClaims, PollRefused, PollRegisters, PollSpawns, WebAsks,
             WebHandles, WebClaims, WebRefused, WebRegisters, WebSpawns,
             EjectAsks, EjectHandles, EjectClaims, EjectRefused, EjectCancels,
             EjectJoins, EjectOpens, EjectFails, EjectAnswers, StopPrepares,
             StopHandles, StopCancels, StopDrains, StopApplies, StopAnswers,
             CooldownEnds, TakeOut, PutIn
    <3> QED
      BY <1>2, <2>2, <3>1, OthersStart DEF OwnToken
  <2> QED
    BY <2>1, <2>2
<1>3. ASSUME NEW a \in Claimants, Worker(a) \/ Panics(a) PROVE OwnToken'
  <2>1. \A b \in Claimants : b # a => worker'[b].pc # "sweep"
    BY <1>3, WorkerAlone DEF Live
  <2>2. worker'[a].pc = "sweep" => worker'[a].tok = halt' /\ halt' # NoToken
    BY <1>3, WorkerMoves, NamesTyped DEF Worker, Swap
  <2> QED
    BY <2>1, <2>2 DEF OwnToken
<1> QED
  BY <1>1, <1>2, <1>3 DEF Next

\* Where a request stands apart, whoever is no worker leaves the token, or adds
\* to the cancelled ones.
LEMMA OthersHalt ==
    ASSUME ~MidRequest,
           \/ Poll \/ WebAsks \/ WebHandles \/ EjectAsks \/ EjectHandles
           \/ StopPrepares \/ StopHandles \/ CooldownEnds \/ TakeOut \/ PutIn
    PROVE  halt' = halt /\ cancelled \subseteq cancelled'
  BY DEF MidRequest, Poll, PollCheck, PollFails, PollAnswers, PollShows,
         PollClaims, PollRefused, PollRegisters, PollSpawns, WebAsks,
         WebHandles, WebClaims, WebRefused, WebRegisters, WebSpawns,
         EjectAsks, EjectHandles, EjectClaims, EjectRefused, EjectCancels,
         EjectJoins, EjectOpens, EjectFails, EjectAnswers, StopPrepares,
         StopHandles, StopCancels, StopDrains, StopApplies, StopAnswers,
         CooldownEnds, TakeOut, PutIn

\* A thread is asked by a Stop's cancel alone, and is no longer when it ends.
LEMMA AskedKept ==
    ASSUME Typed, Next
    PROVE  \/ past'.asked = past.asked
           \/ /\ StopCancels /\ halt # NoToken /\ Running
              /\ past'.asked = past.asked \cup {thread}
           \/ \E a \in Claimants : /\ Ends(a) \/ Panics(a)
                                   /\ past'.asked = past.asked \ {a}
<1>1. CASE Poll
  <2>1. CASE PollAnswers
    BY <2>1, ProbeAnswers, AnswerShows, SeenKeeps
  <2>2. CASE PollSpawns
    BY <2>2, AttendKeeps DEF PollSpawns, Spawn
  <2>3. CASE PollShows
    BY <2>3, AttendKeeps DEF PollShows
  <2>4. CASE past' = past
    BY <2>4
  <2> QED
    BY <1>1, <2>1, <2>2, <2>3, <2>4
       DEF Poll, PollCheck, PollFails, PollClaims, PollRefused, PollRegisters
<1>2. CASE WebAsks \/ WebHandles
  <2>1. CASE WebSpawns
    BY <2>1, AttendKeeps DEF WebSpawns, Spawn
  <2>2. CASE WebClaims
    BY <2>2, AttendKeeps DEF WebClaims
  <2>3. CASE WebRegisters
    BY <2>3 DEF WebRegisters, Typed, Pasts
  <2>4. CASE past' = past
    BY <2>4
  <2> QED
    BY <1>2, <2>1, <2>2, <2>3, <2>4 DEF WebAsks, WebHandles, WebRefused
<1>3. CASE EjectAsks \/ EjectHandles
  <2>1. CASE EjectClaims
    BY <2>1, AttendKeeps DEF EjectClaims
  <2>2. CASE EjectJoins
    BY <2>2, LateKeeps DEF EjectJoins
  <2>3. CASE EjectOpens
    BY <2>3 DEF EjectOpens, NewMedium, Typed, Pasts
  <2>4. CASE past' = past
    BY <2>4
  <2> QED
    BY <1>3, <2>1, <2>2, <2>3, <2>4
       DEF EjectAsks, EjectHandles, EjectRefused, EjectCancels, EjectFails,
           EjectAnswers
<1>4. CASE StopPrepares \/ StopHandles
  <2>1. CASE StopPrepares
    BY <2>1, AttendKeeps DEF StopPrepares
  <2>2. CASE StopCancels
    BY <2>2 DEF StopCancels, Typed, Pasts
  <2>3. CASE StopDrains
    BY <2>3, LateKeeps DEF StopDrains
  <2>4. CASE past' = past
    BY <2>4
  <2> QED
    BY <1>4, <2>1, <2>2, <2>3, <2>4 DEF StopHandles, StopApplies, StopAnswers
<1>5. CASE CooldownEnds \/ TakeOut \/ PutIn
  BY <1>5 DEF CooldownEnds, TakeOut, PutIn, NewMedium, Typed, Pasts
<1>6. ASSUME NEW a \in Claimants, Worker(a) \/ Panics(a)
      PROVE  \/ past'.asked = past.asked
             \/ (Ends(a) \/ Panics(a)) /\ past'.asked = past.asked \ {a}
  <2>1. CASE Ends(a) \/ Panics(a)
    BY <2>1, LeftKeeps DEF Ends, Panics
  <2>2. CASE AutoEjects(a)
    BY <2>2 DEF AutoEjects, NewMedium, Typed, Pasts
  <2>3. CASE Dispatches(a) \/ SweepEnds(a)
    <3>1. past' = past \/ \E d : past' = Delivers(d)
      BY <2>3, Zenon DEF Dispatches, SweepEnds
    <3> QED
      BY <3>1, DeliversKeeps
  <2>4. CASE past' = past
    BY <2>4
  <2> QED
    BY <1>6, <2>1, <2>2, <2>3, <2>4
       DEF Worker, ScanBegins, ScanSkipped, ScanEnds, RipFollows, Installs,
           Takes, Begins
<1> QED
  BY <1>1, <1>2, <1>3, <1>4, <1>5, <1>6 DEF Next

\* Where a thread has not begun its sweep.
Early == {"start", "scanning", "again", "guard", "install", "take", "begin"}
\* The threads a Stop has asked to end are live, and their token is cancelled.
Asked ==
    \A a \in past.asked :
        /\ Live(a)
        /\ worker[a].kind # "scan" /\ worker[a].pc \in Early => Halted
        /\ worker[a].pc = "sweep" => Halted

\* Every step keeps the token of an asked thread cancelled: a thread that
\* registers the next token carries the cancellation over.
LEMMA AskedStep ==
    ASSUME Overtaken = FALSE
    PROVE  Typed /\ IInv /\ Apart /\ ScanOnly /\ Asked /\ [Next]_vars => Asked'
<1> SUFFICES ASSUME Typed, IInv, Apart, ScanOnly, Asked, [Next]_vars
             PROVE  Asked'
  OBVIOUS
<1>0. past.asked \subseteq Claimants
  BY DEF Typed, Pasts
<1>1. CASE UNCHANGED vars
  BY <1>1 DEF Asked, Live, Halted, vars
<1>2. CASE \/ Poll \/ WebAsks \/ WebHandles \/ EjectAsks \/ EjectHandles
           \/ StopPrepares \/ StopHandles \/ CooldownEnds \/ TakeOut \/ PutIn
  <2>1. \/ past'.asked = past.asked
        \/ /\ StopCancels /\ halt # NoToken /\ Running
           /\ past'.asked = past.asked \cup {thread}
        \/ past'.asked \subseteq past.asked
    BY <1>2, AskedKept DEF Next
  <2>2. CASE MidRequest
    <3>1. \A a \in Claimants : ~Live(a)
      BY <2>2 DEF Apart
    <3>2. ~Running
      BY <3>1 DEF Running, Typed
    <3>3. past.asked = {}
      BY <1>0, <3>1 DEF Asked
    <3> QED
      BY <2>1, <3>2, <3>3 DEF Asked
  <2>3. CASE ~MidRequest
    <3>1. halt' = halt /\ cancelled \subseteq cancelled'
      BY <1>2, <2>3, OthersHalt
    <3>2. \A b \in Claimants : worker'[b] = worker[b]
      BY <1>2, <2>3, OthersStart
    <3>3. CASE past'.asked \subseteq past.asked
      BY <1>0, <3>1, <3>2, <3>3 DEF Asked, Live, Halted
    <3>4. CASE /\ StopCancels /\ halt # NoToken /\ Running
               /\ past'.asked = past.asked \cup {thread}
      <4>1. halt' \in cancelled' /\ Live(thread) /\ thread \in Claimants
        BY <3>4 DEF StopCancels, Running, Typed
      <4> QED
        BY <1>0, <3>1, <3>2, <3>4, <4>1 DEF Asked, Live, Halted
    <3> QED
      BY <2>1, <3>3, <3>4
  <2> QED
    BY <2>2, <2>3
<1>3. ASSUME NEW a \in Claimants, Worker(a) \/ Panics(a) PROVE Asked'
  <2>1. \A b \in Claimants : b # a => b \notin past.asked
    BY <1>3, WorkerAlone DEF Asked
  <2>2. ~StopCancels
    BY <1>3, WorkerAlone DEF StopCancels, Typed, Stops
  <2>3. past'.asked \subseteq past.asked
    BY <1>3, <2>2, AskedKept DEF Next
  <2>4. CASE Ends(a) \/ Panics(a)
    <3>1. a \notin past'.asked
      BY <2>4, LeftKeeps DEF Ends, Panics
    <3> QED
      BY <1>0, <2>1, <2>3, <3>1 DEF Asked
  <2>5. CASE Worker(a) /\ ~Ends(a)
    <3>1. a \in past.asked =>
            /\ Live(a)'
            /\ worker'[a].kind # "scan" /\ worker'[a].pc \in Early => Halted'
            /\ worker'[a].pc = "sweep" => Halted'
      <4>1. CASE ScanBegins(a) \/ ScanSkipped(a) \/ ScanEnds(a) \/ RipFollows(a)
        BY <4>1, WorkerMoves
           DEF Asked, ScanOnly, SameWork, Early, Live, Halted, At, ScanBegins,
               ScanSkipped, ScanEnds, RipFollows
      <4>2. CASE Dispatches(a) \/ SweepEnds(a) \/ AutoEjects(a)
        BY <4>2, WorkerMoves
           DEF Asked, ScanOnly, SameWork, Early, Live, Halted, At, Dispatches,
               SweepEnds, AutoEjects
      <4>3. CASE Installs(a)
        BY <4>3, WorkerMoves
           DEF Asked, ScanOnly, SameWork, Early, Live, Halted, At, Installs,
               Swap
      <4>4. CASE Takes(a)
        BY <4>4, WorkerMoves
           DEF Asked, ScanOnly, SameWork, Early, Live, Halted, At, Takes
      <4>5. CASE Begins(a)
        BY <4>5, WorkerMoves
           DEF Asked, ScanOnly, SameWork, Early, Live, Halted, At, Begins, Swap
      <4> QED
        BY <2>5, <4>1, <4>2, <4>3, <4>4, <4>5 DEF Worker
    <3> QED
      BY <1>0, <2>1, <2>3, <3>1 DEF Asked
  <2> QED
    BY <1>3, <2>4, <2>5
<1> QED
  BY <1>1, <1>2, <1>3 DEF Next

\* What every state of a drive whose requests are not overtaken satisfies.
Calmly == Typed /\ SInv /\ Apart /\ ScanOnly

\* The four hold together, always.
LEMMA CalmlyHolds == ASSUME Overtaken = FALSE PROVE Spec => []Calmly
<1>1. Init => Calmly
  <2> SUFFICES ASSUME Init PROVE Calmly
    OBVIOUS
  <2>1. Typed /\ SInv
    BY InitTyped, InitiallyDrained
  <2>2. Apart
    BY DEF Init, Apart, MidRequest, PollMid, WebMid, EjectMid
  <2>3. ScanOnly
    BY DEF Init, ScanOnly, NoWork
  <2> QED
    BY <2>1, <2>2, <2>3 DEF Calmly
<1>2. Calmly /\ [Next]_vars => Calmly'
  BY TypedStep, SStep, ApartStep, ScanOnlyStep DEF Calmly, SInv
<1> QED
  BY <1>1, <1>2, PTL DEF Spec

\* A Stop reaches the rip it was pressed on (swap_halt_carrying_cancel): the
\* sweep of a thread that was asked to end runs under a cancelled token,
\* whichever one the Stop had found, as long as no request is overtaken.
THEOREM StopReachesTheRip ==
    ASSUME Overtaken = FALSE PROVE Spec => []StopReaches
<1>1. Init => OwnToken /\ Asked
  BY DEF Init, OwnToken, Asked, NoWork
<1>2. Calmly /\ OwnToken /\ Asked /\ [Next]_vars => (OwnToken /\ Asked)'
  BY OwnTokenStep, AskedStep DEF Calmly, SInv
<1>3. Calmly /\ OwnToken /\ Asked => StopReaches
  BY DEF Calmly, OwnToken, Asked, StopReaches, Halted, Typed, Pasts
<1> QED
  BY <1>1, <1>2, <1>3, CalmlyHolds, PTL DEF Spec

-----------------------------------------------------------------------------
(* A capture writes into its disc's folder.                                *)

\* A row that is painted keeps its job or loses it.
LEMMA PaintJob ==
    ASSUME Typed,
           \/ row' = row
           \/ \E status, present : row' = Put(status, present)
           \/ \E status : row' = [row EXCEPT !.status = status]
           \/ \E status, gen :
                row' = [row EXCEPT !.status = status, !.gen = gen]
    PROVE  row'.job \in {row.job, 0}
<1>1. ASSUME NEW status, NEW present, row' = Put(status, present)
      PROVE  row'.job \in {row.job, 0}
  BY <1>1 DEF Put
<1>2. ASSUME NEW status, row' = [row EXCEPT !.status = status]
      PROVE  row'.job = row.job
  BY <1>2 DEF Typed, Rows
<1>3. ASSUME NEW status, NEW gen,
             row' = [row EXCEPT !.status = status, !.gen = gen]
      PROVE  row'.job = row.job
  BY <1>3 DEF Typed, Rows
<1> QED
  BY <1>1, <1>2, <1>3

\* A drive, its session and its row's job stay or go.
Stays ==
    /\ tray'.seen = tray.seen
    /\ tray'.disc \in {tray.disc, 0}
    /\ tray'.changed => tray.changed
    /\ session' \in {session, 0}
    /\ row'.job \in {row.job, 0}

\* The scan that reads the disc.
Reads ==
    /\ tray.disc # 0 /\ session' = tray.disc /\ row'.job = tray.disc
    /\ tray'.disc = tray.disc /\ tray'.seen = tray.seen /\ ~tray'.changed

\* Nobody but a thread reads a disc into the session.
LEMMA OthersStay ==
    ASSUME Typed,
           \/ Poll \/ WebAsks \/ WebHandles \/ EjectAsks \/ EjectHandles
           \/ StopPrepares \/ StopHandles \/ CooldownEnds \/ TakeOut
    PROVE  Stays
<1>1. CASE Poll
  <2>1. CASE PollAnswers
    <3>1. PICK seen \in {"present", "absent", "settling"}, ready \in BOOLEAN :
            Answer(seen, ready)
      BY <2>1, ProbeAnswers
    <3>2. /\ session' \in {session, 0}
          /\ row' \in {row, Put("idle", FALSE), [row EXCEPT !.status = "idle"]}
      BY <3>1, AnswerShows
    <3>3. row'.job \in {row.job, 0}
      BY <3>2, PaintJob
    <3> QED
      BY <3>1, <3>2, <3>3, AnswerMakes DEF Stays
  <2>2. CASE PollFails
    <3>1. row'.job \in {row.job, 0}
      BY <2>2, PaintJob DEF PollFails, Publish
    <3> QED
      BY <2>2, <3>1 DEF PollFails, Stays, Typed, Trays
  <2>3. CASE /\ ~PollAnswers /\ ~PollFails
    <3>1. row'.job \in {row.job, 0}
      BY <1>1, <2>3, PaintJob
         DEF Poll, PollCheck, PollShows, PollClaims, PollRefused, PollRegisters,
             PollSpawns, Claim, Spawn, Rollback
    <3> QED
      BY <1>1, <2>3, <3>1
         DEF Stays, Poll, PollCheck, PollShows, PollClaims, PollRefused,
             PollRegisters, PollSpawns
  <2> QED
    BY <2>1, <2>2, <2>3
<1>2. CASE WebAsks \/ WebHandles
  <2>1. row'.job \in {row.job, 0}
    BY <1>2, PaintJob
       DEF WebAsks, WebHandles, WebClaims, WebRefused, WebRegisters, WebSpawns,
           Claim, Spawn, Rollback
  <2> QED
    BY <1>2, <2>1
       DEF Stays, WebAsks, WebHandles, WebClaims, WebRefused, WebRegisters,
           WebSpawns
<1>3. CASE EjectAsks \/ EjectHandles
  <2>1. row'.job \in {row.job, 0}
    BY <1>3, PaintJob
       DEF EjectAsks, EjectHandles, EjectClaims, EjectRefused, EjectCancels,
           EjectJoins, EjectOpens, EjectFails, EjectAnswers, Claim
  <2>2. CASE EjectOpens
    BY <2>1, <2>2 DEF Stays, EjectOpens, Typed, Trays
  <2>3. CASE ~EjectOpens
    BY <1>3, <2>1, <2>3
       DEF Stays, EjectAsks, EjectHandles, EjectClaims, EjectRefused,
           EjectCancels, EjectJoins, EjectFails, EjectAnswers
  <2> QED
    BY <2>2, <2>3
<1>4. CASE StopPrepares \/ StopHandles
  <2>1. row'.job \in {row.job, 0}
    BY <1>4, PaintJob
       DEF StopPrepares, StopHandles, StopCancels, StopDrains, StopApplies,
           StopAnswers
  <2> QED
    BY <1>4, <2>1
       DEF Stays, StopPrepares, StopHandles, StopCancels, StopDrains,
           StopApplies, StopAnswers
<1>5. CASE CooldownEnds \/ TakeOut
  BY <1>5 DEF Stays, CooldownEnds, TakeOut, Typed, Trays
<1> QED
  BY <1>1, <1>2, <1>3, <1>4, <1>5

\* A thread does so when its scan ends, and only then.
LEMMA WorkerStays ==
    ASSUME Typed, NEW a \in Claimants, Worker(a) \/ Panics(a)
    PROVE  Stays \/ (ScanEnds(a) /\ Reads)
<1>1. CASE ScanEnds(a)
  <2>1. /\ tray'.disc = tray.disc /\ tray'.seen = tray.seen /\ ~tray'.changed
    BY <1>1 DEF ScanEnds, Typed, Trays
  <2>2. CASE /\ tray.disc # 0 /\ session' = tray.disc
             /\ row' = [row EXCEPT !.status = "idle", !.job = tray.disc]
    <3>1. row'.job = tray.disc
      BY <2>2 DEF Typed, Rows
    <3> QED
      BY <1>1, <2>1, <2>2, <3>1 DEF Reads
  <2>3. CASE session' = session /\ \E b : row' = Put("error", b)
    <3>1. \E status, present : row' = Put(status, present)
      BY <2>3
    <3>2. row'.job \in {row.job, 0}
      BY <3>1, PaintJob
    <3> QED
      BY <2>1, <2>3, <3>2 DEF Stays
  <2> QED
    BY <1>1, <2>2, <2>3 DEF ScanEnds, HeldRows
<1>2. CASE ~ScanEnds(a)
  <2>1. row' = row \/ \E status, present : row' = Put(status, present)
    <3>1. CASE \/ ScanBegins(a) \/ ScanSkipped(a) \/ RipFollows(a)
               \/ Dispatches(a) \/ Installs(a)
      BY <3>1 DEF ScanBegins, ScanSkipped, RipFollows, Dispatches, Installs
    <3>2. CASE \/ Takes(a) \/ Begins(a) \/ SweepEnds(a) \/ AutoEjects(a)
               \/ Ends(a) \/ Panics(a)
      BY <3>2 DEF Takes, Begins, SweepEnds, AutoEjects, Ends, Panics
    <3> QED
      BY <1>2, <3>1, <3>2 DEF Worker
  <2>2. row'.job \in {row.job, 0}
    BY <2>1, PaintJob
  <2>3. session' \in {session, 0}
    BY <1>2
       DEF Worker, ScanBegins, ScanSkipped, RipFollows, Dispatches, Installs,
           Takes, Begins, SweepEnds, AutoEjects, Ends, Panics
  <2>4. /\ tray'.seen = tray.seen /\ tray'.disc \in {tray.disc, 0}
        /\ tray'.changed => tray.changed
    <3>1. CASE AutoEjects(a)
      BY <3>1 DEF AutoEjects, Typed, Trays
    <3>2. CASE ScanSkipped(a)
      BY <3>2 DEF ScanSkipped, Typed, Trays
    <3>3. CASE Ends(a)
      <4>1. ASSUME NEW f, tray' = [tray EXCEPT !.flaky = f]
            PROVE  /\ tray'.seen = tray.seen /\ tray'.disc = tray.disc
                   /\ tray'.changed = tray.changed
        BY <4>1 DEF Typed, Trays
      <4> QED
        BY <3>3, <4>1 DEF Ends
    <3>4. CASE tray' = tray
      BY <3>4
    <3> QED
      BY <1>2, <3>1, <3>2, <3>3, <3>4
         DEF Worker, ScanBegins, RipFollows, Dispatches, Installs, Takes,
             Begins, SweepEnds, Panics
  <2> QED
    BY <2>2, <2>3, <2>4 DEF Stays
<1> QED
  BY <1>1, <1>2

\* A disc has the number of its insertion, and no session is known of one that
\* was not put in yet; a session is of a disc whose insertion the drive has
\* reported, and the row's job, if it has one, is its disc's.
Scans ==
    /\ tray.disc <= tray.seen /\ session <= tray.seen
    /\ session = tray.disc /\ session # 0 => ~tray.changed
    /\ session # 0 => row.job \in {0, session}

\* Every step keeps the session a disc that was read.
LEMMA ScansStep == Typed /\ Scans /\ [Next]_vars => Scans'
<1> SUFFICES ASSUME Typed, Scans, [Next]_vars PROVE Scans'
  OBVIOUS
<1>0. /\ tray.disc \in Nat /\ tray.seen \in Nat /\ session \in Nat
  BY DriveAssumption DEF Typed, Trays, Discs
<1>1. CASE UNCHANGED vars
  BY <1>1 DEF Scans, vars
<1>2. CASE PutIn
  BY <1>0, <1>2 DEF PutIn, Scans
<1>3. CASE Stays
  BY <1>0, <1>3 DEF Stays, Scans
<1>4. CASE Reads
  BY <1>0, <1>4 DEF Reads, Scans
<1> QED
  BY <1>1, <1>2, <1>3, <1>4, OthersStay, WorkerStays DEF Next

\* A drive a thread has read answers as it is.
Settled ==
    \A a \in Claimants :
        Live(a) /\ worker[a].pc \notin {"start", "scanning"} => ~tray.flaky

\* The drive starts to settle when a thread ends, and no sooner.
LEMMA OthersFlaky ==
    ASSUME Typed,
           \/ Poll \/ WebAsks \/ WebHandles \/ EjectAsks \/ EjectHandles
           \/ StopPrepares \/ StopHandles \/ CooldownEnds \/ TakeOut \/ PutIn
    PROVE  tray'.flaky => tray.flaky
<1>1. CASE PollAnswers
  BY <1>1, ProbeAnswers, AnswerMakes
<1>2. CASE PollFails \/ TakeOut
  <2>1. tray'.flaky = tray.flaky
    BY <1>2 DEF PollFails, TakeOut, Typed, Trays
  <2> QED
    BY <2>1, Zenon
<1>3. CASE EjectOpens
  BY <1>3 DEF EjectOpens, Typed, Trays
<1>5. CASE PutIn
  <2>1. tray'.flaky = FALSE
    BY <1>5 DEF PutIn
  <2> QED
    BY <2>1, Zenon
<1>4. CASE tray' = tray
  BY <1>4
<1> QED
  BY <1>1, <1>2, <1>3, <1>4, <1>5
     DEF Poll, PollCheck, PollShows, PollClaims, PollRefused, PollRegisters,
         PollSpawns, WebAsks, WebHandles, WebClaims, WebRefused, WebRegisters,
         WebSpawns, EjectAsks, EjectHandles, EjectClaims, EjectRefused,
         EjectCancels, EjectJoins, EjectFails, EjectAnswers, StopPrepares,
         StopHandles, StopCancels, StopDrains, StopApplies, StopAnswers,
         CooldownEnds

\* Every step keeps the drive answering as it is.
LEMMA SettledStep == Typed /\ IInv /\ Settled /\ [Next]_vars => Settled'
<1> SUFFICES ASSUME Typed, IInv, Settled, [Next]_vars PROVE Settled'
  OBVIOUS
<1>1. CASE UNCHANGED vars
  BY <1>1 DEF Settled, Live, vars
<1>2. CASE \/ Poll \/ WebAsks \/ WebHandles \/ EjectAsks \/ EjectHandles
           \/ StopPrepares \/ StopHandles \/ CooldownEnds \/ TakeOut \/ PutIn
  BY <1>2, OthersFlaky, OthersStart DEF Settled, Live
<1>3. ASSUME NEW a \in Claimants, Worker(a) \/ Panics(a) PROVE Settled'
  <2>1. \A b \in Claimants : b # a => ~Live(b)'
    BY <1>3, WorkerAlone DEF Live
  <2>2. Live(a)' /\ worker'[a].pc \notin {"start", "scanning"} => ~tray'.flaky
    <3>1. CASE ScanBegins(a) \/ Ends(a) \/ Panics(a)
      BY <3>1, WorkerMoves DEF Live
    <3>2. CASE ScanSkipped(a) \/ ScanEnds(a) \/ AutoEjects(a)
      BY <3>2
         DEF ScanSkipped, ScanEnds, AutoEjects, Settled, At, Live, Typed,
             Trays
    <3>3. CASE \/ RipFollows(a) \/ Dispatches(a) \/ Installs(a) \/ Takes(a)
               \/ Begins(a) \/ SweepEnds(a)
      BY <3>3
         DEF RipFollows, Dispatches, Installs, Takes, Begins, SweepEnds,
             Settled, At, Live
    <3> QED
      BY <1>3, <3>1, <3>2, <3>3 DEF Worker
  <2> QED
    BY <2>1, <2>2 DEF Settled
<1> QED
  BY <1>1, <1>2, <1>3 DEF Next

\* From the staging guards on the session stays until the rip takes it, and
\* then the job of the row is its disc's.
Steady ==
    \A a \in Claimants :
        /\ worker[a].pc = "scanning" /\ worker[a].kind \in {"rip", "auto"} =>
             session = 0
        /\ worker[a].pc \in {"guard", "install", "take"} /\ session # 0 =>
             tray.disc # 0 \/ poll.pc # "probe"
        /\ worker[a].pc = "install" => session # 0
        /\ worker[a].pc = "take" => session # 0 /\ worker[a].job = session
        /\ worker[a].pc \in {"begin", "sweep"} =>
             /\ worker[a].job = worker[a].disc
             /\ worker[a].disc = tray.disc /\ tray.disc # 0 => ~tray.changed

\* While a thread works and no request is at it, nobody else takes the session
\* it is to rip, changes the disc or begins a probe.
LEMMA OthersSteady ==
    ASSUME Typed, SInv, Settled, ~MidRequest,
           NEW a \in Claimants, Live(a),
           worker[a].pc \notin {"start", "scanning"},
           tray.disc # 0 \/ poll.pc # "probe",
           \/ Poll \/ WebAsks \/ WebHandles \/ EjectAsks \/ EjectHandles
           \/ StopPrepares \/ StopHandles \/ CooldownEnds \/ TakeOut \/ PutIn
    PROVE  session' = session /\ (tray'.disc # 0 \/ poll'.pc # "probe")
<1>1. Running
  BY DEF SInv, IInv, Owned, Running, Claimants, NoOne
<1>2. CASE PollAnswers
  <2>1. PICK seen \in {"present", "absent", "settling"}, ready \in BOOLEAN :
          /\ Answer(seen, ready)
          /\ seen = "absent" => tray.disc = 0 \/ tray.flaky
    BY <1>2, ProbeAnswers
  <2>2. seen # "absent"
    BY <1>2, <2>1 DEF Settled, PollAnswers
  <2>3. poll'.pc # "probe" /\ session' = session
    BY <2>1, <2>2, AnswerShows DEF HeldPresence
  <2> QED
    BY <2>3
<1>3. CASE PollCheck \/ PollFails
  BY <1>1, <1>3 DEF PollCheck, PollFails, Typed, Polls
<1>4. CASE Poll /\ ~PollAnswers /\ ~PollCheck /\ ~PollFails
  BY <1>4
     DEF MidRequest, Poll, PollShows, PollClaims, PollRefused, PollRegisters,
         PollSpawns, Typed, Polls
<1>5. CASE WebAsks \/ WebHandles \/ EjectAsks \/ EjectHandles
  BY <1>5
     DEF MidRequest, WebAsks, WebHandles, WebClaims, WebRefused, WebRegisters,
         WebSpawns, EjectAsks, EjectHandles, EjectClaims, EjectRefused,
         EjectCancels, EjectJoins, EjectOpens, EjectFails, EjectAnswers
<1>6. CASE StopPrepares \/ StopHandles
  BY <1>6
     DEF SInv, Drained, StopPrepares, StopHandles, StopCancels, StopDrains,
         StopApplies, StopAnswers
<1>7. CASE CooldownEnds \/ TakeOut \/ PutIn
  BY <1>7 DEF CooldownEnds, TakeOut, PutIn
<1> QED
  BY <1>2, <1>3, <1>4, <1>5, <1>6, <1>7

\* Every step of a thread, and every step beside it, keeps its disc, session
\* and job together.
LEMMA SteadyStep ==
    ASSUME Overtaken = FALSE
    PROVE  Calmly /\ Scans /\ Settled /\ Steady /\ [Next]_vars => Steady'
<1> SUFFICES ASSUME Calmly, Scans, Settled, Steady, [Next]_vars PROVE Steady'
  OBVIOUS
<1> USE DEF Calmly
<1>1. CASE UNCHANGED vars
  BY <1>1 DEF Steady, vars
<1>2. CASE \/ Poll \/ WebAsks \/ WebHandles \/ EjectAsks \/ EjectHandles
           \/ StopPrepares \/ StopHandles \/ CooldownEnds \/ TakeOut \/ PutIn
  <2>1. CASE MidRequest
    <3>1. \A b \in Claimants : worker[b].pc \in {"none", "ended"}
      BY <2>1 DEF Apart, Live
    <3> QED
      BY <1>2, <3>1, OthersStart DEF Steady
  <2>2. CASE ~MidRequest
    <3>1. \A b \in Claimants : worker'[b] = worker[b]
      BY <1>2, <2>2, OthersStart
    <3>2. ASSUME NEW b \in Claimants, Live(b)
          PROVE  /\ session = 0 => session' = 0
                 /\ tray'.changed => tray.changed
                 /\ tray'.disc \in {tray.disc, 0}
      <4>1. ~PutIn
        BY <3>2 DEF PutIn
      <4> QED
        BY <1>2, <4>1, OthersStay DEF Stays
    <3>3. ASSUME NEW b \in Claimants,
                 worker[b].pc \in {"guard", "install", "take"}, session # 0
          PROVE  session' = session /\ (tray'.disc # 0 \/ poll'.pc # "probe")
      BY <1>2, <2>2, <3>3, OthersSteady DEF Steady, Live
    <3>4. ASSUME NEW b \in Claimants
          PROVE  /\ worker'[b].pc = "scanning"
                    /\ worker'[b].kind \in {"rip", "auto"} => session' = 0
                 /\ worker'[b].pc \in {"guard", "install", "take"}
                    /\ session' # 0 => tray'.disc # 0 \/ poll'.pc # "probe"
                 /\ worker'[b].pc = "install" => session' # 0
                 /\ worker'[b].pc = "take" =>
                      session' # 0 /\ worker'[b].job = session'
                 /\ worker'[b].pc \in {"begin", "sweep"} =>
                      /\ worker'[b].job = worker'[b].disc
                      /\ worker'[b].disc = tray'.disc /\ tray'.disc # 0 =>
                           ~tray'.changed
      BY <3>1, <3>2, <3>3 DEF Steady, Live
    <3> QED
      BY <3>4 DEF Steady
  <2> QED
    BY <2>1, <2>2
<1>3. ASSUME NEW a \in Claimants, Worker(a) \/ Panics(a) PROVE Steady'
  <2>1. \A b \in Claimants : b # a => worker'[b].pc \in {"none", "ended"}
    BY <1>3, WorkerAlone DEF Live, SInv
  <2>2. poll' = poll
    BY <1>3, WorkerAlone DEF SInv
  <2>3. /\ worker'[a].pc = "scanning" /\ worker'[a].kind \in {"rip", "auto"} =>
             session' = 0
        /\ worker'[a].pc \in {"guard", "install", "take"} /\ session' # 0 =>
             tray'.disc # 0 \/ poll'.pc # "probe"
        /\ worker'[a].pc = "install" => session' # 0
        /\ worker'[a].pc = "take" => session' # 0 /\ worker'[a].job = session'
        /\ worker'[a].pc \in {"begin", "sweep"} =>
             /\ worker'[a].job = worker'[a].disc
             /\ worker'[a].disc = tray'.disc /\ tray'.disc # 0 => ~tray'.changed
    <3>1. CASE ScanBegins(a)
      BY <3>1, WorkerMoves DEF ScanBegins, SameWork
    <3>2. CASE ScanSkipped(a)
      BY <2>2, <3>2, WorkerMoves DEF ScanSkipped, SameWork
    <3>3. CASE ScanEnds(a)
      <4>1. worker[a].kind \in {"scan", "rip", "insert", "auto"}
        BY DEF Typed, Works
      <4>2. /\ worker'[a].pc \in {"tail", "again", "guard"}
            /\ worker'[a].pc = "guard" => worker[a].kind \in {"rip", "auto"}
        BY <3>3, <4>1, WorkerMoves
      <4>3. tray'.disc = tray.disc
        BY <3>3 DEF ScanEnds, Typed, Trays
      <4>4. \/ session' = tray.disc /\ tray.disc # 0
            \/ session' = session
        BY <3>3 DEF ScanEnds
      <4> QED
        BY <3>3, <4>2, <4>3, <4>4 DEF Steady, ScanEnds, At
    <3>4. CASE \/ RipFollows(a) \/ SweepEnds(a) \/ AutoEjects(a) \/ Ends(a)
               \/ Panics(a)
      BY <3>4, WorkerMoves
    <3>5. CASE Dispatches(a)
      <4>1. tray' = tray
        BY <3>5 DEF Dispatches
      <4> QED
        BY <2>2, <3>5, <4>1, WorkerMoves DEF Dispatches, Steady, At
    <3>6. CASE Installs(a)
      <4>1. UNCHANGED <<tray, session>>
        BY <3>6 DEF Installs
      <4>2. session # 0 /\ row.job \in {0, session}
        BY <3>6 DEF Installs, At, Steady, Scans
      <4> QED
        BY <2>2, <3>6, <4>1, <4>2, WorkerMoves DEF Installs, Steady, At
    <3>7. CASE Takes(a)
      <4>1. tray' = tray
        BY <3>7 DEF Takes
      <4> QED
        BY <3>7, <4>1, WorkerMoves DEF Takes, Steady, Scans, At, SameWork
    <3>8. CASE Begins(a)
      <4>1. tray' = tray
        BY <3>8 DEF Begins
      <4> QED
        BY <3>8, <4>1, WorkerMoves DEF Begins, Steady, At, SameWork
    <3> QED
      BY <1>3, <3>1, <3>2, <3>3, <3>4, <3>5, <3>6, <3>7, <3>8 DEF Worker
  <2> QED
    BY <2>1, <2>3 DEF Steady
<1> QED
  BY <1>1, <1>2, <1>3 DEF Next

\* What holds of the disc, its session and its job.
Steadily == Calmly /\ Scans /\ Settled /\ Steady

\* They hold together, always.
LEMMA SteadilyHolds == ASSUME Overtaken = FALSE PROVE Spec => []Steadily
<1>1. Init => Scans /\ Settled /\ Steady
  BY DEF Init, Scans, Settled, Steady, Live, NoWork
<1>2. Calmly /\ Scans /\ Settled /\ Steady /\ [Next]_vars =>
        (Scans /\ Settled /\ Steady)'
  BY ScansStep, SettledStep, SteadyStep DEF Calmly, SInv
<1> QED
  BY <1>1, <1>2, CalmlyHolds, PTL DEF Spec, Steadily

\* A capture writes into the folder of the disc whose session it took
\* (rip_disc_inner): the session that was dropped or replaced, the row that was
\* repainted and the probe that found the drive empty all come before it or
\* after it, as long as no request is overtaken.
THEOREM CapturesIntoItsFolder ==
    ASSUME Overtaken = FALSE PROVE Spec => []JobMatchesSession
<1>1. Steadily => JobMatchesSession
  BY DEF Steadily, Steady, JobMatchesSession
<1> QED
  BY <1>1, SteadilyHolds, PTL

-----------------------------------------------------------------------------
(* A delivered disc is not ripped again.                                   *)

\* A delivered disc, and the one a thread reads, was put in before.
Known ==
    /\ past.delivered <= tray.seen
    /\ \A a \in Claimants : worker[a].disc <= tray.seen

\* The disc in the drive was delivered, and nothing was left then, and nothing
\* asked for since, that may start it again.
Ripped == /\ past.delivered # 0 /\ past.delivered = tray.disc
          /\ ~past.owed

\* The end of a capture, or of what the staging guards find done.
Delivery(a) ==
    \/ /\ Dispatches(a) /\ session # 0
       /\ past' = Delivers(session) /\ worker'[a].pc = "tail"
       /\ marks' = [marks EXCEPT !.finished = TRUE]
    \/ /\ SweepEnds(a)
       /\ past' = Delivers(worker[a].disc)
       /\ marks' = [marks EXCEPT !.finished = TRUE]

\* What a step does to the history of the delivered disc.
HistoryKept ==
    /\ past'.delivered = past.delivered /\ past'.owed = past.owed

\* A thread delivers a disc, forgets one that goes, or leaves both alone.
LEMMA WorkerHistory ==
    ASSUME Typed, NEW a \in Claimants, Worker(a) \/ Panics(a)
    PROVE  \/ HistoryKept /\ tray'.disc = tray.disc
           \/ past'.delivered = 0
           \/ Delivery(a) /\ tray' = tray /\ PollLooked
<1>1. CASE Ends(a)
  <2>1. tray'.disc = tray.disc
    BY <1>1 DEF Ends, Typed, Trays
  <2> QED
    BY <1>1, <2>1, LeftKeeps DEF Ends, HistoryKept
<1>2. CASE Panics(a)
  BY <1>2, LeftKeeps DEF Panics, HistoryKept
<1>3. CASE AutoEjects(a)
  BY <1>3 DEF AutoEjects, NewMedium, HistoryKept, Typed, Pasts
<1>4. CASE Dispatches(a)
  <2>1. CASE past' = past
    BY <1>4, <2>1 DEF Dispatches, HistoryKept
  <2>2. CASE past' # past
    <3>1. /\ session # 0 /\ PollLooked /\ past' = Delivers(session)
          /\ Goes(a, "tail")
          /\ marks' = [marks EXCEPT !.finished = @ \/ TRUE]
      BY <1>4, <2>2 DEF Dispatches
    <3>2. worker'[a].pc = "tail"
      BY <3>1 DEF Goes, Typed, Works
    <3>3. tray' = tray
      BY <1>4 DEF Dispatches
    <3> QED
      BY <1>4, <3>1, <3>2, <3>3 DEF Delivery
  <2> QED
    BY <2>1, <2>2
<1>5. CASE SweepEnds(a)
  <2>1. tray' = tray /\ PollLooked
    BY <1>5 DEF SweepEnds
  <2>2. CASE past' = past
    BY <2>1, <2>2 DEF HistoryKept
  <2>3. CASE past' # past
    BY <1>5, <2>1, <2>3 DEF SweepEnds, Delivery
  <2> QED
    BY <2>2, <2>3
<1>6. CASE ScanSkipped(a) \/ ScanEnds(a)
  <2>1. tray'.disc = tray.disc
    BY <1>6 DEF ScanSkipped, ScanEnds, Typed, Trays
  <2> QED
    BY <1>6, <2>1 DEF ScanSkipped, ScanEnds, HistoryKept
<1>7. CASE \/ ScanBegins(a) \/ RipFollows(a) \/ Installs(a) \/ Takes(a)
           \/ Begins(a)
  BY <1>7
     DEF ScanBegins, RipFollows, Installs, Takes, Begins, HistoryKept
<1> QED
  BY <1>1, <1>2, <1>3, <1>4, <1>5, <1>6, <1>7 DEF Worker

\* Nobody else touches what was delivered; a request may start it again.
LEMMA OthersHistory ==
    ASSUME Typed,
           \/ Poll \/ WebAsks \/ WebHandles \/ EjectAsks \/ EjectHandles
           \/ StopPrepares \/ StopHandles \/ CooldownEnds \/ TakeOut
    PROVE  \/ HistoryKept /\ tray'.disc = tray.disc
           \/ past'.delivered = 0
           \/ past'.owed /\ past'.delivered = past.delivered
<1>1. CASE Poll
  <2>1. CASE PollAnswers
    <3>1. PICK seen \in {"present", "absent", "settling"}, ready \in BOOLEAN :
            Answer(seen, ready)
      BY <2>1, ProbeAnswers
    <3>2. past' = Seen(seen) /\ tray'.disc = tray.disc
      BY <3>1, AnswerShows, AnswerMakes
    <3> QED
      BY <3>2, SeenKeeps DEF HistoryKept
  <2>2. CASE PollFails
    BY <2>2 DEF PollFails, HistoryKept, Typed, Trays
  <2>3. CASE PollShows \/ PollSpawns
    <3>1. past' \in {past, Attend} /\ tray' = tray
      BY <2>3 DEF PollShows, PollSpawns, Spawn
    <3> QED
      BY <3>1, AttendKeeps DEF HistoryKept
  <2>4. CASE PollCheck \/ PollClaims \/ PollRefused \/ PollRegisters
    BY <2>4
       DEF PollCheck, PollClaims, PollRefused, PollRegisters, HistoryKept
  <2> QED
    BY <1>1, <2>1, <2>2, <2>3, <2>4 DEF Poll
<1>2. CASE WebAsks \/ WebHandles
  <2>1. CASE WebSpawns
    <3>1. past' \in {past, Attend} /\ tray' = tray
      BY <2>1 DEF WebSpawns, Spawn
    <3> QED
      BY <3>1, AttendKeeps DEF HistoryKept
  <2>2. CASE WebClaims
    BY <2>2, AttendKeeps DEF WebClaims
  <2>3. CASE WebRegisters
    BY <2>3 DEF WebRegisters, Typed, Pasts
  <2>4. CASE WebAsks \/ WebRefused
    BY <2>4 DEF WebAsks, WebRefused, HistoryKept
  <2> QED
    BY <1>2, <2>1, <2>2, <2>3, <2>4 DEF WebHandles
<1>3. CASE EjectAsks \/ EjectHandles
  <2>1. CASE EjectClaims
    BY <2>1, AttendKeeps DEF EjectClaims
  <2>2. CASE EjectJoins
    BY <2>2, LateKeeps DEF EjectJoins, HistoryKept
  <2>3. CASE EjectOpens
    BY <2>3 DEF EjectOpens, NewMedium, Typed, Pasts
  <2>4. CASE \/ EjectAsks \/ EjectRefused \/ EjectCancels \/ EjectFails
             \/ EjectAnswers
    BY <2>4
       DEF EjectAsks, EjectRefused, EjectCancels, EjectFails, EjectAnswers,
           HistoryKept
  <2> QED
    BY <1>3, <2>1, <2>2, <2>3, <2>4 DEF EjectHandles
<1>4. CASE StopPrepares \/ StopHandles
  <2>1. CASE StopPrepares
    BY <2>1, AttendKeeps DEF StopPrepares, HistoryKept
  <2>2. CASE StopCancels
    BY <2>2 DEF StopCancels, HistoryKept, Typed, Pasts
  <2>3. CASE StopDrains
    BY <2>3, LateKeeps DEF StopDrains, HistoryKept
  <2>4. CASE StopApplies \/ StopAnswers
    BY <2>4 DEF StopApplies, StopAnswers, HistoryKept
  <2> QED
    BY <1>4, <2>1, <2>2, <2>3, <2>4 DEF StopHandles
<1>5. CASE CooldownEnds
  BY <1>5 DEF CooldownEnds, HistoryKept
<1>6. CASE TakeOut
  BY <1>6 DEF TakeOut, NewMedium, Typed, Pasts
<1> QED
  BY <1>1, <1>2, <1>3, <1>4, <1>5, <1>6

\* Every step keeps the delivered disc one that was put in.
LEMMA KnownStep == Typed /\ IInv /\ Scans /\ Known /\ [Next]_vars => Known'
<1> SUFFICES ASSUME Typed, IInv, Scans, Known, [Next]_vars PROVE Known'
  OBVIOUS
<1>0. /\ tray.seen \in Nat /\ tray.disc \in Nat
  BY DriveAssumption DEF Typed, Trays, Discs
<1>00. \A a \in Claimants : worker[a].disc \in Int
  BY DriveAssumption DEF Typed, Works, Discs
<1>000. past.delivered \in Int
  BY DriveAssumption DEF Typed, Pasts, Discs
<1>1. CASE UNCHANGED vars
  BY <1>1 DEF Known, vars
<1>2. CASE PutIn
  BY <1>0, <1>00, <1>000, <1>2 DEF PutIn, Known
<1>3. CASE \/ Poll \/ WebAsks \/ WebHandles \/ EjectAsks \/ EjectHandles
           \/ StopPrepares \/ StopHandles \/ CooldownEnds \/ TakeOut
  <2>1. tray'.seen = tray.seen
    BY <1>3, OthersStay DEF Stays
  <2>2. past'.delivered \in {past.delivered, 0}
    BY <1>3, OthersHistory DEF HistoryKept
  <2>3. \A b \in Claimants : worker'[b].disc \in {worker[b].disc, 0}
    BY <1>3, OthersStart
  <2> QED
    BY <1>0, <2>1, <2>2, <2>3 DEF Known
<1>4. ASSUME NEW a \in Claimants, Worker(a) \/ Panics(a) PROVE Known'
  <2>1. tray'.seen = tray.seen
    BY <1>4, WorkerStays DEF Stays, Reads
  <2>2. past'.delivered \in {past.delivered, 0, session, worker[a].disc}
    BY <1>4, WorkerHistory, DeliversKeeps DEF HistoryKept, Delivery
  <2>3. worker'[a].disc \in {worker[a].disc, 0, session, tray.disc}
    BY <1>4, WorkerMoves DEF Worker, SameWork
  <2>4. \A b \in Claimants : b # a => worker'[b] = worker[b]
    BY <1>4, WorkerAlone
  <2> QED
    BY <1>0, <2>1, <2>2, <2>3, <2>4 DEF Known, Scans
<1> QED
  BY <1>1, <1>2, <1>3, <1>4 DEF Next

\* A delivered disc counts as seen and as finished, no request is under way, no
\* thread does more than end, and a Stop that may make the drive settle has its
\* hold.
Rests ==
    /\ poll.had /\ poll.pc \in {"rest", "probe"} /\ ~MidRequest
    /\ marks.finished /\ ~marks.changed /\ ~marks.waiting /\ ~tray.changed
    /\ tray.flaky \/ past.asked # {} \/ (stop.pc = "prepared" /\ Running)
         => marks.hold = "armed"
    /\ \A a \in Claimants : Live(a) => worker[a].pc \in {"eject", "tail"}
\* A delivered disc is at rest until it goes or is asked for.
Finished == Ripped => Rests

\* While a thread ends the drive answers as it is.
LEMMA RestsCalmly ==
    ASSUME Typed, IInv, Asked, Settled, Rests,
           past.asked # {} \/ (stop.pc = "prepared" /\ Running)
    PROVE  ~tray.flaky
<1>1. PICK a \in Claimants : Live(a)
  BY DEF Asked, Running, Typed, Pasts
<1> QED
  BY <1>1 DEF Rests, Settled

\* The poll loop looks at a delivered disc and leaves it.
LEMMA PollRests ==
    ASSUME Typed, IInv, Asked, Settled, Rests, tray.disc # 0, Poll
    PROVE  Rests'
<1>1. UNCHANGED <<worker, thread, web, eject, stop>> /\ past'.asked = past.asked
  <2>1. ~PollSpawns
    BY DEF Rests, PollSpawns
  <2>2. UNCHANGED <<worker, thread, web, eject, stop>>
    BY <2>1 DEF Poll, PollCheck, PollFails, PollAnswers, PollShows, PollClaims,
                PollRefused, PollRegisters
  <2>3. CASE PollAnswers
    <3>1. \E seen \in {"present", "absent", "settling"} : past' = Seen(seen)
      BY <2>3, ProbeAnswers, AnswerShows
    <3> QED
      BY <2>2, <3>1, SeenKeeps
  <2>4. CASE ~PollAnswers
    <3>1. past' = past
      BY <2>1, <2>4
         DEF Rests, Poll, PollCheck, PollFails, PollShows, PollClaims,
             PollRefused, PollRegisters
    <3> QED
      BY <2>2, <3>1
  <2> QED
    BY <2>3, <2>4
<1>2. CASE PollCheck
  <2>1. /\ poll'.had /\ poll'.pc \in {"rest", "probe"}
        /\ UNCHANGED <<tray, marks>>
    BY <1>2 DEF PollCheck, Rests, Typed, Polls
  <2> QED
    BY <1>1, <2>1 DEF Rests, MidRequest, Live, Running
<1>3. CASE PollFails
  <2>1. /\ marks' = marks /\ poll' = [poll EXCEPT !.pc = "rest", !.had = TRUE]
        /\ tray'.changed = FALSE /\ tray'.flaky = tray.flaky
    BY <1>3 DEF PollFails, Released, SameInsertion, Rests, Typed, Trays, Polls
  <2>2. poll'.had /\ poll'.pc = "rest"
    BY <2>1 DEF Typed, Polls
  <2> QED
    BY <1>1, <2>1, <2>2 DEF Rests, MidRequest, Live, Running
<1>4. CASE PollAnswers
  <2>1. PICK seen \in {"present", "absent", "settling"}, ready \in BOOLEAN :
          /\ Answer(seen, ready)
          /\ seen = "absent" => tray.disc = 0 \/ tray.flaky
    BY <1>4, ProbeAnswers
  <2> DEFINE shown == HeldPresence(seen, marks.hold)
  <2>2. ~tray.changed /\ ~marks.changed /\ ~marks.waiting /\ poll.had
    BY DEF Rests
  <2>3. seen = "absent" => tray.flaky /\ marks.hold = "armed"
    BY <2>1 DEF Rests
  <2>4. shown # "absent"
    BY <2>3 DEF HeldPresence
  <2>5. /\ poll'.pc = "rest" /\ poll'.had
    BY <2>1, <2>2, <2>4, AnswerShows
  <2>6. /\ ~tray'.changed /\ ~marks'.changed /\ ~marks'.waiting
        /\ tray'.flaky <=> tray.flaky /\ seen # "absent"
        /\ marks'.hold = HeldAfter(seen, marks.hold)
    BY <2>1, <2>2, AnswerMakes
  <2>7. marks'.finished
    BY <2>1, <2>2, <2>4, AnswerMakes DEF Rests
  <2>8. tray'.flaky \/ past.asked # {} \/ (stop.pc = "prepared" /\ Running)
          => marks'.hold = "armed"
    <3>1. CASE seen = "absent"
      BY <2>3, <2>6, <3>1, RestsCalmly
    <3>2. CASE seen # "absent"
      BY <2>6, <3>2 DEF Rests, HeldAfter
    <3> QED
      BY <3>1, <3>2
  <2>9. Running' = Running /\ \A a \in Claimants : Live(a)' = Live(a)
    BY <1>1 DEF Running, Live
  <2> QED
    BY <1>1, <2>5, <2>6, <2>7, <2>8, <2>9 DEF Rests, MidRequest
<1> QED
  BY <1>2, <1>3, <1>4
     DEF Rests, MidRequest, Poll, PollShows, PollClaims, PollRefused,
         PollRegisters, PollSpawns

\* So do the requests that are refused, and the Stop.
LEMMA OthersRest ==
    ASSUME Typed, IInv, Asked, Settled, Rests, ~past'.owed, tray'.disc # 0,
           past'.delivered # 0,
           \/ WebAsks \/ WebHandles \/ EjectAsks \/ EjectHandles
           \/ StopPrepares \/ StopHandles \/ CooldownEnds
    PROVE  Rests'
<1>1. CASE WebAsks \/ WebHandles
  <2>1. ~WebClaims /\ ~WebRegisters /\ ~WebSpawns
    BY AttendKeeps DEF WebClaims, WebRegisters, WebSpawns, Rests, MidRequest
  <2>2. /\ web'.pc \in {"rest", "asked"}
        /\ UNCHANGED <<tray, thread, marks, poll, eject, stop, worker, past>>
    BY <1>1, <2>1 DEF WebAsks, WebHandles, WebRefused, Typed, Webs
  <2> QED
    BY <2>2 DEF Rests, MidRequest, Live, Running
<1>2. CASE EjectAsks \/ EjectHandles
  <2>1. ~EjectClaims /\ (EjectAsks \/ EjectRefused)
    BY <1>2, AttendKeeps
       DEF EjectHandles, EjectClaims, EjectCancels, EjectJoins, EjectOpens,
           EjectFails, EjectAnswers, Rests, MidRequest
  <2>2. /\ eject' \in {"rest", "asked"}
        /\ UNCHANGED <<tray, thread, marks, poll, web, stop, worker, past>>
    BY <2>1 DEF EjectAsks, EjectRefused
  <2> QED
    BY <2>2 DEF Rests, MidRequest, Live, Running
<1>3. CASE StopPrepares
  <2>1. UNCHANGED <<tray, thread, poll, web, eject, worker>>
    BY <1>3 DEF StopPrepares
  <2>2. /\ marks'.hold = "armed" /\ marks'.finished = marks.finished
        /\ marks'.changed = marks.changed /\ marks'.waiting = marks.waiting
    BY <1>3 DEF StopPrepares, Typed, Marks
  <2> QED
    BY <2>1, <2>2 DEF Rests, MidRequest, Live
<1>4. CASE StopCancels
  <2>1. /\ UNCHANGED <<tray, thread, marks, poll, web, eject, worker>>
        /\ stop.pc = "prepared" /\ stop'.pc = "draining"
    BY <1>4 DEF StopCancels, Typed, Stops
  <2>2. past'.asked = past.asked \/ Running
    BY <1>4 DEF StopCancels
  <2> QED
    BY <2>1, <2>2 DEF Rests, MidRequest, Live
<1>5. CASE StopDrains \/ StopApplies \/ StopAnswers
  <2>1. /\ UNCHANGED <<tray, poll, web, eject, worker>>
        /\ stop'.pc # "prepared"
    BY <1>5 DEF StopDrains, StopApplies, StopAnswers, Typed, Stops
  <2>2. /\ marks'.hold = marks.hold /\ marks'.finished = marks.finished
        /\ marks'.changed = marks.changed /\ marks'.waiting = marks.waiting
    BY <1>5 DEF StopDrains, StopApplies, StopAnswers, Typed, Marks
  <2>3. past'.asked = past.asked
    BY <1>5, LateKeeps DEF StopDrains, StopApplies, StopAnswers
  <2> QED
    BY <2>1, <2>2, <2>3 DEF Rests, MidRequest, Live
<1>6. CASE CooldownEnds
  <2>1. /\ marks'.hold = marks.hold /\ marks'.finished = marks.finished
        /\ marks'.changed = marks.changed /\ marks'.waiting = marks.waiting
    BY <1>6 DEF CooldownEnds, Typed, Marks
  <2> QED
    BY <1>6, <2>1 DEF CooldownEnds, Rests, MidRequest, Live, Running
<1> QED
  BY <1>1, <1>2, <1>3, <1>4, <1>5, <1>6 DEF StopHandles

\* A thread that ends leaves the disc at rest ...
LEMMA EndRests ==
    ASSUME Typed, IInv, Rests, past'.delivered # 0,
           NEW a \in Claimants, Worker(a) \/ Panics(a)
    PROVE  Rests'
<1>1. /\ UNCHANGED <<thread, poll, web, eject, stop>>
      /\ Live(a) /\ thread = a
      /\ \A b \in Claimants : b # a => ~Live(b) /\ worker'[b] = worker[b]
  BY WorkerAlone
<1>2. AutoEjects(a) \/ Ends(a) \/ Panics(a)
  BY <1>1
     DEF Rests, Worker, At, ScanBegins, ScanSkipped, ScanEnds, RipFollows,
         Dispatches, Installs, Takes, Begins, SweepEnds
<1>3. /\ marks' = marks /\ tray'.changed = tray.changed
      /\ past'.asked \subseteq past.asked
      /\ tray'.flaky => tray.flaky \/ past.asked # {}
      /\ worker'[a].pc \in {"tail", "ended"}
  <2>1. CASE AutoEjects(a)
    <3>1. UNCHANGED <<tray, past>>
      BY <2>1 DEF AutoEjects, NewMedium, Typed, Pasts
    <3> QED
      BY <2>1, <3>1, WorkerMoves DEF AutoEjects
  <2>2. CASE Ends(a)
    <3>1. /\ tray'.changed = tray.changed
          /\ tray'.flaky => tray.flaky \/ a \in past.asked
      BY <2>2 DEF Ends, Typed, Trays
    <3>2. past'.asked = past.asked \ {a}
      BY <2>2, LeftKeeps DEF Ends
    <3> QED
      BY <2>2, <3>1, <3>2, WorkerMoves DEF Ends
  <2>3. CASE Panics(a)
    BY <2>3, LeftKeeps, WorkerMoves DEF Panics
  <2> QED
    BY <1>2, <2>1, <2>2, <2>3
<1>4. Running' => Running
  BY <1>1 DEF Running, NoOne, Claimants
<1>5. \A b \in Claimants : Live(b)' => worker'[b].pc \in {"eject", "tail"}
  BY <1>1, <1>3 DEF Live
<1> QED
  BY <1>1, <1>3, <1>4, <1>5 DEF Rests, MidRequest

\* ... and one that delivers it brings it there.
LEMMA DeliveryRests ==
    ASSUME Overtaken = FALSE, Typed, SInv, Apart, Scans, Settled, Steady, Asked,
           NEW a \in Claimants, Delivery(a), tray' = tray, PollLooked, Ripped'
    PROVE  Rests'
<1>1. Worker(a)
  BY DEF Worker, Delivery
<1>2. /\ UNCHANGED <<thread, poll, web, eject, stop>> /\ Live(a) /\ thread = a
      /\ \A b \in Claimants : b # a => ~Live(b) /\ worker'[b] = worker[b]
  BY <1>1, WorkerAlone DEF SInv
<1>3. worker'[a].pc \in {"eject", "tail"}
  BY WorkerMoves DEF Delivery
<1>4. /\ marks' = [marks EXCEPT !.finished = TRUE]
      /\ \E d : past' = Delivers(d)
  BY DEF Delivery
<1>5. /\ marks'.finished /\ marks'.hold = marks.hold
      /\ marks'.changed = marks.changed /\ marks'.waiting = marks.waiting
  BY <1>4 DEF Typed, Marks
<1>6. /\ past'.asked = past.asked
      /\ ~marks.waiting /\ ~marks.changed
      /\ past.asked # {} => marks.hold = "armed"
  BY <1>4, DeliversKeeps DEF Ripped
<1>7. ~tray.flaky
  BY <1>2 DEF Delivery, Dispatches, SweepEnds, At, Settled
<1>8. ~tray.changed
  <2>1. CASE Dispatches(a) /\ session # 0 /\ past' = Delivers(session)
    <3>1. tray.disc = session
      BY <2>1, DeliversKeeps DEF Ripped
    <3> QED
      BY <2>1, <3>1 DEF Scans
  <2>2. CASE SweepEnds(a) /\ past' = Delivers(worker[a].disc)
    <3>1. tray.disc = worker[a].disc /\ tray.disc # 0
      BY <2>2, DeliversKeeps DEF Ripped
    <3> QED
      BY <2>2, <3>1 DEF SweepEnds, At, Steady
  <2> QED
    BY <2>1, <2>2 DEF Delivery
<1>9. /\ poll.pc = "rest" /\ poll.had /\ stop.pc # "prepared" /\ ~MidRequest
  BY <1>2 DEF PollLooked, Unhurried, Apart
<1> QED
  BY <1>2, <1>3, <1>5, <1>6, <1>7, <1>8, <1>9 DEF Rests, MidRequest, Live

\* Every step keeps a delivered disc at rest.
LEMMA FinishedStep ==
    ASSUME Overtaken = FALSE
    PROVE  Steadily /\ Asked /\ Known /\ Finished /\ [Next]_vars => Finished'
<1> SUFFICES ASSUME Steadily, Asked, Known, Finished, [Next]_vars, Ripped'
             PROVE  Rests'
  BY DEF Finished
<1> USE DEF Steadily, Calmly, SInv
<1>1. CASE UNCHANGED vars
  BY <1>1 DEF Finished, Ripped, Rests, MidRequest, Live, Running, vars
<1>2. CASE PutIn
  <2>1. tray.seen \in Nat /\ tray'.disc = tray.seen + 1
    BY <1>2, DiscTyped DEF PutIn, Typed
  <2>2. past.delivered \in Int /\ past' = past
    BY <1>2, DriveAssumption DEF PutIn, Typed, Pasts, Discs
  <2> QED
    BY <2>1, <2>2 DEF Known, Ripped
<1>3. CASE \/ Poll \/ WebAsks \/ WebHandles \/ EjectAsks \/ EjectHandles
           \/ StopPrepares \/ StopHandles \/ CooldownEnds \/ TakeOut
  <2>1. HistoryKept /\ tray'.disc = tray.disc
    BY <1>3, OthersHistory DEF Ripped
  <2>2. Rests /\ tray.disc # 0
    BY <2>1 DEF HistoryKept, Finished, Ripped
  <2>3. ~TakeOut
    BY <2>1, <2>2 DEF TakeOut, Typed, Trays
  <2> QED
    BY <1>3, <2>1, <2>2, <2>3, PollRests, OthersRest DEF Ripped
<1>4. ASSUME NEW a \in Claimants, Worker(a) \/ Panics(a) PROVE Rests'
  <2>1. CASE HistoryKept /\ tray'.disc = tray.disc
    <3>1. Rests
      BY <2>1 DEF HistoryKept, Finished, Ripped
    <3> QED
      BY <1>4, <3>1, EndRests DEF Ripped
  <2>2. CASE Delivery(a) /\ tray' = tray /\ PollLooked
    BY <2>2, DeliveryRests
  <2> QED
    BY <1>4, <2>1, <2>2, WorkerHistory DEF Ripped
<1> QED
  BY <1>1, <1>2, <1>3, <1>4 DEF Next

\* A disc that was ripped is not ripped again by itself (same_insertion, the
\* finished mark): no probe failure, no answer of a drive that settles and no
\* Stop after the end makes the poll loop claim it, as long as no request is
\* overtaken.
THEOREM FinishedStaysFinished ==
    ASSUME Overtaken = FALSE PROVE Spec => FinishedStays
<1>1. Init => Asked /\ Known /\ Finished
  BY DEF Init, Asked, Known, Finished, Ripped, NoWork
<1>2. Steadily /\ Asked /\ Known /\ Finished /\ [Next]_vars =>
        (Asked /\ Known /\ Finished)'
  BY AskedStep, KnownStep, FinishedStep DEF Steadily, Calmly, SInv
<1>3. Finished /\ poll.pc = "dispatch" =>
        past.owed \/ past.delivered \notin {tray.disc} \ {0}
  BY DEF Finished, Ripped, Rests
<1>4. Finished /\ [Next]_vars =>
        [poll.pc = "dispatch" /\ poll'.pc = "claimed"
           => past.owed \/ past.delivered \notin {tray.disc} \ {0}]_vars
  BY <1>3
<1> QED
  BY <1>1, <1>2, <1>4, SteadilyHolds, PTL DEF Spec, FinishedStays
================================================================================
