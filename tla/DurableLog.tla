---------------------------- MODULE DurableLog ----------------------------
(***************************************************************************)
(* What the queue store promises about its durable changes, without memory, *)
(* threads, generations or writes: a change becomes sure, then may be       *)
(* promised to the caller, and is never taken back unless the file itself   *)
(* is damaged from outside.                                                 *)
(***************************************************************************)
CONSTANT Durables    \* the durable changes

VARIABLES
    sure,      \* the changes every crash leaves in place
    promised,  \* the changes acknowledged to their callers
    damaged    \* the stored file no longer reads as a queue

vars == <<sure, promised, damaged>>

Init ==
    /\ sure = {}
    /\ promised = {}
    /\ damaged = FALSE

\* A change reaches storage, or a crash settles which write survived; whatever
\* was sure before stays so.
Store ==
    /\ sure' \in SUBSET Durables
    /\ sure \subseteq sure'
    /\ UNCHANGED <<promised, damaged>>

\* Callers are told that their changes are safe: by then they are.
Promise ==
    /\ sure' \in SUBSET Durables
    /\ sure \subseteq sure'
    /\ promised \subseteq promised'
    /\ promised' \subseteq sure'
    /\ UNCHANGED damaged

\* The process stops; the file may be hurt while it is down, or come back whole.
Fail ==
    /\ sure' \in SUBSET Durables
    /\ sure \subseteq sure'
    /\ damaged' \in BOOLEAN
    /\ UNCHANGED promised

\* A damaged file is set aside and the log starts empty.
StartOver ==
    /\ damaged
    /\ sure' = {}
    /\ promised' = {}
    /\ damaged' = FALSE

Next == Store \/ Promise \/ Fail \/ StartOver

Spec == Init /\ [][Next]_vars
=============================================================================
