------------------------------ MODULE Filing ------------------------------
(***************************************************************************)
(* What filing finished rips promises, without journals, retries, holds or  *)
(* faults: a file is published only under a free name, a staged file is     *)
(* discarded only while the library holds it, and a job ends only when      *)
(* nothing of it is left in staging.  People may do anything in the library *)
(* at any time, but make no file of a job.                                  *)
(***************************************************************************)
CONSTANTS
    Jobs,      \* the finished rips
    Kinds,     \* the kinds of files a rip may have
    Names,     \* the names each kind may take in the library
    Free,      \* nothing at a name
    Others     \* what a name may hold that is no job's file

VARIABLES
    library,   \* what each name of each kind holds
    staged,    \* the files still in staging
    done       \* the jobs whose staging is gone

vars == <<library, staged, done>>

Filed(j, p) == \E n \in Names : library[<<p, n>>] = j

Init ==
    /\ library = [s \in Kinds \X Names |-> Free]
    /\ staged \in SUBSET (Jobs \X Kinds)
    /\ done = {}

\* A job's file takes a free name; a rename takes it out of staging by the same step.
Publish(j, p) ==
    /\ <<j, p>> \in staged
    /\ \E n \in Names :
        /\ library[<<p, n>>] = Free
        /\ library' = [library EXCEPT ![<<p, n>>] = j]
    /\ staged' \in {staged, staged \ {<<j, p>>}}
    /\ UNCHANGED done

\* The staged copy goes only while the library holds the file.
Discard(j, p) ==
    /\ Filed(j, p)
    /\ staged' = staged \ {<<j, p>>}
    /\ UNCHANGED <<library, done>>

Finish(j) ==
    /\ \A p \in Kinds : <<j, p>> \notin staged
    /\ done' = done \cup {j}
    /\ UNCHANGED <<library, staged>>

\* Outsiders: every name they touch ends up free or with something of theirs.
People ==
    /\ library' \in [Kinds \X Names -> Jobs \cup Others \cup {Free}]
    /\ \A s \in Kinds \X Names :
        library'[s] = library[s] \/ library'[s] \in Others \cup {Free}
    /\ UNCHANGED <<staged, done>>

Next ==
    \/ \E j \in Jobs, p \in Kinds : Publish(j, p) \/ Discard(j, p)
    \/ \E j \in Jobs : Finish(j)
    \/ People

Spec == Init /\ [][Next]_vars
=============================================================================
