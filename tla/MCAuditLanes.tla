---------------------------- MODULE MCAuditLanes ----------------------------
EXTENDS AuditLanes

\* Retain is SelectSeq, for the lanes of up to three entries.
ASSUME RetainIsSelectSeq ==
    \A lane \in UNION {[1..n -> Files \cup {NoFile}] : n \in 0..3},
       keep \in SUBSET Files :
        Retain(lane, keep) = SelectSeq(lane, LAMBDA p : p \in keep)
=============================================================================
