-------------------------- MODULE MCReleasePipeline -------------------------
(* A small instance of ReleasePipeline for TLC.                            *)
EXTENDS ReleasePipeline

CONSTANTS r1, r2, refA, refB

MCRuns == {r1, r2}
MCRefs == {refA, refB}

\* Two runs of the same ref share their concurrency groups; two of different refs
\* that carry the same version race without any.
MCGroupings == {[r \in MCRuns |-> refA],
                [r \in MCRuns |-> IF r = r1 THEN refA ELSE refB]}

\* The first run may be re-run, the second is the newer one that interferes.
MCAttempts == [r \in MCRuns |-> IF r = r1 THEN 2 ELSE 1]
=============================================================================
