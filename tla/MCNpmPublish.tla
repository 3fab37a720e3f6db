---------------------------- MODULE MCNpmPublish ----------------------------
(* Small instances of NpmPublish for TLC.                                  *)
EXTENDS NpmPublish

CONSTANTS d1, d2

MCDigest == {d1, d2}

\* What another publisher attaches to the version: nothing, another run's
\* provenance, an unverifiable bundle, both, or the provenance of a second call
\* of the workflow within this run, for the same or for other bytes.
MCForeignBundles ==
  LET other  == [run |-> "other", subject |-> d1, verifies |-> TRUE]
      forged == [run |-> "this", subject |-> d1, verifies |-> FALSE]
  IN {{}, {other}, {forged}, {other, forged}, {OwnBundle(d1)}, {OwnBundle(d2)}}

\* An attempt may meet every fault, only those that leave packument reads intact, or
\* none.
AllFaults   == {Faults}
MixedFaults == {{}, {"malformed", "attestation", "verify"}}
NoFaults    == {{}}
=============================================================================
