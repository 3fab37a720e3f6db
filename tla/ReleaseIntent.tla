--------------------------- MODULE ReleaseIntent ----------------------------
(***************************************************************************)
(* What the npm mutation segment promises, whatever it observes and however *)
(* it decides: the comment on Publish ("performs at most one argv-only npm  *)
(* mutation, and resolves read-back") and the closed PublishState           *)
(* vocabulary of publish.go, stated over the registry's true contents.      *)
(*                                                                         *)
(* An attempt intends to publish one tarball.  It sends at most one write,  *)
(* and gives one verdict:                                                   *)
(*   claim  the registry holds exactly the intended bytes, attested by this *)
(*          run (committed-as-expected);                                    *)
(*   deny   this attempt changed nothing and no write of it is still on its *)
(*          way (not attempted, or a definitive refusal);                   *)
(*   doubt  anything else, a lost runner included.                          *)
(* NpmPublish implements this specification.                                *)
(***************************************************************************)
EXTENDS Naturals

CONSTANTS
  Digest,       \* tarballs
  None,         \* no tarball
  Attestation,  \* sets of provenance bundles a version may carry
  Own(_),       \* the bundle this run signs for a tarball
  MaxAttempts   \* run attempts (bound)

VARIABLES
  attempt, intent, sent, verdict,  \* the attempt
  held,                            \* what the registry holds of the version
  writes                           \* writes sent and not yet settled

intentVars == <<attempt, intent, sent, verdict, held, writes>>

Write(n, d) == [attempt |-> n, digest |-> d]

Init ==
  /\ attempt = 1
  /\ intent \in Digest
  /\ sent = FALSE
  /\ verdict = "pending"
  /\ held = [digest |-> None, bundles |-> {}, committer |-> 0]
  /\ writes = {}

\* The version becomes what one publisher made it; it never changes again.
Hold(d, bundles, committer) ==
  /\ held.digest = None
  /\ held' = [digest |-> d, bundles |-> bundles, committer |-> committer]
  /\ UNCHANGED <<attempt, intent, sent, verdict>>

ForeignWrite ==
  /\ \E d \in Digest, bundles \in Attestation : Hold(d, bundles, 0)
  /\ UNCHANGED writes

WriteLands ==
  \E w \in writes : /\ Hold(w.digest, {Own(w.digest)}, w.attempt)
                    /\ writes' = writes \ {w}

WriteLost ==
  /\ \E w \in writes : writes' = writes \ {w}
  /\ UNCHANGED <<attempt, intent, sent, verdict, held>>

\* The attempt's only write, of the intended bytes, sent before its verdict.
Send ==
  /\ verdict = "pending"
  /\ ~sent
  /\ sent' = TRUE
  /\ writes' = writes \cup {Write(attempt, intent)}
  /\ UNCHANGED <<attempt, intent, verdict, held>>

Changed == \/ \E w \in writes : w.attempt = attempt
           \/ held.committer = attempt

Verdict(v) ==
  /\ verdict = "pending"
  /\ verdict' = v
  /\ UNCHANGED <<attempt, intent, sent, held, writes>>

Claim == /\ held.digest = intent
         /\ Own(intent) \in held.bundles
         /\ Verdict("claim")
Deny  == ~Changed /\ Verdict("deny")
Doubt == Verdict("doubt")

\* A verdict is final for its attempt; the next attempt may build other bytes.
NextAttempt ==
  /\ verdict # "pending"
  /\ attempt < MaxAttempts
  /\ attempt' = attempt + 1
  /\ intent' \in Digest
  /\ sent' = FALSE
  /\ verdict' = "pending"
  /\ UNCHANGED <<held, writes>>

Next == \/ ForeignWrite \/ WriteLands \/ WriteLost
        \/ Send \/ Claim \/ Deny \/ Doubt \/ NextAttempt

Spec == Init /\ [][Next]_intentVars
=============================================================================
