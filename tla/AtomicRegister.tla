--------------------------- MODULE AtomicRegister ---------------------------
(***************************************************************************)
(* What WriteFileAtomic (internal/command/io.go) promises: a file read at  *)
(* any moment holds one complete value, a write takes effect at once or    *)
(* not at all, and an acknowledged write survives a power loss.            *)
(***************************************************************************)
CONSTANT Values   \* complete contents of the file, its absence included

VARIABLES
  value,    \* what a reader finds
  kept,     \* what a power loss may leave
  writing,  \* is a write under way?
  input     \* the value being written

registerVars == <<value, kept, writing, input>>

Init ==
  /\ value \in Values
  /\ kept = {value}
  /\ writing = FALSE
  /\ input \in Values

Invoke ==
  /\ ~writing
  /\ input' \in Values
  /\ writing' = TRUE
  /\ UNCHANGED <<value, kept>>

\* The write takes effect; a power loss may undo it until it is acknowledged.
Apply ==
  /\ writing
  /\ value' = input
  /\ kept' = kept \cup {input}
  /\ UNCHANGED <<writing, input>>

Acknowledge ==
  /\ writing
  /\ value = input
  /\ writing' = FALSE
  /\ kept' = {value}
  /\ UNCHANGED <<value, input>>

\* The writer reports an error or dies; the write may or may not have taken effect.
GiveUp ==
  /\ writing
  /\ writing' = FALSE
  /\ UNCHANGED <<value, kept, input>>

Lose ==
  /\ value' \in kept
  /\ kept' = {value'}
  /\ writing' = FALSE
  /\ UNCHANGED input

Next == Invoke \/ Apply \/ Acknowledge \/ GiveUp \/ Lose

Spec == Init /\ [][Next]_registerVars
=============================================================================
