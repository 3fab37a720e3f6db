----------------------------- MODULE StderrRelay ----------------------------
(***************************************************************************)
(* operationalStderrRelay of internal/npmprofile/exec_boundary_relay.go:   *)
(* the child's stderr is redacted byte by byte while it arrives, filtered, *)
(* and bounded in bytes and lines; emit flushes what was held back.        *)
(*                                                                         *)
(* One symbol stands for a byte and for the rune it decodes to, so a rune  *)
(* split over two writes is not distinguished from one that is not.        *)
(***************************************************************************)
EXTENDS Naturals, Sequences, SequencesExt

CONSTANTS
  Symbols,   \* what the child may write, among it "nl", "#" and "["
  Dropped,   \* control and bidirectional characters the relay drops
  Secrets,   \* values to redact
  Marker,    \* redactedSecret
  MaxBytes,  \* maxOperationalStderrBytes
  MaxLines,  \* maxOperationalStderrLines
  MaxInput   \* symbols written by the child (bound)

ASSUME SecretsAssumption ==
  \A s \in Secrets : s \in Seq(Symbols) /\ s # <<>> /\ "nl" \notin Range(s)
ASSUME MarkerAssumption == Marker \in Seq(Range(Marker))
ASSUME BoundAssumption == MaxBytes \in Nat /\ MaxLines \in Nat /\ MaxInput \in Nat

VARIABLES
  input,                 \* all the child has written (history)
  raw,                   \* all that was handed on by redact (history)
  pending,               \* received and not yet decided
  payload, bytes, lines, inLine, truncated,
  mode                   \* "idle", redacting within "write" or "flush", or "done"

relayVars == <<payload, bytes, lines, inLine, truncated>>
streamVars == <<input, raw, pending, relayVars, mode>>

Runes == Symbols \cup Range(Marker)

-----------------------------------------------------------------------------
\* collect, as a function of the relay's buffers: a dropped rune, a "[" that would
\* complete a "##[" marker, a newline, and a rune that may exceed a bound.
Buffers == [payload |-> payload, bytes |-> bytes, lines |-> lines,
            inLine |-> inLine, truncated |-> truncated]

\* Mutant: "##[" is not suppressed.
collectHash(b, rune) ==
  IF b.truncated \/ rune \in Dropped THEN b
  ELSE IF rune = "nl"
       THEN IF b.inLine THEN [b EXCEPT !.payload = Append(@, "nl"), !.inLine = FALSE] ELSE b
  ELSE IF b.bytes + 1 > MaxBytes \/ (~b.inLine /\ b.lines = MaxLines)
       THEN [b EXCEPT !.truncated = TRUE]
  ELSE [b EXCEPT !.payload = Append(@, rune), !.bytes = @ + 1,
                 !.lines = IF b.inLine THEN @ ELSE @ + 1, !.inLine = TRUE]

collect(b, rune) ==
  IF b.truncated \/ rune \in Dropped THEN b
  ELSE IF rune = "[" /\ IsSuffix(<<"#", "#">>, b.payload) THEN b
  ELSE IF rune = "nl"
       THEN IF b.inLine THEN [b EXCEPT !.payload = Append(@, "nl"), !.inLine = FALSE] ELSE b
  ELSE IF b.bytes + 1 > MaxBytes \/ (~b.inLine /\ b.lines = MaxLines)
       THEN [b EXCEPT !.truncated = TRUE]
  ELSE [b EXCEPT !.payload = Append(@, rune), !.bytes = @ + 1,
                 !.lines = IF b.inLine THEN @ ELSE @ + 1, !.inLine = TRUE]

\* The buffers b when each of the given runes has been collected in turn.
Collected(b, runes) ==
  LET after[i \in 0 .. Len(runes)] == IF i = 0 THEN b ELSE collect(after[i - 1], runes[i])
  IN after[Len(runes)]

\* decode each of the given runes in turn.
Collect(runes) ==
  LET b == Collected(Buffers, runes)
  IN /\ payload' = b.payload /\ bytes' = b.bytes /\ lines' = b.lines
     /\ inLine' = b.inLine /\ truncated' = b.truncated
     /\ raw' = raw \o runes

\* Mutant: a shorter secret is redacted although a longer one may still follow.
PartialUnmatched ==
  /\ \E s \in Secrets : Len(pending) < Len(s) /\ IsPrefix(pending, s)
  /\ ~\E s \in Secrets : IsPrefix(s, pending)

\* May pending still grow into a secret?  The longest secret it begins with.
Partial == \E s \in Secrets : Len(pending) < Len(s) /\ IsPrefix(pending, s)
Matches == {s \in Secrets : IsPrefix(s, pending)}
Longest == CHOOSE s \in Matches : \A t \in Matches : Len(t) <= Len(s)

-----------------------------------------------------------------------------
\* Write, one byte of its argument: after truncation nothing is looked at any more.
WriteByte ==
  /\ mode = "idle" /\ Len(input) < MaxInput
  /\ \E b \in Symbols :
       /\ input' = Append(input, b)
       /\ IF truncated
          THEN UNCHANGED <<pending, mode>>
          ELSE pending' = Append(pending, b) /\ mode' = "write"
  /\ UNCHANGED <<raw, relayVars>>

\* emit: the stream has ended, what was held back is decided.
Emit ==
  /\ mode = "idle"
  /\ mode' = "flush"
  /\ UNCHANGED <<input, raw, pending, relayVars>>

Redacting == mode \in {"write", "flush"} /\ pending # <<>> /\ ~truncated

\* redact returns: nothing is left, or it waits for more.
RedactReturns ==
  /\ mode \in {"write", "flush"}
  /\ pending = <<>> \/ truncated \/ (mode = "write" /\ Partial)
  /\ mode' = IF mode = "flush" THEN "done" ELSE "idle"
  /\ UNCHANGED <<input, raw, pending, relayVars>>

\* The longest secret at this position is replaced.
RedactSecret ==
  /\ Redacting /\ (mode = "write" => ~Partial)
  /\ Matches # {}
  /\ Collect(Marker)
  /\ pending' = SubSeq(pending, Len(Longest) + 1, Len(pending))
  /\ UNCHANGED <<input, mode>>

\* No secret begins here: one byte is passed on.
PassByte ==
  /\ Redacting /\ (mode = "write" => ~Partial)
  /\ Matches = {}
  /\ Collect(<<Head(pending)>>)
  /\ pending' = Tail(pending)
  /\ UNCHANGED <<input, mode>>

RelayInit ==
  /\ input = <<>> /\ raw = <<>> /\ pending = <<>>
  /\ payload = <<>> /\ bytes = 0 /\ lines = 0
  /\ inLine = FALSE /\ truncated = FALSE
  /\ mode = "idle"

RelayNext == WriteByte \/ Emit \/ RedactReturns \/ RedactSecret \/ PassByte

RelaySpec == RelayInit /\ [][RelayNext]_streamVars

-----------------------------------------------------------------------------
(* Properties.                                                             *)

\* What is kept stays within both bounds whatever the child writes, line breaks and redaction
\* markers included, and holds no marker of a workflow command, also when dropped
\* characters, redaction or suppressed brackets stood between its parts (collect).
BoundedAndInert ==
  /\ bytes <= MaxBytes /\ lines <= MaxLines
  /\ bytes = Cardinality({i \in DOMAIN payload : payload[i] # "nl"})
  /\ ~\E i \in 1..Len(payload) - 2 : SubSeq(payload, i, i + 2) = <<"#", "#", "[">>

\* The reference: the whole stream is scanned at once, leftmost and longest first.  What stands
\* at the beginning of a stream becomes Out, and Rest is what remains to be scanned.
Leading(s) == {t \in Secrets : IsPrefix(t, s)}
LongestLeading(s) == CHOOSE t \in Leading(s) : \A u \in Leading(s) : Len(u) <= Len(t)

Out(s)  == IF Leading(s) = {} THEN <<Head(s)>> ELSE Marker
Rest(s) == IF Leading(s) = {} THEN Tail(s)
           ELSE SubSeq(s, Len(LongestLeading(s)) + 1, Len(s))

Redacted[s \in Seq(Symbols)] ==
  IF s = <<>> THEN <<>> ELSE Out(s) \o Redacted[Rest(s)]

\* Redaction on the fly gives what redacting the whole stream would give, wherever
\* the writes were cut; a truncated relay has seen a prefix of it (redact, emit).
StreamsLikeBatch ==
  /\ mode = "done" /\ ~truncated => raw = Redacted[input]
  /\ mode = "done" => IsPrefix(raw, Redacted[input])
=============================================================================
