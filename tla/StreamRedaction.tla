----------------------------- MODULE StreamRedaction -----------------------------
(***************************************************************************)
(* What a command prints, from its bytes to what is kept of it: chunks are *)
(* decoded, the secrets in them are masked although the end of a chunk may *)
(* split them, and a bounded prefix of the masked text is captured. A byte *)
(* is a model letter; the character "w" takes two bytes, and two letters   *)
(* stand for the mask.                                                     *)
(***************************************************************************)
EXTENDS Integers, FiniteSets, SequencesExt, FiniteSetsExt

CONSTANTS
  SecretSets,      \* the sets of secrets that are tried
  Bytes,           \* of "a", "b", "c" and the two bytes of "w"
  MaxReceived,     \* bound: bytes the command prints
  MaxCaptureBytes

Mask == <<"[", "]">>
Characters == {"a", "b", "c", "w"}

\* No secret holds a character of the mask.
ASSUME RedactionAssumption ==
  /\ Bytes \subseteq {"a", "b", "c", "w1", "w2"}
  /\ \A S \in SecretSets : IsFiniteSet(S) /\ \A s \in S : s \in Seq(Characters)
  /\ MaxReceived \in Nat /\ MaxCaptureBytes \in Nat

VARIABLES
  secretValues,
  received,   \* history: the bytes so far
  carry,      \* masked text that is held back
  emitted,    \* what the sink got
  text,       \* what is captured
  totalBytes, truncated, finished

redactionVars == <<secretValues, received, carry, emitted, text, totalBytes, truncated, finished>>

-----------------------------------------------------------------------------
(* Masking.                                                                *)

\* normalizeSecrets: the longest first.
Secrets ==
  LET values == secretValues \ {<<>>}
  IN  CHOOSE s \in [1..Cardinality(values) -> values] :
        Range(s) = values /\ \A i, j \in DOMAIN s : i < j => Len(s[i]) >= Len(s[j])

At(t, s, i) == i + Len(s) - 1 <= Len(t) /\ SubSeq(t, i, i + Len(s) - 1) = s

\* split and join: the occurrences from the left.
Masked(t, s) ==
  LET from[i \in 1..(Len(t) + 1)] ==
        IF i > Len(t) THEN <<>>
        ELSE IF At(t, s, i) THEN Mask \o from[i + Len(s)] ELSE <<t[i]>> \o from[i + 1]
  IN  from[1]

\* One secret after the other.
Redact(t) ==
  LET after[i \in 0..Len(Secrets)] == IF i = 0 THEN t ELSE Masked(after[i - 1], Secrets[i])
  IN  after[Len(Secrets)]

\* Mutant: a tail that a secret starts with is looked for without its last letter.
HoldShort(t) ==
  Max({0} \cup {n \in 1..Len(t) :
        \E i \in DOMAIN Secrets : n < Len(Secrets[i]) - 1
                                    /\ SubSeq(t, Len(t) - n + 1, Len(t)) = SubSeq(Secrets[i], 1, n)})

\* The longest tail that a secret may continue.
HoldLength(t) ==
  Max({0} \cup {n \in 1..Len(t) :
        \E i \in DOMAIN Secrets : n < Len(Secrets[i])
                                    /\ SubSeq(t, Len(t) - n + 1, Len(t)) = SubSeq(Secrets[i], 1, n)})

-----------------------------------------------------------------------------
(* Decoding and measuring.                                                 *)

\* Mutant: the bytes of a chunk are taken for characters.
DecodeBytewise(bytes) == bytes

\* The decoder keeps the first byte of a character until the second arrives.
Decode(bytes) ==
  LET decoded[n \in 0..Len(bytes)] ==
        IF n = 0 THEN <<>>
        ELSE decoded[n - 1] \o CASE bytes[n] = "w1" -> <<>> [] bytes[n] = "w2" -> <<"w">>
                                 [] OTHER -> <<bytes[n]>>
  IN  decoded[Len(bytes)]

InsideCharacter(bytes) == bytes # <<>> /\ Last(bytes) = "w1"

Width(c) == CASE c = "w" -> 2 [] c = "?" -> 3 [] OTHER -> 1
ByteLength(t) ==
  LET upTo[n \in 0..Len(t)] == IF n = 0 THEN 0 ELSE upTo[n - 1] + Width(t[n])
  IN  upTo[Len(t)]

Utf8Prefix(t, maxBytes) ==
  SubSeq(t, 1, Max({0} \cup {n \in 1..Len(t) : ByteLength(SubSeq(t, 1, n)) <= maxBytes}))

-----------------------------------------------------------------------------

\* The one type invariant.
RedactionTypeOK ==
  /\ secretValues \in SecretSets
  /\ received \in Seq(Bytes) /\ Len(received) <= MaxReceived
  /\ \A t \in {carry, emitted, text} : t \in Seq(Characters \cup Range(Mask) \cup {"?"})
  /\ totalBytes \in Nat /\ truncated \in BOOLEAN /\ finished \in BOOLEAN

RedactionInit ==
  /\ secretValues \in SecretSets
  /\ received = <<>> /\ carry = <<>> /\ emitted = <<>> /\ text = <<>>
  /\ totalBytes = 0 /\ truncated = FALSE /\ finished = FALSE

\* What is left of the capture's room is filled once.
Accept(new) ==
  /\ emitted' = emitted \o new
  /\ totalBytes' = totalBytes + ByteLength(new)
  /\ LET kept == IF truncated THEN <<>> ELSE Utf8Prefix(new, MaxCaptureBytes - ByteLength(text))
     IN  /\ text' = text \o kept
         /\ truncated' = (truncated \/ Len(kept) < Len(new))

Push(decoded) ==
  LET combined == Redact(carry \o decoded)
      hold == HoldLength(combined)
  IN  /\ carry' = SubSeq(combined, Len(combined) - hold + 1, Len(combined))
      /\ Accept(SubSeq(combined, 1, Len(combined) - hold))

\* A chunk may end inside a character.
OnData(chunk) ==
  /\ ~finished /\ Len(received) + Len(chunk) <= MaxReceived
  /\ received' = received \o chunk
  /\ \A i \in DOMAIN received' : (received'[i] = "w2") = (i > 1 /\ received'[i - 1] = "w1")
  /\ Push(Decode(chunk))
  /\ UNCHANGED <<secretValues, finished>>

\* The decoder replaces what it still holds, and the redactor lets go of its carry.
Finish ==
  /\ ~finished /\ finished' = TRUE
  /\ carry' = <<>>
  /\ Accept(Redact(carry \o IF InsideCharacter(received) THEN <<"?">> ELSE <<>>))
  /\ UNCHANGED <<secretValues, received>>

Chunks == {<<b>> : b \in Bytes} \cup {<<b, c>> : b, c \in Bytes}

RedactionNext ==
  \/ \E chunk \in Chunks : OnData(chunk)
  \/ Finish

RedactionSpec == RedactionInit /\ [][RedactionNext]_redactionVars

-----------------------------------------------------------------------------
Occurs(s, t) == \E i \in DOMAIN t : At(t, s, i)

\* Two secrets overlap when one holds the other or begins as the other ends.
Overlap(s, t) ==
  \/ Occurs(s, t) \/ Occurs(t, s)
  \/ \E n \in 1..Len(s) : n <= Len(t) /\ SubSeq(s, Len(s) - n + 1, Len(s)) = SubSeq(t, 1, n)

Apart == \A s, t \in Range(Secrets) : s # t => ~Overlap(s, t) /\ ~Overlap(t, s)

\* However the output is cut into chunks, it comes out as if it had been masked at
\* once, as long as no two secrets overlap; no secret is ever given away whole,
\* nor is more held back than a secret could need; and the capture is the longest
\* prefix that fits, of which it is known whether it is all.
StreamRedactsWhole ==
  /\ finished /\ Apart =>
       emitted = Redact(Decode(received) \o IF InsideCharacter(received) THEN <<"?">> ELSE <<>>)
  /\ \A i \in DOMAIN Secrets : ~Occurs(Secrets[i], emitted)
  /\ carry # <<>> => Len(carry) < Len(Secrets[1])
  /\ IsPrefix(text, emitted) /\ truncated = (text # emitted)
  /\ ByteLength(text) <= MaxCaptureBytes /\ totalBytes = ByteLength(emitted)
  /\ truncated => ByteLength(text) + Width(emitted[Len(text) + 1]) > MaxCaptureBytes
=============================================================================
