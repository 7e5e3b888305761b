------------------------------- MODULE Secrets -------------------------------
(***************************************************************************)
(* internal/secrets: what replacement and redaction do to a text.  A text  *)
(* is a sequence of tokens, an occurrence a run of consecutive ones.  A    *)
(* secret's target host and variable name play no part in either.          *)
(***************************************************************************)
EXTENDS Naturals, Sequences, SequencesExt

CONSTANT Token  \* what texts are made of

Text == Seq(Token)
CustomSecret == [Sentinel : Text, Value : Text]

\* The replacement is a text itself, which values may share tokens with.
Redacted == <<"[", "REDACTED", "]">>

ASSUME RedactedAssumption == Redacted \in Text

\* s occurs in t at position i.
occursAt(s, t, i) == i + Len(s) - 1 <= Len(t) /\ SubSeq(t, i, i + Len(s) - 1) = s
occursIn(s, t) == \E i \in 1 .. Len(t) : occursAt(s, t, i)

\* The text t from the left, with what pick[i] finds at position i (a record
\* with the number of tokens it consumes and the tokens that replace them).
rewrite(t, pick) ==
  LET from[i \in 1 .. Len(t) + 1] ==
        IF i > Len(t) THEN << >> ELSE pick[i].by \o from[i + pick[i].length]
  IN from[1]

kept(t, i) == [length |-> 1, by |-> <<t[i]>>]

\* bytes.ReplaceAll and strings.ReplaceAll, for an s that is not empty.
ReplaceAllIn(t, s, r) ==
  rewrite(t, [i \in 1 .. Len(t) |->
               IF occursAt(s, t, i) THEN [length |-> Len(s), by |-> r] ELSE kept(t, i)])

\* Mutant: an empty sentinel is not skipped, and matches at the first byte.
replaceSentinel_Empty(text, secret) ==
  IF secret.Sentinel = << >> THEN secret.Value \o text
  ELSE ReplaceAllIn(text, secret.Sentinel, secret.Value)

replaceSentinel(text, secret) ==
  IF secret.Sentinel = << >> THEN text
  ELSE ReplaceAllIn(text, secret.Sentinel, secret.Value)

\* ReplaceSentinelsInBody; ReplaceSentinelsInHeaders does the same to every value
\* of every header.
ReplaceSentinels(secrets, text) ==
  LET result[n \in 0 .. Len(secrets)] ==
        IF n = 0 THEN text ELSE replaceSentinel(result[n - 1], secrets[n])
  IN result[Len(secrets)]

\* Mutant: a secret is looked for where its placeholder is.
redactSecret_Sentinel(text, secret) ==
  IF secret.Value = << >> \/ secret.Sentinel = << >> THEN text
  ELSE ReplaceAllIn(text, secret.Sentinel, Redacted)

redactSecret(text, secret) ==
  IF secret.Value = << >> \/ secret.Value = secret.Sentinel THEN text
  ELSE ReplaceAllIn(text, secret.Value, Redacted)

RedactSecretsInHeader(secrets, text) ==
  LET redacted[n \in 0 .. Len(secrets)] ==
        IF n = 0 THEN text ELSE redactSecret(redacted[n - 1], secrets[n])
  IN redacted[Len(secrets)]

-----------------------------------------------------------------------------
(* What replacing one secret after the other should amount to.             *)

sentinelsOf(secrets) == {s \in Range(secrets) : s.Sentinel # << >>}

\* s occurs in t, or t goes on where s ends.
overlap(s, t) ==
  \/ occursIn(s, t)
  \/ \E k \in 1 .. Len(s) - 1 : IsPrefix(SubSeq(s, k + 1, Len(s)), t)

apart(s, t) == ~overlap(s, t) /\ ~overlap(t, s)

\* No sentinel overlaps another one, or a value that was put in before it is looked
\* for.  So no value but the last may be empty: what is left on either side of an
\* empty one could make up a sentinel.
Unambiguous(secrets) ==
  LET S == sentinelsOf(secrets)
  IN /\ \A s, u \in S : s # u => apart(s.Sentinel, u.Sentinel)
     /\ \A i, j \in DOMAIN secrets :
          i < j /\ {secrets[i], secrets[j]} \subseteq S =>
            apart(secrets[i].Value, secrets[j].Sentinel)

\* All sentinels of the secrets in S replaced at once.
substitution(S, text) ==
  [i \in 1 .. Len(text) |->
    LET found == {s \in S : occursAt(s.Sentinel, text, i)}
    IN IF found = {} THEN kept(text, i)
       ELSE LET s == CHOOSE s \in found : TRUE
            IN [length |-> Len(s.Sentinel), by |-> s.Value]]

Substituted(secrets, text) == rewrite(text, substitution(sentinelsOf(secrets), text))
=============================================================================
