----------------------------- MODULE ListMatch -----------------------------
(***************************************************************************)
(* imapserver.MatchList (part_006), the LIST pattern matcher that          *)
(* imapmemserver's User.List applies to every mailbox name. A string is a *)
(* sequence of one-character strings; the hierarchy delimiter is <<"/">>,  *)
(* or <<>> for a rune of 0.                                                *)
(***************************************************************************)
EXTENDS Naturals, Sequences, SequencesExt

Wildcards == {"*", "%"}

\* strings.TrimPrefix(s, p) when p is known to be a prefix of s.
Drop(s, n) == SubSeq(s, n + 1, Len(s))

\* strings.IndexAny(pattern, "*%") + 1, or 0 when there is none.
FirstWildcard(p) ==
  IF \E i \in DOMAIN p : p[i] \in Wildcards
  THEN CHOOSE i \in DOMAIN p : p[i] \in Wildcards /\ \A k \in 1..i - 1 : p[k] \notin Wildcards
  ELSE 0

\* The for loop's exit index j: the first delimiter under "%", else len(name).
StopAt(name, delim, wildcard) ==
  LET stops == {j \in 0..Len(name) - 1 : wildcard = "%" /\ <<name[j + 1]>> = delim}
  IN IF stops = {} THEN Len(name) ELSE CHOOSE j \in stops : \A k \in stops : j <= k

\* matchList without the "%" break: a wildcard "%" behaves as "*".
RECURSIVE matchListNoDelimBreak(_, _, _)
matchListNoDelimBreak(name, delim, pattern) ==
  LET i == FirstWildcard(pattern) IN
  IF i = 0 THEN name = pattern
  ELSE LET chunk == SubSeq(pattern, 1, i - 1)
           rest == Drop(pattern, i)
           nm == Drop(name, Len(chunk))
       IN /\ IsPrefix(chunk, name)
          /\ \/ \E j \in 0..Len(nm) - 1 : matchListNoDelimBreak(Drop(nm, j), delim, rest)
             \/ matchListNoDelimBreak(Drop(nm, Len(nm)), delim, rest)

\* matchList: match the literal chunk before the first wildcard, then let the
\* wildcard take name[:j] for each j the loop reaches ("%" stops before a
\* delimiter) and match the rest of the pattern from there.
RECURSIVE matchList(_, _, _)
matchList(name, delim, pattern) ==
  LET i == FirstWildcard(pattern) IN
  IF i = 0 THEN name = pattern
  ELSE LET chunk == SubSeq(pattern, 1, i - 1)
           rest == Drop(pattern, i)
           nm == Drop(name, Len(chunk))
           stop == StopAt(nm, delim, pattern[i])
       IN /\ IsPrefix(chunk, name)
          /\ \/ \E j \in 0..stop - 1 : matchList(Drop(nm, j), delim, rest)
             \/ matchList(Drop(nm, stop), delim, rest)

\* MatchList: a pattern that starts with the delimiter drops the reference;
\* otherwise the reference, with the delimiter appended, must prefix the name
\* literally and the pattern matches what follows.
MatchList(name, delim, reference, pattern) ==
  LET absolute == delim # <<>> /\ IsPrefix(delim, pattern)
      ref == IF absolute THEN <<>> ELSE reference
      pat == IF absolute THEN Drop(pattern, Len(delim)) ELSE pattern
      fullRef == IF delim # <<>> /\ ~IsSuffix(delim, ref) THEN ref \o delim ELSE ref
  IN IF ref = <<>> THEN matchList(name, delim, pat)
     ELSE IsPrefix(fullRef, name) /\ matchList(Drop(name, Len(fullRef)), delim, pat)

-----------------------------------------------------------------------------
(***************************************************************************)
(* Reference: RFC 3501 section 6.3.8. "*" matches zero or more characters *)
(* and "%" matches zero or more characters other than the delimiter; every *)
(* other character matches itself.                                         *)
(***************************************************************************)
RECURSIVE Matches(_, _, _)
Matches(name, delim, pattern) ==
  IF pattern = <<>> THEN name = <<>>
  ELSE IF Head(pattern) \in Wildcards
  THEN \E k \in 0..Len(name) :
         /\ Head(pattern) = "*" \/ \A x \in 1..k : <<name[x]>> # delim
         /\ Matches(Drop(name, k), delim, Tail(pattern))
  ELSE name # <<>> /\ Head(name) = Head(pattern) /\ Matches(Tail(name), delim, Tail(pattern))

\* The bounded inputs: names over a, b and the delimiter, patterns over a,
\* the delimiter and both wildcards, references naming a level or not.
NameChars == {"a", "b", "/"}
PatternChars == {"a", "/", "*", "%"}
TestNames == BoundedSeq(NameChars, 3)
TestPatterns == BoundedSeq(PatternChars, 3)
TestRefs == {<<>>, <<"a">>, <<"a", "/">>}
TestDelims == {<<"/">>, <<>>}

\* The names a LIST pattern denotes under a reference: a pattern starting
\* with the delimiter is absolute, otherwise it is read below the reference
\* level, which is compared literally.
ReferenceMatch(name, delim, reference, pattern) ==
  LET absolute == delim # <<>> /\ IsPrefix(delim, pattern)
      below == IF reference = <<>> \/ (delim # <<>> /\ IsSuffix(delim, reference))
               THEN reference ELSE reference \o delim
  IN IF absolute \/ reference = <<>>
     THEN Matches(name, delim, IF absolute THEN Tail(pattern) ELSE pattern)
     ELSE IsPrefix(below, name) /\ Matches(Drop(name, Len(below)), delim, pattern)

\* MatchList and the reference agree on every bounded input.
MatchListAgrees ==
  \A d \in TestDelims, r \in TestRefs, p \in TestPatterns, n \in TestNames :
    MatchList(n, d, r, p) = ReferenceMatch(n, d, r, p)
=============================================================================
