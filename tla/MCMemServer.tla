----------------------------- MODULE MCMemServer -----------------------------
(* Two connections on one mailbox that receives at most three messages.   *)
EXTENDS MemServer, TLC

CONSTANTS c1, c2

MCConns == {c1, c2}
MCUIDs == 1..2
MCNoUID == 0

\* FETCH arguments: UID with a body section (marks \Seen), peeked sections
\* only, a macro, and a macro inside a list (answered BAD).
MCFetchArgs ==
  {[list |-> TRUE, atts |-> <<"UID", "BODY[">>],
   [list |-> TRUE, atts |-> <<"BODY.PEEK[", "RFC822.HEADER">>],
   [list |-> FALSE, atts |-> <<"FAST">>],
   [list |-> TRUE, atts |-> <<"FLAGS", "ALL">>]}

\* 2:*, which staticNumRange swaps when the mailbox holds fewer than two
\* messages: with 1 message it names it, with 2 only the last.
MCSeqArgs == {[start |-> 2, stop |-> 0]}

\* Connections are interchangeable.
MCSymmetry == Permutations(MCConns)
=============================================================================
