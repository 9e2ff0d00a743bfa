--------------------------- MODULE MCMailboxStore ---------------------------
EXTENDS MailboxStore, TLC

CONSTANTS c1, c2, nA, nB

MCConns == {c1, c2}
MCNames == {nA, nB}

\* nA is "a" and nB is "a/b", one level below it.
MCNameStr == nA :> <<"a">> @@ nB :> <<"a", "/", "b">>

\* LIST "" "*" (every mailbox) and LIST "a" "%" (the level below a).
MCListArgs == {[ref |-> <<>>, pats |-> {<<"*">>}],
               [ref |-> <<"a">>, pats |-> {<<"%">>}]}

\* c1 copies and moves out of its selected mailbox; c2 manages mailboxes.
\* (c2 also selecting and asking STATUS takes the liveness check past five
\* minutes; SELECT's lock step is c1's.)
\* Only one connection copies, so no two copies cross.
OneCopierOps ==
  c1 :> {"select", "unselect", "copy", "move"} @@
  c2 :> {"create", "delete", "rename", "list", "append", "subscribe"}

\* Both connections select a mailbox and copy out of it.
CrossedCopyOps ==
  c1 :> {"create", "append", "select", "copy"} @@
  c2 :> {"create", "append", "select", "copy"}

=============================================================================
