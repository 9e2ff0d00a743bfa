---------------------------- MODULE MCClientFetch ----------------------------
EXTENDS ClientFetch

\* A caller pipelines FETCH 1:2 (BODY[]), UID STORE <uid of 1> +FLAGS,
\* UID FETCH <uid of 2> (BODY.PEEK[]), SEARCH 2 and NOOP on a mailbox of
\* two messages.
MCCmds ==
  << [kind |-> "FETCH", uid |-> FALSE, set |-> {1, 2}, flags |-> FALSE, sect |-> "BODY[]"],
     [kind |-> "STORE", uid |-> TRUE, set |-> {3}, flags |-> FALSE, sect |-> "BODY[]"],
     [kind |-> "FETCH", uid |-> TRUE, set |-> {4}, flags |-> FALSE, sect |-> "BODY.PEEK[]"],
     [kind |-> "SEARCH", uid |-> FALSE, set |-> {2}, flags |-> FALSE, sect |-> "BODY[]"],
     [kind |-> "NOOP", uid |-> FALSE, set |-> {}, flags |-> FALSE, sect |-> "BODY[]"] >>

=============================================================================
