--------------------------- MODULE ClientCommands ---------------------------
(***************************************************************************)
(* What imapclient promises the caller about a command it has issued      *)
(* (spec.md, client concurrency contract): the command's handle completes *)
(* exactly once; it completes with the server's tagged answer to that      *)
(* command's own tag, or with a connection error when the connection is    *)
(* closed, which fails every command still pending.                        *)
(*                                                                         *)
(* status[t] is the handle of the command tagged t as the caller sees it   *)
(* through Wait; replied[t] is the server's tagged answer to t.            *)
(***************************************************************************)
CONSTANT Tags

VARIABLES status, replied, closed

vars == <<status, replied, closed>>

Status == {"none", "pending", "ok", "no", "err"}

TypeOK ==
  /\ status \in [Tags -> Status]
  /\ replied \in [Tags -> {"none", "ok", "no"}]
  /\ closed \in BOOLEAN

Init ==
  /\ status = [t \in Tags |-> "none"]
  /\ replied = [t \in Tags |-> "none"]
  /\ closed = FALSE

\* The command tagged t is issued.
Issue(t) ==
  /\ status[t] = "none"
  /\ status' = [status EXCEPT ![t] = "pending"]
  /\ UNCHANGED <<replied, closed>>

\* The server answers t, once.
Reply(t, r) ==
  /\ status[t] # "none" /\ replied[t] = "none"
  /\ replied' = [replied EXCEPT ![t] = r]
  /\ UNCHANGED <<status, closed>>

\* The handle of t completes with the server's answer.
Complete(t) ==
  /\ status[t] = "pending" /\ replied[t] # "none"
  /\ status' = [status EXCEPT ![t] = replied[t]]
  /\ UNCHANGED <<replied, closed>>

\* The connection is closed: every pending command fails.
Close ==
  /\ closed' = TRUE
  /\ status' = [t \in Tags |-> IF status[t] = "pending" THEN "err" ELSE status[t]]
  /\ UNCHANGED replied

Next ==
  \/ \E t \in Tags : Issue(t) \/ Complete(t) \/ \E r \in {"ok", "no"} : Reply(t, r)
  \/ Close

Spec == Init /\ [][Next]_vars

=============================================================================
