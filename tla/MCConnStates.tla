---------------------------- MODULE MCConnStates ----------------------------
EXTENDS ConnStates

\* A server with IMAP4rev1 and TLS configured, and no cleartext auth.
MCServerCaps == {"IMAP4rev1", "UNSELECT"}

\* The greetings NewSession can lead to: a normal or PREAUTH session, or an
\* error written as BYE.
MCGreetings == {"OK", "PREAUTH", "BYE"}

\* The user's commands: the ones that move the state, NOOP, an explicit
\* CAPABILITY, ID (which this server does not know) and ENABLE.
MCUserCmds == {"LOGIN", "SELECT", "UNSELECT", "CLOSE", "LOGOUT", "CAPABILITY",
               "NOOP", "ID", "ENABLE"}
=============================================================================
