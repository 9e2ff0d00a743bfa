\* One connection dialled with New or NewStartTLS, up to three user commands.
CONSTANTS
  ServerCaps <- MCServerCaps
  TLSConfig = TRUE
  InsecureAuth = FALSE
  Greetings <- MCGreetings
  Dials = {"New", "NewStartTLS"}
  UserCmds <- MCUserCmds
  MaxUser = 2
  EnableReq = {"UTF8=ACCEPT", "METADATA"}
SPECIFICATION Spec
\* The user stops issuing and both ends close or fall quiet: the system stops.
CHECK_DEADLOCK FALSE
INVARIANT TypeOK
INVARIANT ClientStateMatchesServer
INVARIANT CachedCapsMatchServer
INVARIANT EnabledAgree
INVARIANT NoUndecodableLine
PROPERTY CapsEventuallyKnown
PROPERTY CloseReturns
