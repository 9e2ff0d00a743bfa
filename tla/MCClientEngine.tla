--------------------------- MODULE MCClientEngine ---------------------------
EXTENDS ClientEngine, TLC

CONSTANTS g1, g2, g3, g4

\* Two APPENDs with synchronising literals and two NOOPs, issued concurrently.
PipelineG == {g1, g2, g3, g4}
PipelineKind == (g1 :> "literal") @@ (g2 :> "literal") @@ (g3 :> "plain") @@ (g4 :> "plain")

\* An IDLE, restarted by its timer, with two NOOPs issued concurrently.
IdleG == {g1, g2, g3}
IdleKind == (g1 :> "idle") @@ (g2 :> "plain") @@ (g3 :> "plain")

\* An APPEND issued concurrently with Client.Idle.
RaceG == {g1, g2}
RaceKind == (g1 :> "literal") @@ (g2 :> "idle")

=============================================================================
