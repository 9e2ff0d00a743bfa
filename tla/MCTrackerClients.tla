--------------------------- MODULE MCTrackerClients ---------------------------
(* Small instances of TrackerClients: two session slots, three message     *)
(* identities (UIDs 1..3, 0 the absent UID).                               *)
EXTENDS TrackerClients, TLC

CONSTANTS s1, s2

MCSessions == {s1, s2}
MCUIDs == 1..3
MCNoUID == 0

\* Session slots are interchangeable.
MCSymmetry == Permutations(MCSessions)
=============================================================================
