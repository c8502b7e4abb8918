------------------------- MODULE MCPlatformActivation -------------------------
(* Two platforms, one of each kind, each with tokens; and a token of a      *)
(* platform the coins file does not hold.                                   *)
EXTENDS PlatformActivation

CONSTANTS BCH, ATOM, IRIS, SLP1, SLP2, IBC1, ORPHAN

MCParent == [c \in Coins |-> CASE c \in {SLP1, SLP2} -> BCH
                               [] c = IBC1 -> ATOM
                               [] c = ORPHAN -> IRIS
                               [] OTHER -> c]

\* One coin, a coin with its platform, coins of two platforms.
MCRequests == {{BCH}, {SLP1}, {BCH, SLP1}, {ATOM, IBC1}, {IBC1, ORPHAN}}
=============================================================================
