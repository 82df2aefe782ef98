----------------------------- MODULE MCChannels -----------------------------
(***************************************************************************)
(* Channels with two networks, the status name and one other: three        *)
(* channels let one network have two and let a channel that was left be    *)
(* joined again.  Networks are interchangeable.                            *)
(***************************************************************************)
EXTENDS Channels, TLC

CONSTANTS A, B

MCClient == {A, B}
MCSymmetry == Permutations(MCClient)
=============================================================================
