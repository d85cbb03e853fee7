----------------------------- MODULE MCChannels -----------------------------
(***************************************************************************)
(* Nicknames can be exchanged for each other, and names of channels.       *)
(***************************************************************************)
EXTENDS Channels, TLC

MCSymmetry == Permutations(Nicks) \union Permutations(Names)
=============================================================================
