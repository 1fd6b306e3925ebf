------------------------------- MODULE MCInbox -------------------------------
(* Inbox for TLC: two users, of whom one may have two tabs open.           *)
EXTENDS Inbox, TLC

CONSTANTS ann, bob

MCUsers == {ann, bob}

MCToggled == {bob}

MCAudiences == { {ann}, {ann, bob} }

MCJustAnn == { {ann} }

Symmetry == Permutations(Sockets) \cup Permutations(Calls)
=============================================================================
