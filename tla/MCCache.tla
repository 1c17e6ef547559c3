------------------------------ MODULE MCCache --------------------------------
(* Constants for small instances of Cache.                                 *)
EXTENDS Cache, TLC

\* every byte enable: single bytes, and for two lanes the whole word
AllPatterns == SUBSET Lanes \ {{}}

\* neither lanes nor tags are told apart by anything but their names
Alike == Permutations(Lanes) \cup Permutations(Tags)
=============================================================================
