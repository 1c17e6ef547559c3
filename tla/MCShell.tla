------------------------------ MODULE MCShell -------------------------------
(***************************************************************************)
(* Two terminals of one user.  What --scp does not share with -t is not    *)
(* modelled, and the two have no use for a mode.                           *)
(***************************************************************************)
EXTENDS RpaShell

CONSTANTS s1, s2

MCShells  == {s1, s2}
MCOptions == {o \in CommandLines : o.run # "--scp" /\ (o.run = "-t" => o.mode = "")}
=============================================================================
