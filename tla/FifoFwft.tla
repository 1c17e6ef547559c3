------------------------------ MODULE FifoFwft -------------------------------
(***************************************************************************)
(* fifo_1c1r1w_fwft.vhd: the FIFO of Fifo1c1r1w behind a first-word-fall-  *)
(* through output.  The wrapper reads ahead, so that the oldest word waits *)
(* on rd_data with rd_valid set until the user acknowledges it.            *)
(***************************************************************************)
EXTENDS Fifo1c1r1w, SequencesExt

VARIABLE rd_valid   \* the wrapper's only register

vars == << fifoVars, rd_valid >>

FwftInit == Init /\ rd_valid = FALSE

RdAlways(rd_ack) == ~empty              \* a mutant: rd_valid ignored
RdOnAck(rd_ack)  == ~empty /\ rd_ack    \* a mutant: no read-ahead

\* the read request derived for the inner FIFO
Rd(rd_ack) == ~empty /\ (rd_ack \/ ~rd_valid)

\* a mutant: the last word stays valid after its acknowledgement
FwftTickStale(wr, rd_ack, wr_data) ==
  /\ Tick(wr, Rd(rd_ack), wr_data)
  /\ rd_valid' = IF Rd(rd_ack) \/ rd_ack THEN TRUE ELSE rd_valid

FwftTick(wr, rd_ack, wr_data) ==
  /\ Tick(wr, Rd(rd_ack), wr_data)
  /\ rd_valid' = IF Rd(rd_ack) \/ rd_ack THEN ~empty ELSE rd_valid

\* A clock edge.  Only the write port has a rule to obey; rd_ack is free.
Clock(rd_ack) == \E wr \in BOOLEAN, d \in Data : (wr => ~full) /\ FwftTick(wr, rd_ack, d)

FwftNext == \E rd_ack \in BOOLEAN : Clock(rd_ack)

FwftSpec == FwftInit /\ [][FwftNext]_vars

-----------------------------------------------------------------------------
\* The values the registers take.
FwftTypeOK == TypeOK /\ rd_valid \in BOOLEAN

(***************************************************************************)
(* The word shown on the output counts as stored until it is acknowledged. *)
(***************************************************************************)
Items == (IF rd_valid THEN << rd_data >> ELSE << >>) \o Contents

(***************************************************************************)
(* Words appear on rd_data/rd_valid in the order they were written, each   *)
(* once, whenever rd_ack comes: with the output register the FIFO holds    *)
(* Size + 1 words.                                                         *)
(***************************************************************************)
ShowAhead == INSTANCE BoundedFifo WITH items <- Items, Capacity <- Size + 1
IsShowAheadFifo == ShowAhead!Spec

(***************************************************************************)
(* A clock edge without rd_ack takes nothing out: whatever was stored or   *)
(* shown before is still there, in front.  No read-ahead overwrites a word *)
(* the user has not acknowledged.                                          *)
(***************************************************************************)
NothingLeavesUnacked == [][Clock(FALSE) => IsPrefix(Items, Items')]_vars

(***************************************************************************)
(* A word stored in the inner FIFO falls through at the next clock edge,   *)
(* whether the reader does anything or not: the output is valid then, with *)
(* that word or with one before it.                                        *)
(***************************************************************************)
FallsThrough == [][Contents # << >> => rd_valid']_vars
=============================================================================
