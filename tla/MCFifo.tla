------------------------------- MODULE MCFifo --------------------------------
(* The FIFO and its wrapper with four words of RAM and two data values.    *)
EXTENDS FifoFwft
=============================================================================
