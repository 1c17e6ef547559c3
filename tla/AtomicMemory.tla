---------------------------- MODULE AtomicMemory -----------------------------
(***************************************************************************)
(* What the program running on the processor may assume of its data        *)
(* memory: its accesses happen one at a time and in order.  A store        *)
(* changes the bytes it names and nothing else, a load returns the word as *)
(* the stores before it have left it, and nothing else changes the memory. *)
(***************************************************************************)
CONSTANTS Address,   \* word addresses
          Lanes,     \* the byte lanes of a word
          Bytes      \* the values of a byte

VARIABLES req,       \* the access the program is at: a store (memwrite), a load, or none
          mem,       \* the words
          result     \* the address and the word of the latest load, if any

Word == [Lanes -> Bytes]

Merge(old, new, lanes) == [l \in Lanes |-> IF l \in lanes THEN new[l] ELSE old[l]]

Init == /\ ~req.memwrite /\ ~req.load
        /\ mem \in [Address -> Word]
        /\ result = << >>

\* with every step the program may go on to its next access, whatever it is,
Store == /\ req.memwrite
         /\ mem' = [mem EXCEPT ![req.address] = Merge(@, req.wrdata, req.byteena)]
         /\ UNCHANGED result

Load == /\ req.load
        /\ result' = << req.address, mem[req.address] >>
        /\ UNCHANGED mem

\* except that a load is not left before its word is there
Wait == /\ ~req.memwrite
        /\ req.load => req'.load /\ req'.address = req.address
        /\ UNCHANGED << mem, result >>

Next == Store \/ Load \/ Wait

Spec == Init /\ [][Next]_<< req, mem, result >>
=============================================================================
