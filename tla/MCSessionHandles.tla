--------------------------- MODULE MCSessionHandles --------------------------
(* Small instances of SessionHandles. *)
EXTENDS SessionHandles, TLC

\* Processes are interchangeable, and so are handles.
Symmetry == Permutations(Procs) \cup Permutations(Handles)

\* Bound: one flush() call in all.
OneFlush == \A g, h \in Handles : flush[g].st # "none" /\ flush[h].st # "none" => g = h

\* The properties of the run speak of histories without a stray drain.
NotStray == ~stray
==============================================================================
