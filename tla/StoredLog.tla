----------------------------- MODULE StoredLog -----------------------------
(***************************************************************************)
(* What the persistence seam promises of one stored session               *)
(* (packages/session/session-persistence/src/index.ts and handle.ts): the  *)
(* log is only ever extended, and a failure may take back the end of it    *)
(* but never an event whose write was acknowledged.                        *)
(***************************************************************************)
EXTENDS Naturals

VARIABLES
    stored,     \* how many events a reader of the artifact finds
    durable     \* how many of them were acknowledged to a writer

vars == <<stored, durable>>

Init == stored = 0 /\ durable = 0

\* A write lands, and may be acknowledged.
Extend == stored' >= stored /\ durable' >= durable /\ durable' <= stored'

\* A failed or torn write is taken back, up to what was acknowledged.
Discard == stored' < stored /\ durable <= stored' /\ UNCHANGED durable

Next == Extend \/ Discard

Spec == Init /\ [][Next]_vars
=============================================================================
