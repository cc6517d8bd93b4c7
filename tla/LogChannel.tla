----------------------------- MODULE LogChannel -----------------------------
(***************************************************************************)
(* What MessirLogger::Logger promises to the threads that log through it,  *)
(* whatever its mode: a record that Log_entry has taken in is handed to    *)
(* the targets exactly once, and records reach the targets in the order in *)
(* which they were taken in.  Nothing is said of threads, of the mutex, of *)
(* the semaphore or of the life cycle: module Logger is shown to implement *)
(* this specification.                                                     *)
(***************************************************************************)
EXTENDS Naturals, Sequences

CONSTANT Record             \* the values a log record can have

VARIABLES accepted,         \* the records taken in by Log_entry, in order
          delivered         \* the records handed to the targets, in order

vars == <<accepted, delivered>>

Init ==
    /\ accepted = <<>>
    /\ delivered = <<>>

(* Log_entry takes a record in.                                            *)
Accept ==
    /\ \E r \in Record : accepted' = Append(accepted, r)
    /\ UNCHANGED delivered

(* The oldest record that no target has seen yet is handed to the targets. *)
Deliver ==
    /\ Len(delivered) < Len(accepted)
    /\ delivered' = Append(delivered, accepted[Len(delivered) + 1])
    /\ UNCHANGED accepted

Next == Accept \/ Deliver

Spec == Init /\ [][Next]_vars

=============================================================================
