--------------------------- MODULE MCFedScheduler ---------------------------
(* Instances of FedScheduler for TLC. *)
EXTENDS FedScheduler, TLC

\* Shadow mode or drive cycles, with a reliable or a failing store.  The clock
\* stands still where drive cycles meet a failing store.
Mode(drive, fails, maxTime) ==
    [drive |-> drive, fails |-> fails, maxTime |-> maxTime]

AllModes == {Mode(FALSE, FALSE, 1), Mode(FALSE, TRUE, 1),
             Mode(TRUE, FALSE, 1), Mode(TRUE, TRUE, 0)}

Symmetric == Permutations(Dest) \cup Permutations(Driver)

=============================================================================
