---------------------------- MODULE MCNameSystem ----------------------------
(* Instances of NameSystem: two names, entries of each combination of fields. *)
EXTENDS NameSystem

Entry(buy, o, b, v) == [buy |-> buy, owner |-> o, backup_owner |-> b, encrypted_value |-> v]

MCBuys == {Entry(TRUE, 1, 0, 1), Entry(TRUE, 1, 2, 1)}

MCUpdates == {Entry(FALSE, 3, 0, 0), Entry(FALSE, 0, 0, 2)}

\* Updates that set the backup owner too.
MCAnyUpdates == {Entry(FALSE, 3, 4, 2), Entry(FALSE, 0, 0, 3)}
=============================================================================
