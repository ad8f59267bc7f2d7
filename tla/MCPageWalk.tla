----------------------------- MODULE MCPageWalk -----------------------------
(* Small instances of PageWalk for TLC. *)
EXTENDS PageWalk

CONSTANTS o1, o2

MCOwner == {o1, o2}
MCSoleOwner == {o1}

\* No size, one below, two within and one above the admitted range.
MCSizes == {Absent, 0, 1, 3}

\* No cursor, one without a positive id, which does not decode, and one that may
\* or may not be the id of a row.
MCCursors == {Absent, 0, 2}

\* A client that asks for pages of one row and takes its cursors from links.
MCSizeOne   == {1}
MCNoCursors == {Absent}
=============================================================================
