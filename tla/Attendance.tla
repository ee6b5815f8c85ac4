----------------------------- MODULE Attendance -----------------------------
(***************************************************************************)
(* The attendance statuses of a row of the table trip_passenger and the    *)
(* groups of statuses the handlers' SQL tests for.  Shared by every module *)
(* that reads or writes the manifest.  "absent" stands for no row: the     *)
(* UNIQUE (trip_id, employee_id) constraint allows one row per pair.       *)
(***************************************************************************)
EXTENDS FiniteSets

Absent == "absent"

\* The CHECK constraint on trip_passenger.status.
PassengerStatus ==
    {"expected", "on_the_way", "boarded", "no_show", "excused", "on_leave", "removed"}

\* status IN ('expected','on_the_way'): whom the driver still waits for.
Awaited == {"expected", "on_the_way"}

\* status IN ('expected','on_the_way','boarded'): who counts against capacity.
OnManifest == Awaited \cup {"boarded"}

\* The employees of one trip's manifest row function who count as occupants.
Occupants(row) == {e \in DOMAIN row : row[e] \in OnManifest}
=============================================================================
