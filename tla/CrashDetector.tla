---------------------------- MODULE CrashDetector ----------------------------
(***************************************************************************)
(* CrashDetector (crash_detector.rs): a state file that counts startups in *)
(* quick succession.  (The last configuration that worked, kept in a file  *)
(* beside it, decides no step of the process and is left out.)             *)
(*                                                                         *)
(* The times in the file are reduced to one fact per startup: whether it   *)
(* is near, less than 60 s after the one the file records.  (The first     *)
(* startup of a count is then never 300 s ago, so the branch of            *)
(* check_and_record_startup that starts a new five-minute window at count  *)
(* two is never taken.)  No error of a read, a write or a removal is       *)
(* reported to anybody.                                                    *)
(***************************************************************************)
EXTENDS Naturals

VARIABLES
  count,     \* crash_count of the state file; 0: there is none that parses
  recorded   \* its startup_timestamp_ms is that of the last startup

crashVars == <<count, recorded>>

Limit == 3

\* std::fs::write truncates the file, then writes it: what it leaves is the
\* new content, the old one (it could not open the file), or a torn one.
Outcomes == {"written", "kept", "torn"}

\* The count of this startup when the last one read is seen.
Counted(seen, near) == IF seen > 0 /\ near THEN seen + 1 ELSE 1

\* Whether it completes a crash loop; then nothing is written.
Loops(seen, near) == Counted(seen, near) >= Limit

\* What is seen may be nothing even where there is a count: a failed read.
CheckAndRecordStartup(seen, near, outcome) ==
  IF Loops(seen, near) THEN count' = count /\ recorded' = FALSE
  ELSE \/ outcome = "written" /\ count' = Counted(seen, near) /\ recorded' = TRUE
       \/ outcome = "kept" /\ count' = count /\ recorded' = FALSE
       \/ outcome = "torn" /\ count' = 0 /\ recorded' = FALSE

\* clear's removal of the state file, which may fail.
Clear == \/ count' = 0 /\ recorded' = FALSE
         \/ UNCHANGED crashVars

Init == count = 0 /\ recorded = FALSE
=============================================================================
