----------------------------- MODULE MCCourses -----------------------------
(* Values of the constants of Courses for TLC.                             *)
EXTENDS Courses

MCSequence == <<1, 2>>
=============================================================================
