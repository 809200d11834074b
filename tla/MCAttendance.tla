---------------------------- MODULE MCAttendance ----------------------------
(* Instances of Attendance for TLC: model values and their symmetry.       *)
EXTENDS Attendance, TLC

Symmetry == Permutations(Student) \cup Permutations(Token) \cup Permutations(Request)
=============================================================================
