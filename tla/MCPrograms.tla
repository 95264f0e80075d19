------------------------------- MODULE MCPrograms -------------------------------
(* The programs as built for OS X with an X server.                             *)
EXTENDS Programs

TwoLocals == <<"cgl", "glx">>

================================================================================
