------------------------------ MODULE MCProgram ------------------------------
(* Program with a cursor that can reach every button, with points that are *)
(* buttons on two screens and in two resolutions, and one pair of points   *)
(* close enough to be one click.  The mode the program starts with has     *)
(* every button but main's Training under one of the points; 1152 x 864    *)
(* and 1280 x 1024 have it, where settings has its first.                  *)
EXTENDS Program

MCPoints ==
    {[x |-> 200, y |-> y] : y \in {200, 300, 390, 470}} \cup
    {[x |-> 400, y |-> y] : y \in {300, 400, 412, 470}} \cup
    {[x |-> 600, y |-> 300], [x |-> 700, y |-> 400]}
=============================================================================
