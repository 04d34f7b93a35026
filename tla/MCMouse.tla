------------------------------- MODULE MCMouse -------------------------------
(* Mouse with movements whose bytes look like a first byte (8, -1) or not  *)
(* (0, -256), of both signs, and each flag of the first byte.              *)
EXTENDS Mouse

MCReports ==
    [dx : {-256, -1, 0, 8}, dy : {-256, -1, 8}, flags : {{}, {"lb", "y_ov"}, {"rb", "mb", "x_ov"}}]
=============================================================================
