------------------------------- MODULE MCLink -------------------------------
(* Link with one event that is answered, one that is not, a long and a     *)
(* short type, and values with and without codes among their bytes.        *)
EXTENDS Link

MCEvents == {INFO_READY, INFO_WON}
MCTypes == {INFO_ULONG, INFO_UINT}
MCFill == {7, INFO_ULONG}
=============================================================================
