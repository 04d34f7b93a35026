------------------------------ MODULE Channel -------------------------------
(***************************************************************************)
(* What the serial driver promises to the program above it: messages may   *)
(* be lost, but those delivered are whole, at most once and in the order   *)
(* of sending, except that each fault of the line or of a machine may cost *)
(* one wrong delivery, not more.  The promise holds for values whose bytes *)
(* are not codes of the protocol; once another value was sent ("coded")    *)
(* nothing is promised any more.  Link implements it.                      *)
(***************************************************************************)
EXTENDS Integers

VARIABLES
    sent,     \* how many messages were sent
    last,     \* the number of the last message delivered
    credit,   \* faults that have not yet cost a delivery
    coded     \* a value with a code among its bytes was sent

vars == <<sent, last, credit, coded>>

Init == sent = 0 /\ last = 0 /\ credit = 0 /\ coded = FALSE

Send ==
    /\ sent' = sent + 1
    /\ coded \in {FALSE, coded'}
    /\ coded' \in BOOLEAN
    /\ UNCHANGED <<last, credit>>

Deliver ==
    /\ last' \in (last + 1)..sent
    /\ UNCHANGED <<sent, credit, coded>>

Fault ==
    /\ credit' = credit + 1
    /\ UNCHANGED <<sent, last, coded>>

(* A torn value, or an event that was not sent, or not again.              *)
WrongDelivery ==
    /\ credit > 0 \/ coded
    /\ credit' = credit - 1
    /\ UNCHANGED <<sent, last, coded>>

Next == Send \/ Deliver \/ Fault \/ WrongDelivery

Spec == Init /\ [][Next]_vars
=============================================================================
