---------------------------- MODULE RaceContract ----------------------------
(***************************************************************************)
(* What a race promises its two players, without bytes, buttons or         *)
(* timers: each goes through the stages of a race, both race on the same   *)
(* words, and a player is told "Lost" only when the other has completed    *)
(* those words.  Race implements it when the cable loses nothing and the   *)
(* players are patient, committed and attentive (Race!ImplementsContract). *)
(***************************************************************************)
EXTENDS Integers

CONSTANTS
    Peer,       \* the two players
    Words,      \* the texts two seeds can give
    NoWords     \* before and after a race

VARIABLES
    stage,      \* where each player is
    words,      \* what each player has to type
    completed   \* the words each player has last completed

Stage == {"away", "lobby", "countdown", "typing", "won", "lost"}

InRace(p) == stage[p] \in {"countdown", "typing", "won", "lost"}

Opponent(p) == CHOOSE q \in Peer : q # p

Init ==
    /\ stage = [p \in Peer |-> "away"]
    /\ words = [p \in Peer |-> NoWords]
    /\ completed = [p \in Peer |-> NoWords]

Move(p, s, w) ==
    /\ stage' = [stage EXCEPT ![p] = s]
    /\ words' = [words EXCEPT ![p] = w]

Arrive(p) == stage[p] = "away" /\ Move(p, "lobby", NoWords) /\ UNCHANGED completed

Leave(p) == stage[p] # "away" /\ Move(p, "away", NoWords) /\ UNCHANGED completed

(* Back to the lobby: a new race after a finished one, or an opponent who  *)
(* is gone.                                                                *)
BackToLobby(p) ==
    /\ InRace(p)
    /\ stage[p] \in {"won", "lost"} \/ stage[Opponent(p)] = "away"
    /\ Move(p, "lobby", NoWords)
    /\ UNCHANGED completed

(* The first to begin sets the words, the second gets the same; nobody     *)
(* begins while the opponent is already typing or done.                    *)
Begin(p, w) ==
    /\ stage[p] = "lobby"
    /\ stage[Opponent(p)] \in {"away", "lobby", "countdown"}
    /\ InRace(Opponent(p)) => words[Opponent(p)] = w
    /\ Move(p, "countdown", w)
    /\ UNCHANGED completed

(* Nobody types while the opponent, if present, still sits in the lobby.   *)
Start(p) ==
    /\ stage[p] = "countdown"
    /\ stage[Opponent(p)] # "lobby"
    /\ Move(p, "typing", words[p])
    /\ UNCHANGED completed

Win(p) ==
    /\ stage[p] = "typing"
    /\ Move(p, "won", words[p])
    /\ completed' = [completed EXCEPT ![p] = words[p]]

Lose(p) ==
    /\ stage[p] = "typing"
    /\ completed[Opponent(p)] = words[p]
    /\ Move(p, "lost", words[p])
    /\ UNCHANGED completed

Next ==
    \E p \in Peer :
        \/ Arrive(p) \/ Leave(p) \/ BackToLobby(p)
        \/ \E w \in Words : Begin(p, w)
        \/ Start(p) \/ Win(p) \/ Lose(p)

vars == <<stage, words, completed>>

Spec == Init /\ [][Next]_vars
=============================================================================
