------------------------------ MODULE MCTyping ------------------------------
(* Typing and its picture on a letter and the space.  With three columns   *)
(* the first text is a single key, the second fits on a line, and the      *)
(* third breaks at its space.  They are generated from a dictionary of two *)
(* words.  Longer texts are only laid out: MCLayout compares the pen with  *)
(* the greedy line breaking on all of them, and MCGeneration what          *)
(* generateText leaves in its buffers with the words it chose.             *)
EXTENDS DrawnText, SequencesExt

CONSTANTS a, sp, cr, lf

Generator == INSTANCE TextGen WITH Space <- sp, RandMax <- 5, MaxWords <- 3

MCLines == <<<<a, cr, lf>>, <<a, a, cr, lf>>>>
MCDictionary == Generator!loadDictionary(MCLines)

MCChar == {a, sp}
MCTexts == {Generator!Generated(MCDictionary, randoms).text :
              randoms \in {<<0>>, <<1, 2>>, <<3, 0>>}}

(* Every number random() can return but the last chooses a word, every     *)
(* word is chosen, and lines beyond MAX_WORD_AMMOUNT are not read.         *)
MCRandoms == UNION {[1..n -> 0..4] : n \in 0..4}

ASSUME MCGeneration ==
    /\ \A randoms \in MCRandoms : Generator!Right(MCDictionary, randoms)
    /\ \A n \in 1..3 : {Generator!Index(random, n) : random \in 0..4} = 1..n
    /\ Generator!loadDictionary(MCLines \o MCLines) = <<<<a>>, <<a, a>>, <<a>>>>

PenAt(text, i) ==
    FoldLeft(LAMBDA pen, k : MovePen(text, pen, k), StartPen(text), [k \in 1..(i - 1) |-> k])

BreaksOf(text) == {i \in DOMAIN text : Breaks(text, PenAt(text, i), i)}

MCWords == {<<a>>, <<a, a>>, <<a, a, a>>, <<a, a, a, a>>}
MCPhrases == {x \o <<sp>> \o y : x \in MCWords, y \in MCWords}
MCLayouts == MCPhrases \cup {x \o <<sp>> \o y : x \in MCPhrases, y \in MCPhrases}

ASSUME MCLayout ==
    \A text \in MCLayouts :
        /\ Greedy(text, BreaksOf(text))
        /\ \A i \in DOMAIN text : PlaceOf(BreaksOf(text), i) =
                                   [col |-> PenAt(text, i).col, row |-> PenAt(text, i).row]
=============================================================================
