------------------------------ MODULE TextGen ------------------------------
(***************************************************************************)
(* Where the texts come from: loadDictionary in data/data.c and the loop   *)
(* of generateText in typing/typing.c.  Pure functions: the module Typing  *)
(* takes their results as the set Texts.  Quotients are exact here; in the *)
(* code they are floats, so that numbers just below RAND_MAX behave like   *)
(* RAND_MAX, for which there is no word.                                   *)
(***************************************************************************)
EXTENDS Integers, SequencesExt

CONSTANTS
    Space,      \* the character ' '
    RandMax,    \* RAND_MAX
    MaxWords    \* MAX_WORD_AMMOUNT

(* Every line of the file loses the two characters that end it.            *)
WordOf(line) == SubSeq(line, 1, Len(line) - 2)

loadDictionary(lines) ==
    [i \in 1..(IF Len(lines) < MaxWords THEN Len(lines) ELSE MaxWords) |-> WordOf(lines[i])]

(* The place of a word, counted from one.                                  *)
Index(random, dictionarySize) == 1 + (random * dictionarySize) \div RandMax

(* generatedText while it grows: what the string holds, and the size the   *)
(* buffer was allocated with, which every strcat relies on.                *)
Start(wordAmount) == [text |-> <<>>, size |-> IF wordAmount = 0 THEN 1 ELSE 0, fits |-> TRUE]

AddWord(buffer, word) ==
    LET size == buffer.size + Len(word) + 1
        text == (IF buffer.size = 0 THEN <<>> ELSE Append(buffer.text, Space)) \o word
    IN [text |-> text, size |-> size, fits |-> buffer.fits /\ Len(text) + 1 <= size]

(* generateText(Len(randoms), seed), where randoms are the numbers         *)
(* random() returns for the seed.                                          *)
Generated(dictionary, randoms) ==
    FoldLeft(LAMBDA buffer, random : AddWord(buffer, dictionary[Index(random, Len(dictionary))]),
             Start(Len(randoms)), randoms)

(* typedText has the size of the text with its 0, mistakes one less.       *)
GeneratedTextSize(dictionary, randoms) == Generated(dictionary, randoms).size - 1

-----------------------------------------------------------------------------
(* What the loop is for, said without sizes: the words and single spaces   *)
(* between them, in buffers that hold exactly that.                        *)
Joined(words) ==
    FoldLeft(LAMBDA text, i : text \o (IF i = 1 THEN <<>> ELSE <<Space>>) \o words[i],
             <<>>, [i \in DOMAIN words |-> i])

Right(dictionary, randoms) ==
    LET buffer == Generated(dictionary, randoms)
        words == [i \in DOMAIN randoms |-> dictionary[Index(randoms[i], Len(dictionary))]]
    IN /\ buffer.fits
       /\ buffer.text = Joined(words)
       /\ GeneratedTextSize(dictionary, randoms) = Len(buffer.text)
=============================================================================
