---------------------------- MODULE RaceImplements ----------------------------
(***************************************************************************)
(* Race implements RaceContract, for every pair of machines, seeds, widths *)
(* and timeouts, when the cable loses nothing and the players are patient, *)
(* committed and attentive.                                                *)
(*                                                                         *)
(* A step moves one machine.  What its handler changes of what the player  *)
(* sees is found from the handler alone (section 1).  Whether the contract *)
(* allows that move depends on the opponent, and here the invariants of    *)
(* RaceAgreement are used, before the step and after it (section 2): the   *)
(* bytes under way are none that would start a race alone, end one that    *)
(* the opponent has not won, or leave the lobby behind (the steps: section *)
(* 3).  The same knowledge of the bytes shows on which of the opponent's   *)
(* requests a race begins (section 4).                                     *)
(***************************************************************************)
EXTENDS RaceAgreement

(* 1. What a handler changes of what the player sees.                      *)

(* The stage of a machine and what its player has to type (Race!Stage). *)
StageOf(s) ==
    CASE s.app = "mainState" -> "away"
      [] s.app # "mainState" /\ s.status = "unready" -> "lobby"
      [] s.app # "mainState" /\ s.status = "ready" -> "countdown"
      [] s.app # "mainState" /\ s.status = "typing" -> "typing"
      [] s.app # "mainState" /\ s.status = "finished" /\ s.won -> "won"
      [] OTHER -> "lost"

WordsOf(s) == IF StageOf(s) = "away" THEN NoText ELSE s.text

(* The stages of a machine, by screen and status. *)
LEMMA Stages ==
  ASSUME NEW s \in Machine
  PROVE  /\ Here(s) \/ s.app = "mainState"
         /\ StageOf(s) = "away" <=> ~Here(s)
         /\ StageOf(s) = "lobby" <=> Here(s) /\ ~Busy(s)
         /\ StageOf(s) = "countdown" <=> Here(s) /\ s.status = "ready"
         /\ StageOf(s) = "typing" <=> Here(s) /\ s.status = "typing"
         /\ StageOf(s) = "won" <=> Here(s) /\ s.status = "finished" /\ s.won
         /\ StageOf(s) = "lost" <=> Here(s) /\ s.status = "finished" /\ ~s.won
         /\ Here(s) => WordsOf(s) = s.text
         /\ ~Here(s) => WordsOf(s) = NoText
<1>1. s.app \in {"mainState", "raceState"} /\ s.won \in BOOLEAN
      /\ s.status \in {"unready", "ready", "typing", "finished"}
  BY DEF Machine
<1>2. CASE s.app = "mainState"
  BY <1>2 DEF StageOf, WordsOf, Here
<1>3. CASE s.app = "raceState"
  BY <1>1, <1>3 DEF StageOf, WordsOf, Here, Busy
<1>. QED
  BY <1>1, <1>2, <1>3

(* What the player sees stays. *)
Looks(s, u) == u.app = s.app /\ u.status = s.status /\ u.text = s.text /\ u.won = s.won

(* Its own seed is what it was, or gone. *)
KeepsSeed(s, u) == u.seedMe \in {0, s.seedMe}

(* The last byte of an unsigned long. *)
EndsSeed(s) == s.receiving = INFO_ULONG /\ Len(s.bits) + 1 >= LongLen

(* The effect of a byte on what the player sees and on the seeds. *)
ByteShows(s, byte, u) ==
    /\ u.app = s.app
    /\ KeepsSeed(s, u)
    /\ \/ u.seedYou \in {0, s.seedYou}
       \/ EndsSeed(s) /\ u.seedYou = SeedValue(Append(s.bits, byte))
    /\ \/ Looks(s, u)
       \/ u.status = "ready"
       \/ s.status = "typing" /\ u.status = "finished" /\ ~u.won /\ u.text = s.text
       \/ Waits(s) /\ byte = INFO_EXIT /\ u.status = "unready" /\ u.text = NoText

(* checkIfReady starts a race or shows nothing. *)
LEMMA CheckShows ==
  ASSUME NEW s \in Machine
  PROVE  LET u == checkIfReady(s)
         IN  /\ u.app = s.app /\ u.seedMe = s.seedMe /\ u.seedYou = s.seedYou
             /\ Looks(s, u) \/ u.status = "ready"
<1>1. DOMAIN s = Fields
  BY FieldTyped
<1>. QED
  BY <1>1 DEF checkIfReady, Looks, Fields

(* An answer does no more. *)
LEMMA AnswerShows ==
  ASSUME NEW s \in Machine, NEW byte
  PROVE  LET u == readAnswer(s, byte).s
         IN  /\ u.app = s.app /\ KeepsSeed(s, u) /\ u.seedYou = s.seedYou
             /\ Looks(s, u) \/ u.status = "ready"
<1> DEFINE done(t) == [t EXCEPT !.waitingAck = FALSE]
           ready   == [s EXCEPT !.readyMe = TRUE]
           nready  == AnswerNReady(s)
           Shows(u) == /\ u.app = s.app /\ KeepsSeed(s, u) /\ u.seedYou = s.seedYou
                       /\ Looks(s, u) \/ u.status = "ready"
<1>1. \A t \in Machine : LET u == done(t)
                         IN  /\ u.app = t.app /\ u.status = t.status /\ u.text = t.text
                             /\ u.won = t.won /\ u.seedMe = t.seedMe /\ u.seedYou = t.seedYou
  BY DEF Machine
<1>2. Shows(s) /\ Shows(done(s))
  BY <1>1 DEF Looks, KeepsSeed
<1>3. Shows(done(AnswerReady(s)))
  <2>1. /\ ready \in Machine /\ ready.app = s.app /\ ready.status = s.status
        /\ ready.text = s.text /\ ready.won = s.won /\ ready.seedMe = s.seedMe
        /\ ready.seedYou = s.seedYou
    BY DEF Machine
  <2>. HIDE DEF ready, done
  <2>2. checkIfReady(ready) \in Machine /\ AnswerReady(s) = checkIfReady(ready)
    BY <2>1, CheckTyped DEF AnswerReady, ready
  <2>. QED
    BY <1>1, <2>1, <2>2, CheckShows DEF Looks, KeepsSeed
<1>4. Shows(done(nready))
  <2>1. /\ nready \in Machine /\ nready.app = s.app /\ nready.status = s.status
        /\ nready.text = s.text /\ nready.won = s.won /\ nready.seedMe = 0
        /\ nready.seedYou = s.seedYou
    BY DEF Machine, AnswerNReady
  <2>. HIDE DEF nready, done
  <2>. QED
    BY <1>1, <2>1 DEF Looks, KeepsSeed
<1>5. readAnswer(s, byte).s \in {s, done(s), done(AnswerReady(s)), done(nready)}
  BY DEF readAnswer, Quiet, Clear
<1>. HIDE DEF Shows, done, nready
<1>6. Shows(readAnswer(s, byte).s)
  BY <1>2, <1>3, <1>4, <1>5
<1>. QED
  BY <1>6 DEF Shows

(* A code outside a value ends a race that is being typed, when it says    *)
(* that the opponent has won, or puts the machine back, when it says that  *)
(* the opponent has left; otherwise it shows nothing or starts a race.     *)
LEMMA EventShows ==
  ASSUME NEW s \in Machine, Waits(s), NEW byte
  PROVE  ByteShows(s, byte, readEvent(s, byte).s)
<1> DEFINE u == readEvent(s, byte).s
<1>1. /\ Asks(s, byte) => ~TakesBack(s, byte) /\ ~OpponentWins(s, byte) /\ byte # INFO_EXIT
      /\ TakesBack(s, byte) => ~OpponentWins(s, byte) /\ byte # INFO_EXIT
      /\ OpponentWins(s, byte) => byte # INFO_EXIT
  BY DEF Asks, TakesBack, OpponentWins, INFO_READY, INFO_NREADY, INFO_WON, INFO_EXIT,
         INFO_BITS
<1>2. CASE Asks(s, byte)
  <2>1. u = [s EXCEPT !.readyYou = TRUE, !.waitingForSeed = TRUE]
    BY <1>1, <1>2 DEF readEvent, Reply
  <2>. HIDE DEF u
  <2>2. Looks(s, u) /\ u.seedMe = s.seedMe /\ u.seedYou = s.seedYou
    BY <2>1 DEF Looks, Machine
  <2>. QED
    BY <2>2 DEF ByteShows, Looks, KeepsSeed, u
<1>3. CASE ~Asks(s, byte) /\ TakesBack(s, byte)
  <2>1. u = [s EXCEPT !.readyYou = FALSE]
    BY <1>1, <1>3 DEF readEvent, Reply
  <2>. HIDE DEF u
  <2>2. Looks(s, u) /\ u.seedMe = s.seedMe /\ u.seedYou = s.seedYou
    BY <2>1 DEF Looks, Machine
  <2>. QED
    BY <2>2 DEF ByteShows, Looks, KeepsSeed, u
<1>4. CASE ~Asks(s, byte) /\ ~TakesBack(s, byte) /\ OpponentWins(s, byte)
  <2> DEFINE v == [s EXCEPT !.status = "finished", !.won = FALSE]
  <2>1. /\ v \in Machine /\ v.app = s.app /\ v.status = "finished" /\ ~v.won
        /\ v.text = s.text /\ v.seedMe = s.seedMe /\ v.seedYou = s.seedYou
    BY DEF Machine
  <2>2. u = readAnswer(v, byte).s
    BY <1>1, <1>4 DEF readEvent
  <2>3. s.status = "typing"
    BY <1>4 DEF OpponentWins
  <2>. HIDE DEF u, v
  <2>4. /\ u.app = v.app /\ KeepsSeed(v, u) /\ u.seedYou = v.seedYou
        /\ Looks(v, u) \/ u.status = "ready"
    BY <2>1, <2>2, AnswerShows
  <2>. QED
    BY <2>1, <2>3, <2>4 DEF ByteShows, Looks, KeepsSeed, u
<1>5. CASE ~Asks(s, byte) /\ ~TakesBack(s, byte) /\ ~OpponentWins(s, byte) /\ byte = INFO_EXIT
  <2> DEFINE v == resetInfo(s)
  <2>1. v \in Machine
    BY ResetTyped
  <2>2. /\ v.app = s.app /\ v.status = "unready" /\ v.text = NoText
        /\ v.seedMe = 0 /\ v.seedYou = 0
    BY DEF resetInfo, resetRacingInfo, resetTypingInfo, Machine
  <2>3. u = readAnswer(v, byte).s
    BY <1>5 DEF readEvent, OpponentLeaves
  <2>. HIDE DEF u, v
  <2>4. /\ u.app = v.app /\ KeepsSeed(v, u) /\ u.seedYou = v.seedYou
        /\ Looks(v, u) \/ u.status = "ready"
    BY <2>1, <2>3, AnswerShows
  <2>. QED
    BY <1>5, <2>2, <2>4 DEF ByteShows, Looks, KeepsSeed, u
<1>6. CASE ~Asks(s, byte) /\ ~TakesBack(s, byte) /\ ~OpponentWins(s, byte) /\ byte # INFO_EXIT
  <2>1. u = readAnswer(s, byte).s
    BY <1>6 DEF readEvent
  <2>. HIDE DEF u
  <2>2. /\ u.app = s.app /\ KeepsSeed(s, u) /\ u.seedYou = s.seedYou
        /\ Looks(s, u) \/ u.status = "ready"
    BY <2>1, AnswerShows
  <2>. QED
    BY <2>2 DEF ByteShows, u
<1>. QED
  BY <1>2, <1>3, <1>4, <1>5, <1>6

(* A byte of a value shows nothing, or starts a race if it ends a seed. *)
LEMMA ValueShows ==
  ASSUME NEW s \in Machine, Framed(s), s.receiving \in TypedCodes, NEW byte \in Byte
  PROVE  ByteShows(s, byte, readTyped(s, byte).s)
<1> DEFINE bits == Append(s.bits, byte)
           v == [s EXCEPT !.bits = bits]
           w == ValueDone(v)
           u == readTyped(s, byte).s
<1>1. bits \in Seq(Byte) /\ Len(bits) = Len(s.bits) + 1 /\ Len(s.bits) \in Nat
  BY AppendProperties DEF Machine
<1>. HIDE DEF bits
<1>2. v \in Machine /\ Looks(s, v) /\ v.seedMe = s.seedMe /\ v.seedYou = s.seedYou
      /\ v.receiving = s.receiving /\ v.bits = bits
  <2>1. v \in Machine /\ DOMAIN s = Fields
    BY <1>1, FieldTyped
  <2>. QED
    BY <2>1 DEF Looks, Fields
<1>3. CASE ValueOpen(v)
  <2>1. u = v
    BY <1>3 DEF readTyped, Quiet, bits
  <2>. HIDE DEF u, v
  <2>. QED
    BY <1>2, <2>1 DEF ByteShows, Looks, KeepsSeed, u
<1>4. CASE ~ValueOpen(v)
  <2>. HIDE DEF v
  <2>1. w \in Machine /\ Looks(s, w) /\ w.seedMe = s.seedMe /\ w.seedYou = s.seedYou
    <3>1. DOMAIN v = Fields /\ [v EXCEPT !.receiving = INFO_ACK] \in Machine
      BY <1>2, FieldTyped
    <3>2. [[v EXCEPT !.receiving = INFO_ACK] EXCEPT !.bits = <<>>] \in Machine
      BY <3>1, FieldTyped, EmptyBytes
    <3>3. w = [[v EXCEPT !.receiving = INFO_ACK] EXCEPT !.bits = <<>>]
      BY <3>1 DEF ValueDone, Fields
    <3>. QED
      BY <1>2, <3>1, <3>2, <3>3 DEF ValueDone, Looks, Fields
  <2>. HIDE DEF w
  <2>2. CASE s.receiving # INFO_ULONG
    <3>1. u = w
      BY <1>2, <1>4, <2>2 DEF readTyped, Reply, bits, v, w
    <3>. HIDE DEF u
    <3>. QED
      BY <2>1, <3>1 DEF ByteShows, Looks, KeepsSeed, u
  <2>3. CASE s.receiving = INFO_ULONG
    <3> DEFINE n == SeedValue(bits)
    <3>1. u = takeSeed(w, n)
      BY <1>2, <1>4, <2>3 DEF readTyped, Reply, bits, v, w
    <3>2. EndsSeed(s)
      BY <1>1, <1>2, <1>4, <2>3, LenAssumption DEF EndsSeed, ValueOpen, Width, LongCodes
    <3>3. n \in Nat
      <4>1. Len(bits) = LongLen
        BY <1>1, <2>3, <3>2, LenAssumption DEF EndsSeed, Framed, Width, LongCodes
      <4>. QED
        BY <1>1, <4>1, ValueNatural
    <3>. HIDE DEF n, u
    <3>4. CASE ~w.waitingForSeed
      <4>1. u = w
        BY <3>1, <3>4 DEF takeSeed
      <4>. QED
        BY <2>1, <4>1 DEF ByteShows, Looks, KeepsSeed, u
    <3>5. CASE w.waitingForSeed
      <4>1. /\ Becomes(w, u) /\ u.seedYou = n /\ u.won = w.won /\ u.seedMe = w.seedMe
            /\ u.app = w.app
        BY <2>1, <3>1, <3>3, <3>5, TakesSeed
      <4>2. Looks(w, u) \/ u.status = "ready"
        BY <4>1 DEF Becomes, Looks
      <4>. QED
        BY <2>1, <3>2, <4>1, <4>2 DEF ByteShows, Looks, KeepsSeed, u, n, bits
    <3>. QED
      BY <3>4, <3>5
  <2>. QED
    BY <2>2, <2>3
<1>. QED
  BY <1>3, <1>4

(* Any byte. *)
LEMMA ReadShows ==
  ASSUME NEW s \in Machine, Framed(s), NEW byte \in Byte
  PROVE  ByteShows(s, byte, readByte(s, byte).s)
<1>1. CASE s.receiving \in TypedCodes
  BY <1>1, ValueShows DEF readByte
<1>2. CASE s.receiving \notin TypedCodes /\ AnnouncesValue(byte)
  <2> DEFINE u == [s EXCEPT !.receiving = byte]
  <2>1. readByte(s, byte).s = u
    BY <1>2 DEF readByte, Quiet
  <2>2. Looks(s, u) /\ u.seedMe = s.seedMe /\ u.seedYou = s.seedYou
    BY DEF Looks, Machine
  <2>. HIDE DEF u
  <2>. QED
    BY <2>1, <2>2 DEF ByteShows, Looks, KeepsSeed
<1>3. CASE s.receiving \notin TypedCodes /\ ~AnnouncesValue(byte)
  <2>1. Waits(s)
    BY <1>3 DEF Waits, Machine
  <2>2. readByte(s, byte) = readEvent(s, byte)
    BY <1>3 DEF readByte
  <2>. QED
    BY <2>1, <2>2, EventShows
<1>. QED
  BY <1>1, <1>2, <1>3

-----------------------------------------------------------------------------
(* 2. What the opponent makes of it.                                       *)

(* Between two machines on the race screen the byte read next is no notice *)
(* that one of them has left, and at the end of a seed it completes the    *)
(* opponent's.                                                             *)
LEMMA ByteOfOpponent ==
  ASSUME NEW ws, NEW wt, NEW a, NEW b \in Seq(Byte), NEW s \in Machine, NEW t \in Machine,
         InTouch(s, t, a, b, ws, wt, TRUE), b # <<>>
  PROVE  /\ Waits(s) => Head(b) # INFO_EXIT
         /\ EndsSeed(s) => SeedValue(Append(s.bits, Head(b))) = t.seedMe
<1>1. PICK f \in Phase, g \in Phase, l \in Replies, m \in Replies :
           Talk(s, t, a, b, f, g, l, m, ws, wt, TRUE)
  BY DEF InTouch
<1>2. Wire(t, s, b, g, m)
  BY <1>1 DEF Talk
<1>3. /\ INFO_EXIT \notin {INFO_READY, INFO_NREADY, INFO_ULONG, INFO_WON}
      /\ INFO_EXIT \notin {INFO_ACK, INFO_READY_ACK, INFO_NREADY_ACK}
      /\ INFO_ULONG # INFO_ACK
  BY DEF INFO_ACK, INFO_READY, INFO_NREADY, INFO_READY_ACK, INFO_NREADY_ACK, INFO_WON,
         INFO_EXIT, INFO_ULONG, INFO_BITS
<1>4. CASE g = "seed"
  <2>1. s.receiving = INFO_ULONG /\ Fits(t.seedMe) /\ Len(s.bits) < LongLen
    BY <1>2, <1>4 DEF Wire, Asked
  <2>2. ASSUME EndsSeed(s) PROVE SeedValue(Append(s.bits, Head(b))) = t.seedMe
    <3>1. Len(s.bits) + 1 = LongLen
      BY <2>1, <2>2, LenAssumption DEF EndsSeed, Machine
    <3>2. Append(s.bits, Head(b)) = SeedBytes(t.seedMe)
      BY <1>2, <1>4, <3>1, ReadsSeed
    <3>. QED
      BY <2>1, <3>2, SeedRoundTrip
  <2>. QED
    BY <1>3, <2>1, <2>2 DEF Waits
<1>5. CASE g # "seed"
  <2>1. s.receiving = INFO_ACK
    BY <1>2, <1>5 DEF Wire
  <2>2. Head(b) # INFO_EXIT
    <3>1. CASE g = "ready"
      BY <1>2, <1>3, <3>1, ReadsReady
    <3>2. CASE g = "ulong"
      <4> DEFINE u == [s EXCEPT !.receiving = INFO_ULONG]
      <4>1. u.receiving = INFO_ULONG /\ u.bits = s.bits
        BY DEF Machine
      <4>. HIDE DEF u
      <4>2. Head(b) = INFO_ULONG
        BY <1>2, <3>2, <4>1, ReadsCode
      <4>. QED
        BY <1>3, <4>2
    <3>3. CASE g = "nready"
      BY <1>2, <1>3, <3>3, ReadsNReady
    <3>4. CASE g = "none"
      <4>1. m # ""
        BY <1>2, <3>4, WireTyped
      <4>2. Head(b) = First(m)
        BY <1>2, <3>4, <4>1, ReadsReply
      <4>. QED
        BY <1>3, <4>2 DEF First
    <3>. QED
      BY <1>5, <3>1, <3>2, <3>3, <3>4 DEF Phase
  <2>. QED
    BY <1>3, <2>1, <2>2 DEF EndsSeed
<1>. QED
  BY <1>4, <1>5

(* The seeds of a machine are its own and its opponent's, and it has a     *)
(* text only out of the lobby.                                             *)
Owns(s, own, others) ==
    /\ s.seedMe \in {0} \cup own
    /\ s.seedYou \in {0} \cup others
    /\ ~Busy(s) => s.text = NoText

Owned == \A p \in Peer : Owns(peer[p], Range(Seed[p]), Range(Seed[Other(p)]))

(* A move of RaceContract: s becomes u, t being the opponent; ws becomes   *)
(* v, the text s has last won with, and wt is that of t.                   *)
Advances(s, u, t, ws, v, wt) ==
    \/ StageOf(u) = StageOf(s) /\ WordsOf(u) = WordsOf(s) /\ v = ws
    \/ StageOf(s) = "away" /\ StageOf(u) = "lobby" /\ WordsOf(u) = NoText /\ v = ws
    \/ StageOf(s) # "away" /\ StageOf(u) = "away" /\ WordsOf(u) = NoText /\ v = ws
    \/ /\ StageOf(s) \in {"countdown", "typing", "won", "lost"}
       /\ StageOf(s) \in {"won", "lost"} \/ StageOf(t) = "away"
       /\ StageOf(u) = "lobby" /\ WordsOf(u) = NoText /\ v = ws
    \/ /\ StageOf(s) = "lobby" /\ StageOf(u) = "countdown" /\ WordsOf(u) \in SeedTexts
       /\ StageOf(t) \in {"away", "lobby", "countdown"}
       /\ StageOf(t) = "countdown" => WordsOf(t) = WordsOf(u)
       /\ v = ws
    \/ /\ StageOf(s) = "countdown" /\ StageOf(u) = "typing" /\ StageOf(t) # "lobby"
       /\ WordsOf(u) = WordsOf(s) /\ v = ws
    \/ /\ StageOf(s) = "typing" /\ StageOf(u) = "won"
       /\ WordsOf(u) = WordsOf(s) /\ v = WordsOf(s)
    \/ /\ StageOf(s) = "typing" /\ StageOf(u) = "lost" /\ wt = WordsOf(s)
       /\ WordsOf(u) = WordsOf(s) /\ v = ws

(* Such a move of one machine is a step of RaceContract, or none.          *)
LEMMA AdvanceImplements ==
  ASSUME NEW p \in Peer, NEW u, NEW v, TypeOK,
         peer' = [peer EXCEPT ![p] = u], wonText' = [wonText EXCEPT ![p] = v],
         Advances(peer[p], u, peer[Other(p)], wonText[p], v, wonText[Other(p)])
  PROVE  [Contract!Next]_(Contract!vars)
<1> DEFINE stage == [x \in Peer |-> Stage(x)]
           words == [x \in Peer |-> IF Stage(x) = "away" THEN NoText ELSE peer[x].text]
           s == peer[p]
           t == peer[Other(p)]
<1>1. Other(p) \in Peer /\ Other(p) # p
  BY TwoPeers
<1>2. /\ stage[p] = StageOf(s) /\ stage[Other(p)] = StageOf(t)
      /\ words[p] = WordsOf(s) /\ words[Other(p)] = WordsOf(t)
  BY <1>1 DEF Stage, StageOf, WordsOf
<1>3. \A x \in Peer : peer'[x] = IF x = p THEN u ELSE peer[x]
  BY DEF TypeOK
<1>4. stage' = [stage EXCEPT ![p] = StageOf(u)]
  <2>1. \A x \in Peer : Stage(x)' = StageOf(peer'[x]) /\ Stage(x) = StageOf(peer[x])
    BY DEF Stage, StageOf
  <2>2. \A x \in Peer : Stage(x)' = IF x = p THEN StageOf(u) ELSE Stage(x)
    BY <1>3, <2>1
  <2>. QED
    BY <2>2
<1>5. words' = [words EXCEPT ![p] = WordsOf(u)]
  <2> DEFINE Words(x) == IF Stage(x) = "away" THEN NoText ELSE peer[x].text
  <2>1. \A x \in Peer : Words(x)' = WordsOf(peer'[x]) /\ Words(x) = WordsOf(peer[x])
    BY DEF Stage, StageOf, WordsOf
  <2>2. \A x \in Peer : Words(x)' = IF x = p THEN WordsOf(u) ELSE Words(x)
    BY <1>3, <2>1
  <2>. QED
    BY <2>2
<1>6. /\ stage = [x \in Peer |-> stage[x]] /\ words = [x \in Peer |-> words[x]]
      /\ wonText = [x \in Peer |-> wonText[x]]
  BY DEF TypeOK
<1>7. /\ \A q \in Peer : Contract!Opponent(q) = Other(q)
      /\ \A q \in Peer : Contract!InRace(q) <=>
           stage[q] \in {"countdown", "typing", "won", "lost"}
  BY DEF Contract!Opponent, Other, Contract!InRace
<1>8. /\ Contract!Arrive(p) \/ Contract!Leave(p) \/ Contract!BackToLobby(p) => Contract!Next
      /\ Contract!Start(p) \/ Contract!Win(p) \/ Contract!Lose(p) => Contract!Next
      /\ WordsOf(u) \in SeedTexts /\ Contract!Begin(p, WordsOf(u)) => Contract!Next
  <2>1. Contract!Next <=>
          \E q \in Peer :
             \/ Contract!Arrive(q) \/ Contract!Leave(q) \/ Contract!BackToLobby(q)
             \/ \E w \in SeedTexts : Contract!Begin(q, w)
             \/ Contract!Start(q) \/ Contract!Win(q) \/ Contract!Lose(q)
    BY DEF Contract!Next
  <2>. QED
    BY <2>1, Zenon
<1>9. v = wonText[p] => wonText' = wonText
  BY <1>6
<1>10. CASE StageOf(u) = StageOf(s) /\ WordsOf(u) = WordsOf(s) /\ v = wonText[p]
  <2>1. stage[p] = StageOf(u) /\ words[p] = WordsOf(u) /\ wonText' = wonText
    BY <1>2, <1>9, <1>10
  <2>2. \A f : f = [x \in Peer |-> f[x]] => [f EXCEPT ![p] = f[p]] = f
    OBVIOUS
  <2> DEFINE stage2 == [stage EXCEPT ![p] = StageOf(u)]
             words2 == [words EXCEPT ![p] = WordsOf(u)]
  <2>3. stage' = stage2 /\ words' = words2
    BY <1>4, <1>5
  <2>4. stage2 = stage /\ words2 = words
    <3>. HIDE DEF stage, words
    <3>. QED
      BY <1>6, <2>1, <2>2
  <2>5. stage' = stage /\ words' = words
    <3>. HIDE DEF stage2, words2
    <3>. QED
      BY <2>3, <2>4
  <2>. QED
    BY <2>1, <2>5 DEF Contract!vars
<1>11. CASE StageOf(s) = "away" /\ StageOf(u) = "lobby" /\ WordsOf(u) = NoText /\
            v = wonText[p]
  <2>1. Contract!Arrive(p)
    BY <1>2, <1>4, <1>5, <1>9, <1>11 DEF Contract!Arrive, Contract!Move
  <2>. QED
    BY <1>8, <2>1
<1>12. CASE StageOf(s) # "away" /\ StageOf(u) = "away" /\ WordsOf(u) = NoText /\
            v = wonText[p]
  <2>1. Contract!Leave(p)
    BY <1>2, <1>4, <1>5, <1>9, <1>12 DEF Contract!Leave, Contract!Move
  <2>. QED
    BY <1>8, <2>1
<1>13. CASE /\ StageOf(s) \in {"countdown", "typing", "won", "lost"}
            /\ StageOf(s) \in {"won", "lost"} \/ StageOf(t) = "away"
            /\ StageOf(u) = "lobby" /\ WordsOf(u) = NoText /\ v = wonText[p]
  <2>1. Contract!BackToLobby(p)
    BY <1>1, <1>2, <1>4, <1>5, <1>7, <1>9, <1>13
    DEF Contract!BackToLobby, Contract!Move
  <2>. QED
    BY <1>8, <2>1
<1>14. CASE /\ StageOf(s) = "lobby" /\ StageOf(u) = "countdown" /\ WordsOf(u) \in SeedTexts
            /\ StageOf(t) \in {"away", "lobby", "countdown"}
            /\ StageOf(t) = "countdown" => WordsOf(t) = WordsOf(u)
            /\ v = wonText[p]
  <2>1. Contract!Begin(p, WordsOf(u))
    BY <1>1, <1>2, <1>4, <1>5, <1>7, <1>9, <1>14
    DEF Contract!Begin, Contract!Move
  <2>. QED
    BY <1>8, <1>14, <2>1
<1>15. CASE /\ StageOf(s) = "countdown" /\ StageOf(u) = "typing" /\ StageOf(t) # "lobby"
            /\ WordsOf(u) = WordsOf(s) /\ v = wonText[p]
  <2>1. Contract!Start(p)
    BY <1>1, <1>2, <1>4, <1>5, <1>7, <1>9, <1>15 DEF Contract!Start, Contract!Move
  <2>. QED
    BY <1>8, <2>1
<1>16. CASE /\ StageOf(s) = "typing" /\ StageOf(u) = "won"
            /\ WordsOf(u) = WordsOf(s) /\ v = WordsOf(s)
  <2>1. Contract!Win(p)
    BY <1>1, <1>2, <1>4, <1>5, <1>7, <1>9, <1>16 DEF Contract!Win, Contract!Move
  <2>. QED
    BY <1>8, <2>1
<1>17. CASE /\ StageOf(s) = "typing" /\ StageOf(u) = "lost" /\ wonText[Other(p)] = WordsOf(s)
            /\ WordsOf(u) = WordsOf(s) /\ v = wonText[p]
  <2>1. Contract!Lose(p)
    BY <1>1, <1>2, <1>4, <1>5, <1>7, <1>9, <1>17 DEF Contract!Lose, Contract!Move
  <2>. QED
    BY <1>8, <2>1
<1>. QED
  BY <1>10, <1>11, <1>12, <1>13, <1>14, <1>15, <1>16, <1>17 DEF Advances

(* What is known of two machines at a time, s being one of them. *)
Facing(s, t, wt) ==
    /\ Busy(s) /\ Busy(t) => s.text = t.text
    /\ s.status = "finished" /\ ~s.won => wt = s.text
    /\ Here(s) /\ Here(t) => /\ s.status = "typing" => Busy(t)
                             /\ t.status = "typing" => Busy(s)
                             /\ s.status = "ready" => t.status # "finished"

LEMMA MeetsFacing ==
  ASSUME NEW ws, NEW wt, NEW a, NEW b, NEW s \in Machine, NEW t \in Machine,
         Meets(s, t, a, b, ws, wt, TRUE)
  PROVE  Facing(s, t, wt)
<1>1. ASSUME InTouch(s, t, a, b, ws, wt, TRUE)
      PROVE  /\ s.status = "typing" => Busy(t)
             /\ t.status = "typing" => Busy(s)
             /\ s.status = "ready" => t.status # "finished"
  <2>1. PICK f \in Phase, g \in Phase, l \in Replies, m \in Replies :
             Talk(s, t, a, b, f, g, l, m, ws, wt, TRUE)
    BY <1>1 DEF InTouch
  <2>2. Concord(s, t, f, l, m) /\ Concord(t, s, g, m, l)
    BY <2>1 DEF Talk, Accord
  <2>. QED
    BY <2>2 DEF Concord
<1>. QED
  BY <1>1 DEF Meets, Side, Facing

(* The race screen is entered with everything reset. *)
LEMMA EnterAdvances ==
  ASSUME NEW ws, NEW wt, NEW own, NEW others, NEW s \in Machine, NEW t \in Machine, ~Here(s)
  PROVE  LET u == [resetInfo(s) EXCEPT !.app = "raceState"]
         IN  Owns(u, own, others) /\ Advances(s, u, t, ws, ws, wt)
<1> DEFINE u == [resetInfo(s) EXCEPT !.app = "raceState"]
<1>1. u \in Machine
  <2>1. \A v \in Machine : [v EXCEPT !.app = "raceState"] \in Machine
    BY DEF Machine
  <2>. QED
    BY <2>1, ResetTyped
<1>2. u.app = "raceState" /\ u.status = "unready" /\ u.text = NoText /\ u.seedMe = 0
      /\ u.seedYou = 0
  BY DEF resetInfo, resetRacingInfo, resetTypingInfo, Machine
<1>. HIDE DEF u
<1>3. Owns(u, own, others)
  BY <1>2 DEF Owns
<1>4. StageOf(s) = "away" /\ StageOf(u) = "lobby" /\ WordsOf(u) = NoText
  BY <1>1, <1>2, Stages DEF Here, Busy
<1>. QED
  BY <1>3, <1>4 DEF Advances, u

(* And left with everything as it is. *)
LEMMA LeaveAdvances ==
  ASSUME NEW ws, NEW wt, NEW own, NEW others, NEW s \in Machine, NEW t \in Machine, Here(s),
         Owns(s, own, others)
  PROVE  LET u == [s EXCEPT !.app = "mainState"]
         IN  Owns(u, own, others) /\ Advances(s, u, t, ws, ws, wt)
<1> DEFINE u == [s EXCEPT !.app = "mainState"]
<1>1. u \in Machine /\ ~Here(u) /\ u.status = s.status /\ u.text = s.text
      /\ u.seedMe = s.seedMe /\ u.seedYou = s.seedYou
  BY DEF Here, Machine
<1>. HIDE DEF u
<1>2. Owns(u, own, others)
  BY <1>1 DEF Owns, Busy
<1>3. StageOf(s) # "away" /\ StageOf(u) = "away" /\ WordsOf(u) = NoText
  BY <1>1, Stages
<1>. QED
  BY <1>2, <1>3 DEF Advances, u

(* A machine that shows the same advances nowhere. *)
LEMMA Stays ==
  ASSUME NEW ws, NEW wt, NEW s \in Machine, NEW t, NEW u \in Machine, u.app = s.app,
         \/ Looks(s, u)
         \/ Busy(s) /\ s.status = "ready" /\ u.status = "ready" /\ u.text = s.text
  PROVE  Advances(s, u, t, ws, ws, wt)
<1>1. StageOf(u) = StageOf(s)
  BY Stages DEF Looks, Here, Busy, StageOf
<1>2. WordsOf(u) = WordsOf(s)
  BY <1>1 DEF Looks, WordsOf
<1>. QED
  BY <1>1, <1>2 DEF Advances

(* The race button asks for a race, or puts a finished one away. *)
LEMMA ClickAdvances ==
  ASSUME NEW ws, NEW wt, NEW own, NEW others, NEW s \in Machine, NEW t \in Machine, Here(s),
         Owns(s, own, others), NEW n, Fits(n), n \in own
  PROVE  LET u == raceClick(s, n).s
         IN  Owns(u, own, others) /\ Advances(s, u, t, ws, ws, wt)
<1> DEFINE u == raceClick(s, n).s
           v == readyButton(s, n).s
<1>1. u \in Machine /\ u = resetButton(v)
  BY PressedTwice, ClickTyped DEF Typed
<1>2. CASE Busy(s)
  <2>1. v = s
    BY <1>2 DEF readyButton, Quiet, Busy
  <2>. HIDE DEF u, v
  <2>2. CASE s.status = "finished"
    <3>1. u = resetInfo(s)
      BY <1>1, <2>1, <2>2 DEF resetButton
    <3>2. u.app = s.app /\ u.status = "unready" /\ u.text = NoText /\ u.seedMe = 0
          /\ u.seedYou = 0
      BY <3>1 DEF resetInfo, resetRacingInfo, resetTypingInfo, Machine
    <3>3. Owns(u, own, others)
      BY <3>2 DEF Owns
    <3>4. StageOf(s) \in {"won", "lost"} /\ StageOf(u) = "lobby" /\ WordsOf(u) = NoText
      BY <1>1, <2>2, <3>2, Stages DEF Here, Busy
    <3>. QED
      BY <3>3, <3>4 DEF Advances, u
  <2>3. CASE s.status # "finished"
    <3>1. u = s
      BY <1>1, <2>1, <2>3 DEF resetButton
    <3>2. Looks(s, u)
      BY <3>1 DEF Looks
    <3>. QED
      BY <1>1, <3>1, <3>2, Stays DEF u
  <2>. QED
    BY <2>2, <2>3
<1>3. CASE ~Busy(s)
  <2>1. /\ v.app = s.app /\ v.status = s.status /\ v.text = s.text /\ v.won = s.won
        /\ v.seedMe \in {s.seedMe, n} /\ v.seedYou = s.seedYou
    <3>1. DOMAIN s = Fields
      BY FieldTyped
    <3>. QED
      BY <1>3, <3>1 DEF readyButton, awaitAck, Send, Busy, Fields
  <2>. HIDE DEF u, v
  <2>2. u = v
    BY <1>1, <1>3, <2>1 DEF resetButton, Busy
  <2>3. Owns(u, own, others)
    BY <2>1, <2>2 DEF Owns, Busy
  <2>4. Looks(s, u)
    BY <2>1, <2>2 DEF Looks
  <2>. QED
    BY <1>1, <2>1, <2>2, <2>3, <2>4, Stays DEF u
<1>. QED
  BY <1>2, <1>3

(* Completing the text wins. *)
LEMMA FinishAdvances ==
  ASSUME NEW ws, NEW wt, NEW own, NEW others, NEW s \in Machine, NEW t \in Machine, Here(s),
         Owns(s, own, others), s.status = "typing"
  PROVE  LET u == endRace(s).s
         IN  Owns(u, own, others) /\ Advances(s, u, t, ws, s.text, wt)
<1> DEFINE u == [s EXCEPT !.status = "finished", !.won = TRUE]
<1>1. u = endRace(s).s
  BY DEF endRace, Send
<1>2. /\ u \in Machine /\ u.app = s.app /\ u.status = "finished" /\ u.won /\ u.text = s.text
      /\ u.seedMe = s.seedMe /\ u.seedYou = s.seedYou
  BY DEF Machine
<1>. HIDE DEF u
<1>3. Owns(u, own, others)
  BY <1>2 DEF Owns, Busy
<1>4. Here(u) /\ Busy(u)
  BY <1>2 DEF Here, Busy
<1>5. StageOf(s) = "typing" /\ WordsOf(s) = s.text
  BY Stages
<1>6. StageOf(u) = "won" /\ WordsOf(u) = s.text
  BY <1>2, <1>4, Stages
<1>. QED
  BY <1>1, <1>3, <1>5, <1>6 DEF Advances

(* The countdown ends; nothing else comes of a timer interrupt. *)
LEMMA TimeAdvances ==
  ASSUME NEW ws, NEW wt, NEW own, NEW others, NEW s \in Machine, NEW t \in Machine,
         Owns(s, own, others), Facing(Timed(s), t, wt)
  PROVE  Owns(Timed(s), own, others) /\ Advances(s, Timed(s), t, ws, ws, wt)
<1> DEFINE u == Timed(s)
<1>1. /\ u \in Machine /\ u.app = s.app /\ u.text = s.text /\ u.won = s.won
      /\ u.seedMe = s.seedMe /\ u.seedYou = s.seedYou
      /\ \/ u.status = s.status
         \/ s.app = "raceState" /\ s.status = "ready" /\ u.status = "typing"
  BY TimedIs
<1>. HIDE DEF u
<1>2. Owns(u, own, others)
  BY <1>1 DEF Owns, Busy
<1>3. CASE u.status = s.status
  BY <1>1, <1>2, <1>3, Stays DEF Looks, u
<1>4. CASE Here(s) /\ s.status = "ready" /\ u.status = "typing"
  <2>1. Here(u) /\ (Here(t) => Busy(t))
    BY <1>1, <1>4 DEF Facing, Here, u
  <2>2. StageOf(s) = "countdown" /\ WordsOf(s) = s.text
    BY <1>4, Stages
  <2>3. StageOf(u) = "typing" /\ WordsOf(u) = s.text
    BY <1>1, <1>4, <2>1, Stages
  <2>4. StageOf(t) # "lobby"
    BY <2>1, Stages
  <2>. QED
    BY <1>2, <2>2, <2>3, <2>4 DEF Advances, u
<1>. QED
  BY <1>1, <1>3, <1>4 DEF Here

(* A text of two seeds. *)
LEMMA TextOfSeeds ==
  ASSUME NEW p \in Peer, NEW m \in Range(Seed[p]), NEW n \in Range(Seed[Other(p)])
  PROVE  Unsigned(m + n) \in SeedTexts
<1> DEFINE texts == {Unsigned(x + y) : x \in Range(Seed[p]), y \in Range(Seed[Other(p)])}
<1>1. Unsigned(m + n) \in texts
  OBVIOUS
<1>2. texts \in {{Unsigned(x + y) : x \in Range(Seed[v]), y \in Range(Seed[w])} : v,
      w \in Peer}
  BY TwoPeers
<1>. HIDE DEF texts
<1>. QED
  BY <1>1, <1>2 DEF SeedTexts

(* A byte read. *)
LEMMA ReadAdvances ==
  ASSUME NEW p \in Peer, NEW ws, NEW wt, NEW a, NEW b \in Seq(Byte),
         NEW s \in Machine, NEW t \in Machine, Framed(s), Here(s), b # <<>>,
         Owns(s, Range(Seed[p]), Range(Seed[Other(p)])),
         Owns(t, Range(Seed[Other(p)]), Range(Seed[p])),
         Meets(s, t, a, b, ws, wt, TRUE),
         NEW u \in Machine, u = readByte(s, Head(b)).s,
         Facing(u, t, wt), Carries(s, u), ~Busy(s) /\ u.status = "ready" => Agreed(u)
  PROVE  /\ Owns(u, Range(Seed[p]), Range(Seed[Other(p)]))
         /\ Advances(s, u, t, ws, ws, wt)
<1> DEFINE own == Range(Seed[p])
           others == Range(Seed[Other(p)])
<1>1. ByteShows(s, Head(b), u)
  BY ReadShows
<1>2. Facing(s, t, wt)
  BY MeetsFacing
<1>3. /\ Here(t) /\ Waits(s) => Head(b) # INFO_EXIT
      /\ EndsSeed(s) => Here(t) /\ SeedValue(Append(s.bits, Head(b))) = t.seedMe
  <2>1. CASE Here(t)
    <3>1. Side(s, t, a, b, ws, wt, TRUE)
      BY DEF Meets
    <3>2. InTouch(s, t, a, b, ws, wt, TRUE)
      BY <2>1, <3>1 DEF Side
    <3>3. /\ Waits(s) => Head(b) # INFO_EXIT
          /\ EndsSeed(s) => SeedValue(Append(s.bits, Head(b))) = t.seedMe
      BY <3>2, ByteOfOpponent
    <3>. QED
      BY <2>1, <3>3
  <2>2. CASE ~Here(t)
    <3>1. s.receiving = INFO_ACK
      BY <2>2 DEF Meets, Side, Alone, Gone
    <3>. QED
      BY <2>2, <3>1 DEF EndsSeed, INFO_ULONG, INFO_ACK, INFO_BITS
  <2>. QED
    BY <2>1, <2>2
<1>4. u.seedMe \in {0} \cup own
  BY <1>1 DEF ByteShows, KeepsSeed, Owns
<1>5. u.seedYou \in {0} \cup others
  BY <1>1, <1>3 DEF ByteShows, Owns
<1>6. ~Busy(u) => u.text = NoText
  BY <1>1 DEF ByteShows, Looks, Owns, Busy
<1>7. Owns(u, own, others)
  BY <1>4, <1>5, <1>6 DEF Owns
<1>8. u.app = s.app /\ Here(u)
  BY <1>1 DEF ByteShows, Here
<1>9. CASE Looks(s, u)
  BY <1>7, <1>8, <1>9, Stays
<1>10. CASE u.status = "ready" /\ Busy(s)
  BY <1>7, <1>8, <1>10, Stays DEF Carries
<1>11. CASE u.status = "ready" /\ ~Busy(s)
  <2>1. u.text = Unsigned(u.seedMe + u.seedYou) /\ u.seedMe # 0 /\ u.seedYou # 0
    BY <1>11 DEF Agreed
  <2>2. u.text \in SeedTexts
    BY <1>4, <1>5, <2>1, TextOfSeeds
  <2>3. Busy(u) /\ StageOf(s) = "lobby" /\ StageOf(u) = "countdown" /\ WordsOf(u) = u.text
    BY <1>8, <1>11, Stages DEF Busy
  <2>4. Here(t) => t.status \in {"unready", "ready"}
    BY <1>2, <1>8, <1>11 DEF Facing, Machine
  <2>5. StageOf(t) \in {"away", "lobby", "countdown"}
    BY <2>4, Stages DEF Busy
  <2>6. StageOf(t) = "countdown" => WordsOf(t) = u.text
    BY <2>3, Stages DEF Facing, Busy
  <2>. QED
    BY <1>7, <2>2, <2>3, <2>5, <2>6 DEF Advances
<1>12. CASE s.status = "typing" /\ u.status = "finished" /\ ~u.won /\ u.text = s.text
  <2>1. StageOf(s) = "typing" /\ WordsOf(s) = s.text
    BY <1>12, Stages
  <2>2. StageOf(u) = "lost" /\ WordsOf(u) = s.text
    BY <1>8, <1>12, Stages
  <2>3. wt = s.text
    BY <1>12 DEF Facing
  <2>. QED
    BY <1>7, <2>1, <2>2, <2>3 DEF Advances
<1>13. CASE Waits(s) /\ Head(b) = INFO_EXIT /\ u.status = "unready" /\ u.text = NoText
  <2>1. StageOf(t) = "away"
    BY <1>3, <1>13, Stages
  <2>2. StageOf(u) = "lobby" /\ WordsOf(u) = NoText
    BY <1>8, <1>13, Stages DEF Busy
  <2>3. CASE Busy(s)
    <3>1. StageOf(s) \in {"countdown", "typing", "won", "lost"}
      BY <2>3, Stages DEF Busy, Machine
    <3>. QED
      BY <1>7, <2>1, <2>2, <3>1 DEF Advances
  <2>4. CASE ~Busy(s)
    <3>1. StageOf(s) = "lobby" /\ WordsOf(s) = NoText
      BY <2>4, Stages DEF Owns
    <3>. QED
      BY <1>7, <2>2, <3>1 DEF Advances
  <2>. QED
    BY <2>3, <2>4
<1>. QED
  BY <1>1, <1>9, <1>10, <1>11, <1>12, <1>13 DEF ByteShows

-----------------------------------------------------------------------------
(* 3. The steps of the two machines.                                       *)

(* A step of one machine advances it as RaceContract allows. *)
LEMMA Advanced ==
  ASSUME NEW u, NEW v, NEW p \in Peer, TypeOK, Owned,
         peer' = [peer EXCEPT ![p] = u], wonText' = [wonText EXCEPT ![p] = v],
         Owns(u, Range(Seed[p]), Range(Seed[Other(p)])),
         Advances(peer[p], u, peer[Other(p)], wonText[p], v, wonText[Other(p)])
  PROVE  Owned' /\ [Contract!Next]_(Contract!vars)
<1>1. \A x \in Peer : peer'[x] = IF x = p THEN u ELSE peer[x]
  BY DEF TypeOK
<1>2. Owned'
  BY <1>1 DEF Owned
<1>. QED
  BY <1>2, AdvanceImplements

(* Every step of a machine, the invariant holding before and after it. *)
LEMMA ImplementsStep ==
  ASSUME NEW p \in Peer, AllAgreed(TRUE), AllAgreed(TRUE)', Owned, Continues, StartsAgreed,
         \/ EnterRace(p) \/ LeaveRace(p) \/ Click(p) \/ FinishText(p)
         \/ Interrupt(p) \/ Overrun(p) \/ Tick(p),
         Lossless
  PROVE  Owned' /\ [Contract!Next]_(Contract!vars)
<1> DEFINE q == Other(p)
           s == peer[p]
           t == peer[q]
           b == chan[q]
           own == Range(Seed[p])
           others == Range(Seed[q])
<1>1. /\ TypeOK /\ q \in Peer /\ q # p /\ Other(q) = p
      /\ s \in Machine /\ t \in Machine /\ Framed(s) /\ b \in Seq(Byte)
      /\ Owns(s, own, others) /\ Owns(t, others, own)
  BY TwoPeers, BothPeers DEF AllAgreed, TypeOK, RaceInv, Good, Owned
<1>2. Meets(s, t, chan[p], b, wonText[p], wonText[q], TRUE)
  BY MeetsAt DEF AllAgreed
<1>3. \A u : peer' = [peer EXCEPT ![p] = u] => peer'[p] = u /\ peer'[q] = t
  BY <1>1 DEF TypeOK
<1>4. ASSUME NEW u, peer' = [peer EXCEPT ![p] = u], wonText'[q] = wonText[q]
      PROVE  u \in Machine /\ Facing(u, t, wonText[q])
  <2>1. peer'[p] \in Machine /\ peer'[q] \in Machine
    BY <1>1 DEF AllAgreed, TypeOK
  <2>2. Side(peer'[p], peer'[q], chan'[p], chan'[q], wonText'[p], wonText'[q], TRUE)
    BY <1>1 DEF AllAgreed, Agreement
  <2>3. Side(peer'[q], peer'[p], chan'[q], chan'[p], wonText'[q], wonText'[p], TRUE)
    BY <1>1 DEF AllAgreed, Agreement
  <2>4. Meets(peer'[p], peer'[q], chan'[p], chan'[q], wonText'[p], wonText'[q], TRUE)
    BY <2>2, <2>3 DEF Meets
  <2>5. Facing(peer'[p], peer'[q], wonText'[q])
    BY <2>1, <2>4, MeetsFacing
  <2>. QED
    BY <1>3, <1>4, <2>1, <2>5
<1>5. wonText' = wonText => wonText' = [wonText EXCEPT ![p] = wonText[p]]
  BY DEF AllAgreed, TypeOK
<1>6. CASE EnterRace(p)
  <2> DEFINE u == [resetInfo(s) EXCEPT !.app = "raceState"]
             r == Clear(u)
  <2>1. ~Here(s) /\ Perform(p, b, r, Len(b)) /\ wonText' = wonText
    BY <1>6 DEF EnterRace, Here
  <2>2. Owns(u, own, others) /\ Advances(s, u, t, wonText[p], wonText[p], wonText[q])
    BY <1>1, <2>1, EnterAdvances
  <2>3. r.s = u
    BY DEF Clear
  <2>. HIDE DEF r, u
  <2>4. peer' = [peer EXCEPT ![p] = u]
    BY <1>1, <2>1, <2>3, LosslessPerform
  <2>. QED
    BY <1>1, <1>5, <2>1, <2>2, <2>4, Advanced
<1>7. CASE LeaveRace(p)
  <2> DEFINE u == [s EXCEPT !.app = "mainState"]
             r == Send(u, <<INFO_EXIT>>)
  <2>1. Here(s) /\ Perform(p, b, r, 0) /\ wonText' = wonText
    BY <1>7 DEF LeaveRace, Here
  <2>2. Owns(u, own, others) /\ Advances(s, u, t, wonText[p], wonText[p], wonText[q])
    BY <1>1, <2>1, LeaveAdvances
  <2>3. r.s = u
    BY DEF Send
  <2>. HIDE DEF r, u
  <2>4. peer' = [peer EXCEPT ![p] = u]
    BY <1>1, <2>1, <2>3, LosslessPerform
  <2>. QED
    BY <1>1, <1>5, <2>1, <2>2, <2>4, Advanced
<1>8. CASE Click(p)
  <2> DEFINE n == Seed[p][clicks'[p]]
             r == raceClick(s, n)
             u == r.s
  <2>1. Here(s) /\ Perform(p, b, r, 0) /\ wonText' = wonText
    BY <1>8 DEF Click, Here
  <2>2. Fits(n) /\ n \in own
    <3>1. clicks[p] \in Nat /\ clicks[p] < MaxClicks[p] /\ clicks'[p] = clicks[p] + 1
      BY <1>1, <1>8 DEF Click, TypeOK
    <3>2. clicks'[p] \in DOMAIN Seed[p]
      BY <3>1, SeedAssumption, ClickAssumption, BoundAssumption
    <3>. QED
      BY <3>2, SeedsFit DEF Range
  <2>. HIDE DEF n
  <2>3. Owns(u, own, others) /\ Advances(s, u, t, wonText[p], wonText[p], wonText[q])
    BY <1>1, <2>1, <2>2, ClickAdvances
  <2>. HIDE DEF r
  <2>4. peer' = [peer EXCEPT ![p] = u]
    BY <1>1, <2>1, LosslessPerform
  <2>. HIDE DEF u
  <2>. QED
    BY <1>1, <1>5, <2>1, <2>3, <2>4, Advanced
<1>9. CASE FinishText(p)
  <2> DEFINE r == endRace(s)
             u == r.s
  <2>1. /\ Here(s) /\ s.status = "typing" /\ Perform(p, b, r, 0)
        /\ wonText' = [wonText EXCEPT ![p] = s.text]
    BY <1>9 DEF FinishText, Here
  <2>2. Owns(u, own, others) /\ Advances(s, u, t, wonText[p], s.text, wonText[q])
    BY <1>1, <2>1, FinishAdvances
  <2>. HIDE DEF r
  <2>3. peer' = [peer EXCEPT ![p] = u]
    BY <1>1, <2>1, LosslessPerform
  <2>. HIDE DEF u
  <2>. QED
    BY <1>1, <2>1, <2>2, <2>3, Advanced
<1>10. CASE Interrupt(p)
  <2> DEFINE r == readByte(s, Head(b))
             u == r.s
  <2>1. Here(s) /\ b # <<>> /\ Perform(p, Tail(b), r, 0) /\ wonText' = wonText
    BY <1>10 DEF Interrupt, Here
  <2>. HIDE DEF r
  <2>2. peer' = [peer EXCEPT ![p] = u]
    <3>1. Tail(b) \in Seq(Byte)
      BY <1>1, <2>1
    <3>. QED
      BY <1>1, <2>1, <3>1, LosslessPerform
  <2>. HIDE DEF u
  <2>3. u \in Machine /\ Facing(u, t, wonText[q]) /\ peer'[p] = u
    BY <1>3, <1>4, <2>1, <2>2
  <2>4. Carries(s, u)
    BY <2>3 DEF Continues, Carries, Racing, Busy
  <2>5. ~Busy(s) /\ u.status = "ready" => Agreed(u)
    BY <2>3 DEF StartsAgreed, Running, Busy, Agreed
  <2>6. u = readByte(s, Head(b)).s
    BY DEF u, r
  <2>7. Owns(u, own, others) /\ Advances(s, u, t, wonText[p], wonText[p], wonText[q])
    BY <1>1, <1>2, <2>1, <2>3, <2>4, <2>5, <2>6, ReadAdvances
  <2>. QED
    BY <1>1, <1>5, <2>1, <2>2, <2>7, Advanced
<1>11. CASE Overrun(p)
  BY <1>11 DEF Overrun, Lossless
<1>12. CASE Tick(p)
  <2> DEFINE u == Timed(s)
  <2>1. PICK clear \in BOOLEAN : Perform(p, b, [s |-> u, clear |-> clear, out |-> <<>>], 0)
    BY <1>12, TickIs
  <2> DEFINE r == [s |-> u, clear |-> clear, out |-> <<>>]
  <2>2. wonText' = wonText /\ r.s = u /\ Perform(p, b, r, 0)
    BY <1>12, <2>1 DEF Tick
  <2>. HIDE DEF r
  <2>3. peer' = [peer EXCEPT ![p] = u]
    BY <1>1, <2>2, LosslessPerform
  <2>4. Facing(u, t, wonText[q])
    BY <1>4, <2>2, <2>3
  <2>5. Owns(u, own, others) /\ Advances(s, u, t, wonText[p], wonText[p], wonText[q])
    BY <1>1, <2>4, TimeAdvances
  <2>. HIDE DEF u
  <2>. QED
    BY <1>1, <1>5, <2>2, <2>3, <2>5, Advanced
<1>. QED
  BY <1>6, <1>7, <1>8, <1>9, <1>10, <1>11, <1>12

(* Both machines begin without seeds and without a text. *)
LEMMA ImplementsInit == Init => Owned /\ Contract!Init
<1>. SUFFICES ASSUME Init PROVE Owned /\ Contract!Init
  OBVIOUS
<1>1. \A p \in Peer : /\ peer[p].app = "mainState" /\ peer[p].text = NoText
                      /\ peer[p].seedMe = 0 /\ peer[p].seedYou = 0
  BY DEF Init, Idle
<1>2. Owned
  BY <1>1 DEF Owned, Owns
<1>3. \A p \in Peer : Stage(p) = "away"
  BY <1>1 DEF Stage
<1>4. Contract!Init
  BY <1>3 DEF Contract!Init, Init
<1>. QED
  BY <1>2, <1>4

(* A race is what RaceContract promises: behind the requests, seeds,       *)
(* answers and timers the two players begin on the same words, nobody      *)
(* types while the other, if present, waits in the lobby, nobody is put    *)
(* back from a race whose opponent is there, and nobody loses but to an    *)
(* opponent who has completed these words.                                 *)
THEOREM RaceImplementsContract == AttentiveSpec => ImplementsContract
<1> DEFINE Step == Next /\ Lossless /\ Patient /\ Committed /\ Attentive
<1>1. Init => Owned /\ Contract!Init
  BY ImplementsInit
<1>2. AllAgreed(TRUE) /\ AllAgreed(TRUE)' /\ Owned /\ [Step]_vars
        => Owned' /\ [Contract!Next]_(Contract!vars)
  <2>. SUFFICES ASSUME AllAgreed(TRUE), AllAgreed(TRUE)', Owned, [Step]_vars
                PROVE  Owned' /\ [Contract!Next]_(Contract!vars)
    OBVIOUS
  <2>1. CASE UNCHANGED vars
    <3>1. Owned'
      BY <2>1 DEF vars, Owned
    <3>2. UNCHANGED Contract!vars
      BY <2>1 DEF vars, Contract!vars, Stage
    <3>. QED
      BY <3>1, <3>2
  <2>2. CASE Step /\ ~UNCHANGED vars
    <3>1. [Next /\ Careful(TRUE)]_vars /\ [Next]_vars
      BY <2>2 DEF Careful
    <3>2. [Continues]_vars
      BY <3>1, AllNext
    <3>3. StartsAgreed
      BY <3>1, RaceNext DEF AllAgreed
    <3>. QED
      BY <2>2, <3>2, <3>3, ImplementsStep DEF Next
  <2>. QED
    BY <2>1, <2>2
<1>3. AttentiveSpec => []AllAgreed(TRUE)
  BY AttentiveAgrees
<1>. QED
  BY <1>1, <1>2, <1>3, PTL DEF AttentiveSpec, ImplementsContract, Contract!Spec
-----------------------------------------------------------------------------
(* 4. On which request a race begins.                                      *)

(* An answer begins a race only as the READY_ACK to a machine that has its *)
(* opponent's request.                                                     *)
LEMMA AnswerBegins ==
  ASSUME NEW s \in Machine, ~Busy(s), NEW byte, NEW u, u = readAnswer(s, byte).s,
         u.status = "ready"
  PROVE  byte = INFO_READY_ACK /\ s.readyYou /\ u.seedYou = s.seedYou
<1> DEFINE done(t) == [t EXCEPT !.waitingAck = FALSE]
           ready   == [s EXCEPT !.readyMe = TRUE]
           nready  == AnswerNReady(s)
<1>1. \A t \in Machine : done(t).status = t.status /\ done(t).seedYou = t.seedYou
  BY DEF Machine
<1>2. /\ nready \in Machine /\ nready.status = s.status
      /\ ready \in Machine /\ ready.status = s.status /\ ready.readyYou = s.readyYou
      /\ ready.seedYou = s.seedYou
  BY DEF Machine, AnswerNReady
<1>3. \/ u \in {s, done(s), done(nready)}
      \/ u = done(AnswerReady(s)) /\ byte = INFO_READY_ACK
  BY DEF readAnswer, Quiet, Clear
<1>4. AnswerReady(s) = checkIfReady(ready)
  BY DEF AnswerReady
<1>. HIDE DEF done, ready, nready
<1>5. u = done(checkIfReady(ready)) /\ byte = INFO_READY_ACK
  BY <1>1, <1>2, <1>3, <1>4 DEF Busy
<1>6. checkIfReady(ready).status = "ready" /\ checkIfReady(ready).seedYou = s.seedYou
  BY <1>1, <1>2, <1>5, CheckTyped, CheckShows
<1>7. s.readyYou
  BY <1>2, <1>6 DEF checkIfReady, BothReady, Busy
<1>. QED
  BY <1>1, <1>2, <1>5, <1>6, <1>7, CheckTyped

(* A code outside a value does so only as an answer. *)
LEMMA EventBegins ==
  ASSUME NEW s \in Machine, ~Busy(s), NEW byte, NEW u, u = readEvent(s, byte).s,
         u.status = "ready"
  PROVE  byte = INFO_READY_ACK /\ s.readyYou /\ u.seedYou = s.seedYou
<1> DEFINE asked == [s EXCEPT !.readyYou = TRUE, !.waitingForSeed = TRUE]
           back  == [s EXCEPT !.readyYou = FALSE]
           reset == resetInfo(s)
<1>1. asked.status = s.status /\ back.status = s.status
  BY DEF Machine
<1>2. reset \in Machine /\ ~Busy(reset)
  BY ResetTyped DEF Busy, resetInfo, resetRacingInfo, resetTypingInfo, Machine
<1>3. ~OpponentWins(s, byte)
  BY DEF OpponentWins, Busy
<1>4. \/ u \in {asked, back}
      \/ u = readAnswer(reset, byte).s /\ byte = INFO_EXIT
      \/ u = readAnswer(s, byte).s
  BY <1>3 DEF readEvent, OpponentLeaves, Reply
<1>. HIDE DEF asked, back, reset
<1>5. u = readAnswer(reset, byte).s => byte = INFO_READY_ACK
  BY <1>2, AnswerBegins
<1>6. INFO_EXIT # INFO_READY_ACK
  BY DEF INFO_EXIT, INFO_READY_ACK, INFO_BITS
<1>. QED
  BY <1>1, <1>4, <1>5, <1>6, AnswerBegins DEF Busy

(* A byte of a value does so only as the last of a seed. *)
LEMMA ValueBegins ==
  ASSUME NEW s \in Machine, Framed(s), s.receiving \in TypedCodes, ~Busy(s),
         NEW byte \in Byte, NEW u, u = readTyped(s, byte).s, u.status = "ready"
  PROVE  EndsSeed(s) /\ u.seedYou = SeedValue(Append(s.bits, byte))
<1> DEFINE bits == Append(s.bits, byte)
           v == [s EXCEPT !.bits = bits]
           w == ValueDone(v)
           n == SeedValue(bits)
<1>1. bits \in Seq(Byte) /\ Len(bits) = Len(s.bits) + 1 /\ Len(s.bits) \in Nat
  BY AppendProperties DEF Machine
<1>. HIDE DEF bits
<1>2. v \in Machine /\ v.status = s.status /\ v.receiving = s.receiving /\ v.bits = bits
  BY <1>1 DEF Machine
<1>3. w \in Machine /\ w.status = s.status
  <2>1. DOMAIN v = Fields /\ [v EXCEPT !.receiving = INFO_ACK] \in Machine
    BY <1>2, FieldTyped
  <2>. HIDE DEF v
  <2>2. [[v EXCEPT !.receiving = INFO_ACK] EXCEPT !.bits = <<>>] \in Machine
    BY <2>1, FieldTyped, EmptyBytes
  <2>3. w = [[v EXCEPT !.receiving = INFO_ACK] EXCEPT !.bits = <<>>]
    BY <2>1 DEF ValueDone, Fields
  <2>. QED
    BY <1>2, <2>1, <2>2, <2>3 DEF ValueDone, Fields
<1>4. /\ ValueOpen(v) => u = v
      /\ ~ValueOpen(v) => u = IF s.receiving = INFO_ULONG THEN takeSeed(w, n) ELSE w
  BY <1>2 DEF readTyped, Quiet, Reply, bits
<1>. HIDE DEF v, w
<1>5. ~ValueOpen(v) /\ s.receiving = INFO_ULONG /\ u = takeSeed(w, n)
  BY <1>2, <1>3, <1>4 DEF Busy
<1>6. EndsSeed(s)
  BY <1>1, <1>2, <1>5, LenAssumption DEF EndsSeed, ValueOpen, Width, LongCodes
<1>7. w.waitingForSeed
  BY <1>3, <1>5 DEF takeSeed, Busy
<1>8. n \in Nat
  <2>1. Len(bits) = LongLen
    BY <1>1, <1>5, <1>6, LenAssumption DEF EndsSeed, Framed, Width, LongCodes
  <2>. QED
    BY <1>1, <2>1, ValueNatural
<1>. HIDE DEF n
<1>9. u.seedYou = n
  BY <1>3, <1>5, <1>7, <1>8, TakesSeed
<1>. QED
  BY <1>6, <1>9 DEF n, bits

(* A byte takes a machine out of the lobby only as the last of a seed, or  *)
(* as a READY_ACK.                                                         *)
LEMMA ByteBegins ==
  ASSUME NEW s \in Machine, Framed(s), ~Busy(s), NEW byte \in Byte, NEW u,
         u = readByte(s, byte).s, Busy(u)
  PROVE  \/ EndsSeed(s) /\ u.seedYou = SeedValue(Append(s.bits, byte))
         \/ Waits(s) /\ byte = INFO_READY_ACK /\ s.readyYou /\ u.seedYou = s.seedYou
<1>1. u.status = "ready"
  BY ReadShows DEF ByteShows, Looks, Busy
<1>2. CASE s.receiving \in TypedCodes
  BY <1>1, <1>2, ValueBegins DEF readByte
<1>3. CASE s.receiving \notin TypedCodes /\ AnnouncesValue(byte)
  <2> DEFINE v == [s EXCEPT !.receiving = byte]
  <2>1. u = v
    BY <1>3 DEF readByte, Quiet
  <2>2. v.status = s.status
    BY DEF Machine
  <2>. QED
    BY <2>1, <2>2 DEF Busy
<1>4. CASE s.receiving \notin TypedCodes /\ ~AnnouncesValue(byte)
  <2>1. Waits(s)
    BY <1>4 DEF Waits, Machine
  <2>2. u = readEvent(s, byte).s
    BY <1>4 DEF readByte
  <2>. QED
    BY <1>1, <2>1, <2>2, EventBegins
<1>. QED
  BY <1>2, <1>3, <1>4

(* A READY_ACK that is read next leaves no request of the opponent ahead   *)
(* of it: the seed a machine has is then the one the opponent stands by.   *)
LEMMA AckOfOpponent ==
  ASSUME NEW ws, NEW wt, NEW a, NEW b \in Seq(Byte), NEW s \in Machine, NEW t \in Machine,
         InTouch(s, t, a, b, ws, wt, TRUE), b # <<>>, Waits(s), Head(b) = INFO_READY_ACK,
         ~Busy(s), s.readyYou
  PROVE  s.seedYou = t.seedMe
<1>1. PICK f \in Phase, g \in Phase, l \in Replies, m \in Replies :
           Talk(s, t, a, b, f, g, l, m, ws, wt, TRUE)
  BY DEF InTouch
<1>2. Wire(t, s, b, g, m) /\ Concord(t, s, g, m, l) /\ Seeds(t, s, g, m, l)
  BY <1>1 DEF Talk, Accord, Pact, Half
<1>3. INFO_READY_ACK \notin {INFO_READY, INFO_NREADY, INFO_ULONG} /\ INFO_ACK # INFO_ULONG
  BY DEF INFO_ACK, INFO_READY, INFO_NREADY, INFO_READY_ACK, INFO_ULONG, INFO_BITS
<1>4. g = "none"
  <2>1. g # "seed"
    BY <1>2, <1>3 DEF Wire, Waits
  <2>2. g # "ready"
    BY <1>2, <1>3, ReadsReady
  <2>3. g # "ulong"
    <3> DEFINE u == [s EXCEPT !.receiving = INFO_ULONG]
    <3>1. u.receiving = INFO_ULONG /\ u.bits = s.bits
      BY DEF Machine
    <3>. HIDE DEF u
    <3>. QED
      BY <1>2, <1>3, <3>1, ReadsCode
  <2>4. g # "nready"
    BY <1>2, <1>3, ReadsNReady
  <2>. QED
    BY <2>1, <2>2, <2>3, <2>4 DEF Phase
<1>5. CASE ~Busy(t)
  <2>1. Acked(t, l)
    BY <1>2, <1>5 DEF Concord
  <2>. QED
    BY <1>2, <1>4, <1>5, <2>1 DEF Seeds, Asked
<1>6. CASE t.status = "ready"
  BY <1>2, <1>4, <1>6 DEF Concord, SeedDue
<1>7. t.status \notin {"typing", "finished"}
  BY <1>2 DEF Concord
<1>. QED
  BY <1>5, <1>6, <1>7 DEF Machine, Busy

(* A byte that takes a machine out of the lobby leaves it with the seed    *)
(* its opponent has for its own text.                                      *)
LEMMA ReadBegins ==
  ASSUME NEW ws, NEW wt, NEW a, NEW b \in Seq(Byte), NEW s \in Machine, NEW t \in Machine,
         Framed(s), Here(s), b # <<>>, Meets(s, t, a, b, ws, wt, TRUE), ~Busy(s),
         NEW u, u = readByte(s, Head(b)).s, Busy(u)
  PROVE  u.seedYou = t.seedMe
<1>1. Head(b) \in Byte
  BY HeadTailProperties
<1>2. \/ EndsSeed(s) /\ u.seedYou = SeedValue(Append(s.bits, Head(b)))
      \/ Waits(s) /\ Head(b) = INFO_READY_ACK /\ s.readyYou /\ u.seedYou = s.seedYou
  BY <1>1, ByteBegins
<1>3. Here(t)
  <2>. SUFFICES ASSUME ~Here(t) PROVE FALSE
    OBVIOUS
  <2>1. s.receiving = INFO_ACK /\ b = <<INFO_EXIT>>
    BY DEF Meets, Side, Alone, Gone
  <2>2. INFO_EXIT # INFO_READY_ACK /\ INFO_ACK # INFO_ULONG
    BY DEF INFO_EXIT, INFO_READY_ACK, INFO_ACK, INFO_ULONG, INFO_BITS
  <2>. QED
    BY <1>2, <2>1, <2>2 DEF EndsSeed
<1>4. InTouch(s, t, a, b, ws, wt, TRUE)
  BY <1>3 DEF Meets, Side
<1>5. EndsSeed(s) => SeedValue(Append(s.bits, Head(b))) = t.seedMe
  BY <1>4, ByteOfOpponent
<1>6. Waits(s) /\ Head(b) = INFO_READY_ACK /\ s.readyYou => s.seedYou = t.seedMe
  BY <1>4, AckOfOpponent
<1>. QED
  BY <1>2, <1>5, <1>6

(* No handler but that of a byte takes a machine out of the lobby. *)
LEMMA OnlyReadsBegin ==
  ASSUME NEW p \in Peer, TypeOK, Lossless,
         \/ EnterRace(p) \/ LeaveRace(p) \/ Click(p) \/ FinishText(p) \/ Overrun(p) \/ Tick(p)
  PROVE  \E u : peer' = [peer EXCEPT ![p] = u] /\ (Busy(u) => Busy(peer[p]))
<1> DEFINE s == peer[p]
           b == chan[Other(p)]
<1>1. s \in Machine /\ b \in Seq(Byte)
  BY TwoPeers DEF TypeOK
<1>2. ASSUME NEW r, NEW harmless, Perform(p, b, r, harmless), Busy(r.s) => Busy(s)
      PROVE  \E u : peer' = [peer EXCEPT ![p] = u] /\ (Busy(u) => Busy(s))
  <2>1. peer' = [peer EXCEPT ![p] = r.s]
    BY <1>1, <1>2, LosslessPerform
  <2>. QED
    BY <1>2, <2>1
<1>3. CASE EnterRace(p)
  <2> DEFINE u == [resetInfo(s) EXCEPT !.app = "raceState"]
             r == Clear(u)
  <2>1. Perform(p, b, r, Len(b)) /\ r.s = u
    BY <1>3 DEF EnterRace, Clear
  <2>2. ~Busy(u)
    BY <1>1 DEF Busy, resetInfo, resetRacingInfo, resetTypingInfo, Machine
  <2>. HIDE DEF r, u
  <2>. QED
    BY <1>2, <2>1, <2>2
<1>4. CASE LeaveRace(p)
  <2> DEFINE u == [s EXCEPT !.app = "mainState"]
             r == Send(u, <<INFO_EXIT>>)
  <2>1. Perform(p, b, r, 0) /\ r.s = u
    BY <1>4 DEF LeaveRace, Send
  <2>2. u.status = s.status
    BY <1>1 DEF Machine
  <2>. HIDE DEF r, u
  <2>. QED
    BY <1>2, <2>1, <2>2 DEF Busy
<1>5. CASE Click(p)
  <2> DEFINE n == Seed[p][clicks'[p]]
             r == raceClick(s, n)
             v == readyButton(s, n).s
  <2>1. Perform(p, b, r, 0)
    BY <1>5 DEF Click
  <2>. HIDE DEF n
  <2>2. ~Busy(s) => ~Busy(v)
    <3>1. DOMAIN s = Fields
      BY <1>1, FieldTyped
    <3>. QED
      BY <3>1 DEF readyButton, awaitAck, Send, Quiet, Busy, Fields
  <2>3. r.s = resetButton(v)
    BY PressedTwice
  <2>. HIDE DEF r, v
  <2>4. ~Busy(s) => ~Busy(r.s)
    BY <2>2, <2>3 DEF resetButton, Busy
  <2>. QED
    BY <1>2, <2>1, <2>4
<1>6. CASE FinishText(p)
  <2> DEFINE r == endRace(s)
  <2>1. Perform(p, b, r, 0) /\ Busy(s)
    BY <1>6 DEF FinishText, Busy
  <2>. HIDE DEF r
  <2>. QED
    BY <1>2, <2>1
<1>7. CASE Overrun(p)
  BY <1>7 DEF Overrun, Lossless
<1>8. CASE Tick(p)
  <2> DEFINE u == Timed(s)
  <2>1. PICK clear \in BOOLEAN : Perform(p, b, [s |-> u, clear |-> clear, out |-> <<>>], 0)
    BY <1>1, <1>8, TickIs
  <2> DEFINE r == [s |-> u, clear |-> clear, out |-> <<>>]
  <2>2. r.s = u /\ Perform(p, b, r, 0)
    BY <2>1
  <2>3. Busy(u) => Busy(s)
    BY <1>1, TimedIs DEF Busy
  <2>. HIDE DEF r, u
  <2>. QED
    BY <1>2, <2>2, <2>3
<1>. QED
  BY <1>3, <1>4, <1>5, <1>6, <1>7, <1>8

(* A step that begins a race begins it on the opponent's own seed. *)
Begins ==
    \A p \in Peer : ~Racing(p) /\ Racing(p)' => peer'[p].seedYou = peer[Other(p)].seedMe

LEMMA BeginsStep ==
  ASSUME NEW p \in Peer, AllAgreed(TRUE), Lossless,
         \/ EnterRace(p) \/ LeaveRace(p) \/ Click(p) \/ FinishText(p)
         \/ Interrupt(p) \/ Overrun(p) \/ Tick(p)
  PROVE  Begins
<1> DEFINE q == Other(p)
           s == peer[p]
           t == peer[q]
           b == chan[q]
<1>1. /\ TypeOK /\ q \in Peer /\ q # p /\ Other(q) = p
      /\ s \in Machine /\ t \in Machine /\ Framed(s) /\ b \in Seq(Byte)
  BY TwoPeers, BothPeers DEF AllAgreed, TypeOK, RaceInv, Good
<1>2. ASSUME NEW u, peer' = [peer EXCEPT ![p] = u], ~Busy(s) /\ Busy(u) => u.seedYou = t.seedMe
      PROVE  Begins
  <2>1. \A x \in Peer : peer'[x] = IF x = p THEN u ELSE peer[x]
    BY <1>1, <1>2 DEF TypeOK
  <2>. QED
    BY <1>2, <2>1 DEF Begins, Racing, Busy
<1>3. CASE Interrupt(p)
  <2> DEFINE r == readByte(s, Head(b))
             u == r.s
  <2>1. Here(s) /\ b # <<>> /\ Perform(p, Tail(b), r, 0)
    BY <1>3 DEF Interrupt, Here
  <2>2. Meets(s, t, chan[p], b, wonText[p], wonText[q], TRUE)
    BY MeetsAt DEF AllAgreed
  <2>3. ~Busy(s) /\ Busy(u) => u.seedYou = t.seedMe
    <3>. HIDE DEF s, t, b
    <3>. QED
      BY <1>1, <2>1, <2>2, ReadBegins
  <2>. HIDE DEF r
  <2>4. peer' = [peer EXCEPT ![p] = u]
    <3>1. Tail(b) \in Seq(Byte)
      BY <1>1, <2>1
    <3>. QED
      BY <1>1, <2>1, <3>1, LosslessPerform
  <2>. HIDE DEF u
  <2>. QED
    BY <1>2, <2>3, <2>4
<1>4. CASE ~Interrupt(p)
  <2>1. PICK u : peer' = [peer EXCEPT ![p] = u] /\ (Busy(u) => Busy(s))
    BY <1>1, <1>4, OnlyReadsBegin
  <2>. QED
    BY <1>2, <2>1
<1>. QED
  BY <1>3, <1>4

(* A race begins on the seed the opponent stands by at that moment, and so *)
(* on its text: whichever of request, seed and answer completes it, the    *)
(* seed is not that of a request taken back, left behind or made anew      *)
(* (checkIfReady and serial_port_ih, proj.c).                              *)
THEOREM RaceBegins == AttentiveSpec => BeginsOnStandingRequest
<1> DEFINE Step == Next /\ Lossless /\ Patient /\ Committed /\ Attentive
<1>1. AllAgreed(TRUE) /\ [Step]_vars => [Begins]_vars
  BY BeginsStep DEF Next
<1>2. [][Begins]_vars <=> BeginsOnStandingRequest
  BY DEF BeginsOnStandingRequest, Begins
<1>. QED
  BY <1>1, <1>2, AttentiveAgrees, PTL DEF AttentiveSpec
=============================================================================
