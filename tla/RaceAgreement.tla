----------------------------- MODULE RaceAgreement ----------------------------
(***************************************************************************)
(* What two machines agree on, for every pair of machines, seeds, widths   *)
(* and timeouts: the texts of a race, its result, and who is in it.        *)
(*                                                                         *)
(* The bytes on their way from a machine are at most one request, of which *)
(* a Phase is left, and behind it some Replies to what it has read (Wire). *)
(* Given these, the flags, the seeds and the results of the two machines   *)
(* determine each other (Pact), and more closely when nobody takes Ready   *)
(* back and nobody races on past an unread WON (Accord).  In Agreement the *)
(* two are in touch so while both are on the race screen; while one is     *)
(* away the other has nothing to read but the notice of it (Alone).        *)
(*                                                                         *)
(* Agreement(FALSE) is inductive for CarefulSpec and Agreement(TRUE) for   *)
(* AttentiveSpec.  The two halves of each step are proved apart: what a    *)
(* handler makes of the flags (section 1), what it makes of the bytes      *)
(* (section 2), both together for one handler (section 3), and last the    *)
(* steps of the two machines (sections 4 and 5).  In all lemmas s is the   *)
(* machine that moves and t the other; a are the bytes from s to t, b      *)
(* those from t to s; f, g are what is left of the requests of s and t,    *)
(* l, m their replies; ws, wt the texts they last won with.                *)
(***************************************************************************)
EXTENDS RaceProofs, SequenceTheorems

-----------------------------------------------------------------------------
(* 1. What a handler makes of the flags, given what is under way.          *)

(* What is left of a request on its way: all of it, the seed behind its    *)
(* code, some bytes of the seed, a Ready taken back, or nothing.           *)
Phase == {"none", "ready", "ulong", "seed", "nready"}

(* The request has been answered but for its seed. *)
SeedDue == {"ulong", "seed"}

(* A request for a race is under way. *)
Asked == {"ready", "ulong", "seed"}

(* The replies on their way: R is READY_ACK, N is NREADY_ACK, A the ACK of *)
(* a seed, W is WON.                                                       *)
Replies == {"", "R", "RA", "A", "N", "W", "WR", "WRA", "WA", "WN", "AW"}

(* Those with a READY_ACK. *)
WithReady == {"R", "RA", "WR", "WRA"}

(* Those with a WON. *)
WithWon == {"W", "WR", "WRA", "WA", "WN", "AW"}

(* The text of two seeds (checkIfReady). *)
TextOf(m, n) == Unsigned(m + n)

(* A machine out of the lobby: racing or done. *)
Busy(s) == s.status # "unready"

(* s is ready, or is about to read that it is. *)
Acked(s, m) == s.readyMe \/ m \in WithReady

(* t knows that s is ready, or is about to read it. *)
Heard(t, f) == t.readyYou \/ f = "ready"

(* The seed of s that t knows or is about to read. *)
Told(s, t, f) == IF f \in Asked THEN s.seedMe ELSE t.seedYou

(* The order in which requests and replies of s go out, and how far they   *)
(* get with its race.                                                      *)
Order(s, f, l, m) ==
    /\ f \in {"ready", "nready"} => m \in {"", "W"}
    /\ f \in SeedDue => m \in {"", "R", "W", "WR"}
    /\ l \in WithWon => f = "none"
    /\ Busy(s) \/ s.readyMe => m \notin WithReady
    /\ f = "ready" => ~s.readyMe /\ ~Busy(s)
    /\ f \in SeedDue /\ Busy(s) => s.readyMe
    /\ s.status \in {"typing", "finished"} => f = "none"
    /\ s.status = "typing" => l \in {"", "A"}

(* The seed that t has of s, and the one it waits for, against the seed s  *)
(* has sent; and the text s began on, against the one t will.              *)
Seeds(s, t, f, l, m) ==
    /\ Busy(s) => ~s.waitingForSeed
    /\ f \in SeedDue /\ Acked(s, m) => t.waitingForSeed
    /\ t.readyYou /\ t.waitingForSeed => f \in SeedDue
    /\ ~Busy(s) /\ ~Busy(t) /\ t.readyYou /\ Acked(s, m) /\ f \notin Asked
         => t.seedYou = s.seedMe
    /\ Busy(s) /\ ~Busy(t) /\ Acked(t, l) /\ Heard(t, f)
         => s.text = TextOf(t.seedMe, Told(s, t, f))

(* What s is told of its race against what t has won. *)
Result(s, t, m, wt) ==
    /\ m \in WithWon /\ Busy(s) => wt = s.text
    /\ s.status = "finished" /\ ~s.won => wt = s.text
    /\ Busy(s) /\ Busy(t) => s.text = t.text

(* One direction of what two machines agree on. *)
Half(s, t, f, l, m, wt) == Order(s, f, l, m) /\ Seeds(s, t, f, l, m) /\ Result(s, t, m, wt)

(* What two machines agree on, bytes under way included. *)
Pact(s, t, f, g, l, m, ws, wt) == Half(s, t, f, l, m, wt) /\ Half(t, s, g, m, l, ws)

(* The replies with one more behind: READY_ACK, NREADY_ACK, the ACK of a   *)
(* seed, WON.                                                              *)
AlsoReady(l)  == IF l = "W" THEN "WR" ELSE "R"
AlsoNReady(l) == IF l = "W" THEN "WN" ELSE "N"
AlsoAck(l)    == CASE l = "" -> "A" [] l = "R" -> "RA" [] l = "W" -> "WA" [] OTHER -> "WRA"
AlsoWon(l)    == IF l = "A" THEN "AW" ELSE "W"

(* The replies without their first. *)
Rest(m) == CASE m = "RA" -> "A" [] m = "WR" -> "R" [] m = "WRA" -> "RA" [] m = "WA" -> "A"
             [] m = "WN" -> "N" [] m = "AW" -> "W" [] OTHER -> ""

(* u shows the race as s does. *)
Alike(s, u) ==
    /\ u.status = s.status /\ u.text = s.text /\ u.left = s.left /\ u.won = s.won
    /\ u.readyMe = s.readyMe /\ u.readyYou = s.readyYou
    /\ u.seedMe = s.seedMe /\ u.seedYou = s.seedYou
    /\ u.waitingForSeed = s.waitingForSeed

(* READY read in the lobby: s notes it, waits for the seed and answers. *)
LEMMA HearReady ==
  ASSUME NEW s \in Machine, NEW t \in Machine, NEW ws, NEW wt,
         NEW f \in Phase, NEW g \in Phase, NEW l \in Replies, NEW m \in Replies,
         Pact(s, t, f, g, l, m, ws, wt),
         g = "ready", ~Busy(s)
  PROVE Pact([s EXCEPT !.readyYou = TRUE, !.waitingForSeed = TRUE], t, f, "ulong",
        AlsoReady(l), m, ws, wt)
<1> DEFINE u == [s EXCEPT !.readyYou = TRUE, !.waitingForSeed = TRUE]
<1>1. u.readyYou = TRUE /\ u.waitingForSeed = TRUE /\ u.status = s.status /\
      u.text = s.text /\ u.left = s.left /\ u.won = s.won /\ u.readyMe = s.readyMe /\
      u.seedMe = s.seedMe /\ u.seedYou = s.seedYou
  BY DEF Machine
<1>. HIDE DEF u
<1>2. Order(u, f, AlsoReady(l), m)
  BY <1>1 DEF Pact, Half, Order, WithWon, WithReady, Busy, SeedDue, Asked, Phase, Replies,
     AlsoReady
<1>3. Order(t, "ulong", m, AlsoReady(l))
  BY <1>1 DEF Pact, Half, Order, WithWon, WithReady, Busy, SeedDue, Asked, Phase, Replies,
     AlsoReady
<1>4. Seeds(u, t, f, AlsoReady(l), m)
  BY <1>1, ZenonT(60) DEF Pact, Half, Order, Seeds, WithWon, WithReady, Busy, SeedDue, Acked,
     Heard,
     Told, Asked, Phase, Replies, AlsoReady
<1>5. Seeds(t, u, "ulong", m, AlsoReady(l))
  BY <1>1, ZenonT(60) DEF Pact, Half, Order, Seeds, WithWon, WithReady, Busy, SeedDue, Acked,
     Heard,
     Told, Asked, Phase, Replies, AlsoReady
<1>6. Result(u, t, m, wt) /\ Result(t, u, AlsoReady(l), ws)
  BY <1>1 DEF Pact, Half, Order, Result, WithWon, WithReady, Busy, Replies, AlsoReady
<1>. QED
  BY <1>2, <1>3, <1>4, <1>5, <1>6 DEF Pact, Half, u

(* READY read out of the lobby is passed over, its seed still to come. *)
LEMMA PassReady ==
  ASSUME NEW s \in Machine, NEW t \in Machine, NEW ws, NEW wt,
         NEW f \in Phase, NEW g \in Phase, NEW l \in Replies, NEW m \in Replies,
         Pact(s, t, f, g, l, m, ws, wt),
         g = "ready", Busy(s), NEW u \in Machine, Alike(s, u)
  PROVE Pact(u, t, f, "ulong", l, m, ws, wt)
  BY ZenonT(60) DEF Pact, Half, Order, Seeds, Result, WithWon, WithReady, Busy, SeedDue,
     Acked, Heard,
     Told, Asked, Phase, Replies, Alike

(* The code of the seed. *)
LEMMA ReadCode ==
  ASSUME NEW s \in Machine, NEW t \in Machine, NEW ws, NEW wt,
         NEW f \in Phase, NEW g \in Phase, NEW l \in Replies, NEW m \in Replies,
         Pact(s, t, f, g, l, m, ws, wt),
         g = "ulong", NEW u \in Machine, Alike(s, u)
  PROVE Pact(u, t, f, "seed", l, m, ws, wt)
  BY ZenonT(60) DEF Pact, Half, Order, Seeds, Result, WithWon, WithReady, Busy, SeedDue,
     Acked, Heard,
     Told, Asked, Phase, Replies, Alike

(* The last byte of a seed nobody waits for: only acknowledged. *)
LEMMA SkipSeed ==
  ASSUME NEW s \in Machine, NEW t \in Machine, NEW ws, NEW wt,
         NEW f \in Phase, NEW g \in Phase, NEW l \in Replies, NEW m \in Replies,
         Pact(s, t, f, g, l, m, ws, wt),
         g = "seed", ~s.waitingForSeed, NEW u \in Machine, Alike(s, u)
  PROVE Pact(u, t, f, "none", AlsoAck(l), m, ws, wt)
  BY ZenonT(60) DEF Pact, Half, Order, Seeds, Result, WithWon, WithReady, Busy, SeedDue,
     Acked, Heard,
     Told, Asked, Phase, Replies, Alike, AlsoAck

(* NREADY read in the lobby: s notes it and answers. *)
LEMMA HearNReady ==
  ASSUME NEW s \in Machine, NEW t \in Machine, NEW ws, NEW wt,
         NEW f \in Phase, NEW g \in Phase, NEW l \in Replies, NEW m \in Replies,
         Pact(s, t, f, g, l, m, ws, wt),
         g = "nready", ~Busy(s)
  PROVE Pact([s EXCEPT !.readyYou = FALSE], t, f, "none", AlsoNReady(l), m, ws, wt)
<1> DEFINE u == [s EXCEPT !.readyYou = FALSE]
<1>1. u.readyYou = FALSE /\ u.status = s.status /\ u.text = s.text /\ u.left = s.left /\
      u.won = s.won /\ u.readyMe = s.readyMe /\ u.seedMe = s.seedMe /\
      u.seedYou = s.seedYou /\ u.waitingForSeed = s.waitingForSeed
  BY DEF Machine
<1>. HIDE DEF u
<1>2. Order(u, f, AlsoNReady(l), m)
  BY <1>1 DEF Pact, Half, Order, WithWon, WithReady, Busy, SeedDue, Asked, Phase, Replies,
     AlsoNReady
<1>3. Order(t, "none", m, AlsoNReady(l))
  BY <1>1 DEF Pact, Half, Order, WithWon, WithReady, Busy, SeedDue, Asked, Phase, Replies,
     AlsoNReady
<1>4. Seeds(u, t, f, AlsoNReady(l), m)
  BY <1>1, ZenonT(60) DEF Pact, Half, Order, Seeds, WithWon, WithReady, Busy, SeedDue, Acked,
     Heard,
     Told, Asked, Phase, Replies, AlsoNReady
<1>5. Seeds(t, u, "none", m, AlsoNReady(l))
  BY <1>1, ZenonT(60) DEF Pact, Half, Order, Seeds, WithWon, WithReady, Busy, SeedDue, Acked,
     Heard,
     Told, Asked, Phase, Replies, AlsoNReady
<1>6. Result(u, t, m, wt) /\ Result(t, u, AlsoNReady(l), ws)
  BY <1>1 DEF Pact, Half, Order, Result, WithWon, WithReady, Busy, Replies, AlsoNReady
<1>. QED
  BY <1>2, <1>3, <1>4, <1>5, <1>6 DEF Pact, Half, u

(* NREADY read out of the lobby is passed over. *)
LEMMA PassNReady ==
  ASSUME NEW s \in Machine, NEW t \in Machine, NEW ws, NEW wt,
         NEW f \in Phase, NEW g \in Phase, NEW l \in Replies, NEW m \in Replies,
         Pact(s, t, f, g, l, m, ws, wt),
         g = "nready", Busy(s), NEW u \in Machine, Alike(s, u)
  PROVE Pact(u, t, f, "none", l, m, ws, wt)
  BY ZenonT(60) DEF Pact, Half, Order, Seeds, Result, WithWon, WithReady, Busy, SeedDue,
     Acked, Heard,
     Told, Asked, Phase, Replies, Alike

(* A reply that changes nothing for s. *)
LEMMA PassReply ==
  ASSUME NEW s \in Machine, NEW t \in Machine, NEW ws, NEW wt,
         NEW f \in Phase, NEW g \in Phase, NEW l \in Replies, NEW m \in Replies,
         Pact(s, t, f, g, l, m, ws, wt),
         g = "none", m # "", m \in {"W", "WR", "WRA", "WA", "WN"} => s.status # "typing",
         NEW u \in Machine, Alike(s, u)
  PROVE Pact(u, t, f, "none", l, Rest(m), ws, wt)
<1>1. Order(u, f, l, Rest(m))
  BY DEF Pact, Half, Order, WithWon, WithReady, Busy, SeedDue, Asked, Phase, Replies,
     Alike, Rest
<1>2. Order(t, "none", Rest(m), l)
  BY DEF Pact, Half, Order, WithWon, WithReady, Busy, SeedDue, Asked, Phase, Replies,
     Alike, Rest
<1>3. Seeds(u, t, f, l, Rest(m))
  BY ZenonT(60) DEF Pact, Half, Order, Seeds, WithWon, WithReady, Busy, SeedDue, Acked,
     Heard, Told,
     Asked, Phase, Replies, Alike, Rest
<1>4. Seeds(t, u, "none", Rest(m), l)
  BY ZenonT(60) DEF Pact, Half, Order, Seeds, WithWon, WithReady, Busy, SeedDue, Acked,
     Heard, Told,
     Asked, Phase, Replies, Alike, Rest
<1>5. Result(u, t, Rest(m), wt) /\ Result(t, u, l, ws)
  BY DEF Pact, Half, Order, Result, WithWon, WithReady, Busy, Replies, Alike, Rest
<1>. QED
  BY <1>1, <1>2, <1>3, <1>4, <1>5 DEF Pact, Half

(* NREADY_ACK: s is not ready any more. *)
LEMMA HearNReadyAck ==
  ASSUME NEW s \in Machine, NEW t \in Machine, NEW ws, NEW wt,
         NEW f \in Phase, NEW g \in Phase, NEW l \in Replies, NEW m \in Replies,
         Pact(s, t, f, g, l, m, ws, wt),
         g = "none", m = "N", NEW u \in Machine,
         Alike([s EXCEPT !.readyMe = FALSE, !.seedMe = 0], u)
  PROVE Pact(u, t, f, "none", l, Rest(m), ws, wt)
<1>1. u.readyMe = FALSE /\ u.seedMe = 0 /\ u.status = s.status /\ u.text = s.text /\
      u.left = s.left /\ u.won = s.won /\ u.readyYou = s.readyYou /\
      u.seedYou = s.seedYou /\ u.waitingForSeed = s.waitingForSeed
  BY DEF Alike, Machine
<1>2. f = "none" /\ Rest(m) = ""
  BY DEF Pact, Half, Order, Phase, SeedDue, Rest
<1>. HIDE DEF Rest
<1>. QED
  BY <1>1, <1>2, ZenonT(60) DEF Pact, Half, Order, Seeds, Result, WithWon, WithReady, Busy,
     SeedDue,
     Acked, Heard, Told, Asked, Phase, Replies

(* WON read while typing: s has lost against the text t has won with. *)
LEMMA HearWon ==
  ASSUME NEW s \in Machine, NEW t \in Machine, NEW ws, NEW wt,
         NEW f \in Phase, NEW g \in Phase, NEW l \in Replies, NEW m \in Replies,
         Pact(s, t, f, g, l, m, ws, wt),
         g = "none", m \in {"W", "WR", "WRA", "WA", "WN"}, s.status = "typing",
         NEW u \in Machine, Alike([s EXCEPT !.status = "finished", !.won = FALSE], u)
  PROVE Pact(u, t, f, "none", l, Rest(m), ws, wt)
<1>1. u.status = "finished" /\ u.won = FALSE /\ u.text = s.text /\ u.left = s.left /\
      u.readyMe = s.readyMe /\ u.readyYou = s.readyYou /\ u.seedMe = s.seedMe /\
      u.seedYou = s.seedYou /\ u.waitingForSeed = s.waitingForSeed
  BY DEF Alike, Machine
<1>. QED
  BY <1>1, ZenonT(60) DEF Pact, Half, Order, Seeds, Result, WithWon, WithReady, Busy,
     SeedDue, Acked,
     Heard, Told, Asked, Phase, Replies, Rest

(* The click on Ready of a settled machine that is not ready. *)
LEMMA Asking ==
  ASSUME NEW s \in Machine, NEW t \in Machine, NEW ws, NEW wt,
         NEW f \in Phase, NEW g \in Phase, NEW l \in Replies, NEW m \in Replies,
         Pact(s, t, f, g, l, m, ws, wt),
         f = "none", l = "", m \in {"", "W"}, ~Busy(s), ~s.readyMe,
         NEW n \in Nat, NEW u \in Machine, Alike([s EXCEPT !.seedMe = n], u)
  PROVE Pact(u, t, "ready", g, l, m, ws, wt)
<1>1. u.seedMe = n /\ u.status = s.status /\ u.text = s.text /\ u.left = s.left /\
      u.won = s.won /\ u.readyMe = s.readyMe /\ u.readyYou = s.readyYou /\
      u.seedYou = s.seedYou /\ u.waitingForSeed = s.waitingForSeed
  BY DEF Alike, Machine
<1>. QED
  BY <1>1, ZenonT(60) DEF Pact, Half, Order, Seeds, Result, WithWon, WithReady, Busy,
     SeedDue, Acked,
     Heard, Told, Asked, Phase, Replies

(* The click of a settled machine that is ready. *)
LEMMA TakingBack ==
  ASSUME NEW s \in Machine, NEW t \in Machine, NEW ws, NEW wt,
         NEW f \in Phase, NEW g \in Phase, NEW l \in Replies, NEW m \in Replies,
         Pact(s, t, f, g, l, m, ws, wt),
         f = "none", l = "", m \in {"", "W"}, ~Busy(s), s.readyMe, NEW u \in Machine,
         Alike(s, u)
  PROVE Pact(u, t, "nready", g, l, m, ws, wt)
  BY ZenonT(60) DEF Pact, Half, Order, Seeds, Result, WithWon, WithReady, Busy, SeedDue,
     Acked, Heard,
     Told, Asked, Phase, Replies, Alike

(* The click of a settled machine whose race is finished. *)
LEMMA NewRace ==
  ASSUME NEW s \in Machine, NEW t \in Machine, NEW ws, NEW wt,
         NEW f \in Phase, NEW g \in Phase, NEW l \in Replies, NEW m \in Replies,
         Pact(s, t, f, g, l, m, ws, wt),
         f = "none", l = "", m \in {"", "W"}, s.status = "finished"
  PROVE Pact(resetInfo(s), t, f, g, l, m, ws, wt)
<1> DEFINE u == resetInfo(s)
<1>1. u.status = "unready" /\ ~u.readyMe /\ ~u.readyYou /\ u.seedMe = 0 /\ u.seedYou = 0 /\
      u.won = FALSE /\ u.waitingForSeed = s.waitingForSeed
  BY DEF Machine, resetInfo, resetRacingInfo, resetTypingInfo
<1>. HIDE DEF u
<1>. QED
  BY <1>1, ZenonT(60) DEF Pact, Half, Order, Seeds, Result, WithWon, WithReady, Busy,
     SeedDue, Acked,
     Heard, Told, Asked, Phase, Replies, u

(* The key that completes the text: s has won with it and says so. *)
LEMMA Finishing ==
  ASSUME NEW s \in Machine, NEW t \in Machine, NEW ws, NEW wt,
         NEW f \in Phase, NEW g \in Phase, NEW l \in Replies, NEW m \in Replies,
         Pact(s, t, f, g, l, m, ws, wt),
         s.status = "typing", t.status # "ready"
  PROVE Pact([s EXCEPT !.status = "finished", !.won = TRUE], t, f, g, AlsoWon(l), m,
        s.text, wt)
<1> DEFINE u == [s EXCEPT !.status = "finished", !.won = TRUE]
<1>1. u.status = "finished" /\ u.won = TRUE /\ u.text = s.text /\ u.left = s.left /\
      u.readyMe = s.readyMe /\ u.readyYou = s.readyYou /\ u.seedMe = s.seedMe /\
      u.seedYou = s.seedYou /\ u.waitingForSeed = s.waitingForSeed
  BY DEF Machine
<1>. HIDE DEF u
<1>. QED
  BY <1>1, ZenonT(60) DEF Pact, Half, Order, Seeds, Result, WithWon, WithReady, Busy,
     SeedDue, Acked,
     Heard, Told, Asked, Phase, Replies, AlsoWon, u

(* The countdown; it ends only when nothing from s is on its way. *)
LEMMA Counting ==
  ASSUME NEW s \in Machine, NEW t \in Machine, NEW ws, NEW wt,
         NEW f \in Phase, NEW g \in Phase, NEW l \in Replies, NEW m \in Replies,
         Pact(s, t, f, g, l, m, ws, wt),
         NEW u \in Machine, Alike([s EXCEPT !.left = u.left, !.status = u.status], u),
         u.status = s.status \/ (s.status = "ready" /\ u.status = "typing" /\ f = "none" /\
         l = "")
  PROVE Pact(u, t, f, g, l, m, ws, wt)
<1>1. u.text = s.text /\ u.won = s.won /\ u.readyMe = s.readyMe /\
      u.readyYou = s.readyYou /\ u.seedMe = s.seedMe /\ u.seedYou = s.seedYou /\
      u.waitingForSeed = s.waitingForSeed
  BY DEF Alike, Machine
<1>2. Order(u, f, l, m)
  BY <1>1 DEF Pact, Half, Order, WithWon, WithReady, Busy, SeedDue, Asked, Phase, Replies
<1>3. Order(t, g, m, l)
  BY <1>1 DEF Pact, Half, Order, WithWon, WithReady, Busy, SeedDue, Asked, Phase, Replies
<1>4. Seeds(u, t, f, l, m)
  BY <1>1, ZenonT(60) DEF Pact, Half, Order, Seeds, WithWon, WithReady, Busy, SeedDue, Acked,
     Heard,
     Told, Asked, Phase, Replies
<1>5. Seeds(t, u, g, m, l)
  BY <1>1, ZenonT(60) DEF Pact, Half, Order, Seeds, WithWon, WithReady, Busy, SeedDue, Acked,
     Heard,
     Told, Asked, Phase, Replies
<1>6. Result(u, t, m, wt) /\ Result(t, u, l, ws)
  BY <1>1 DEF Pact, Half, Order, Result, WithWon, WithReady, Busy, Replies
<1>. QED
  BY <1>2, <1>3, <1>4, <1>5, <1>6 DEF Pact, Half

(* What becomes of the race of a machine that has just learnt something:   *)
(* it begins if everything is there.                                       *)
Becomes(s, u) ==
    IF BothReady(u)
    THEN u.status = "ready" /\ u.text = TextOf(u.seedMe, u.seedYou)
    ELSE u.status = s.status /\ u.text = s.text

(* The last byte of the seed s waits for: acknowledged, and the race       *)
(* begins if s is ready.                                                   *)
LEMMA HearSeed ==
  ASSUME NEW s \in Machine, NEW t \in Machine, NEW ws, NEW wt,
         NEW f \in Phase, NEW g \in Phase, NEW l \in Replies, NEW m \in Replies,
         Pact(s, t, f, g, l, m, ws, wt),
         g = "seed", s.waitingForSeed,
         NEW u \in Machine, Becomes(s, u), u.seedYou = t.seedMe, ~u.waitingForSeed,
         u.won = s.won, u.readyMe = s.readyMe, u.readyYou = s.readyYou, u.seedMe = s.seedMe
  PROVE Pact(u, t, f, "none", AlsoAck(l), m, ws, wt)
<1>1. ~Busy(s)
  BY DEF Pact, Half, Seeds
<1>2. t.seedMe \in Nat /\ s.seedMe \in Nat /\
      TextOf(s.seedMe, t.seedMe) = TextOf(t.seedMe, s.seedMe)
  BY DEF Machine, TextOf
<1>3. CASE BothReady(u)
  <2>1. u.status = "ready" /\ u.text = TextOf(s.seedMe, t.seedMe) /\ s.readyMe /\ s.readyYou
    BY <1>3 DEF Becomes, BothReady
  <2>2. Order(u, f, AlsoAck(l), m)
    BY <1>1, <1>2, <2>1 DEF Pact, Half, Order, WithWon, WithReady, Busy, Phase, Replies,
       SeedDue, Asked, AlsoAck
  <2>3. Order(t, "none", m, AlsoAck(l))
    BY <1>1, <1>2, <2>1 DEF Pact, Half, Order, WithWon, WithReady, Busy, Phase, Replies,
       SeedDue, Asked, AlsoAck
  <2>4. Seeds(u, t, f, AlsoAck(l), m)
    BY <1>1, <1>2, <2>1 DEF Pact, Half, Order, WithWon, WithReady, Busy, Phase, Replies,
       Seeds, SeedDue, Asked, Acked, Heard, Told, AlsoAck
  <2>5. Seeds(t, u, "none", m, AlsoAck(l))
    BY <1>1, <1>2, <2>1 DEF Pact, Half, Order, WithWon, WithReady, Busy, Phase, Replies,
       Seeds, SeedDue, Asked, Acked, Heard, Told, AlsoAck
  <2>6. Result(u, t, m, wt)
    BY <1>1, <1>2, <2>1 DEF Pact, Half, Order, WithWon, WithReady, Busy, Phase, Replies,
       Seeds, Result, SeedDue, Asked, Acked, Heard, Told, AlsoAck
  <2>7. Result(t, u, AlsoAck(l), ws)
    BY <1>1, <1>2, <2>1 DEF Pact, Half, Order, WithWon, WithReady, Busy, Phase, Replies,
       Seeds, Result, SeedDue, Asked, Acked, Heard, Told, AlsoAck
  <2>. QED
    BY <2>2, <2>3, <2>4, <2>5, <2>6, <2>7 DEF Pact, Half
<1>4. CASE ~BothReady(u)
  <2>1. u.status = s.status /\ u.text = s.text
    BY <1>4 DEF Becomes
  <2>2. Order(u, f, AlsoAck(l), m)
    BY <1>1, <2>1 DEF Pact, Half, Order, WithWon, WithReady, Busy, Phase, Replies, SeedDue,
       Asked, AlsoAck
  <2>3. Order(t, "none", m, AlsoAck(l))
    BY <1>1, <2>1 DEF Pact, Half, Order, WithWon, WithReady, Busy, Phase, Replies, SeedDue,
       Asked, AlsoAck
  <2>4. Seeds(u, t, f, AlsoAck(l), m)
    BY <1>1, <2>1 DEF Pact, Half, Order, WithWon, WithReady, Busy, Phase, Replies, Seeds,
       SeedDue, Asked, Acked, Heard, Told, AlsoAck
  <2>5. Seeds(t, u, "none", m, AlsoAck(l))
    BY <1>1, <2>1 DEF Pact, Half, Order, WithWon, WithReady, Busy, Phase, Replies, Seeds,
       SeedDue, Asked, Acked, Heard, Told, AlsoAck
  <2>6. Result(u, t, m, wt)
    BY <1>1, <2>1 DEF Pact, Half, Order, WithWon, WithReady, Busy, Phase, Replies, Seeds,
       Result, SeedDue, Asked, Acked, Heard, Told, AlsoAck
  <2>7. Result(t, u, AlsoAck(l), ws)
    BY <1>1, <2>1 DEF Pact, Half, Order, WithWon, WithReady, Busy, Phase, Replies, Seeds,
       Result, SeedDue, Asked, Acked, Heard, Told, AlsoAck
  <2>. QED
    BY <2>2, <2>3, <2>4, <2>5, <2>6, <2>7 DEF Pact, Half
<1>. QED
  BY <1>3, <1>4

(* READY_ACK: s is ready, and the race begins if t is as well. *)
LEMMA HearReadyAck ==
  ASSUME NEW s \in Machine, NEW t \in Machine, NEW ws, NEW wt,
         NEW f \in Phase, NEW g \in Phase, NEW l \in Replies, NEW m \in Replies,
         Pact(s, t, f, g, l, m, ws, wt),
         g = "none", m \in {"R", "RA"},
         NEW u \in Machine, Becomes(s, u), u.readyMe,
         u.won = s.won, u.readyYou = s.readyYou, u.seedMe = s.seedMe, u.seedYou = s.seedYou,
         u.waitingForSeed = s.waitingForSeed
  PROVE Pact(u, t, f, "none", l, Rest(m), ws, wt)
<1>1. ~Busy(s) /\ ~s.readyMe /\ f \notin {"ready", "nready"}
  BY DEF Pact, Half, Order, WithReady
<1>2. t.seedMe \in Nat /\ s.seedMe \in Nat /\
      TextOf(s.seedMe, t.seedMe) = TextOf(t.seedMe, s.seedMe)
  BY DEF Machine, TextOf
<1>3. CASE BothReady(u)
  <2>1. u.status = "ready" /\ u.text = TextOf(s.seedMe, s.seedYou) /\ s.readyYou
    BY <1>3 DEF Becomes, BothReady
  <2>2. Order(u, f, l, Rest(m))
    BY <1>1, <1>2, <2>1 DEF Pact, Half, Order, WithWon, WithReady, Busy, Phase, Replies,
       SeedDue, Asked, Rest
  <2>3. Order(t, "none", Rest(m), l)
    BY <1>1, <1>2, <2>1 DEF Pact, Half, Order, WithWon, WithReady, Busy, Phase, Replies,
       SeedDue, Asked, Rest
  <2>4. Seeds(s, t, f, l, m) /\ Seeds(t, s, "none", m, l) /\ Acked(s, m)
    BY DEF Pact, Half, Acked, WithReady
  <2>5. ASSUME ~Busy(t), Acked(t, l), Heard(t, f)
        PROVE  u.text = TextOf(t.seedMe, Told(u, t, f))
    <3>1. t.readyYou /\ s.seedYou = t.seedMe
      BY <1>1, <2>1, <2>4, <2>5 DEF Seeds, Heard, Asked
    <3>2. Told(u, t, f) = s.seedMe
      BY <1>1, <2>4, <2>5, <3>1 DEF Seeds, Told
    <3>. QED
      BY <1>2, <2>1, <3>1, <3>2
  <2>6. Seeds(u, t, f, l, Rest(m))
    BY <1>1, <2>1, <2>4, <2>5 DEF Seeds, Busy, SeedDue, Acked
  <2>7. Seeds(t, u, "none", Rest(m), l)
    BY <1>1, <1>2, <2>1 DEF Pact, Half, Order, WithWon, WithReady, Busy, Phase, Replies,
       Seeds, SeedDue, Asked, Acked, Heard, Told, Rest
  <2>8. Result(u, t, Rest(m), wt)
    BY <1>1, <1>2, <2>1 DEF Pact, Half, Order, WithWon, WithReady, Busy, Phase, Replies,
       Seeds, Result, SeedDue, Asked, Acked, Heard, Told, Rest
  <2>9. Result(t, u, l, ws)
    BY <1>1, <1>2, <2>1 DEF Pact, Half, Order, WithWon, WithReady, Busy, Phase, Replies,
       Seeds, Result, SeedDue, Asked, Acked, Heard, Told, Rest
  <2>. QED
    BY <2>2, <2>3, <2>6, <2>7, <2>8, <2>9 DEF Pact, Half
<1>4. CASE ~BothReady(u)
  <2>1. u.status = s.status /\ u.text = s.text
    BY <1>4 DEF Becomes
  <2>2. Order(u, f, l, Rest(m))
    BY <1>1, <2>1 DEF Pact, Half, Order, WithWon, WithReady, Busy, Phase, Replies, SeedDue,
       Asked, Rest
  <2>3. Order(t, "none", Rest(m), l)
    BY <1>1, <2>1 DEF Pact, Half, Order, WithWon, WithReady, Busy, Phase, Replies, SeedDue,
       Asked, Rest
  <2>4. Seeds(u, t, f, l, Rest(m))
    BY <1>1, <2>1 DEF Pact, Half, Order, WithWon, WithReady, Busy, Phase, Replies, Seeds,
       SeedDue, Asked, Acked, Heard, Told, Rest
  <2>5. Seeds(t, u, "none", Rest(m), l)
    BY <1>1, <2>1 DEF Pact, Half, Order, WithWon, WithReady, Busy, Phase, Replies, Seeds,
       SeedDue, Asked, Acked, Heard, Told, Rest
  <2>6. Result(u, t, Rest(m), wt)
    BY <1>1, <2>1 DEF Pact, Half, Order, WithWon, WithReady, Busy, Phase, Replies, Seeds,
       Result, SeedDue, Asked, Acked, Heard, Told, Rest
  <2>7. Result(t, u, l, ws)
    BY <1>1, <2>1 DEF Pact, Half, Order, WithWon, WithReady, Busy, Phase, Replies, Seeds,
       Result, SeedDue, Asked, Acked, Heard, Told, Rest
  <2>. QED
    BY <2>2, <2>3, <2>4, <2>5, <2>6, <2>7 DEF Pact, Half
<1>. QED
  BY <1>3, <1>4

(* What holds besides, in one direction, between attentive players who     *)
(* never take Ready back: each knows of the other what is so or on its     *)
(* way, and a race is never one machine's alone.                           *)
Concord(s, t, f, l, m) ==
    /\ f # "nready" /\ l \notin {"N", "WN"}
    /\ f = "ready" => s.waitingAck
    /\ m \in WithReady => s.waitingAck /\ ~Busy(s)
    /\ l \in WithWon => s.status = "finished" /\ t.status \in {"typing", "finished"}
    /\ ~Busy(s) /\ ~Busy(t) => (t.readyYou <=> Acked(s, m))
    /\ ~Busy(s) /\ Acked(s, m) => s.seedMe # 0
    /\ Busy(s) <=> BothReady(s)
    /\ ~Busy(s) /\ (s.waitingForSeed \/ ~s.readyYou) => s.seedYou = 0
    /\ f \in SeedDue /\ t.waitingForSeed => t.readyYou
    /\ s.status = "ready" => t.status # "finished"
    /\ s.status = "ready" /\ ~Busy(t) =>
          Acked(t, l) /\ t.readyYou /\ t.seedMe # 0 /\ (f \in SeedDue \/ t.seedYou = s.seedMe)
    /\ s.status = "typing" => Busy(t) /\ (t.status = "finished" => m \in WithWon)
    /\ s.status = "finished" /\ ~Busy(t) => ~t.readyMe /\ ~t.readyYou /\ l \notin WithReady

(* The same in both directions. *)
Accord(s, t, f, g, l, m) == Concord(s, t, f, l, m) /\ Concord(t, s, g, m, l)

(* READY read in the lobby keeps it. *)
LEMMA AgreeHearReady ==
  ASSUME NEW s \in Machine, NEW t \in Machine, NEW ws, NEW wt,
         NEW f \in Phase, NEW g \in Phase, NEW l \in Replies, NEW m \in Replies,
         Pact(s, t, f, g, l, m, ws, wt), Accord(s, t, f, g, l, m),
         g = "ready", ~Busy(s), t.seedMe # 0
  PROVE  Accord([s EXCEPT !.readyYou = TRUE, !.waitingForSeed = TRUE], t, f, "ulong",
         AlsoReady(l), m)
<1> DEFINE u == [s EXCEPT !.readyYou = TRUE, !.waitingForSeed = TRUE]
<1>1. u.readyYou /\ u.waitingForSeed /\ u.status = s.status /\ u.readyMe = s.readyMe /\
      u.seedMe = s.seedMe /\ u.seedYou = s.seedYou /\ u.waitingAck = s.waitingAck
  BY DEF Machine, resetInfo, resetRacingInfo, resetTypingInfo
<1>. HIDE DEF u
<1>2. s.readyYou \in BOOLEAN /\ t.readyMe \in BOOLEAN
  BY DEF Machine
<1>3. ~Busy(t) /\ l \in {"", "W"} /\ ~t.readyMe
  BY DEF Pact, Half, Order
<1>4. l = "" /\ ~Acked(t, l)
  BY <1>3 DEF Accord, Concord, Busy, Acked, WithReady, WithWon
<1>5. ~s.readyYou /\ s.seedYou = 0
  BY <1>2, <1>3, <1>4 DEF Accord, Concord
<1>6. Concord(u, t, f, AlsoReady(l), m)
  BY <1>1, <1>3, <1>4, <1>5 DEF Pact, Half, Order, Accord, Concord, WithWon, WithReady,
     Busy, SeedDue, Acked, BothReady, AlsoReady
<1>7. Concord(t, u, "ulong", m, AlsoReady(l))
  BY <1>1, <1>3, <1>4, ZenonT(60) DEF Pact, Half, Order, Seeds, Accord, Concord, WithWon,
     WithReady,
     Busy, SeedDue, Asked, Acked, Machine, BothReady, Phase, Replies, AlsoReady
<1>. QED
  BY <1>6, <1>7 DEF Accord, u

(* READY read out of the lobby keeps it. *)
LEMMA AgreePassReady ==
  ASSUME NEW s \in Machine, NEW t \in Machine, NEW ws, NEW wt,
         NEW f \in Phase, NEW g \in Phase, NEW l \in Replies, NEW m \in Replies,
         Pact(s, t, f, g, l, m, ws, wt), Accord(s, t, f, g, l, m),
         g = "ready", Busy(s), NEW u \in Machine, Alike(s, u)
  PROVE  Accord(u, t, f, "ulong", l, m)
<1>1. Concord(u, t, f, l, m)
  BY ZenonT(60) DEF Pact, Half, Order, Seeds, Accord, Concord, WithWon, WithReady, Busy,
     SeedDue,
     Asked, Acked, Machine, BothReady, Phase, Replies, Alike
<1>2. Concord(t, u, "ulong", m, l)
  BY ZenonT(60) DEF Pact, Half, Order, Seeds, Accord, Concord, WithWon, WithReady, Busy,
     SeedDue,
     Asked, Acked, Machine, BothReady, Phase, Replies, Alike
<1>. QED
  BY <1>1, <1>2 DEF Accord

(* The code of the seed keeps it. *)
LEMMA AgreeReadCode ==
  ASSUME NEW s \in Machine, NEW t \in Machine, NEW ws, NEW wt,
         NEW f \in Phase, NEW g \in Phase, NEW l \in Replies, NEW m \in Replies,
         Pact(s, t, f, g, l, m, ws, wt), Accord(s, t, f, g, l, m),
         g = "ulong", NEW u \in Machine, Alike(s, u), u.waitingAck = s.waitingAck
  PROVE  Accord(u, t, f, "seed", l, m)
<1>1. Concord(u, t, f, l, m)
  BY ZenonT(60) DEF Pact, Half, Order, Seeds, Accord, Concord, WithWon, WithReady, Busy,
     SeedDue,
     Asked, Acked, Machine, BothReady, Phase, Replies, Alike
<1>2. Concord(t, u, "seed", m, l)
  BY ZenonT(60) DEF Pact, Half, Order, Seeds, Accord, Concord, WithWon, WithReady, Busy,
     SeedDue,
     Asked, Acked, Machine, BothReady, Phase, Replies, Alike
<1>. QED
  BY <1>1, <1>2 DEF Accord

(* A seed nobody waits for keeps it. *)
LEMMA AgreeSkipSeed ==
  ASSUME NEW s \in Machine, NEW t \in Machine, NEW ws, NEW wt,
         NEW f \in Phase, NEW g \in Phase, NEW l \in Replies, NEW m \in Replies,
         Pact(s, t, f, g, l, m, ws, wt), Accord(s, t, f, g, l, m),
         g = "seed", ~s.waitingForSeed, NEW u \in Machine, Alike(s, u),
         u.waitingAck = s.waitingAck
  PROVE  Accord(u, t, f, "none", AlsoAck(l), m)
<1>1. Concord(u, t, f, AlsoAck(l), m)
  BY ZenonT(60) DEF Pact, Half, Order, Seeds, Accord, Concord, WithWon, WithReady, Busy,
     SeedDue,
     Asked, Acked, Machine, BothReady, Phase, Replies, Alike, AlsoAck
<1>2. Concord(t, u, "none", m, AlsoAck(l))
  BY ZenonT(60) DEF Pact, Half, Order, Seeds, Accord, Concord, WithWon, WithReady, Busy,
     SeedDue,
     Asked, Acked, Machine, BothReady, Phase, Replies, Alike, AlsoAck
<1>. QED
  BY <1>1, <1>2 DEF Accord

(* A reply that changes nothing for s keeps it. *)
LEMMA AgreePassReply ==
  ASSUME NEW s \in Machine, NEW t \in Machine, NEW ws, NEW wt,
         NEW f \in Phase, NEW g \in Phase, NEW l \in Replies, NEW m \in Replies,
         Pact(s, t, f, g, l, m, ws, wt), Accord(s, t, f, g, l, m),
         g = "none", m # "", m \in {"W", "WR", "WRA", "WA", "WN"} => s.status # "typing",
         m \in {"R", "RA"} => ~s.waitingAck, NEW u \in Machine, Alike(s, u)
  PROVE  Accord(u, t, f, "none", l, Rest(m))
<1>1. Concord(u, t, f, l, Rest(m))
  BY ZenonT(60) DEF Pact, Half, Order, Seeds, Accord, Concord, WithWon, WithReady, Busy,
     SeedDue,
     Asked, Acked, Machine, BothReady, Phase, Replies, Alike, Rest
<1>2. Concord(t, u, "none", Rest(m), l)
  BY ZenonT(60) DEF Pact, Half, Order, Seeds, Accord, Concord, WithWon, WithReady, Busy,
     SeedDue,
     Asked, Acked, Machine, BothReady, Phase, Replies, Alike, Rest
<1>. QED
  BY <1>1, <1>2 DEF Accord

(* WON read while typing keeps it. *)
LEMMA AgreeHearWon ==
  ASSUME NEW s \in Machine, NEW t \in Machine, NEW ws, NEW wt,
         NEW f \in Phase, NEW g \in Phase, NEW l \in Replies, NEW m \in Replies,
         Pact(s, t, f, g, l, m, ws, wt), Accord(s, t, f, g, l, m),
         g = "none", m \in {"W", "WR", "WRA", "WA", "WN"}, s.status = "typing",
         NEW u \in Machine, Alike([s EXCEPT !.status = "finished", !.won = FALSE], u)
  PROVE  Accord(u, t, f, "none", l, Rest(m))
<1>1. u.status = "finished" /\ u.readyMe = s.readyMe /\ u.readyYou = s.readyYou /\
      u.seedMe = s.seedMe /\ u.seedYou = s.seedYou /\ u.waitingForSeed = s.waitingForSeed
  BY DEF Alike, Machine
<1>2. Concord(u, t, f, l, Rest(m))
  BY <1>1, ZenonT(60) DEF Pact, Half, Order, Seeds, Accord, Concord, WithWon, WithReady,
     Busy, SeedDue,
     Asked, Acked, Machine, BothReady, Phase, Replies, Rest
<1>3. Concord(t, u, "none", Rest(m), l)
  BY <1>1, ZenonT(60) DEF Pact, Half, Order, Seeds, Accord, Concord, WithWon, WithReady,
     Busy, SeedDue,
     Asked, Acked, Machine, BothReady, Phase, Replies, Rest
<1>. QED
  BY <1>2, <1>3 DEF Accord

(* A request keeps it. *)
LEMMA AgreeAsking ==
  ASSUME NEW s \in Machine, NEW t \in Machine, NEW ws, NEW wt,
         NEW f \in Phase, NEW g \in Phase, NEW l \in Replies, NEW m \in Replies,
         Pact(s, t, f, g, l, m, ws, wt), Accord(s, t, f, g, l, m),
         f = "none", l = "", m = "", ~Busy(s), ~s.readyMe, NEW n \in Nat \ {0},
         NEW u \in Machine, Alike([s EXCEPT !.seedMe = n], u), u.waitingAck
  PROVE  Accord(u, t, "ready", g, l, m)
<1>1. u.waitingAck /\ u.seedMe = n /\ u.status = s.status /\ u.readyMe = s.readyMe /\
      u.readyYou = s.readyYou /\ u.seedYou = s.seedYou /\ u.waitingForSeed = s.waitingForSeed
  BY DEF Alike, Machine
<1>2. Concord(u, t, "ready", l, m)
  BY <1>1, ZenonT(60) DEF Pact, Half, Order, Seeds, Accord, Concord, WithWon, WithReady,
     Busy, SeedDue,
     Asked, Acked, Machine, BothReady, Phase, Replies
<1>3. Concord(t, u, g, m, l)
  BY <1>1, ZenonT(60) DEF Pact, Half, Order, Seeds, Accord, Concord, WithWon, WithReady,
     Busy, SeedDue,
     Asked, Acked, Machine, BothReady, Phase, Replies
<1>. QED
  BY <1>2, <1>3 DEF Accord

(* New Race keeps it, as no WON is under way. *)
LEMMA AgreeNewRace ==
  ASSUME NEW s \in Machine, NEW t \in Machine, NEW ws, NEW wt,
         NEW f \in Phase, NEW g \in Phase, NEW l \in Replies, NEW m \in Replies,
         Pact(s, t, f, g, l, m, ws, wt), Accord(s, t, f, g, l, m),
         f = "none", l = "", m = "", s.status = "finished"
  PROVE  Accord(resetInfo(s), t, f, g, l, m)
<1> DEFINE u == resetInfo(s)
<1>1. u.status = "unready" /\ ~u.readyMe /\ ~u.readyYou /\ u.seedMe = 0 /\ u.seedYou = 0 /\
      u.waitingForSeed = s.waitingForSeed /\ u.waitingAck = s.waitingAck
  BY DEF Machine, resetInfo, resetRacingInfo, resetTypingInfo
<1>. HIDE DEF u
<1>2. Concord(u, t, f, l, m)
  BY <1>1, ZenonT(60) DEF Pact, Half, Order, Seeds, Accord, Concord, WithWon, WithReady,
     Busy, SeedDue,
     Asked, Acked, Machine, BothReady, Phase, Replies
<1>3. Concord(t, u, g, m, l)
  BY <1>1, ZenonT(60) DEF Pact, Half, Order, Seeds, Accord, Concord, WithWon, WithReady,
     Busy, SeedDue,
     Asked, Acked, Machine, BothReady, Phase, Replies
<1>. QED
  BY <1>2, <1>3 DEF Accord, u

(* The completion of the text keeps it. *)
LEMMA AgreeFinishing ==
  ASSUME NEW s \in Machine, NEW t \in Machine, NEW ws, NEW wt,
         NEW f \in Phase, NEW g \in Phase, NEW l \in Replies, NEW m \in Replies,
         Pact(s, t, f, g, l, m, ws, wt), Accord(s, t, f, g, l, m),
         s.status = "typing", t.status # "ready"
  PROVE  Accord([s EXCEPT !.status = "finished", !.won = TRUE], t, f, g, AlsoWon(l), m)
<1> DEFINE u == [s EXCEPT !.status = "finished", !.won = TRUE]
<1>1. u.status = "finished" /\ u.readyMe = s.readyMe /\ u.readyYou = s.readyYou /\
      u.seedMe = s.seedMe /\ u.seedYou = s.seedYou /\
      u.waitingForSeed = s.waitingForSeed /\ u.waitingAck = s.waitingAck
  BY DEF Machine, resetInfo, resetRacingInfo, resetTypingInfo
<1>. HIDE DEF u
<1>2. Concord(u, t, f, AlsoWon(l), m)
  BY <1>1, ZenonT(60) DEF Pact, Half, Order, Seeds, Accord, Concord, WithWon, WithReady,
     Busy, SeedDue,
     Asked, Acked, Machine, BothReady, Phase, Replies, AlsoWon
<1>3. Concord(t, u, g, m, AlsoWon(l))
  BY <1>1, ZenonT(60) DEF Pact, Half, Order, Seeds, Accord, Concord, WithWon, WithReady,
     Busy, SeedDue,
     Asked, Acked, Machine, BothReady, Phase, Replies, AlsoWon
<1>. QED
  BY <1>2, <1>3 DEF Accord, u

(* The countdown keeps it: t is in the race when it ends. *)
LEMMA AgreeCounting ==
  ASSUME NEW s \in Machine, NEW t \in Machine, NEW ws, NEW wt,
         NEW f \in Phase, NEW g \in Phase, NEW l \in Replies, NEW m \in Replies,
         Pact(s, t, f, g, l, m, ws, wt), Accord(s, t, f, g, l, m),
         NEW u \in Machine, Alike([s EXCEPT !.left = u.left, !.status = u.status], u),
         u.waitingAck = s.waitingAck,
         u.status = s.status \/ (s.status = "ready" /\ u.status = "typing" /\ f = "none" /\
         l = "")
  PROVE  Accord(u, t, f, g, l, m)
<1>1. u.readyMe = s.readyMe /\ u.readyYou = s.readyYou /\ u.seedMe = s.seedMe /\
      u.seedYou = s.seedYou /\ u.waitingForSeed = s.waitingForSeed
  BY DEF Alike, Machine
<1>2. Concord(u, t, f, l, m)
  BY <1>1, ZenonT(60) DEF Pact, Half, Order, Seeds, Accord, Concord, WithWon, WithReady,
     Busy, SeedDue,
     Asked, Acked, Machine, BothReady, Phase, Replies
<1>3. Concord(t, u, g, m, l)
  BY <1>1, ZenonT(60) DEF Pact, Half, Order, Seeds, Accord, Concord, WithWon, WithReady,
     Busy, SeedDue,
     Asked, Acked, Machine, BothReady, Phase, Replies
<1>. QED
  BY <1>2, <1>3 DEF Accord

(* The awaited seed keeps it. *)
LEMMA AgreeHearSeed ==
  ASSUME NEW s \in Machine, NEW t \in Machine, NEW ws, NEW wt,
         NEW f \in Phase, NEW g \in Phase, NEW l \in Replies, NEW m \in Replies,
         Pact(s, t, f, g, l, m, ws, wt), Accord(s, t, f, g, l, m),
         g = "seed", s.waitingForSeed, t.seedMe # 0,
         NEW u \in Machine, Becomes(s, u), u.seedYou = t.seedMe, ~u.waitingForSeed,
         u.waitingAck = s.waitingAck,
         u.won = s.won, u.readyMe = s.readyMe, u.readyYou = s.readyYou, u.seedMe = s.seedMe
  PROVE  Accord(u, t, f, "none", AlsoAck(l), m)
<1>1. Concord(u, t, f, AlsoAck(l), m)
  BY ZenonT(60) DEF Pact, Half, Order, Seeds, Accord, Concord, WithWon, WithReady, Busy,
     SeedDue,
     Asked, Acked, Machine, BothReady, Phase, Replies, AlsoAck, Becomes
<1>2. Concord(t, u, "none", m, AlsoAck(l))
  BY ZenonT(60) DEF Pact, Half, Order, Seeds, Accord, Concord, WithWon, WithReady, Busy,
     SeedDue,
     Asked, Acked, Machine, BothReady, Phase, Replies, AlsoAck, Becomes
<1>. QED
  BY <1>1, <1>2 DEF Accord

(* READY_ACK keeps it. *)
LEMMA AgreeHearReadyAck ==
  ASSUME NEW s \in Machine, NEW t \in Machine, NEW ws, NEW wt,
         NEW f \in Phase, NEW g \in Phase, NEW l \in Replies, NEW m \in Replies,
         Pact(s, t, f, g, l, m, ws, wt), Accord(s, t, f, g, l, m),
         g = "none", m \in {"R", "RA"},
         NEW u \in Machine, Becomes(s, u), u.readyMe,
         u.won = s.won, u.readyYou = s.readyYou, u.seedMe = s.seedMe, u.seedYou = s.seedYou,
         u.waitingForSeed = s.waitingForSeed
  PROVE  Accord(u, t, f, "none", l, Rest(m))
<1>1. Concord(u, t, f, l, Rest(m))
  BY ZenonT(60) DEF Pact, Half, Order, Seeds, Accord, Concord, WithWon, WithReady, Busy,
     SeedDue,
     Asked, Acked, Machine, BothReady, Phase, Replies, Rest, Becomes
<1>2. Concord(t, u, "none", Rest(m), l)
  BY ZenonT(60) DEF Pact, Half, Order, Seeds, Accord, Concord, WithWon, WithReady, Busy,
     SeedDue,
     Asked, Acked, Machine, BothReady, Phase, Replies, Rest, Becomes
<1>. QED
  BY <1>1, <1>2 DEF Accord

-----------------------------------------------------------------------------
(* 2. The bytes under way.                                                 *)

(* The unread bytes of a request, n being the seed and k the bytes of it read. *)
Unread(f, n, k) ==
    CASE f = "ready"  -> <<INFO_READY, INFO_ULONG>> \o SeedBytes(n)
      [] f = "ulong"  -> <<INFO_ULONG>> \o SeedBytes(n)
      [] f = "seed"   -> SubSeq(SeedBytes(n), k + 1, LongLen)
      [] f = "nready" -> <<INFO_NREADY>>
      [] OTHER        -> <<>>

(* The bytes of the replies. *)
Bytes(l) ==
    CASE l = "R"   -> <<INFO_READY_ACK>>
      [] l = "RA"  -> <<INFO_READY_ACK, INFO_ACK>>
      [] l = "A"   -> <<INFO_ACK>>
      [] l = "N"   -> <<INFO_NREADY_ACK>>
      [] l = "W"   -> <<INFO_WON>>
      [] l = "WR"  -> <<INFO_WON, INFO_READY_ACK>>
      [] l = "WRA" -> <<INFO_WON, INFO_READY_ACK, INFO_ACK>>
      [] l = "WA"  -> <<INFO_WON, INFO_ACK>>
      [] l = "WN"  -> <<INFO_WON, INFO_NREADY_ACK>>
      [] l = "AW"  -> <<INFO_ACK, INFO_WON>>
      [] OTHER     -> <<>>

(* The first of some replies. *)
First(l) ==
    CASE l \in {"R", "RA"} -> INFO_READY_ACK
      [] l \in {"A", "AW"} -> INFO_ACK
      [] l = "N"           -> INFO_NREADY_ACK
      [] OTHER             -> INFO_WON

(* The bytes on their way from s to t are the rest of a request and some   *)
(* replies, and the receiver of t is as far in it.                         *)
Wire(s, t, bytes, f, l) ==
    /\ bytes = Unread(f, s.seedMe, Len(t.bits)) \o Bytes(l)
    /\ IF f = "seed"
       THEN /\ t.receiving = INFO_ULONG
            /\ Len(t.bits) < LongLen
            /\ t.bits = SubSeq(SeedBytes(s.seedMe), 1, Len(t.bits))
       ELSE t.receiving = INFO_ACK /\ t.bits = <<>>
    /\ f \in Asked => Fits(s.seedMe)

(* A sequence with an element in front: its head and its tail. *)
LEMMA Ahead ==
  ASSUME NEW S, NEW x \in S, NEW a \in Seq(S)
  PROVE  /\ <<x>> \o a \in Seq(S) /\ <<x>> \o a # <<>>
         /\ Head(<<x>> \o a) = x /\ Tail(<<x>> \o a) = a
<1>1. <<x>> \in Seq(S) /\ Len(<<x>>) = 1 /\ <<x>>[1] = x /\ Len(a) \in Nat
  OBVIOUS
<1> DEFINE c == <<x>> \o a
<1>2. /\ c \in Seq(S) /\ Len(c) = 1 + Len(a)
      /\ \A i \in 1..(1 + Len(a)) : c[i] = IF i <= 1 THEN x ELSE a[i - 1]
  BY <1>1, ConcatProperties
<1>. HIDE DEF c
<1>3. c # <<>> /\ Head(c) = x
  BY <1>1, <1>2
<1>4. /\ Tail(c) \in Seq(S) /\ Len(Tail(c)) = Len(a)
      /\ \A i \in 1..Len(a) : Tail(c)[i] = c[i + 1]
  BY <1>1, <1>2, <1>3, HeadTailProperties
<1>5. \A i \in 1..Len(a) : Tail(c)[i] = a[i]
  BY <1>1, <1>2, <1>4
<1>6. Tail(c) = a
  BY <1>4, <1>5, SeqEqual
<1>. QED
  BY <1>2, <1>3, <1>6 DEF c

(* Two elements are one in front of the other. *)
LEMMA Pairs ==
  ASSUME NEW S, NEW x \in S, NEW y \in S
  PROVE  <<x>> \o <<y>> = <<x, y>>
<1>1. <<x>> \in Seq(S) /\ <<y>> \in Seq(S) /\ <<x, y>> \in Seq(S)
  OBVIOUS
<1>2. Len(<<x>>) = 1 /\ Len(<<y>>) = 1 /\ Len(<<x, y>>) = 2
  OBVIOUS
<1>3. <<x>>[1] = x /\ <<y>>[1] = y /\ <<x, y>>[1] = x /\ <<x, y>>[2] = y
  OBVIOUS
<1>4. /\ <<x>> \o <<y>> \in Seq(S) /\ Len(<<x>> \o <<y>>) = 2
      /\ \A i \in 1..2 : (<<x>> \o <<y>>)[i] = <<x, y>>[i]
  BY <1>1, <1>2, <1>3, ConcatProperties
<1>. QED
  BY <1>1, <1>2, <1>4, SeqEqual

(* Three elements are one and two, and two and one. *)
LEMMA Triples ==
  ASSUME NEW S, NEW x \in S, NEW y \in S, NEW z \in S
  PROVE  <<x>> \o <<y, z>> = <<x, y, z>> /\ <<x, y>> \o <<z>> = <<x, y, z>>
<1> DEFINE c == <<x>> \o <<y, z>>
           d == <<x, y>> \o <<z>>
<1>1. /\ <<x>> \in Seq(S) /\ <<z>> \in Seq(S) /\ <<x, y>> \in Seq(S) /\ <<y, z>> \in Seq(S)
      /\ <<x, y, z>> \in Seq(S)
  OBVIOUS
<1>2. Len(<<x>>) = 1 /\ Len(<<z>>) = 1 /\ Len(<<x, y>>) = 2 /\ Len(<<y, z>>) = 2 /\
      Len(<<x, y, z>>) = 3
  OBVIOUS
<1>3. /\ <<x>>[1] = x /\ <<z>>[1] = z /\ <<x, y>>[1] = x /\ <<x, y>>[2] = y
      /\ <<y, z>>[1] = y /\ <<y, z>>[2] = z
      /\ <<x, y, z>>[1] = x /\ <<x, y, z>>[2] = y /\ <<x, y, z>>[3] = z
  OBVIOUS
<1>4. c \in Seq(S) /\ Len(c) = 3 /\ c[1] = x /\ c[2] = y /\ c[3] = z
  BY <1>1, <1>2, <1>3, ConcatProperties
<1>5. d \in Seq(S) /\ Len(d) = 3 /\ d[1] = x /\ d[2] = y /\ d[3] = z
  BY <1>1, <1>2, <1>3, ConcatProperties
<1>. HIDE DEF c, d
<1>6. (\A i \in 1..3 : c[i] = <<x, y, z>>[i]) /\ (\A i \in 1..3 : d[i] = <<x, y, z>>[i])
  BY <1>3, <1>4, <1>5
<1>7. c = <<x, y, z>>
  BY <1>1, <1>2, <1>4, <1>6, SeqEqual
<1>8. d = <<x, y, z>>
  BY <1>1, <1>2, <1>5, <1>6, SeqEqual
<1>. QED
  BY <1>7, <1>8 DEF c, d

(* A sequence with two elements in front. *)
LEMMA AheadTwo ==
  ASSUME NEW S, NEW x \in S, NEW y \in S, NEW a \in Seq(S)
  PROVE  <<x, y>> \o a = <<x>> \o (<<y>> \o a)
<1>1. <<x>> \in Seq(S) /\ <<y>> \in Seq(S) /\ <<x, y>> = <<x>> \o <<y>>
  <2>1. <<x>> \in Seq(S) /\ <<y>> \in Seq(S)
    OBVIOUS
  <2>. QED
    BY <2>1, Pairs
<1>. QED
  BY <1>1, ConcatAssociative

(* Some replies are their first code and the rest. *)
LEMMA BytesFront ==
  ASSUME NEW l \in Replies
  PROVE  /\ Bytes(l) \in Seq(Byte) /\ Rest(l) \in Replies
         /\ Bytes("") = <<>>
         /\ l # "" => Bytes(l) = <<First(l)>> \o Bytes(Rest(l)) /\ First(l) \in Byte
<1>. HIDE DEF Byte
<1>1. \A x, y, z \in Byte : <<x>> \in Seq(Byte) /\ <<x, y>> \in Seq(Byte) /\
      <<x, y, z>> \in Seq(Byte)
  OBVIOUS
<1>2. \A x, y, z \in Byte : <<x, y>> = <<x>> \o <<y>> /\ <<x, y, z>> = <<x>> \o <<y, z>>
  BY Pairs, Triples
<1>3. <<>> \in Seq(Byte) /\ \A x \in Byte : <<x>> = <<x>> \o <<>>
  OBVIOUS
<1>4. Rest(l) \in Replies /\ (l # "" => First(l) \in Byte)
  BY CodesAreBytes DEF Rest, Replies, First
<1>5. Bytes(l) \in Seq(Byte)
  BY <1>1, <1>2, <1>3, CodesAreBytes DEF Bytes
<1>6. ASSUME l # "" PROVE Bytes(l) = <<First(l)>> \o Bytes(Rest(l))
  <2>1. CASE l \in {"R", "A", "N", "W"}
    <3>1. Bytes(Rest(l)) = <<>> /\ Bytes(l) = <<First(l)>>
      BY <2>1 DEF Bytes, Rest, First
    <3>. QED
      BY <1>3, <1>4, <1>6, <3>1
  <2>2. CASE l \in {"RA", "WR", "WA", "WN", "AW"}
    <3>1. PICK y \in Byte : Bytes(Rest(l)) = <<y>> /\ Bytes(l) = <<First(l), y>>
      BY <2>2, CodesAreBytes DEF Bytes, Rest, First
    <3>. QED
      BY <1>2, <1>4, <1>6, <3>1
  <2>3. CASE l = "WRA"
    <3>1. Bytes(Rest(l)) = <<INFO_READY_ACK, INFO_ACK>> /\
          Bytes(l) = <<INFO_WON, INFO_READY_ACK, INFO_ACK>> /\ First(l) = INFO_WON
      BY <2>3 DEF Bytes, Rest, First
    <3>2. <<INFO_WON, INFO_READY_ACK, INFO_ACK>> = <<INFO_WON>> \o <<INFO_READY_ACK,
          INFO_ACK>>
      BY <1>2, CodesAreBytes
    <3>. QED
      BY <3>1, <3>2
  <2>4. l \in {"R", "A", "N", "W"} \/ l \in {"RA", "WR", "WA", "WN", "AW"} \/ l = "WRA"
    BY <1>6 DEF Replies
  <2>. QED
    BY <2>1, <2>2, <2>3, <2>4
<1>. QED
  BY <1>4, <1>5, <1>6 DEF Bytes

(* A reply goes behind those already on their way. *)
LEMMA BytesBehind ==
  ASSUME NEW l \in Replies
  PROVE  /\ l \in {"", "W"} => Bytes(AlsoReady(l)) = Bytes(l) \o <<INFO_READY_ACK>>
         /\ l \in {"", "W"} => Bytes(AlsoNReady(l)) = Bytes(l) \o <<INFO_NREADY_ACK>>
         /\ l \in {"", "R", "W", "WR"} => Bytes(AlsoAck(l)) = Bytes(l) \o <<INFO_ACK>>
         /\ l \in {"", "A"} => Bytes(AlsoWon(l)) = Bytes(l) \o <<INFO_WON>>
<1>. HIDE DEF Byte
<1>1. \A y \in Byte : <<>> \o <<y>> = <<y>>
  OBVIOUS
<1>2. \A x, y, z \in Byte : <<x>> \o <<y>> = <<x, y>> /\ <<x, y>> \o <<z>> = <<x, y, z>>
  BY Pairs, Triples
<1>3. /\ <<INFO_WON>> \o <<INFO_READY_ACK>> = <<INFO_WON, INFO_READY_ACK>>
      /\ <<INFO_WON>> \o <<INFO_NREADY_ACK>> = <<INFO_WON, INFO_NREADY_ACK>>
      /\ <<INFO_WON>> \o <<INFO_ACK>> = <<INFO_WON, INFO_ACK>>
      /\ <<INFO_READY_ACK>> \o <<INFO_ACK>> = <<INFO_READY_ACK, INFO_ACK>>
      /\ <<INFO_ACK>> \o <<INFO_WON>> = <<INFO_ACK, INFO_WON>>
      /\ <<INFO_WON, INFO_READY_ACK>> \o <<INFO_ACK>> = <<INFO_WON, INFO_READY_ACK, INFO_ACK>>
  BY <1>2, CodesAreBytes
<1>4. /\ Bytes("") = <<>> /\ Bytes("W") = <<INFO_WON>> /\ Bytes("R") = <<INFO_READY_ACK>>
      /\ Bytes("A") = <<INFO_ACK>> /\ Bytes("N") = <<INFO_NREADY_ACK>>
      /\ Bytes("WR") = <<INFO_WON, INFO_READY_ACK>> /\
         Bytes("WN") = <<INFO_WON, INFO_NREADY_ACK>>
      /\ Bytes("WA") = <<INFO_WON, INFO_ACK>> /\ Bytes("RA") = <<INFO_READY_ACK, INFO_ACK>>
      /\ Bytes("AW") = <<INFO_ACK, INFO_WON>>
      /\ Bytes("WRA") = <<INFO_WON, INFO_READY_ACK, INFO_ACK>>
  BY DEF Bytes
<1>5. l \in {"", "W"} => Bytes(AlsoReady(l)) = Bytes(l) \o <<INFO_READY_ACK>>
  BY <1>1, <1>3, <1>4, CodesAreBytes DEF AlsoReady
<1>6. l \in {"", "W"} => Bytes(AlsoNReady(l)) = Bytes(l) \o <<INFO_NREADY_ACK>>
  BY <1>1, <1>3, <1>4, CodesAreBytes DEF AlsoNReady
<1>7. l \in {"", "R", "W", "WR"} => Bytes(AlsoAck(l)) = Bytes(l) \o <<INFO_ACK>>
  BY <1>1, <1>3, <1>4, CodesAreBytes DEF AlsoAck
<1>8. l \in {"", "A"} => Bytes(AlsoWon(l)) = Bytes(l) \o <<INFO_WON>>
  BY <1>1, <1>3, <1>4, CodesAreBytes DEF AlsoWon
<1>. QED
  BY <1>5, <1>6, <1>7, <1>8

(* What is left of a request is a sequence of bytes, empty only when there *)
(* is none.                                                                *)
LEMMA UnreadTyped ==
  ASSUME NEW n, NEW f \in Phase, NEW k \in Nat,
         f \in Asked => Fits(n),
         f = "seed" => k < LongLen
  PROVE  /\ Unread(f, n, k) \in Seq(Byte)
         /\ Unread(f, n, k) = <<>> <=> f = "none"
<1>1. f \in Asked => SeedBytes(n) \in Seq(Byte) /\ Len(SeedBytes(n)) = LongLen
  BY SeedRoundTrip
<1>2. <<>> \in Seq(Byte) /\ <<INFO_NREADY>> \in Seq(Byte) /\ <<INFO_NREADY>> # <<>>
  BY CodesAreBytes
<1>. HIDE DEF Byte
<1>3. CASE f = "ready"
  <2>1. Unread(f, n, k) = <<INFO_READY>> \o (<<INFO_ULONG>> \o SeedBytes(n))
    BY <1>1, <1>3, AheadTwo, CodesAreBytes DEF Unread, Asked
  <2>2. <<INFO_ULONG>> \o SeedBytes(n) \in Seq(Byte)
    BY <1>1, <1>3, Ahead, CodesAreBytes DEF Asked
  <2>3. LET a == <<INFO_READY>> \o (<<INFO_ULONG>> \o SeedBytes(n))
        IN  a \in Seq(Byte) /\ a # <<>>
    BY <2>2, Ahead, CodesAreBytes
  <2>. QED
    BY <1>3, <2>1, <2>3
<1>4. CASE f = "ulong"
  BY <1>1, <1>4, Ahead, CodesAreBytes DEF Unread, Asked
<1>5. CASE f = "seed"
  <2>1. k + 1 \in 1..LongLen /\ LongLen \in (k + 1)..LongLen
    BY <1>5, LenAssumption
  <2>2. Unread(f, n, k) = SubSeq(SeedBytes(n), k + 1, LongLen)
    BY <1>5 DEF Unread
  <2>3. /\ SubSeq(SeedBytes(n), k + 1, LongLen) \in Seq(Byte)
        /\ Len(SubSeq(SeedBytes(n), k + 1, LongLen)) # 0
    BY <1>1, <1>5, <2>1, SubSeqProperties, LenAssumption, ElementOfSeq DEF Asked
  <2>4. SubSeq(SeedBytes(n), k + 1, LongLen) # <<>>
    BY <2>3, EmptySeq
  <2>. QED
    BY <1>5, <2>2, <2>3, <2>4
<1>. QED
  BY <1>2, <1>3, <1>4, <1>5 DEF Unread, Phase

(* Codes make sequences of bytes. *)
LEMMA CodePairs ==
  ASSUME NEW x \in Byte, NEW y \in Byte
  PROVE  <<x>> \in Seq(Byte) /\ <<x, y>> \in Seq(Byte)
<1>. HIDE DEF Byte
<1>. QED
  OBVIOUS

(* Nothing put before or behind a sequence changes it. *)
LEMMA NothingMore ==
  ASSUME NEW a \in Seq(Byte)
  PROVE  <<>> \o a = a /\ a \o <<>> = a
<1>. HIDE DEF Byte
<1>. QED
  BY ConcatEmptySeq

(* Two sequences of bytes end to end are one, empty only if both are. *)
LEMMA EndToEnd ==
  ASSUME NEW a \in Seq(Byte), NEW b \in Seq(Byte)
  PROVE  a \o b \in Seq(Byte) /\ ((a \o b = <<>>) <=> (a = <<>> /\ b = <<>>))
<1>. HIDE DEF Byte
<1>1. a \o b \in Seq(Byte) /\ Len(a \o b) = Len(a) + Len(b) /\ Len(a) \in Nat /\
      Len(b) \in Nat
  BY ConcatProperties
<1>2. \A c \in Seq(Byte) : c = <<>> <=> Len(c) = 0
  BY EmptySeq
<1>. QED
  BY <1>1, <1>2

(* The bytes under way are a sequence, empty only if neither a request nor *)
(* a reply is.                                                             *)
LEMMA WireTyped ==
  ASSUME NEW s, NEW bytes, NEW t \in Machine, NEW f \in Phase, NEW l \in Replies,
         Wire(s, t, bytes, f, l)
  PROVE  /\ Unread(f, s.seedMe, Len(t.bits)) \in Seq(Byte)
         /\ Bytes(l) \in Seq(Byte)
         /\ bytes \in Seq(Byte)
         /\ bytes = <<>> <=> f = "none" /\ l = ""
<1>1. Len(t.bits) \in Nat
  BY DEF Machine
<1>2. /\ Unread(f, s.seedMe, Len(t.bits)) \in Seq(Byte)
      /\ Unread(f, s.seedMe, Len(t.bits)) = <<>> <=> f = "none"
  BY <1>1, UnreadTyped DEF Wire
<1>. HIDE DEF Byte
<1>3. /\ Bytes(l) \in Seq(Byte) /\ Rest(l) \in Replies
      /\ Bytes(Rest(l)) \in Seq(Byte) /\ Bytes("") = <<>>
  BY BytesFront
<1>4. ASSUME l # "" PROVE Bytes(l) # <<>>
  <2>1. Bytes(l) = <<First(l)>> \o Bytes(Rest(l)) /\ First(l) \in Byte
    BY <1>4, BytesFront
  <2>. QED
    BY <1>3, <2>1, Ahead
<1> DEFINE a == Unread(f, s.seedMe, Len(t.bits))
           b == Bytes(l)
<1>5. bytes = a \o b
  BY DEF Wire
<1>. HIDE DEF a, b
<1>6. a \in Seq(Byte) /\ b \in Seq(Byte) /\ (a = <<>> <=> f = "none") /\ (b = <<>> <=> l = "")
  BY <1>2, <1>3, <1>4 DEF a, b
<1>7. a \o b \in Seq(Byte) /\ ((a \o b = <<>>) <=> (a = <<>> /\ b = <<>>))
  BY <1>6, EndToEnd
<1>. QED
  BY <1>2, <1>3, <1>5, <1>6, <1>7

(* The bytes stand for the same whatever else the machines change. *)
LEMMA WireKept ==
  ASSUME NEW s, NEW t, NEW f, NEW l, NEW bytes, NEW u, NEW v,
         Wire(s, t, bytes, f, l),
         f \in Asked => u.seedMe = s.seedMe,
         v.receiving = t.receiving,
         v.bits = t.bits
  PROVE  Wire(u, v, bytes, f, l)
  BY DEF Wire, Unread, Asked

(* Reading the READY of a request leaves its seed. *)
LEMMA ReadsReady ==
  ASSUME NEW s, NEW t, NEW bytes, NEW l \in Replies,
         Wire(s, t, bytes, "ready", l)
  PROVE  /\ Head(bytes) = INFO_READY
         /\ Wire(s, t, Tail(bytes), "ulong", l)
<1>1. Fits(s.seedMe) /\ SeedBytes(s.seedMe) \in Seq(Byte) /\ Bytes(l) \in Seq(Byte)
  BY SeedRoundTrip, BytesFront DEF Wire, Asked
<1>2. INFO_READY \in Byte /\ INFO_ULONG \in Byte
  BY CodesAreBytes
<1>. HIDE DEF Byte
<1> DEFINE rest == <<INFO_ULONG>> \o SeedBytes(s.seedMe)
<1>3. rest \in Seq(Byte) /\ rest \o Bytes(l) \in Seq(Byte)
  BY <1>1, <1>2, Ahead, ConcatProperties
<1>4. bytes = <<INFO_READY>> \o (rest \o Bytes(l))
  <2>1. bytes = (<<INFO_READY, INFO_ULONG>> \o SeedBytes(s.seedMe)) \o Bytes(l)
    BY DEF Wire, Unread
  <2>2. <<INFO_READY, INFO_ULONG>> \o SeedBytes(s.seedMe) = <<INFO_READY>> \o rest
    <3> DEFINE seed == SeedBytes(s.seedMe)
    <3>1. seed \in Seq(Byte)
      BY <1>1
    <3>. HIDE DEF seed
    <3>2. <<INFO_READY, INFO_ULONG>> \o seed = <<INFO_READY>> \o (<<INFO_ULONG>> \o seed)
      BY <1>2, <3>1, AheadTwo
    <3>. QED
      BY <3>2 DEF seed
  <2>3. <<INFO_READY>> \in Seq(Byte)
    BY <1>2
  <2>. QED
    BY <1>1, <1>3, <2>1, <2>2, <2>3, ConcatAssociative
<1>5. Head(bytes) = INFO_READY /\ Tail(bytes) = rest \o Bytes(l)
  BY <1>2, <1>3, <1>4, Ahead
<1>. QED
  BY <1>5 DEF Wire, Unread, Asked

(* Reading the code of a seed leaves its bytes. *)
LEMMA ReadsCode ==
  ASSUME NEW s, NEW t, NEW bytes, NEW u, NEW l \in Replies,
         Wire(s, t, bytes, "ulong", l),
         u.receiving = INFO_ULONG,
         u.bits = t.bits
  PROVE  /\ Head(bytes) = INFO_ULONG
         /\ Wire(s, u, Tail(bytes), "seed", l)
<1>1. /\ Fits(s.seedMe) /\ SeedBytes(s.seedMe) \in Seq(Byte) /\ Bytes(l) \in Seq(Byte)
      /\ Len(SeedBytes(s.seedMe)) = LongLen
  BY SeedRoundTrip, BytesFront DEF Wire, Asked
<1>2. INFO_ULONG \in Byte
  BY CodesAreBytes
<1>. HIDE DEF Byte
<1>3. bytes = <<INFO_ULONG>> \o (SeedBytes(s.seedMe) \o Bytes(l))
  <2>1. bytes = (<<INFO_ULONG>> \o SeedBytes(s.seedMe)) \o Bytes(l)
    BY DEF Wire, Unread
  <2>2. <<INFO_ULONG>> \in Seq(Byte)
    BY <1>2
  <2>. QED
    BY <1>1, <2>1, <2>2, ConcatAssociative
<1>4. Head(bytes) = INFO_ULONG /\ Tail(bytes) = SeedBytes(s.seedMe) \o Bytes(l)
  BY <1>1, <1>2, <1>3, Ahead, ConcatProperties
<1>5. u.bits = <<>> /\ Len(u.bits) = 0
  BY DEF Wire
<1>6. Unread("seed", s.seedMe, 0) = SeedBytes(s.seedMe) /\
      SubSeq(SeedBytes(s.seedMe), 1, 0) = <<>>
  BY <1>1, SubSeqFull, SubSeqEmpty DEF Unread
<1>. QED
  BY <1>1, <1>4, <1>5, <1>6, LenAssumption DEF Wire, Asked

(* Reading a byte of a seed: with the bytes before it is a longer part of  *)
(* the seed, and at the end all of it.                                     *)
LEMMA ReadsSeed ==
  ASSUME NEW s, NEW bytes, NEW t \in Machine, NEW l \in Replies,
         Wire(s, t, bytes, "seed", l)
  PROVE  /\ Head(bytes) \in Byte
         /\ \A u : /\ Len(t.bits) + 1 < LongLen
                   /\ u.receiving = INFO_ULONG /\ u.bits = Append(t.bits, Head(bytes))
                   => Wire(s, u, Tail(bytes), "seed", l)
         /\ Len(t.bits) + 1 = LongLen => Append(t.bits, Head(bytes)) = SeedBytes(s.seedMe)
         /\ \A u : /\ Len(t.bits) + 1 = LongLen
                   /\ u.receiving = INFO_ACK /\ u.bits = <<>>
                   => Wire(s, u, Tail(bytes), "none", l)
<1> DEFINE sb == SeedBytes(s.seedMe)
           k  == Len(t.bits)
<1>1. Fits(s.seedMe) /\ sb \in Seq(Byte) /\ Bytes(l) \in Seq(Byte) /\ Len(sb) = LongLen
  BY SeedRoundTrip, BytesFront DEF Wire, Asked
<1>2. k \in Nat /\ k < LongLen /\ t.bits = SubSeq(sb, 1, k) /\ LongLen \in Nat
  BY LenAssumption DEF Wire, Machine
<1>. HIDE DEF Byte, sb, k
<1>3. k + 1 \in 1..Len(sb) /\ LongLen \in (k + 1)..Len(sb)
  BY <1>1, <1>2
<1>4. SubSeq(sb, k + 1, LongLen) = <<sb[k + 1]>> \o SubSeq(sb, k + 2, LongLen)
  <2>1. SubSeq(sb, k + 1, LongLen) = <<sb[k + 1]>> \o SubSeq(sb, (k + 1) + 1, LongLen)
    BY <1>1, <1>3, SubSeqRecursiveFirst
  <2>. QED
    BY <1>2, <2>1
<1>5. sb[k + 1] \in Byte /\ SubSeq(sb, k + 2, LongLen) \in Seq(Byte)
  <2>1. sb[k + 1] \in Byte
    BY <1>1, <1>3, ElementOfSeq
  <2>2. \A i \in (k + 2)..LongLen : sb[i] \in Byte
    <3>1. \A i \in (k + 2)..LongLen : i \in 1..Len(sb)
      BY <1>1, <1>2
    <3>. QED
      BY <1>1, <3>1, ElementOfSeq
  <2>3. k + 2 \in Int /\ LongLen \in Int
    BY <1>2
  <2>. QED
    BY <2>1, <2>2, <2>3, SubSeqProperties
<1>6. bytes = <<sb[k + 1]>> \o (SubSeq(sb, k + 2, LongLen) \o Bytes(l))
  <2>1. bytes = SubSeq(sb, k + 1, LongLen) \o Bytes(l)
    BY DEF Wire, Unread, sb, k
  <2>2. <<sb[k + 1]>> \in Seq(Byte)
    BY <1>5
  <2>3. (<<sb[k + 1]>> \o SubSeq(sb, k + 2, LongLen)) \o Bytes(l) =
          <<sb[k + 1]>> \o (SubSeq(sb, k + 2, LongLen) \o Bytes(l))
    <3> DEFINE a == <<sb[k + 1]>>
               b == SubSeq(sb, k + 2, LongLen)
               c == Bytes(l)
    <3>1. a \in Seq(Byte) /\ b \in Seq(Byte) /\ c \in Seq(Byte)
      BY <1>1, <1>5, <2>2
    <3>. HIDE DEF a, b, c
    <3>2. (a \o b) \o c = a \o (b \o c)
      BY <3>1, ConcatAssociative
    <3>. QED
      BY <3>2 DEF a, b, c
  <2>. QED
    BY <1>4, <2>1, <2>3
<1>7. Head(bytes) = sb[k + 1] /\ Tail(bytes) = SubSeq(sb, k + 2, LongLen) \o Bytes(l)
  <2>1. SubSeq(sb, k + 2, LongLen) \o Bytes(l) \in Seq(Byte)
    BY <1>1, <1>5, ConcatProperties
  <2>. QED
    BY <1>5, <1>6, <2>1, Ahead
<1>8. Append(t.bits, sb[k + 1]) = SubSeq(sb, 1, k + 1)
  <2>1. 1 \in 1..Len(sb) /\ k + 1 \in 1..Len(sb) /\ (k + 1) - 1 = k
    BY <1>1, <1>2
  <2>2. SubSeq(sb, 1, k + 1) = SubSeq(sb, 1, k) \o <<sb[k + 1]>>
    <3>1. k + 1 \in 1..Len(sb)
      BY <2>1
    <3>2. SubSeq(sb, 1, k + 1) = SubSeq(sb, 1, (k + 1) - 1) \o <<sb[k + 1]>>
      BY <1>1, <2>1, SubSeqRecursiveSecond
    <3>. QED
      BY <2>1, <3>2
  <2>3. t.bits \in Seq(Byte)
    BY DEF Machine
  <2>. QED
    BY <1>2, <1>5, <2>2, <2>3, AppendIsConcat
<1>9. Len(Append(t.bits, sb[k + 1])) = k + 1
  BY <1>1, <1>2, <1>3, <1>8, SubSeqProperties, ElementOfSeq
<1>10. ASSUME NEW u, k + 1 < LongLen, u.receiving = INFO_ULONG,
              u.bits = Append(t.bits, Head(bytes))
       PROVE  Wire(s, u, Tail(bytes), "seed", l)
  <2>1. Len(u.bits) = k + 1 /\ u.bits = SubSeq(sb, 1, k + 1)
    BY <1>7, <1>8, <1>9, <1>10
  <2>2. Unread("seed", s.seedMe, k + 1) = SubSeq(sb, k + 2, LongLen)
    <3>1. (k + 1) + 1 = k + 2
      BY <1>2
    <3>. QED
      BY <3>1 DEF Unread, sb
  <2>. QED
    BY <1>1, <1>7, <1>10, <2>1, <2>2 DEF Wire, sb
<1>11. ASSUME k + 1 = LongLen
       PROVE  /\ Append(t.bits, Head(bytes)) = sb
              /\ Tail(bytes) = Bytes(l)
  <2>1. SubSeq(sb, 1, k + 1) = sb
    BY <1>1, <1>11, SubSeqFull
  <2>2. SubSeq(sb, k + 2, LongLen) = <<>>
    BY <1>2, <1>11, SubSeqEmpty
  <2>. QED
    BY <1>1, <1>7, <1>8, <2>1, <2>2, ConcatEmptySeq
<1>12. ASSUME NEW u, k + 1 = LongLen, u.receiving = INFO_ACK, u.bits = <<>>
       PROVE  Wire(s, u, Tail(bytes), "none", l)
  <2>1. Unread("none", s.seedMe, Len(u.bits)) \o Bytes(l) = Bytes(l)
    BY <1>1, ConcatEmptySeq DEF Unread
  <2>. QED
    BY <1>11, <1>12, <2>1 DEF Wire, Asked
<1>. QED
  BY <1>5, <1>7, <1>10, <1>11, <1>12 DEF k, sb

(* Reading an NREADY leaves nothing of it. *)
LEMMA ReadsNReady ==
  ASSUME NEW s, NEW t, NEW bytes, NEW l \in Replies,
         Wire(s, t, bytes, "nready", l)
  PROVE  /\ Head(bytes) = INFO_NREADY
         /\ Wire(s, t, Tail(bytes), "none", l)
<1>1. Bytes(l) \in Seq(Byte) /\ <<>> \o Bytes(l) = Bytes(l)
  BY BytesFront, ConcatEmptySeq
<1>2. Head(bytes) = INFO_NREADY /\ Tail(bytes) = Bytes(l)
  BY <1>1, Ahead, CodesAreBytes DEF Wire, Unread
<1>. QED
  BY <1>1, <1>2 DEF Wire, Unread, Asked

(* Reading a reply, no request being ahead of it, leaves the rest. *)
LEMMA ReadsReply ==
  ASSUME NEW s, NEW t, NEW bytes, NEW l \in Replies,
         Wire(s, t, bytes, "none", l),
         l # ""
  PROVE  /\ Head(bytes) = First(l)
         /\ Wire(s, t, Tail(bytes), "none", Rest(l))
<1>1. /\ Bytes(l) = <<First(l)>> \o Bytes(Rest(l)) /\ First(l) \in Byte
      /\ Bytes(Rest(l)) \in Seq(Byte) /\ Bytes(l) \in Seq(Byte)
  BY BytesFront
<1>2. <<>> \o Bytes(l) = Bytes(l) /\ <<>> \o Bytes(Rest(l)) = Bytes(Rest(l))
  BY <1>1, ConcatEmptySeq
<1>3. Head(bytes) = First(l) /\ Tail(bytes) = Bytes(Rest(l))
  <2>1. bytes = <<First(l)>> \o Bytes(Rest(l))
    BY <1>1, <1>2 DEF Wire, Unread
  <2>. QED
    BY <1>1, <2>1, Ahead
<1>. QED
  BY <1>2, <1>3 DEF Wire, Unread, Asked

(* A reply joins the bytes under way. *)
LEMMA ReplyJoins ==
  ASSUME NEW s, NEW bytes, NEW k, NEW t \in Machine, NEW f \in Phase, NEW l \in Replies,
         NEW code \in Byte,
         Wire(s, t, bytes, f, l),
         Bytes(k) = Bytes(l) \o <<code>>
  PROVE  Wire(s, t, bytes \o <<code>>, f, k)
<1>1. Unread(f, s.seedMe, Len(t.bits)) \in Seq(Byte) /\ Bytes(l) \in Seq(Byte)
  BY WireTyped
<1>. HIDE DEF Byte
<1>2. <<code>> \in Seq(Byte)
  OBVIOUS
<1>. QED
  BY <1>1, <1>2, ConcatAssociative DEF Wire

(* A request starts on an empty cable. *)
LEMMA Requests ==
  ASSUME NEW s, NEW t, NEW bytes, NEW n, NEW u,
         Wire(s, t, bytes, "none", ""),
         Fits(n),
         u.seedMe = n
  PROVE  /\ bytes = <<>>
         /\ Wire(u, t, bytes \o (<<INFO_READY, INFO_ULONG>> \o SeedBytes(n)), "ready", "")
<1>. HIDE DEF Byte
<1> DEFINE asked == <<INFO_READY, INFO_ULONG>> \o SeedBytes(n)
<1>1. asked \in Seq(Byte)
  <2>1. SeedBytes(n) \in Seq(Byte) /\ <<INFO_READY, INFO_ULONG>> \in Seq(Byte)
    BY CodePairs, SeedRoundTrip, CodesAreBytes
  <2>. QED
    BY <2>1, EndToEnd
<1>2. Bytes("") = <<>> /\ <<>> \in Seq(Byte)
  BY EmptyBytes DEF Bytes
<1>3. bytes = <<>>
  BY <1>2, NothingMore DEF Wire, Unread
<1>4. bytes \o asked = asked \o Bytes("")
  BY <1>1, <1>2, <1>3, NothingMore
<1>. QED
  BY <1>3, <1>4 DEF Wire, Unread, Asked

(* So does an NREADY. *)
LEMMA TakesBackReady ==
  ASSUME NEW s, NEW t, NEW bytes, NEW u,
         Wire(s, t, bytes, "none", "")
  PROVE  Wire(u, t, bytes \o <<INFO_NREADY>>, "nready", "")
<1>. HIDE DEF Byte
<1>1. <<INFO_NREADY>> \in Seq(Byte)
  BY CodePairs, CodesAreBytes
<1>2. Bytes("") = <<>> /\ <<>> \in Seq(Byte)
  BY EmptyBytes DEF Bytes
<1>3. bytes = <<>>
  BY <1>2, NothingMore DEF Wire, Unread
<1>4. bytes \o <<INFO_NREADY>> = <<INFO_NREADY>> \o Bytes("")
  BY <1>1, <1>2, <1>3, NothingMore
<1>. QED
  BY <1>4 DEF Wire, Unread, Asked

-----------------------------------------------------------------------------
(* 3. One handler, its flags and its bytes.                                *)

(* A handler that makes nothing of a byte: it may end a wait for an answer. *)
Passes(s, r) == r.out = <<>> /\ r.s \in {s, [s EXCEPT !.waitingAck = FALSE]}

(* The receiver waits for a code. *)
Waits(s) == s.receiving = INFO_ACK

(* The requests are no codes of values. *)
LEMMA CodesApart ==
  /\ INFO_ACK \notin TypedCodes /\ INFO_ULONG \in TypedCodes
  /\ INFO_READY \notin TypedCodes /\ INFO_NREADY \notin TypedCodes
  /\ INFO_READY # INFO_NREADY
  BY DEF TypedCodes, LongCodes, ShortCodes, INFO_ACK, INFO_READY, INFO_NREADY, INFO_BITS,
         INFO_ULONG, INFO_LONG, INFO_DOUBLE, INFO_UINT, INFO_INT, INFO_FLOAT

(* The codes of the race differ from each other. *)
LEMMA CodesDiffer ==
  /\ INFO_READY \notin {INFO_NREADY, INFO_ACK, INFO_READY_ACK, INFO_NREADY_ACK, INFO_WON}
  /\ INFO_NREADY \notin {INFO_READY, INFO_ACK, INFO_READY_ACK, INFO_NREADY_ACK, INFO_WON}
  /\ INFO_ACK \notin {INFO_READY, INFO_NREADY, INFO_READY_ACK, INFO_NREADY_ACK, INFO_WON}
  /\ INFO_READY_ACK \notin {INFO_READY, INFO_NREADY, INFO_ACK, INFO_NREADY_ACK, INFO_WON}
  /\ INFO_NREADY_ACK \notin {INFO_READY, INFO_NREADY, INFO_ACK, INFO_READY_ACK, INFO_WON}
  /\ INFO_WON \notin {INFO_READY, INFO_NREADY, INFO_ACK, INFO_READY_ACK, INFO_NREADY_ACK}
  BY DEF INFO_ACK, INFO_READY, INFO_NREADY, INFO_READY_ACK, INFO_NREADY_ACK, INFO_WON,
     INFO_BITS

(* READY in the lobby. *)
LEMMA HandlesReady ==
  ASSUME NEW s \in Machine, Waits(s), ~Busy(s)
  PROVE  readByte(s, INFO_READY) =
           Reply([s EXCEPT !.readyYou = TRUE, !.waitingForSeed = TRUE], <<INFO_READY_ACK>>)
<1>1. readByte(s, INFO_READY) = readEvent(s, INFO_READY)
  BY CodesApart DEF readByte, AnnouncesValue, Waits
<1>2. Asks(s, INFO_READY)
  BY DEF Asks, Busy
<1>3. ~TakesBack(s, INFO_READY) /\ ~OpponentWins(s, INFO_READY) /\ INFO_READY # INFO_EXIT
  BY DEF TakesBack, OpponentWins, INFO_READY, INFO_NREADY, INFO_WON, INFO_EXIT, INFO_BITS
<1>. HIDE DEF INFO_READY, INFO_EXIT
<1>. QED
  BY <1>1, <1>2, <1>3 DEF readEvent

(* NREADY in the lobby. *)
LEMMA HandlesNReady ==
  ASSUME NEW s \in Machine, Waits(s), ~Busy(s)
  PROVE  readByte(s, INFO_NREADY) = Reply([s EXCEPT !.readyYou = FALSE], <<INFO_NREADY_ACK>>)
<1>1. readByte(s, INFO_NREADY) = readEvent(s, INFO_NREADY)
  BY CodesApart DEF readByte, AnnouncesValue, Waits
<1>2. ~Asks(s, INFO_NREADY) /\ TakesBack(s, INFO_NREADY)
  BY CodesApart DEF Asks, TakesBack, Busy
<1>3. ~OpponentWins(s, INFO_NREADY) /\ INFO_NREADY # INFO_EXIT
  BY DEF OpponentWins, INFO_NREADY, INFO_WON, INFO_EXIT, INFO_BITS
<1>. HIDE DEF INFO_NREADY, INFO_EXIT
<1>. QED
  BY <1>1, <1>2, <1>3 DEF readEvent

(* The code of a seed. *)
LEMMA HandlesCode ==
  ASSUME NEW s \in Machine, Waits(s)
  PROVE  readByte(s, INFO_ULONG) = Quiet([s EXCEPT !.receiving = INFO_ULONG])
  BY DEF readByte, AnnouncesValue, Waits,
         TypedCodes, LongCodes, ShortCodes, INFO_ACK, INFO_BITS,
         INFO_ULONG, INFO_LONG, INFO_DOUBLE, INFO_UINT, INFO_INT, INFO_FLOAT

(* Outside values and outside the lobby's questions a byte is an answer. *)
LEMMA HandlesAnswer ==
  ASSUME NEW s \in Machine, Waits(s),
         NEW byte \in {INFO_READY, INFO_NREADY, INFO_ACK, INFO_READY_ACK, INFO_NREADY_ACK,
         INFO_WON},
         byte \in {INFO_READY, INFO_NREADY} => Busy(s),
         byte = INFO_WON => s.status # "typing"
  PROVE  readByte(s, byte) = readAnswer(s, byte)
  BY DEF readByte, readEvent, Asks, TakesBack, OpponentWins, AnnouncesValue, Waits, Busy,
         TypedCodes, LongCodes, ShortCodes, INFO_ACK, INFO_READY, INFO_NREADY, INFO_BITS,
         INFO_EXIT,
         INFO_READY_ACK, INFO_NREADY_ACK, INFO_WON,
         INFO_ULONG, INFO_LONG, INFO_DOUBLE, INFO_UINT, INFO_INT, INFO_FLOAT

(* WON while typing. *)
LEMMA HandlesWon ==
  ASSUME NEW s \in Machine, Waits(s), s.status = "typing"
  PROVE  readByte(s, INFO_WON) = readAnswer([s EXCEPT !.status = "finished",
         !.won = FALSE], INFO_WON)
  BY DEF readByte, readEvent, Asks, TakesBack, OpponentWins, AnnouncesValue, Waits,
         TypedCodes, LongCodes, ShortCodes, INFO_ACK, INFO_READY, INFO_NREADY, INFO_BITS,
         INFO_EXIT,
         INFO_WON, INFO_ULONG, INFO_LONG, INFO_DOUBLE, INFO_UINT, INFO_INT, INFO_FLOAT

(* EXIT on any occasion. *)
LEMMA HandlesExit ==
  ASSUME NEW s \in Machine, Waits(s)
  PROVE  readByte(s, INFO_EXIT) = readAnswer(resetInfo(s), INFO_EXIT)
  BY DEF readByte, readEvent, Asks, TakesBack, OpponentWins, OpponentLeaves,
     AnnouncesValue, Waits,
         TypedCodes, LongCodes, ShortCodes, INFO_ACK, INFO_READY, INFO_NREADY, INFO_BITS,
         INFO_EXIT,
         INFO_WON, INFO_ULONG, INFO_LONG, INFO_DOUBLE, INFO_UINT, INFO_INT, INFO_FLOAT

(* An answer nobody awaits, or that says neither yes nor no, changes nothing. *)
LEMMA AnswerPasses ==
  ASSUME NEW s \in Machine, NEW byte,
         byte \in {INFO_READY_ACK, INFO_NREADY_ACK} => ~s.waitingAck
  PROVE  Passes(s, readAnswer(s, byte))
  BY DEF readAnswer, Passes, Quiet, Clear, INFO_ACK, INFO_READY_ACK, INFO_NREADY_ACK,
     INFO_BITS

(* A handler that passes a byte over leaves the race as it is. *)
LEMMA PassedAlike ==
  ASSUME NEW s \in Machine, NEW r, Passes(s, r)
  PROVE  /\ r.s \in Machine /\ Alike(s, r.s) /\ r.s.app = s.app
         /\ r.s.receiving = s.receiving /\ r.s.bits = s.bits
  BY DEF Passes, Alike, Machine

(* All that holds between two machines facing each other on the race screen. *)
Talk(s, t, a, b, f, g, l, m, ws, wt, strict) ==
    /\ Wire(s, t, a, f, l) /\ Wire(t, s, b, g, m)
    /\ Pact(s, t, f, g, l, m, ws, wt)
    /\ strict => Accord(s, t, f, g, l, m)

(* The same for some requests and replies under way. *)
InTouch(s, t, a, b, ws, wt, strict) ==
    \E f, g \in Phase, l, m \in Replies : Talk(s, t, a, b, f, g, l, m, ws, wt, strict)

(* No step of a machine restarts its race or loses its count. *)
Goes(s, u) ==
    /\ u \in Machine /\ u.app = s.app
    /\ u.status = "ready" => \/ s.status = "ready" /\ u.text = s.text /\ u.left = s.left
                             \/ ~Busy(s) /\ u.left = CountdownTicks

(* A machine that shows the race as before does not restart it. *)
LEMMA PassedGoes ==
  ASSUME NEW s \in Machine, NEW u \in Machine, Alike(s, u), u.app = s.app
  PROVE  Goes(s, u)
  BY DEF Alike, Goes

(* What two machines agree on depends on what they show. *)
LEMMA PactAlike ==
  ASSUME NEW ws, NEW wt, NEW s \in Machine, NEW t \in Machine,
         NEW f \in Phase, NEW g \in Phase, NEW l \in Replies, NEW m \in Replies,
         NEW u \in Machine, Alike(s, u),
         Pact(s, t, f, g, l, m, ws, wt)
  PROVE  Pact(u, t, f, g, l, m, ws, wt)
<1>1. Order(u, f, l, m) /\ Order(t, g, m, l)
  BY DEF Pact, Half, Order, Busy, Alike
<1>2. Seeds(u, t, f, l, m) /\ Seeds(t, u, g, m, l)
  BY DEF Pact, Half, Seeds, Busy, Acked, Heard, Told, Alike
<1>3. Result(u, t, m, wt) /\ Result(t, u, l, ws)
  BY DEF Pact, Half, Result, Busy, Alike
<1>. QED
  BY <1>1, <1>2, <1>3 DEF Pact, Half

(* So does the rest, and on whether they wait for an answer. *)
LEMMA AccordAlike ==
  ASSUME NEW s \in Machine, NEW t \in Machine,
         NEW f \in Phase, NEW g \in Phase, NEW l \in Replies, NEW m \in Replies,
         NEW u \in Machine, Alike(s, u), u.waitingAck = s.waitingAck,
         Accord(s, t, f, g, l, m)
  PROVE  Accord(u, t, f, g, l, m)
  BY DEF Accord, Concord, WithWon, WithReady, Busy, SeedDue, Acked, BothReady, Alike

(* s reads READY. *)
LEMMA HearsReady ==
  ASSUME NEW ws, NEW wt, NEW a, NEW b, NEW s \in Machine, NEW t \in Machine,
         NEW f \in Phase, NEW l \in Replies, NEW m \in Replies, NEW strict \in BOOLEAN,
         Talk(s, t, a, b, f, "ready", l, m, ws, wt, strict)
  PROVE  LET r == readByte(s, Head(b))
         IN  /\ InTouch(r.s, t, a \o r.out, Tail(b), ws, wt, strict)
             /\ Goes(s, r.s)
<1> DEFINE r == readByte(s, Head(b))
<1>1. Head(b) = INFO_READY /\ Wire(t, s, Tail(b), "ulong", m)
  BY ReadsReady DEF Talk
<1>2. Waits(s) /\ Fits(t.seedMe)
  BY DEF Talk, Wire, Waits, Asked
<1>3. "ready" \in Phase /\ "ulong" \in Phase
  BY DEF Phase
<1>4. CASE ~Busy(s)
  <2> DEFINE u == [s EXCEPT !.readyYou = TRUE, !.waitingForSeed = TRUE]
  <2>1. r = Reply(u, <<INFO_READY_ACK>>)
    BY <1>1, <1>2, <1>4, HandlesReady
  <2>2. /\ u \in Machine /\ u.app = s.app /\ u.status = s.status /\ u.text = s.text /\
           u.left = s.left
        /\ u.seedMe = s.seedMe /\ u.receiving = s.receiving /\ u.bits = s.bits
    BY DEF Machine
  <2>3. l \in {"", "W"} /\ AlsoReady(l) \in Replies
    BY DEF Talk, Pact, Half, Order, AlsoReady, Replies
  <2>4. Wire(s, t, a \o <<INFO_READY_ACK>>, f, AlsoReady(l))
    BY <2>3, BytesBehind, ReplyJoins, CodesAreBytes DEF Talk
  <2>5. Pact(u, t, f, "ulong", AlsoReady(l), m, ws, wt)
    BY <1>3, <1>4, HearReady DEF Talk
  <2>6. strict => Accord(u, t, f, "ulong", AlsoReady(l), m)
    BY <1>2, <1>3, <1>4, AgreeHearReady DEF Talk, Fits
  <2>. HIDE DEF u
  <2>7. Wire(u, t, a \o <<INFO_READY_ACK>>, f, AlsoReady(l)) /\
        Wire(t, u, Tail(b), "ulong", m)
    BY <1>1, <2>2, <2>4, WireKept
  <2>8. r.s = u /\ r.out = <<INFO_READY_ACK>>
    BY <2>1 DEF Reply
  <2>9. InTouch(u, t, a \o <<INFO_READY_ACK>>, Tail(b), ws, wt, strict)
    BY <1>3, <2>3, <2>5, <2>6, <2>7 DEF InTouch, Talk
  <2>. QED
    BY <2>2, <2>8, <2>9 DEF Goes
<1>5. CASE Busy(s)
  <2>1. Passes(s, r)
    <3>1. r = readAnswer(s, INFO_READY)
      BY <1>1, <1>2, <1>5, HandlesAnswer, CodesDiffer
    <3>. QED
      BY <3>1, AnswerPasses, CodesDiffer
  <2>. DEFINE u == r.s
  <2>2. /\ u \in Machine /\ Alike(s, u) /\ u.app = s.app
        /\ u.receiving = s.receiving /\ u.bits = s.bits
    BY <2>1, PassedAlike
  <2>3. a \o r.out = a
    BY <2>1, WireTyped, NothingMore DEF Passes, Talk
  <2>. HIDE DEF u, r
  <2>4. Pact(u, t, f, "ulong", l, m, ws, wt)
    BY <1>3, <1>5, <2>2, PassReady DEF Talk
  <2>5. strict => Accord(u, t, f, "ulong", l, m)
    BY <1>3, <1>5, <2>2, AgreePassReady DEF Talk
  <2>6. Wire(u, t, a, f, l) /\ Wire(t, u, Tail(b), "ulong", m)
    BY <1>1, <2>2, WireKept DEF Talk, Alike
  <2>7. InTouch(u, t, a, Tail(b), ws, wt, strict) /\ Goes(s, u)
    BY <1>3, <2>2, <2>4, <2>5, <2>6, PassedGoes DEF InTouch, Talk
  <2>. QED
    BY <2>3, <2>7 DEF u, r
<1>. QED
  BY <1>4, <1>5

(* s reads the code of a seed. *)
LEMMA HearsCode ==
  ASSUME NEW ws, NEW wt, NEW a, NEW b, NEW s \in Machine, NEW t \in Machine,
         NEW f \in Phase, NEW l \in Replies, NEW m \in Replies, NEW strict \in BOOLEAN,
         Talk(s, t, a, b, f, "ulong", l, m, ws, wt, strict)
  PROVE  LET r == readByte(s, Head(b))
         IN  /\ InTouch(r.s, t, a \o r.out, Tail(b), ws, wt, strict)
             /\ Goes(s, r.s)
<1> DEFINE r == readByte(s, Head(b))
<1> DEFINE u == [s EXCEPT !.receiving = INFO_ULONG]
<1>1. "ulong" \in Phase /\ "seed" \in Phase
  BY DEF Phase
<1>2. Waits(s)
  BY DEF Talk, Wire, Waits
<1>3. /\ u \in Machine /\ Alike(s, u) /\ u.waitingAck = s.waitingAck /\ u.app = s.app
      /\ u.receiving = INFO_ULONG /\ u.bits = s.bits
  BY CodesApart DEF Machine, Alike
<1>. HIDE DEF u
<1>4. Head(b) = INFO_ULONG /\ Wire(t, u, Tail(b), "seed", m)
  BY <1>3, ReadsCode DEF Talk
<1>5. r.s = u /\ r.out = <<>>
  BY <1>2, <1>4, HandlesCode DEF Quiet, u
<1>6. a \o r.out = a
  BY <1>5, WireTyped, NothingMore DEF Talk
<1>7. Pact(u, t, f, "seed", l, m, ws, wt)
  BY <1>1, <1>3, ReadCode DEF Talk
<1>8. strict => Accord(u, t, f, "seed", l, m)
  BY <1>1, <1>3, AgreeReadCode DEF Talk
<1>9. Wire(u, t, a, f, l)
  BY <1>3, WireKept DEF Talk, Alike
<1>10. InTouch(u, t, a, Tail(b), ws, wt, strict) /\ Goes(s, u)
  BY <1>1, <1>3, <1>4, <1>7, <1>8, <1>9, PassedGoes DEF InTouch, Talk
<1>. QED
  BY <1>5, <1>6, <1>10

(* The last byte of an awaited seed: the race begins if everything is there. *)
LEMMA TakesSeed ==
  ASSUME NEW n, NEW u, NEW v \in Machine, v.waitingForSeed, n \in Nat, u = takeSeed(v, n)
  PROVE      /\ u \in Machine /\ Becomes(v, u) /\ u.seedYou = n /\ ~u.waitingForSeed
             /\ u.waitingAck = v.waitingAck /\ u.won = v.won /\ u.readyMe = v.readyMe
             /\ u.readyYou = v.readyYou /\ u.seedMe = v.seedMe /\ u.app = v.app
             /\ u.receiving = v.receiving /\ u.bits = v.bits
             /\ (u.status = v.status /\ u.left = v.left) \/ (u.status = "ready" /\
                u.left = CountdownTicks)
<1> DEFINE w == [v EXCEPT !.seedYou = n]
           x == checkIfReady(w)
           y == [x EXCEPT !.waitingForSeed = FALSE]
<1>1. /\ w \in Machine /\ w.seedYou = n /\ w.waitingAck = v.waitingAck /\ w.won = v.won
      /\ w.readyMe = v.readyMe /\ w.readyYou = v.readyYou /\ w.seedMe = v.seedMe /\
         w.app = v.app
      /\ w.receiving = v.receiving /\ w.bits = v.bits /\ w.status = v.status /\
         w.left = v.left
      /\ w.text = v.text
  BY DEF Machine
<1>. HIDE DEF w
<1>2. /\ x \in Machine /\ x.seedYou = n /\ x.waitingAck = w.waitingAck /\ x.won = w.won
      /\ x.readyMe = w.readyMe /\ x.readyYou = w.readyYou /\ x.seedMe = w.seedMe /\
         x.app = w.app
      /\ x.receiving = w.receiving /\ x.bits = w.bits
      /\ IF BothReady(w) THEN x.status = "ready" /\ x.left = CountdownTicks /\
         x.text = TextOf(w.seedMe, w.seedYou)
                         ELSE x = w
  <2>1. x \in Machine
    BY <1>1, CheckTyped
  <2>2. CASE BothReady(w)
    <3>1. x = [w EXCEPT !.status = "ready", !.text = Unsigned(w.seedMe + w.seedYou),
          !.left = CountdownTicks]
      BY <2>2 DEF checkIfReady
    <3>2. DOMAIN w = Fields
      BY <1>1, FieldTyped
    <3>. QED
      BY <1>1, <2>1, <2>2, <3>1, <3>2 DEF Fields, TextOf
  <2>3. CASE ~BothReady(w)
    BY <1>1, <2>1, <2>3 DEF checkIfReady
  <2>. QED
    BY <2>2, <2>3
<1>. HIDE DEF x
<1>3. /\ y \in Machine /\ y.seedYou = n /\ y.waitingForSeed = FALSE /\
         y.waitingAck = x.waitingAck /\ y.won = x.won
      /\ y.readyMe = x.readyMe /\ y.readyYou = x.readyYou /\ y.seedMe = x.seedMe /\
         y.app = x.app
      /\ y.receiving = x.receiving /\ y.bits = x.bits /\ y.status = x.status /\
         y.left = x.left
      /\ y.text = x.text
  BY <1>2 DEF Machine
<1>. HIDE DEF y
<1>4. u = y
  BY DEF takeSeed, y, x, w
<1>5. BothReady(u) <=> BothReady(w)
  BY <1>1, <1>2, <1>3, <1>4 DEF BothReady
<1>6. Becomes(v, u)
  BY <1>1, <1>2, <1>3, <1>5, <1>4 DEF Becomes
<1>7. (u.status = v.status /\ u.left = v.left) \/ (u.status = "ready" /\
      u.left = CountdownTicks)
  BY <1>1, <1>2, <1>3, <1>4
<1>8. /\ u.seedYou = n /\ ~u.waitingForSeed
      /\ u.waitingAck = v.waitingAck /\ u.won = v.won /\ u.readyMe = v.readyMe
      /\ u.readyYou = v.readyYou /\ u.seedMe = v.seedMe /\ u.app = v.app
      /\ u.receiving = v.receiving /\ u.bits = v.bits
  BY <1>1, <1>2, <1>3, <1>4
<1>. QED
  BY <1>3, <1>6, <1>4, <1>7, <1>8

(* s reads a byte of a seed, not the last one. *)
LEMMA HearsSeedByte ==
  ASSUME NEW ws, NEW wt, NEW a, NEW b, NEW s \in Machine, NEW t \in Machine,
         NEW f \in Phase, NEW l \in Replies, NEW m \in Replies, NEW strict \in BOOLEAN,
         Talk(s, t, a, b, f, "seed", l, m, ws, wt, strict),
         Len(s.bits) + 1 < LongLen
  PROVE  LET r == readByte(s, Head(b))
         IN  /\ InTouch(r.s, t, a \o r.out, Tail(b), ws, wt, strict)
             /\ Goes(s, r.s)
<1> DEFINE r == readByte(s, Head(b))
<1> DEFINE u == [s EXCEPT !.bits = Append(@, Head(b))]
<1>1. s.receiving = INFO_ULONG /\ Head(b) \in Byte /\ "seed" \in Phase
  BY ReadsSeed DEF Talk, Wire, Phase
<1>2. Append(s.bits, Head(b)) \in Seq(Byte) /\ Len(Append(s.bits, Head(b))) = Len(s.bits) + 1
  <2>1. s.bits \in Seq(Byte)
    BY DEF Machine
  <2>. HIDE DEF Byte
  <2>. QED
    BY <1>1, <2>1, AppendProperties
<1>3. /\ u \in Machine /\ Alike(s, u) /\ u.waitingAck = s.waitingAck /\ u.app = s.app
      /\ u.receiving = INFO_ULONG /\ u.bits = Append(s.bits, Head(b))
  <2>1. u \in Machine /\ DOMAIN s = Fields
    BY <1>2, FieldTyped
  <2>. QED
    BY <1>1, <2>1 DEF Alike, Fields
<1>. HIDE DEF u
<1>4. r = Quiet(u)
  <2>1. ValueOpen(u)
    BY <1>2, <1>3, CodesApart DEF ValueOpen, Width, LongCodes
  <2>2. readTyped(s, Head(b)) = Quiet(u)
    BY <2>1 DEF readTyped, u
  <2>. QED
    BY <1>1, <2>2, CodesApart DEF readByte
<1>5. r.s = u /\ r.out = <<>>
  BY <1>4 DEF Quiet
<1>6. a \o r.out = a
  BY <1>5, WireTyped, NothingMore DEF Talk
<1>7. Pact(u, t, f, "seed", l, m, ws, wt)
  BY <1>1, <1>3, PactAlike DEF Talk
<1>8. strict => Accord(u, t, f, "seed", l, m)
  BY <1>1, <1>3, AccordAlike DEF Talk
<1>9. Wire(u, t, a, f, l) /\ Wire(t, u, Tail(b), "seed", m)
  BY <1>1, <1>3, WireKept, ReadsSeed DEF Talk, Alike
<1>10. InTouch(u, t, a, Tail(b), ws, wt, strict) /\ Goes(s, u)
  BY <1>1, <1>3, <1>7, <1>8, <1>9, PassedGoes DEF InTouch, Talk
<1>. QED
  BY <1>5, <1>6, <1>10

(* s reads the last byte of a seed. *)
LEMMA HearsSeedEnd ==
  ASSUME NEW ws, NEW wt, NEW a, NEW b, NEW s \in Machine, NEW t \in Machine,
         NEW f \in Phase, NEW l \in Replies, NEW m \in Replies, NEW strict \in BOOLEAN,
         Talk(s, t, a, b, f, "seed", l, m, ws, wt, strict),
         Len(s.bits) + 1 = LongLen
  PROVE  LET r == readByte(s, Head(b))
         IN  /\ InTouch(r.s, t, a \o r.out, Tail(b), ws, wt, strict)
             /\ Goes(s, r.s)
<1> DEFINE r == readByte(s, Head(b))
           v == [s EXCEPT !.receiving = INFO_ACK, !.bits = <<>>]
           u == IF s.waitingForSeed THEN takeSeed(v, t.seedMe) ELSE v
<1>1. s.receiving = INFO_ULONG /\ Head(b) \in Byte /\ "seed" \in Phase /\ "none" \in Phase
  BY ReadsSeed DEF Talk, Wire, Phase
<1>2. Append(s.bits, Head(b)) = SeedBytes(t.seedMe) /\ Fits(t.seedMe)
  BY ReadsSeed DEF Talk, Wire, Asked
<1>3. SeedValue(SeedBytes(t.seedMe)) = t.seedMe /\ Len(SeedBytes(t.seedMe)) = LongLen
  BY <1>2, SeedRoundTrip
<1>4. /\ v \in Machine /\ Alike(s, v) /\ v.waitingAck = s.waitingAck /\ v.app = s.app
      /\ v.receiving = INFO_ACK /\ v.bits = <<>> /\ v.waitingForSeed = s.waitingForSeed
  <2>1. [s EXCEPT !.receiving = INFO_ACK] \in Machine /\ DOMAIN s = Fields
    BY FieldTyped
  <2>2. [[s EXCEPT !.receiving = INFO_ACK] EXCEPT !.bits = <<>>] \in Machine
    BY <2>1, FieldTyped, EmptyBytes
  <2>3. v = [[s EXCEPT !.receiving = INFO_ACK] EXCEPT !.bits = <<>>]
    BY <2>1 DEF Fields
  <2>4. v \in Machine
    BY <2>2, <2>3
  <2>. QED
    BY <2>1, <2>4 DEF Alike, Fields
<1>5. r = Reply(u, <<INFO_ACK>>)
  <2> DEFINE x == [s EXCEPT !.bits = Append(@, Head(b))]
  <2>1. DOMAIN s = Fields
    BY FieldTyped
  <2>2. x.bits = SeedBytes(t.seedMe) /\ x.receiving = INFO_ULONG
    BY <1>1, <1>2, <2>1 DEF Fields
  <2>3. ~ValueOpen(x)
    BY <1>3, <2>2, CodesApart, LenAssumption DEF ValueOpen, Width, LongCodes
  <2>4. ValueDone(x) = v
    BY <2>1 DEF ValueDone, Fields
  <2>. HIDE DEF x, v
  <2>5. (IF x.receiving = INFO_ULONG THEN takeSeed(ValueDone(x),
        SeedValue(x.bits)) ELSE ValueDone(x)) = u
    BY <1>3, <1>4, <2>2, <2>4 DEF takeSeed
  <2>. HIDE DEF u
  <2>6. readTyped(s, Head(b)) = Reply(u, <<INFO_ACK>>)
    BY <2>3, <2>5 DEF readTyped, x
  <2>. QED
    BY <1>1, <2>6, CodesApart DEF readByte
<1>6. r.s = u /\ r.out = <<INFO_ACK>>
  BY <1>5 DEF Reply
<1>. HIDE DEF r, v
<1>7. l \in {"", "R", "W", "WR"} /\ AlsoAck(l) \in Replies
  BY DEF Talk, Pact, Half, Order, AlsoAck, Replies, SeedDue
<1>8. Wire(s, t, a \o <<INFO_ACK>>, f, AlsoAck(l))
  BY <1>7, BytesBehind, ReplyJoins, CodesAreBytes DEF Talk
<1>9. CASE s.waitingForSeed
  <2>1. t.seedMe \in Nat /\ t.seedMe # 0
    BY <1>2 DEF Fits
  <2>2. /\ u \in Machine /\ Becomes(v, u) /\ u.seedYou = t.seedMe /\ ~u.waitingForSeed
        /\ u.waitingAck = v.waitingAck /\ u.won = v.won /\ u.readyMe = v.readyMe
        /\ u.readyYou = v.readyYou /\ u.seedMe = v.seedMe /\ u.app = v.app
        /\ u.receiving = v.receiving /\ u.bits = v.bits
        /\ (u.status = v.status /\ u.left = v.left) \/ (u.status = "ready" /\
           u.left = CountdownTicks)
    <3>1. u = takeSeed(v, t.seedMe)
      BY <1>9
    <3>. HIDE DEF u
    <3>2. v \in Machine /\ v.waitingForSeed
      BY <1>4, <1>9
    <3>. QED
      BY <2>1, <3>1, <3>2, TakesSeed
  <2>. HIDE DEF u
  <2>3. /\ Becomes(s, u) /\ u.waitingAck = s.waitingAck /\ u.won = s.won /\
           u.readyMe = s.readyMe
        /\ u.readyYou = s.readyYou /\ u.seedMe = s.seedMe /\ u.app = s.app
        /\ u.receiving = INFO_ACK /\ u.bits = <<>>
    BY <1>4, <2>2 DEF Becomes, Alike
  <2>4. Pact(u, t, f, "none", AlsoAck(l), m, ws, wt)
    BY <1>1, <1>9, <2>2, <2>3, HearSeed DEF Talk
  <2>5. strict => Accord(u, t, f, "none", AlsoAck(l), m)
    BY <1>1, <1>9, <2>1, <2>2, <2>3, AgreeHearSeed DEF Talk
  <2>6. Wire(t, u, Tail(b), "none", m)
    BY <2>3, ReadsSeed DEF Talk
  <2>7. Wire(u, t, a \o <<INFO_ACK>>, f, AlsoAck(l))
    BY <1>8, <2>3, WireKept
  <2>8. InTouch(u, t, a \o <<INFO_ACK>>, Tail(b), ws, wt, strict)
    BY <1>1, <1>7, <2>4, <2>5, <2>6, <2>7 DEF InTouch, Talk
  <2>9. ~Busy(s)
    BY <1>9 DEF Talk, Pact, Half, Seeds
  <2>10. Goes(s, u)
    BY <1>4, <2>2, <2>3, <2>9 DEF Goes, Alike, Busy
  <2>. QED
    BY <1>6, <2>8, <2>10 DEF r
<1>10. CASE ~s.waitingForSeed
  <2>1. u = v
    BY <1>10
  <2>2. Pact(v, t, f, "none", AlsoAck(l), m, ws, wt)
    BY <1>1, <1>4, <1>10, SkipSeed DEF Talk
  <2>3. strict => Accord(v, t, f, "none", AlsoAck(l), m)
    BY <1>1, <1>4, <1>10, AgreeSkipSeed DEF Talk
  <2>4. Wire(t, v, Tail(b), "none", m)
    BY <1>4, ReadsSeed DEF Talk
  <2>5. Wire(v, t, a \o <<INFO_ACK>>, f, AlsoAck(l))
    BY <1>4, <1>8, WireKept DEF Alike
  <2>6. InTouch(v, t, a \o <<INFO_ACK>>, Tail(b), ws, wt, strict) /\ Goes(s, v)
    BY <1>1, <1>4, <1>7, <2>2, <2>3, <2>4, <2>5, PassedGoes DEF InTouch, Talk
  <2>. QED
    BY <1>6, <2>1, <2>6 DEF r
<1>. QED
  BY <1>9, <1>10

(* s reads NREADY. *)
LEMMA HearsNReady ==
  ASSUME NEW ws, NEW wt, NEW a, NEW b, NEW s \in Machine, NEW t \in Machine,
         NEW f \in Phase, NEW l \in Replies, NEW m \in Replies, NEW strict \in BOOLEAN,
         Talk(s, t, a, b, f, "nready", l, m, ws, wt, strict)
  PROVE  LET r == readByte(s, Head(b))
         IN  /\ InTouch(r.s, t, a \o r.out, Tail(b), ws, wt, strict)
             /\ Goes(s, r.s)
<1> DEFINE r == readByte(s, Head(b))
<1>1. Head(b) = INFO_NREADY /\ Wire(t, s, Tail(b), "none", m)
  BY ReadsNReady DEF Talk
<1>2. Waits(s) /\ ~strict /\ "nready" \in Phase /\ "none" \in Phase
  BY DEF Talk, Wire, Waits, Accord, Concord, Phase
<1>3. CASE ~Busy(s)
  <2> DEFINE u == [s EXCEPT !.readyYou = FALSE]
  <2>1. r = Reply(u, <<INFO_NREADY_ACK>>)
    BY <1>1, <1>2, <1>3, HandlesNReady
  <2>2. /\ u \in Machine /\ u.app = s.app /\ u.status = s.status /\ u.text = s.text /\
           u.left = s.left
        /\ u.seedMe = s.seedMe /\ u.receiving = s.receiving /\ u.bits = s.bits
    BY DEF Machine
  <2>3. l \in {"", "W"} /\ AlsoNReady(l) \in Replies
    BY DEF Talk, Pact, Half, Order, AlsoNReady, Replies
  <2>4. Wire(s, t, a \o <<INFO_NREADY_ACK>>, f, AlsoNReady(l))
    BY <2>3, BytesBehind, ReplyJoins, CodesAreBytes DEF Talk
  <2>5. Pact(u, t, f, "none", AlsoNReady(l), m, ws, wt)
    BY <1>2, <1>3, HearNReady DEF Talk
  <2>. HIDE DEF u
  <2>6. Wire(u, t, a \o <<INFO_NREADY_ACK>>, f, AlsoNReady(l)) /\
        Wire(t, u, Tail(b), "none", m)
    BY <1>1, <2>2, <2>4, WireKept
  <2>7. r.s = u /\ r.out = <<INFO_NREADY_ACK>>
    BY <2>1 DEF Reply
  <2>8. InTouch(u, t, a \o <<INFO_NREADY_ACK>>, Tail(b), ws, wt, strict)
    BY <1>2, <2>3, <2>5, <2>6 DEF InTouch, Talk
  <2>. QED
    BY <2>2, <2>7, <2>8 DEF Goes
<1>4. CASE Busy(s)
  <2>1. Passes(s, r)
    <3>1. r = readAnswer(s, INFO_NREADY)
      BY <1>1, <1>2, <1>4, HandlesAnswer, CodesDiffer
    <3>. QED
      BY <3>1, AnswerPasses, CodesDiffer
  <2>. DEFINE u == r.s
  <2>2. /\ u \in Machine /\ Alike(s, u) /\ u.app = s.app
        /\ u.receiving = s.receiving /\ u.bits = s.bits
    BY <2>1, PassedAlike
  <2>3. a \o r.out = a
    BY <2>1, WireTyped, NothingMore DEF Passes, Talk
  <2>. HIDE DEF u, r
  <2>4. Pact(u, t, f, "none", l, m, ws, wt)
    BY <1>2, <1>4, <2>2, PassNReady DEF Talk
  <2>5. Wire(u, t, a, f, l) /\ Wire(t, u, Tail(b), "none", m)
    BY <1>1, <2>2, WireKept DEF Talk, Alike
  <2>6. InTouch(u, t, a, Tail(b), ws, wt, strict) /\ Goes(s, u)
    BY <1>2, <2>2, <2>4, <2>5, PassedGoes DEF InTouch, Talk
  <2>. QED
    BY <2>3, <2>6 DEF u, r
<1>. QED
  BY <1>3, <1>4

(* READY_ACK, awaited: the race begins if everything is there. *)
LEMMA TakesReady ==
  ASSUME NEW r, NEW u, NEW v \in Machine, v.waitingAck,
         r = readAnswer(v, INFO_READY_ACK), u = r.s
  PROVE      /\ r.out = <<>> /\ u \in Machine /\ Becomes(v, u) /\ u.readyMe
             /\ u.won = v.won /\ u.readyYou = v.readyYou /\ u.seedMe = v.seedMe
             /\ u.seedYou = v.seedYou /\ u.waitingForSeed = v.waitingForSeed /\ u.app = v.app
             /\ u.receiving = v.receiving /\ u.bits = v.bits
             /\ (u.status = v.status /\ u.left = v.left) \/ (u.status = "ready" /\
                u.left = CountdownTicks)
<1> DEFINE w == [v EXCEPT !.readyMe = TRUE]
           x == checkIfReady(w)
           y == [x EXCEPT !.waitingAck = FALSE]
<1>1. /\ w \in Machine /\ w.seedYou = v.seedYou /\ w.won = v.won
      /\ w.readyMe /\ w.readyYou = v.readyYou /\ w.seedMe = v.seedMe /\ w.app = v.app
      /\ w.receiving = v.receiving /\ w.bits = v.bits /\ w.status = v.status /\
         w.left = v.left
      /\ w.text = v.text /\ w.waitingForSeed = v.waitingForSeed
  BY DEF Machine
<1>. HIDE DEF w
<1>2. /\ x \in Machine /\ x.seedYou = w.seedYou /\ x.waitingForSeed = w.waitingForSeed /\
         x.won = w.won
      /\ x.readyMe = w.readyMe /\ x.readyYou = w.readyYou /\ x.seedMe = w.seedMe /\
         x.app = w.app
      /\ x.receiving = w.receiving /\ x.bits = w.bits
      /\ IF BothReady(w) THEN x.status = "ready" /\ x.left = CountdownTicks /\
         x.text = TextOf(w.seedMe, w.seedYou)
                         ELSE x = w
  <2>1. x \in Machine
    BY <1>1, CheckTyped
  <2>2. CASE BothReady(w)
    <3>1. x = [w EXCEPT !.status = "ready", !.text = Unsigned(w.seedMe + w.seedYou),
          !.left = CountdownTicks]
      BY <2>2 DEF checkIfReady
    <3>2. DOMAIN w = Fields
      BY <1>1, FieldTyped
    <3>. QED
      BY <1>1, <2>1, <2>2, <3>1, <3>2 DEF Fields, TextOf
  <2>3. CASE ~BothReady(w)
    BY <1>1, <2>1, <2>3 DEF checkIfReady
  <2>. QED
    BY <2>2, <2>3
<1>. HIDE DEF x
<1>3. /\ y \in Machine /\ y.seedYou = x.seedYou /\ y.waitingForSeed = x.waitingForSeed /\
         y.won = x.won
      /\ y.readyMe = x.readyMe /\ y.readyYou = x.readyYou /\ y.seedMe = x.seedMe /\
         y.app = x.app
      /\ y.receiving = x.receiving /\ y.bits = x.bits /\ y.status = x.status /\
         y.left = x.left
      /\ y.text = x.text
  BY <1>2 DEF Machine
<1>. HIDE DEF y
<1>4. readAnswer(v, INFO_READY_ACK) = Quiet(y)
  <2>1. INFO_READY_ACK # INFO_ACK /\ INFO_READY_ACK # INFO_NREADY_ACK
    BY CodesDiffer
  <2>. HIDE DEF INFO_READY_ACK, INFO_ACK, INFO_NREADY_ACK
  <2>. QED
    BY <2>1 DEF readAnswer, AnswerReady, y, x, w
<1>5. u = y /\ r.out = <<>>
  BY <1>4 DEF Quiet
<1>6. BothReady(u) <=> BothReady(w)
  BY <1>1, <1>2, <1>3, <1>5 DEF BothReady
<1>7. Becomes(v, u)
  BY <1>1, <1>2, <1>3, <1>5, <1>6 DEF Becomes
<1>8. (u.status = v.status /\ u.left = v.left) \/ (u.status = "ready" /\
      u.left = CountdownTicks)
  BY <1>1, <1>2, <1>3, <1>5
<1>9. /\ u.readyMe /\ u.won = v.won /\ u.readyYou = v.readyYou /\ u.seedMe = v.seedMe
      /\ u.seedYou = v.seedYou /\ u.waitingForSeed = v.waitingForSeed /\ u.app = v.app
      /\ u.receiving = v.receiving /\ u.bits = v.bits
  BY <1>1, <1>2, <1>3, <1>5
<1>. QED
  BY <1>3, <1>5, <1>7, <1>8, <1>9

(* s reads the READY_ACK it waits for. *)
LEMMA HearsReadyAck ==
  ASSUME NEW ws, NEW wt, NEW a, NEW b, NEW s \in Machine, NEW t \in Machine,
         NEW f \in Phase, NEW l \in Replies, NEW m \in Replies, NEW strict \in BOOLEAN,
         Talk(s, t, a, b, f, "none", l, m, ws, wt, strict), m \in {"R", "RA"}, s.waitingAck
  PROVE  LET r == readByte(s, Head(b))
         IN  /\ InTouch(r.s, t, a \o r.out, Tail(b), ws, wt, strict)
             /\ Goes(s, r.s)
<1> DEFINE r == readByte(s, Head(b))
<1>1. First(m) = INFO_READY_ACK /\ m # "" /\ "none" \in Phase /\ Rest(m) \in Replies
  BY DEF First, Phase, Rest, Replies
<1>2. Head(b) = INFO_READY_ACK /\ Wire(t, s, Tail(b), "none", Rest(m)) /\ Waits(s)
  BY <1>1, ReadsReply DEF Talk, Wire, Waits
<1>3. r = readAnswer(s, INFO_READY_ACK)
  BY <1>2, HandlesAnswer, CodesDiffer
<1>. DEFINE u == r.s
<1>4. /\ r.out = <<>> /\ u \in Machine /\ Becomes(s, u) /\ u.readyMe
      /\ u.won = s.won /\ u.readyYou = s.readyYou /\ u.seedMe = s.seedMe
      /\ u.seedYou = s.seedYou /\ u.waitingForSeed = s.waitingForSeed /\ u.app = s.app
      /\ u.receiving = s.receiving /\ u.bits = s.bits
      /\ (u.status = s.status /\ u.left = s.left) \/ (u.status = "ready" /\
         u.left = CountdownTicks)
  <2>. HIDE DEF r
  <2>. QED
    BY <1>3, TakesReady
<1>. HIDE DEF u, r
<1>5. a \o r.out = a
  <2>1. a \in Seq(Byte)
    BY WireTyped DEF Talk
  <2>2. r.out = <<>>
    BY <1>4
  <2>. QED
    BY <2>1, <2>2, NothingMore
<1>6. Pact(u, t, f, "none", l, Rest(m), ws, wt)
  BY <1>1, <1>4, HearReadyAck DEF Talk
<1>7. strict => Accord(u, t, f, "none", l, Rest(m))
  BY <1>1, <1>4, AgreeHearReadyAck DEF Talk
<1>8. Wire(u, t, a, f, l) /\ Wire(t, u, Tail(b), "none", Rest(m))
  BY <1>2, <1>4, WireKept DEF Talk
<1>9. ~Busy(s)
  BY DEF Talk, Pact, Half, Order, WithReady
<1>10. Goes(s, u)
  BY <1>4, <1>9 DEF Goes, Busy, Becomes
<1>11. InTouch(u, t, a, Tail(b), ws, wt, strict)
  BY <1>1, <1>6, <1>7, <1>8 DEF InTouch, Talk
<1>. QED
  BY <1>5, <1>10, <1>11 DEF u, r

(* s reads the NREADY_ACK it waits for. *)
LEMMA HearsNReadyAck ==
  ASSUME NEW ws, NEW wt, NEW a, NEW b, NEW s \in Machine, NEW t \in Machine,
         NEW f \in Phase, NEW l \in Replies, NEW m \in Replies, NEW strict \in BOOLEAN,
         Talk(s, t, a, b, f, "none", l, m, ws, wt, strict), m = "N", s.waitingAck
  PROVE  LET r == readByte(s, Head(b))
         IN  /\ InTouch(r.s, t, a \o r.out, Tail(b), ws, wt, strict)
             /\ Goes(s, r.s)
<1> DEFINE r == readByte(s, Head(b))
<1>1. First(m) = INFO_NREADY_ACK /\ m # "" /\ "none" \in Phase /\ Rest(m) \in Replies
  BY BytesFront DEF First, Phase
<1>2. /\ Head(b) = INFO_NREADY_ACK /\ Wire(t, s, Tail(b), "none", Rest(m))
      /\ Waits(s) /\ ~strict
  <2>1. Head(b) = INFO_NREADY_ACK /\ Wire(t, s, Tail(b), "none", Rest(m))
    BY <1>1, ReadsReply DEF Talk
  <2>2. Waits(s) /\ ~strict
    BY DEF Talk, Wire, Waits, Accord, Concord
  <2>. QED
    BY <2>1, <2>2
<1>3. r = readAnswer(s, INFO_NREADY_ACK)
  BY <1>2, HandlesAnswer, CodesDiffer
<1>. DEFINE v == [s EXCEPT !.readyMe = FALSE, !.seedMe = 0]
            u == [v EXCEPT !.waitingAck = FALSE]
<1>4. /\ u \in Machine /\ Alike(v, u) /\ u.app = s.app /\ u.status = s.status /\
         u.text = s.text
      /\ u.left = s.left /\ u.receiving = s.receiving /\ u.bits = s.bits
  <2>1. DOMAIN s = Fields
    BY FieldTyped
  <2>2. v \in Machine /\ v.app = s.app /\ v.status = s.status /\ v.text = s.text
        /\ v.left = s.left /\ v.receiving = s.receiving /\ v.bits = s.bits
    BY DEF Machine
  <2>. HIDE DEF v
  <2>3. DOMAIN v = Fields /\ u \in Machine
    BY <2>2, FieldTyped
  <2>. QED
    BY <2>2, <2>3 DEF Fields, Alike
<1>5. r.s = u /\ r.out = <<>>
  <2>1. INFO_NREADY_ACK # INFO_ACK /\ INFO_NREADY_ACK # INFO_READY_ACK
    BY CodesDiffer
  <2>. HIDE DEF INFO_READY_ACK, INFO_ACK, INFO_NREADY_ACK
  <2>2. readAnswer(s, INFO_NREADY_ACK) = Quiet(u)
    BY <2>1 DEF readAnswer, AnswerNReady
  <2>. HIDE DEF u
  <2>. QED
    BY <1>3, <2>2 DEF Quiet
<1>6. a \o r.out = a
  BY <1>5, WireTyped, NothingMore DEF Talk
<1>. HIDE DEF u, r
<1>7. Pact(u, t, f, "none", l, Rest(m), ws, wt)
  BY <1>1, <1>4, HearNReadyAck DEF Talk
<1>8. f = "none"
  BY DEF Talk, Pact, Half, Order, Phase, SeedDue
<1>9. Wire(u, t, a, f, l) /\ Wire(t, u, Tail(b), "none", Rest(m))
  BY <1>2, <1>4, <1>8, WireKept DEF Talk, Asked
<1>10. Goes(s, u)
  BY <1>4 DEF Goes
<1>11. InTouch(u, t, a, Tail(b), ws, wt, strict)
  BY <1>1, <1>2, <1>7, <1>9 DEF InTouch, Talk
<1>. QED
  BY <1>5, <1>6, <1>10, <1>11 DEF r

(* s reads WON while typing. *)
LEMMA HearsWon ==
  ASSUME NEW ws, NEW wt, NEW a, NEW b, NEW s \in Machine, NEW t \in Machine,
         NEW f \in Phase, NEW l \in Replies, NEW m \in Replies, NEW strict \in BOOLEAN,
         Talk(s, t, a, b, f, "none", l, m, ws, wt, strict), First(m) = INFO_WON, m # "",
         s.status = "typing"
  PROVE  LET r == readByte(s, Head(b))
         IN  /\ InTouch(r.s, t, a \o r.out, Tail(b), ws, wt, strict)
             /\ Goes(s, r.s)
<1> DEFINE r == readByte(s, Head(b))
<1>1. m \in {"W", "WR", "WRA", "WA", "WN"} /\ "none" \in Phase /\ Rest(m) \in Replies
  BY CodesDiffer DEF First, Phase, Rest, Replies
<1>2. Head(b) = INFO_WON /\ Wire(t, s, Tail(b), "none", Rest(m)) /\ Waits(s)
  BY ReadsReply DEF Talk, Wire, Waits
<1>. DEFINE v == [s EXCEPT !.status = "finished", !.won = FALSE]
            u == r.s
<1>3. v \in Machine /\ v.app = s.app /\ v.receiving = s.receiving /\ v.bits = s.bits
      /\ v.seedMe = s.seedMe /\ v.status = "finished"
  BY DEF Machine
<1>4. r = readAnswer(v, INFO_WON)
  BY <1>2, HandlesWon
<1>. HIDE DEF v
<1>5. Passes(v, r)
  <2>1. INFO_WON \notin {INFO_READY_ACK, INFO_NREADY_ACK}
    BY CodesDiffer
  <2>. HIDE DEF r
  <2>. QED
    BY <1>3, <1>4, <2>1, AnswerPasses
<1>6. /\ u \in Machine /\ Alike(v, u) /\ u.app = v.app
      /\ u.receiving = v.receiving /\ u.bits = v.bits /\ r.out = <<>>
  BY <1>3, <1>5, PassedAlike DEF Passes
<1>7. a \o r.out = a
  BY <1>6, WireTyped, NothingMore DEF Talk
<1>. HIDE DEF u, r
<1>8. Pact(u, t, f, "none", l, Rest(m), ws, wt)
  BY <1>1, <1>6, HearWon DEF Talk, v
<1>9. strict => Accord(u, t, f, "none", l, Rest(m))
  BY <1>1, <1>6, AgreeHearWon DEF Talk, v
<1>10. Wire(u, t, a, f, l) /\ Wire(t, u, Tail(b), "none", Rest(m))
  BY <1>2, <1>3, <1>6, WireKept DEF Talk, Alike
<1>11. Goes(s, u)
  BY <1>3, <1>6 DEF Goes, Alike
<1>12. InTouch(u, t, a, Tail(b), ws, wt, strict)
  BY <1>1, <1>8, <1>9, <1>10 DEF InTouch, Talk
<1>. QED
  BY <1>7, <1>11, <1>12 DEF u, r

(* s reads a reply that changes nothing. *)
LEMMA HearsNothing ==
  ASSUME NEW ws, NEW wt, NEW a, NEW b, NEW s \in Machine, NEW t \in Machine,
         NEW f \in Phase, NEW l \in Replies, NEW m \in Replies, NEW strict \in BOOLEAN,
         Talk(s, t, a, b, f, "none", l, m, ws, wt, strict), m # "",
         First(m) = INFO_WON => s.status # "typing",
         m \in {"R", "RA", "N"} => ~s.waitingAck
  PROVE  LET r == readByte(s, Head(b))
         IN  /\ InTouch(r.s, t, a \o r.out, Tail(b), ws, wt, strict)
             /\ Goes(s, r.s)
<1> DEFINE r == readByte(s, Head(b))
<1>1. "none" \in Phase /\ Rest(m) \in Replies
  BY DEF Phase, Rest, Replies
<1>2. Head(b) = First(m) /\ Wire(t, s, Tail(b), "none", Rest(m)) /\ Waits(s)
  BY ReadsReply DEF Talk, Wire, Waits
<1>3. /\ First(m) \in {INFO_ACK, INFO_READY_ACK, INFO_NREADY_ACK, INFO_WON}
      /\ First(m) \in {INFO_READY_ACK, INFO_NREADY_ACK} => m \in {"R", "RA", "N"}
      /\ m \in {"W", "WR", "WRA", "WA", "WN"} => First(m) = INFO_WON
  BY CodesDiffer DEF First
<1>4. r = readAnswer(s, First(m))
  <2>1. First(m) \notin {INFO_READY, INFO_NREADY}
    BY <1>3, CodesDiffer
  <2>. QED
    BY <1>2, <1>3, <2>1, HandlesAnswer
<1>5. Passes(s, r)
  <2>. HIDE DEF r
  <2>. QED
    BY <1>3, <1>4, AnswerPasses
<1>. DEFINE u == r.s
<1>6. /\ u \in Machine /\ Alike(s, u) /\ u.app = s.app
      /\ u.receiving = s.receiving /\ u.bits = s.bits /\ r.out = <<>>
  BY <1>5, PassedAlike DEF Passes
<1>7. a \o r.out = a
  BY <1>6, WireTyped, NothingMore DEF Talk
<1>. HIDE DEF u, r
<1>8. Pact(u, t, f, "none", l, Rest(m), ws, wt)
  BY <1>1, <1>3, <1>6, PassReply DEF Talk
<1>9. strict => Accord(u, t, f, "none", l, Rest(m))
  BY <1>1, <1>3, <1>6, AgreePassReply DEF Talk
<1>10. Wire(u, t, a, f, l) /\ Wire(t, u, Tail(b), "none", Rest(m))
  BY <1>2, <1>6, WireKept DEF Talk, Alike
<1>11. InTouch(u, t, a, Tail(b), ws, wt, strict) /\ Goes(s, u)
  BY <1>1, <1>6, <1>8, <1>9, <1>10, PassedGoes DEF InTouch, Talk
<1>. QED
  BY <1>7, <1>11 DEF u, r

(* Whatever byte a machine reads. *)
LEMMA Reading ==
  ASSUME NEW ws, NEW wt, NEW a, NEW b, NEW s \in Machine, NEW t \in Machine,
         NEW strict \in BOOLEAN,
         InTouch(s, t, a, b, ws, wt, strict), b # <<>>
  PROVE  LET r == readByte(s, Head(b))
         IN  /\ InTouch(r.s, t, a \o r.out, Tail(b), ws, wt, strict)
             /\ Goes(s, r.s)
<1>1. PICK f \in Phase, g \in Phase, l \in Replies, m \in Replies :
           Talk(s, t, a, b, f, g, l, m, ws, wt, strict)
  BY DEF InTouch
<1>2. CASE g = "ready"
  BY <1>1, <1>2, HearsReady
<1>3. CASE g = "ulong"
  BY <1>1, <1>3, HearsCode
<1>4. CASE g = "seed"
  <2>1. Len(s.bits) < LongLen /\ Len(s.bits) \in Nat /\ LongLen \in Nat
    BY <1>1, <1>4, LenAssumption DEF Talk, Wire, Machine
  <2>2. Len(s.bits) + 1 < LongLen \/ Len(s.bits) + 1 = LongLen
    BY <2>1
  <2>. QED
    BY <1>1, <1>4, <2>2, HearsSeedByte, HearsSeedEnd
<1>5. CASE g = "nready"
  BY <1>1, <1>5, HearsNReady
<1>6. CASE g = "none"
  <2>1. m # ""
    BY <1>1, <1>6, WireTyped DEF Talk
  <2>2. CASE m \in {"R", "RA"} /\ s.waitingAck
    BY <1>1, <1>6, <2>2, HearsReadyAck
  <2>3. CASE m = "N" /\ s.waitingAck
    BY <1>1, <1>6, <2>3, HearsNReadyAck
  <2>4. CASE First(m) = INFO_WON /\ s.status = "typing"
    BY <1>1, <1>6, <2>1, <2>4, HearsWon
  <2>5. CASE /\ First(m) = INFO_WON => s.status # "typing"
             /\ m \in {"R", "RA", "N"} => ~s.waitingAck
    BY <1>1, <1>6, <2>1, <2>5, HearsNothing
  <2>. QED
    BY <2>2, <2>3, <2>4, <2>5
<1>. QED
  BY <1>2, <1>3, <1>4, <1>5, <1>6 DEF Phase

(* Two machines face each other from either side. *)
LEMMA Turned ==
  ASSUME NEW s, NEW t, NEW a, NEW b, NEW ws, NEW wt, NEW strict,
         InTouch(s, t, a, b, ws, wt, strict)
  PROVE  InTouch(t, s, b, a, wt, ws, strict)
  BY DEF InTouch, Talk, Pact, Accord

(* A machine that has read every answer has at most WON ahead of it. *)
LEMMA NoAnswers ==
  ASSUME NEW s, NEW b, NEW t \in Machine, NEW g \in Phase, NEW m \in Replies,
         Wire(t, s, b, g, m), Len(s.bits) \in Nat,
         Range(b) \cap Answers = {}
  PROVE  m \in {"", "W"} /\ (INFO_WON \notin Range(b) => m = "")
<1> DEFINE c == Unread(g, t.seedMe, Len(s.bits))
           d == Bytes(m)
<1>1. b = c \o d /\ c \in Seq(Byte) /\ d \in Seq(Byte)
  BY UnreadTyped, BytesFront DEF Wire
<1>2. \A i \in 1..Len(d) : d[i] \in Range(b)
  <2>. HIDE DEF c, d, Byte
  <2>. SUFFICES ASSUME NEW i \in 1..Len(d) PROVE d[i] \in Range(b)
    OBVIOUS
  <2>1. /\ Len(c) \in Nat /\ Len(d) \in Nat
        /\ c \o d \in Seq(Byte) /\ Len(c \o d) = Len(c) + Len(d)
        /\ \A j \in 1..(Len(c) + Len(d)) : (c \o d)[j] = IF j <= Len(c) THEN c[j] ELSE d[j - Len(c)]
    BY <1>1, ConcatProperties
  <2>2. Len(c) + i \in 1..(Len(c) + Len(d)) /\ ~(Len(c) + i <= Len(c)) /\
        (Len(c) + i) - Len(c) = i
    BY <2>1
  <2>3. b[Len(c) + i] = d[i] /\ Len(c) + i \in DOMAIN b
    BY <1>1, <2>1, <2>2
  <2>. QED
    BY <2>3 DEF Range
<1>3. \A x, y, z : /\ Len(<<x>>) = 1 /\ <<x>>[1] = x
                   /\ Len(<<x, y>>) = 2 /\ <<x, y>>[1] = x /\ <<x, y>>[2] = y
                   /\ Len(<<x, y, z>>) = 3 /\ <<x, y, z>>[2] = y
  OBVIOUS
<1>4. INFO_ACK \in Answers /\ INFO_READY_ACK \in Answers /\ INFO_NREADY_ACK \in Answers
  BY DEF Answers
<1>5. /\ m \in {"R", "A", "N"} => \E x \in Answers : d = <<x>>
      /\ m \in {"RA", "AW"} => \E x \in Answers : \E y : d = <<x, y>>
      /\ m \in {"WR", "WA", "WN"} => \E y \in Answers : \E x : d = <<x, y>>
      /\ m = "WRA" => \E y \in Answers : \E x, z : d = <<x, y, z>>
      /\ m = "W" => d = <<INFO_WON>>
  BY <1>4 DEF Bytes
<1>. HIDE DEF d
<1>6. 1 \in 1..1 /\ 1 \in 1..2 /\ 2 \in 1..2 /\ 2 \in 1..3
  OBVIOUS
<1>7. m \in {"R", "RA", "A", "N", "AW"} => d[1] \in Answers /\ 1 \in 1..Len(d)
  BY <1>3, <1>5, <1>6
<1>8. m \in {"WR", "WRA", "WA", "WN"} => d[2] \in Answers /\ 2 \in 1..Len(d)
  <2>1. CASE m \in {"WR", "WA", "WN"}
    <3>1. PICK y \in Answers : \E x : d = <<x, y>>
      BY <1>5, <2>1
    <3>2. PICK x : d = <<x, y>>
      BY <3>1
    <3>. QED
      BY <1>3, <1>6, <3>2
  <2>2. CASE m = "WRA"
    <3>1. PICK y \in Answers : \E x, z : d = <<x, y, z>>
      BY <1>5, <2>2
    <3>2. PICK x, z : d = <<x, y, z>>
      BY <3>1
    <3>. QED
      BY <1>3, <1>6, <3>2
  <2>. QED
    BY <2>1, <2>2
<1>9. m = "W" => d[1] = INFO_WON /\ 1 \in 1..Len(d)
  BY <1>3, <1>5, <1>6
<1>10. m \notin {"R", "RA", "A", "N", "AW"} /\ m \notin {"WR", "WRA", "WA", "WN"}
  BY <1>2, <1>7, <1>8
<1>. QED
  BY <1>2, <1>9, <1>10 DEF Replies

(* Both callbacks of the race button run: the second changes the machine only. *)
LEMMA PressedTwice ==
  ASSUME NEW s, NEW n
  PROVE  /\ raceClick(s, n).s = resetButton(readyButton(s, n).s)
         /\ raceClick(s, n).out = readyButton(s, n).out
  BY DEF raceClick, readyButton, Quiet, Send

(* awaitAck changes the wait only. *)
LEMMA AwaitingIs ==
  ASSUME NEW v \in Machine
  PROVE  /\ awaitAck(v) \in Machine /\ Alike(v, awaitAck(v)) /\ awaitAck(v).waitingAck
         /\ awaitAck(v).app = v.app /\ awaitAck(v).receiving = v.receiving
         /\ awaitAck(v).bits = v.bits
<1>1. DOMAIN v = Fields /\ [v EXCEPT !.waitingAck = TRUE] \in Machine
  BY FieldTyped
<1>2. 0 \in 0..(AckTicks + 1)
  BY BoundAssumption
<1>3. [[v EXCEPT !.waitingAck = TRUE] EXCEPT !.ackAge = 0] \in Machine
  BY <1>1, <1>2, FieldTyped
<1>4. awaitAck(v) = [[v EXCEPT !.waitingAck = TRUE] EXCEPT !.ackAge = 0]
  BY <1>1 DEF awaitAck, Fields
<1>. QED
  BY <1>1, <1>3, <1>4 DEF Alike, Fields

(* Nothing but WON comes to the machine, and not that to an attentive player. *)
Silent(m, strict) == m \in {"", "W"} /\ (strict => m = "")

(* Nothing of a change of mind, and no reply, is under way. *)
NothingSaid(f, l) == f = "none" /\ l = ""

(* s has asked: u is s with the seed n, its requests sent, waiting for an answer. *)
HasAsked(s, u, n) ==
    /\ ~Busy(s) /\ ~s.readyMe
    /\ u.text = s.text /\ u.left = s.left /\ u.won = s.won /\ u.readyMe = s.readyMe
    /\ u.readyYou = s.readyYou /\ u.seedYou = s.seedYou
    /\ u.waitingForSeed = s.waitingForSeed
    /\ u.seedMe = n /\ u.status = s.status /\ u.waitingAck
    /\ u.app = s.app /\ u.receiving = s.receiving /\ u.bits = s.bits

(* The bytes of a request behind the bytes under way. *)
Requested(a, n) == a \o (<<INFO_READY, INFO_ULONG>> \o SeedBytes(n))

(* A settled machine asks. *)
LEMMA AsksAgain ==
  ASSUME NEW ws, NEW wt, NEW a, NEW b, NEW n, NEW s \in Machine, NEW t \in Machine,
         NEW u \in Machine, NEW f \in Phase, NEW g \in Phase, NEW l \in Replies,
         NEW m \in Replies,
         NEW strict \in BOOLEAN,
         Talk(s, t, a, b, f, g, l, m, ws, wt, strict), NothingSaid(f, l),
         Silent(m, strict), Fits(n), HasAsked(s, u, n)
  PROVE  /\ InTouch(u, t, Requested(a, n), b, ws, wt, strict)
         /\ Goes(s, u)
<1>1. "none" \in Phase /\ "ready" \in Phase /\ "" \in Replies /\ n \in Nat \ {0} /\ n \in Nat
  BY DEF Phase, Replies, Fits
<1>2. Alike([s EXCEPT !.seedMe = n], u)
  <2>1. DOMAIN s = Fields
    BY FieldTyped
  <2>. QED
    BY <2>1 DEF Alike, Fields, HasAsked
<1>. USE DEF HasAsked, NothingSaid
<1>3. Pact(u, t, "ready", g, "", m, ws, wt)
  BY <1>2, <1>1, Asking DEF Talk, Silent
<1>4. strict => Accord(u, t, "ready", g, "", m)
  BY <1>2, <1>1, AgreeAsking DEF Talk, Silent
<1>5. Wire(u, t, a \o (<<INFO_READY, INFO_ULONG>> \o SeedBytes(n)), "ready", "")
  BY Requests DEF Talk
<1>6. Wire(t, u, b, g, m)
  BY WireKept DEF Talk
<1>7. InTouch(u, t, a \o (<<INFO_READY, INFO_ULONG>> \o SeedBytes(n)), b, ws, wt, strict)
  BY <1>1, <1>3, <1>4, <1>5, <1>6 DEF InTouch, Talk
<1>8. Goes(s, u)
  BY DEF Goes, Busy
<1>. QED
  BY <1>7, <1>8 DEF Requested

(* The click of a settled machine. *)
LEMMA Clicking ==
  ASSUME NEW ws, NEW wt, NEW a, NEW b, NEW n, NEW s \in Machine, NEW t \in Machine,
         NEW strict \in BOOLEAN,
         InTouch(s, t, a, b, ws, wt, strict), Fits(n),
         a = <<>>, Range(b) \cap Answers = {},
         strict => (~s.readyMe \/ Busy(s)) /\ INFO_WON \notin Range(b)
  PROVE  LET r == raceClick(s, n)
         IN  /\ InTouch(r.s, t, a \o r.out, b, ws, wt, strict)
             /\ Goes(s, r.s)
<1> DEFINE r == raceClick(s, n)
<1>1. PICK f \in Phase, g \in Phase, l \in Replies, m \in Replies :
           Talk(s, t, a, b, f, g, l, m, ws, wt, strict)
  BY DEF InTouch
<1>2. f = "none" /\ l = ""
  BY <1>1, WireTyped DEF Talk
<1>3. m \in {"", "W"} /\ (strict => m = "")
  <2>1. Len(s.bits) \in Nat
    BY DEF Machine
  <2>. QED
    BY <1>1, <2>1, NoAnswers DEF Talk
<1>4. Talk(s, t, a, b, "none", g, "", m, ws, wt, strict) /\ "none" \in Phase /\ "" \in Replies
  BY <1>1, <1>2
<1>5. CASE Busy(s) /\ s.status = "finished"
  <2> DEFINE u == resetInfo(s)
  <2>1. readyButton(s, n) = Quiet(s) /\ resetButton(s) = u
    BY <1>5 DEF readyButton, resetButton, Busy
  <2>2. u \in Machine /\ u.app = s.app /\ u.status = "unready" /\
        u.receiving = s.receiving /\ u.bits = s.bits
    BY ResetTyped DEF resetInfo, resetRacingInfo, resetTypingInfo, Machine
  <2>. HIDE DEF u
  <2>3. r.s = u /\ r.out = <<>>
    BY <2>1, PressedTwice DEF Quiet
  <2>. HIDE DEF r
  <2>4. a \o r.out = a
    BY <1>4, <2>3, WireTyped, NothingMore DEF Talk
  <2>5. Pact(u, t, "none", g, "", m, ws, wt)
    BY <1>3, <1>4, <1>5, NewRace DEF Talk, u
  <2>6. strict => Accord(u, t, "none", g, "", m)
    BY <1>3, <1>4, <1>5, AgreeNewRace DEF Talk, u
  <2>7. Wire(u, t, a, "none", "") /\ Wire(t, u, b, g, m)
    BY <1>4, <2>2, WireKept DEF Talk, Asked
  <2>8. InTouch(u, t, a, b, ws, wt, strict) /\ Goes(s, u)
    BY <1>4, <2>2, <2>5, <2>6, <2>7 DEF InTouch, Talk, Goes
  <2>. QED
    BY <2>3, <2>4, <2>8 DEF r
<1>6. CASE Busy(s) /\ s.status # "finished"
  <2>1. readyButton(s, n) = Quiet(s) /\ resetButton(s) = s
    BY <1>6 DEF readyButton, resetButton, Busy
  <2>2. r.s = s /\ r.out = <<>>
    BY <2>1, PressedTwice DEF Quiet
  <2>. HIDE DEF r
  <2>3. a \o r.out = a
    BY <1>4, <2>2, WireTyped, NothingMore DEF Talk
  <2>4. Goes(s, s)
    BY PassedGoes DEF Alike
  <2>. QED
    BY <2>2, <2>3, <2>4 DEF r
<1>7. CASE ~Busy(s) /\ s.readyMe
  <2> DEFINE u == [s EXCEPT !.waitingAck = TRUE]
  <2>1. /\ u \in Machine /\ Alike(s, u) /\ u.app = s.app /\ u.status = s.status
        /\ u.receiving = s.receiving /\ u.bits = s.bits
    BY DEF Machine, Alike
  <2>2. readyButton(s, n) = Send(u, <<INFO_NREADY>>)
    BY <1>7 DEF readyButton, Busy
  <2>. HIDE DEF u
  <2>3. resetButton(u) = u
    BY <1>7, <2>1 DEF resetButton, Busy
  <2>4. r.s = u /\ r.out = <<INFO_NREADY>>
    BY <2>2, <2>3, PressedTwice DEF Send
  <2>. HIDE DEF r
  <2>5. ~strict /\ "nready" \in Phase
    BY <1>7 DEF Phase
  <2>6. Pact(u, t, "nready", g, "", m, ws, wt)
    BY <1>3, <1>4, <1>7, <2>1, TakingBack DEF Talk
  <2>7. Wire(u, t, a \o <<INFO_NREADY>>, "nready", "")
    BY <1>4, TakesBackReady DEF Talk
  <2>8. Wire(t, u, b, g, m)
    BY <1>4, <2>1, WireKept DEF Talk
  <2>9. InTouch(u, t, a \o <<INFO_NREADY>>, b, ws, wt, strict) /\ Goes(s, u)
    BY <1>4, <2>1, <2>5, <2>6, <2>7, <2>8, PassedGoes DEF InTouch, Talk
  <2>. QED
    BY <2>4, <2>9 DEF r
<1>8. CASE ~Busy(s) /\ ~s.readyMe
  <2> DEFINE v == [s EXCEPT !.seedMe = n]
             u == awaitAck(v)
             asked == <<INFO_READY, INFO_ULONG>> \o SeedBytes(n)
  <2>1. v \in Machine /\ DOMAIN s = Fields
    BY FieldTyped DEF Fits
  <2>2. v.seedMe = n /\ v.app = s.app /\ v.status = s.status /\
        v.receiving = s.receiving /\ v.bits = s.bits
    BY <2>1 DEF Fields
  <2>. HIDE DEF v
  <2>3. /\ u \in Machine /\ Alike(v, u) /\ u.waitingAck /\ u.app = v.app
        /\ u.receiving = v.receiving /\ u.bits = v.bits
    BY <2>1, AwaitingIs
  <2>. HIDE DEF u, asked
  <2>4. readyButton(s, n) = Send(u, asked)
    BY <1>8 DEF readyButton, Busy, u, v, asked
  <2>5. u.seedMe = n /\ u.status = s.status
    BY <2>2, <2>3 DEF Alike
  <2>6. resetButton(u) = u
    BY <1>8, <2>5 DEF resetButton, Busy
  <2>7. r.s = u /\ r.out = asked
    BY <2>4, <2>6, PressedTwice DEF Send
  <2>. HIDE DEF r
  <2>8. /\ v.text = s.text /\ v.left = s.left /\ v.won = s.won /\ v.readyMe = s.readyMe
        /\ v.readyYou = s.readyYou /\ v.seedYou = s.seedYou /\
           v.waitingForSeed = s.waitingForSeed
    BY <2>1 DEF Fields, v
  <2>9. InTouch(u, t, a \o asked, b, ws, wt, strict) /\ Goes(s, u)
    <3>1. Silent(m, strict)
      BY <1>3 DEF Silent
    <3>2. NothingSaid(f, l)
      BY <1>2 DEF NothingSaid
    <3>3. HasAsked(s, u, n) /\ u \in Machine
      BY <1>8, <2>2, <2>3, <2>5, <2>8 DEF Alike, HasAsked
    <3>4. /\ InTouch(u, t, Requested(a, n), b, ws, wt, strict)
          /\ Goes(s, u)
      BY <1>1, <3>1, <3>3, <3>2, AsksAgain
    <3>. QED
      BY <3>4 DEF asked, Requested
  <2>. QED
    BY <2>7, <2>9 DEF r
<1>. QED
  BY <1>5, <1>6, <1>7, <1>8

(* The key that completes the text. *)
LEMMA Completing ==
  ASSUME NEW ws, NEW wt, NEW a, NEW b, NEW s \in Machine, NEW t \in Machine,
         NEW strict \in BOOLEAN,
         InTouch(s, t, a, b, ws, wt, strict),
         s.status = "typing", t.status # "ready"
  PROVE  LET r == endRace(s)
         IN  /\ InTouch(r.s, t, a \o r.out, b, s.text, wt, strict)
             /\ Goes(s, r.s)
<1> DEFINE u == [s EXCEPT !.status = "finished", !.won = TRUE]
<1>1. PICK f \in Phase, g \in Phase, l \in Replies, m \in Replies :
           Talk(s, t, a, b, f, g, l, m, ws, wt, strict)
  BY DEF InTouch
<1>2. l \in {"", "A"} /\ AlsoWon(l) \in Replies
  BY <1>1 DEF Talk, Pact, Half, Order, AlsoWon, Replies
<1>3. /\ u \in Machine /\ u.app = s.app /\ u.status = "finished" /\ u.seedMe = s.seedMe
      /\ u.receiving = s.receiving /\ u.bits = s.bits
  BY DEF Machine
<1>4. Wire(s, t, a \o <<INFO_WON>>, f, AlsoWon(l))
  BY <1>1, <1>2, BytesBehind, ReplyJoins, CodesAreBytes DEF Talk
<1>5. Pact(u, t, f, g, AlsoWon(l), m, s.text, wt)
  BY <1>1, Finishing DEF Talk
<1>6. strict => Accord(u, t, f, g, AlsoWon(l), m)
  BY <1>1, AgreeFinishing DEF Talk
<1>7. endRace(s).s = u /\ endRace(s).out = <<INFO_WON>>
  BY DEF endRace, Send
<1>. HIDE DEF u
<1>8. Wire(u, t, a \o <<INFO_WON>>, f, AlsoWon(l)) /\ Wire(t, u, b, g, m)
  BY <1>1, <1>3, <1>4, WireKept DEF Talk
<1>9. InTouch(u, t, a \o <<INFO_WON>>, b, s.text, wt, strict) /\ Goes(s, u)
  BY <1>2, <1>3, <1>5, <1>6, <1>8 DEF InTouch, Talk, Goes
<1>. QED
  BY <1>7, <1>9

(* A timer interrupt. *)
LEMMA TimedIs ==
  ASSUME NEW s \in Machine
  PROVE  LET u == Timed(s)
         IN  /\ u \in Machine /\ u.app = s.app /\ u.waitingAck = s.waitingAck
             /\ u.receiving = s.receiving /\ u.bits = s.bits /\ u.seedMe = s.seedMe
             /\ u.text = s.text /\ u.won = s.won /\ u.readyMe = s.readyMe
             /\ u.readyYou = s.readyYou /\ u.seedYou = s.seedYou
             /\ u.waitingForSeed = s.waitingForSeed
             /\ u.left = (IF s.left < 0 THEN s.left ELSE s.left - 1)
             /\ u.status = IF s.app = "raceState" /\ s.status = "ready" /\ u.left < 0
                            THEN "typing" ELSE s.status
<1> DEFINE left == IF s.left < 0 THEN s.left ELSE s.left - 1
           age == IF s.ackAge > AckTicks THEN s.ackAge ELSE s.ackAge + 1
           v == [s EXCEPT !.left = left, !.ackAge = age]
<1>. HIDE DEF left, age
<1>1. DOMAIN s = Fields
  BY FieldTyped
<1>2. /\ v.app = s.app /\ v.waitingAck = s.waitingAck
      /\ v.receiving = s.receiving /\ v.bits = s.bits /\ v.seedMe = s.seedMe
      /\ v.text = s.text /\ v.won = s.won /\ v.readyMe = s.readyMe
      /\ v.readyYou = s.readyYou /\ v.seedYou = s.seedYou
      /\ v.waitingForSeed = s.waitingForSeed
      /\ v.left = left /\ v.status = s.status /\ DOMAIN v = Fields
  BY <1>1 DEF Fields
<1>3. Aged(s) = v
  BY DEF Aged, left, age
<1>. HIDE DEF v
<1>4. Timed(s) = IF s.app = "raceState" /\ s.status = "ready" /\ left < 0
                THEN [v EXCEPT !.status = "typing"] ELSE v
  BY <1>2, <1>3 DEF Timed
<1>5. Timed(s) \in Machine
  BY TimedTyped
<1>6. Timed(s).left = left
  BY <1>2, <1>4 DEF Fields
<1>. QED
  BY <1>2, <1>4, <1>5, <1>6 DEF Fields, left

(* A timer interrupt keeps two machines in touch. *)
LEMMA Ticking ==
  ASSUME NEW ws, NEW wt, NEW a, NEW b, NEW s \in Machine, NEW t \in Machine,
         NEW strict \in BOOLEAN,
         InTouch(s, t, a, b, ws, wt, strict),
         s.status = "ready" => s.left >= 0,
         s.status = "ready" /\ s.left = 0 => a = <<>>
  PROVE  /\ InTouch(Timed(s), t, a, b, ws, wt, strict)
         /\ Timed(s).status = "ready" => s.status = "ready" /\ Timed(s).text = s.text
<1> DEFINE u == Timed(s)
<1>1. PICK f \in Phase, g \in Phase, l \in Replies, m \in Replies :
           Talk(s, t, a, b, f, g, l, m, ws, wt, strict)
  BY DEF InTouch
<1>2. /\ u \in Machine /\ u.app = s.app /\ u.waitingAck = s.waitingAck
      /\ u.receiving = s.receiving /\ u.bits = s.bits /\ u.seedMe = s.seedMe
      /\ u.text = s.text /\ u.won = s.won /\ u.readyMe = s.readyMe
      /\ u.readyYou = s.readyYou /\ u.seedYou = s.seedYou
      /\ u.waitingForSeed = s.waitingForSeed
      /\ u.left = (IF s.left < 0 THEN s.left ELSE s.left - 1)
      /\ u.status = IF s.app = "raceState" /\ s.status = "ready" /\ u.left < 0
                     THEN "typing" ELSE s.status
  BY TimedIs
<1>. HIDE DEF u
<1>3. Alike([s EXCEPT !.left = u.left, !.status = u.status], u)
  <2>1. DOMAIN s = Fields
    BY FieldTyped
  <2>. QED
    BY <1>2, <2>1 DEF Alike, Fields
<1>4. u.status = s.status \/ (s.status = "ready" /\ u.status = "typing" /\ f = "none" /\
      l = "")
  <2>. SUFFICES ASSUME u.status # s.status
                PROVE  s.status = "ready" /\ u.status = "typing" /\ f = "none" /\ l = ""
    OBVIOUS
  <2>1. s.status = "ready" /\ u.status = "typing" /\ u.left < 0 /\ s.left \in Int
    BY <1>2 DEF Machine
  <2>2. s.left = 0
    BY <1>2, <2>1
  <2>. QED
    BY <1>1, <2>1, <2>2, WireTyped DEF Talk
<1>5. Pact(u, t, f, g, l, m, ws, wt)
  BY <1>1, <1>2, <1>3, <1>4, Counting DEF Talk
<1>6. strict => Accord(u, t, f, g, l, m)
  BY <1>1, <1>2, <1>3, <1>4, AgreeCounting DEF Talk
<1>7. Wire(u, t, a, f, l) /\ Wire(t, u, b, g, m)
  BY <1>1, <1>2, WireKept DEF Talk
<1>8. InTouch(u, t, a, b, ws, wt, strict)
  BY <1>5, <1>6, <1>7 DEF InTouch, Talk
<1>9. u.status = "ready" => s.status = "ready" /\ u.text = s.text
  BY <1>2
<1>. QED
  BY <1>8, <1>9 DEF u

-----------------------------------------------------------------------------
(* 4. Two machines, wherever they are.                                     *)

(* There is nobody else. *)
LEMMA BothPeers ==
  ASSUME NEW p \in Peer
  PROVE  Other(Other(p)) = p /\ \A x \in Peer : x = p \/ x = Other(p)
<1> DEFINE q == Other(p)
<1>1. q \in Peer /\ q # p /\ Other(q) \in Peer /\ Other(q) # q
  BY TwoPeers
<1>. HIDE DEF q
<1>2. IsFiniteSet(Peer \ {p}) /\ Cardinality(Peer \ {p}) = 1
  BY PeerAssumption, FS_RemoveElement
<1>3. IsFiniteSet((Peer \ {p}) \ {q}) /\ Cardinality((Peer \ {p}) \ {q}) = 0
  BY <1>1, <1>2, FS_RemoveElement
<1>4. (Peer \ {p}) \ {q} = {}
  BY <1>3, FS_EmptySet
<1>5. \A x \in Peer : x = p \/ x = q
  BY <1>4
<1>6. Other(q) = p
  BY <1>1, <1>5
<1>. QED
  BY <1>5, <1>6 DEF q

(* A handler that loses nothing moves its own machine and sends. *)
LEMMA LosslessPerform ==
  ASSUME NEW r, NEW harmless, NEW p \in Peer, NEW rx \in Seq(Byte), TypeOK,
         Perform(p, rx, r, harmless), Lossless
  PROVE  /\ peer' = [peer EXCEPT ![p] = r.s]
         /\ chan'[p] = chan[p] \o r.out
<1>1. Other(p) \in Peer /\ Other(p) # p /\ chan[p] \in Seq(Byte) /\ DOMAIN chan = Peer
  BY TwoPeers DEF TypeOK
<1>2. PICK lostRx \in Nat, lostTx \in {0, 1} : Loses(p, rx, r, harmless, lostRx, lostTx)
  BY PerformLoses
<1>3. lostTx = 0
  <2>1. ~dropped' /\ dropped' = (dropped \/ lostTx > 0 \/ lostRx \notin {0, harmless})
    BY <1>2 DEF Lossless, Loses
  <2>2. ~(lostTx > 0)
    BY <2>1, Zenon
  <2>. QED
    BY <2>2
<1>4. \A x \in Seq(Byte) : SubSeq(x, 1, Len(x) - 0) = x
  OBVIOUS
<1>5. SubSeq(chan[p], 1, Len(chan[p]) - lostTx) = chan[p]
  BY <1>1, <1>3, <1>4
<1>. QED
  BY <1>1, <1>2, <1>5 DEF Loses

(* A handler that loses nothing leaves the rest unread. *)
LEMMA LosslessReads ==
  ASSUME NEW r, NEW p \in Peer, NEW rx \in Seq(Byte), TypeOK,
         Perform(p, rx, r, 0), Lossless
  PROVE  chan'[Other(p)] = rx
<1>1. Other(p) \in Peer /\ Other(p) # p /\ DOMAIN chan = Peer
  BY TwoPeers DEF TypeOK
<1>2. PICK lostRx \in Nat, lostTx \in {0, 1} : Loses(p, rx, r, 0, lostRx, lostTx)
  BY PerformLoses
<1>3. lostRx = 0
  <2>1. ~dropped' /\ dropped' = (dropped \/ lostTx > 0 \/ lostRx \notin {0, 0})
    BY <1>2 DEF Lossless, Loses
  <2>2. lostRx \in {0, 0}
    BY <2>1, Zenon
  <2>. QED
    BY <2>2
<1>4. \A x \in Seq(Byte) : SubSeq(x, 0 + 1, Len(x)) = x
  OBVIOUS
<1>5. SubSeq(rx, lostRx + 1, Len(rx)) = rx
  BY <1>3, <1>4
<1>. QED
  BY <1>1, <1>2, <1>5 DEF Loses

(* A machine whose receiver waits for a code, with nothing begun. *)
Gone(s) == s.receiving = INFO_ACK /\ s.bits = <<>>

(* A machine in the lobby that nothing has been asked of. *)
Blank(s) == ~Busy(s) /\ ~s.readyMe /\ ~s.readyYou /\ s.seedYou = 0

(* A machine on the race screen whose opponent is away: b are the bytes it *)
(* has not read, of which only the notice that the opponent left matters.  *)
Alone(s, b) == Gone(s) /\ b \in {<<>>, <<INFO_EXIT>>} /\ (b = <<>> => Blank(s))

(* A machine on the race screen. *)
Here(s) == s.app = "raceState"

(* What holds of s, t being the opponent, wherever the two are. *)
Side(s, t, a, b, ws, wt, strict) ==
    /\ Busy(s) /\ Busy(t) => s.text = t.text
    /\ s.status = "finished" /\ ~s.won => wt = s.text
    /\ Here(s) /\ s.status = "ready" => s.left >= 0
    /\ ~Here(s) => Gone(s)
    /\ Here(s) /\ ~Here(t) => Alone(s, b)
    /\ Here(s) /\ Here(t) => InTouch(s, t, a, b, ws, wt, strict)

(* What holds of both. *)
Meets(s, t, a, b, ws, wt, strict) ==
    Side(s, t, a, b, ws, wt, strict) /\ Side(t, s, b, a, wt, ws, strict)

(* The invariant: what holds of every machine and its opponent. *)
Agreement(strict) ==
    \A p \in Peer : Side(peer[p], peer[Other(p)], chan[p], chan[Other(p)],
                         wonText[p], wonText[Other(p)], strict)

(* A machine does not restart a race. *)
Carries(s, u) == Busy(s) /\ u.status = "ready" => s.status = "ready" /\ u.text = s.text

(* Two machines on the race screen. *)
LEMMA FaceToFace ==
  ASSUME NEW ws, NEW wt, NEW a, NEW b, NEW strict, NEW s \in Machine, NEW t \in Machine,
         InTouch(s, t, a, b, ws, wt, strict), Here(s), Here(t),
         s.status = "ready" => s.left >= 0,
         t.status = "ready" => t.left >= 0
  PROVE  Meets(s, t, a, b, ws, wt, strict)
<1>1. PICK f \in Phase, g \in Phase, l \in Replies, m \in Replies :
           Talk(s, t, a, b, f, g, l, m, ws, wt, strict)
  BY DEF InTouch
<1>2. Result(s, t, m, wt) /\ Result(t, s, l, ws)
  BY <1>1 DEF Talk, Pact, Half
<1>3. InTouch(t, s, b, a, wt, ws, strict)
  BY Turned
<1>. QED
  BY <1>2, <1>3 DEF Meets, Side, Result

(* A machine that loses what it had and gains nothing. *)
Fades(s, u) ==
    /\ u \in Machine /\ u.app = s.app /\ u.receiving = s.receiving /\ u.bits = s.bits
    /\ Busy(u) => Busy(s) /\ u.text = s.text
    /\ u.status = "finished" /\ ~u.won => s.status = "finished" /\ ~s.won
    /\ u.status = "ready" => s.status = "ready"
    /\ Here(u) /\ u.status = "ready" => u.left >= 0
    /\ Blank(s) => Blank(u)

(* Such a machine, one of the two being away. *)
LEMMA Fading ==
  ASSUME NEW ws, NEW wt, NEW a, NEW b, NEW a2, NEW b2, NEW strict,
         NEW u, NEW s \in Machine, NEW t \in Machine,
         Meets(s, t, a, b, ws, wt, strict), ~Here(s) \/ ~Here(t),
         Fades(s, u),
         Here(s) => b2 = b \/ (b2 = <<>> /\ Blank(u)),
         ~Here(s) => a2 = a
  PROVE  Meets(u, t, a2, b2, ws, wt, strict) /\ Carries(s, u)
<1>1. Side(u, t, a2, b2, ws, wt, strict)
  BY DEF Meets, Side, Fades, Here, Alone, Gone, Busy
<1>2. Side(t, u, b2, a2, wt, ws, strict)
  BY DEF Meets, Side, Fades, Here, Busy
<1>. QED
  BY <1>1, <1>2 DEF Meets, Carries, Fades, Busy

(* Two blank machines face each other with nothing on the cable. *)
LEMMA Meeting ==
  ASSUME NEW ws, NEW wt, NEW strict \in BOOLEAN, NEW s \in Machine, NEW t \in Machine,
         Blank(s), Blank(t), Gone(s), Gone(t)
  PROVE  InTouch(s, t, <<>>, <<>>, ws, wt, strict)
<1>1. "none" \in Phase /\ "" \in Replies
  BY DEF Phase, Replies
<1>2. \A u, v \in Machine : Gone(v) => Wire(u, v, <<>>, "none", "")
  <2>1. <<>> = <<>> \o <<>>
    BY EmptyBytes, NothingMore
  <2>2. \A n, k : Unread("none", n, k) = <<>>
    BY DEF Unread
  <2>3. Bytes("") = <<>> /\ "none" \notin Asked
    BY DEF Bytes, Asked
  <2>. QED
    BY <2>1, <2>2, <2>3 DEF Wire, Gone
<1>3. Half(s, t, "none", "", "", wt) /\ Half(t, s, "none", "", "", ws)
  BY DEF Half, Order, Seeds, Result, Blank, Busy, Acked, Heard, Told, Asked, SeedDue,
     WithReady, WithWon
<1>4. Concord(s, t, "none", "", "") /\ Concord(t, s, "none", "", "")
  BY DEF Concord, Blank, Busy, Acked, SeedDue, WithReady, WithWon, BothReady, Machine
<1>. QED
  BY <1>1, <1>2, <1>3, <1>4 DEF InTouch, Talk, Pact, Accord

(* Entry to the race screen, the cable being idle. *)
LEMMA Entering ==
  ASSUME NEW ws, NEW wt, NEW a, NEW b, NEW strict \in BOOLEAN,
         NEW s \in Machine, NEW t \in Machine,
         Meets(s, t, a, b, ws, wt, strict), ~Here(s), Here(t) => a = <<>>
  PROVE  LET u == [resetInfo(s) EXCEPT !.app = "raceState"]
         IN  Meets(u, t, a, <<>>, ws, wt, strict) /\ Carries(s, u)
<1> DEFINE v == resetInfo(s)
           u == [v EXCEPT !.app = "raceState"]
<1>1. DOMAIN s = Fields /\ v \in Machine /\ DOMAIN v = Fields
  BY FieldTyped, ResetTyped
<1>2. /\ v.status = "unready" /\ v.readyMe = FALSE /\ v.readyYou = FALSE /\ v.seedYou = 0
      /\ v.receiving = s.receiving /\ v.bits = s.bits
  BY <1>1 DEF resetInfo, resetRacingInfo, resetTypingInfo, Fields
<1>. HIDE DEF v
<1>3. /\ u \in Machine /\ u.app = "raceState"
      /\ u.status = "unready" /\ u.readyMe = FALSE /\ u.readyYou = FALSE /\ u.seedYou = 0
      /\ u.receiving = s.receiving /\ u.bits = s.bits
  BY <1>1, <1>2 DEF Machine
<1>. HIDE DEF u
<1>4. Here(u) /\ ~Busy(u) /\ Blank(u) /\ Gone(u)
  BY <1>3 DEF Here, Busy, Blank, Gone, Meets, Side
<1>5. Here(t) => Blank(t) /\ Gone(t)
  BY DEF Meets, Side, Alone
<1>6. Here(t) => InTouch(u, t, a, <<>>, ws, wt, strict) /\
      InTouch(t, u, <<>>, a, wt, ws, strict)
  BY <1>3, <1>4, <1>5, Meeting
<1>7. Side(u, t, a, <<>>, ws, wt, strict)
  BY <1>3, <1>4, <1>6 DEF Meets, Side, Alone, Busy
<1>8. Side(t, u, <<>>, a, wt, ws, strict)
  BY <1>3, <1>4, <1>6 DEF Meets, Side, Busy
<1>. QED
  BY <1>3, <1>7, <1>8 DEF Meets, Carries, u, v

(* ESC on the race screen of a settled machine. *)
LEMMA Leaving ==
  ASSUME NEW ws, NEW wt, NEW a, NEW b, NEW strict, NEW s \in Machine, NEW t \in Machine,
         Meets(s, t, a, b, ws, wt, strict), Here(s), Gone(s), Gone(t)
  PROVE  LET u == [s EXCEPT !.app = "mainState"]
         IN  Meets(u, t, <<INFO_EXIT>>, b, ws, wt, strict) /\ Carries(s, u)
<1> DEFINE u == [s EXCEPT !.app = "mainState"]
<1>1. /\ u.app = "mainState" /\ u.status = s.status /\ u.text = s.text /\ u.won = s.won
      /\ u.receiving = s.receiving /\ u.bits = s.bits
  BY DEF Machine
<1>. HIDE DEF u
<1>2. ~Here(u) /\ Gone(u) /\ (Busy(u) <=> Busy(s))
  BY <1>1 DEF Here, Gone, Busy
<1>3. <<INFO_EXIT>> # <<>>
  OBVIOUS
<1>4. Side(u, t, <<INFO_EXIT>>, b, ws, wt, strict)
  BY <1>1, <1>2 DEF Meets, Side
<1>5. Side(t, u, b, <<INFO_EXIT>>, wt, ws, strict)
  BY <1>1, <1>2, <1>3 DEF Meets, Side, Alone
<1>. QED
  BY <1>1, <1>4, <1>5 DEF Meets, Carries, u

(* A step that keeps two machines in touch. *)
LEMMA StaysInTouch ==
  ASSUME NEW ws, NEW wt, NEW ws2, NEW wt2, NEW a, NEW b, NEW a2, NEW b2, NEW strict, NEW u,
         NEW s \in Machine, NEW t \in Machine,
         Meets(s, t, a, b, ws, wt, strict), Here(s), Here(t),
         InTouch(u, t, a2, b2, ws2, wt2, strict), Goes(s, u)
  PROVE  Meets(u, t, a2, b2, ws2, wt2, strict) /\ Carries(s, u)
<1>1. u \in Machine /\ Here(u)
  BY DEF Goes, Here
<1>2. CountdownTicks \in Nat /\ CountdownTicks >= 0
  BY BoundAssumption
<1>3. (u.status = "ready" => u.left >= 0) /\ (t.status = "ready" => t.left >= 0)
  BY <1>2 DEF Goes, Meets, Side
<1>. QED
  BY <1>1, <1>3, FaceToFace DEF Carries, Goes

(* A click on the race button never gains anything by itself. *)
LEMMA ClickFades ==
  ASSUME NEW n, NEW s \in Machine, Fits(n), s.status = "ready" => s.left >= 0
  PROVE  Fades(s, raceClick(s, n).s)
<1>1. raceClick(s, n).s = resetButton(readyButton(s, n).s)
  BY PressedTwice
<1>2. CASE Busy(s)
  <2>1. readyButton(s, n).s = s
    BY <1>2 DEF readyButton, Busy, Quiet
  <2>2. resetInfo(s) \in Machine
    BY ResetTyped
  <2>3. /\ resetInfo(s).status = "unready" /\ resetInfo(s).app = s.app
        /\ resetInfo(s).receiving = s.receiving /\ resetInfo(s).bits = s.bits
    BY DEF resetInfo, resetRacingInfo, resetTypingInfo, Machine
  <2>4. Fades(s, s)
    BY DEF Fades
  <2>. HIDE DEF resetInfo
  <2>5. Fades(s, resetInfo(s))
    BY <1>2, <2>2, <2>3 DEF Fades, Busy, Blank
  <2>. QED
    BY <1>1, <2>1, <2>4, <2>5 DEF resetButton
<1>3. CASE ~Busy(s)
  <2> DEFINE u == readyButton(s, n).s
  <2>1. /\ u \in Machine /\ u.app = s.app /\ u.receiving = s.receiving /\ u.bits = s.bits
        /\ u.status = s.status /\ u.text = s.text /\ u.won = s.won /\ u.left = s.left
        /\ u.readyMe = s.readyMe /\ u.readyYou = s.readyYou /\ u.seedYou = s.seedYou
    <3>1. CASE s.readyMe
      <4>1. u = [s EXCEPT !.waitingAck = TRUE]
        BY <1>3, <3>1 DEF readyButton, Busy, Send
      <4>. HIDE DEF u
      <4>. QED
        BY <4>1 DEF Machine
    <3>2. CASE ~s.readyMe
      <4> DEFINE v == [s EXCEPT !.seedMe = n]
      <4>1. v \in Machine /\ Alike([s EXCEPT !.seedMe = n], v) /\ DOMAIN s = Fields
        BY FieldTyped DEF Fits, Alike
      <4>2. /\ v.app = s.app /\ v.receiving = s.receiving /\ v.bits = s.bits
            /\ v.status = s.status /\ v.text = s.text /\ v.won = s.won /\ v.left = s.left
            /\ v.readyMe = s.readyMe /\ v.readyYou = s.readyYou /\ v.seedYou = s.seedYou
        BY <4>1 DEF Fields
      <4>3. u = awaitAck(v)
        BY <1>3, <3>2 DEF readyButton, Busy, Send
      <4>. HIDE DEF u, v
      <4>. QED
        BY <4>1, <4>2, <4>3, AwaitingIs DEF Alike
    <3>. QED
      BY <3>1, <3>2
  <2>. HIDE DEF u
  <2>2. raceClick(s, n).s = u
    BY <1>1, <1>3, <2>1 DEF u, resetButton, Busy
  <2>3. Fades(s, u)
    BY <1>3, <2>1 DEF Fades, Busy, Blank
  <2>. QED
    BY <2>2, <2>3
<1>. QED
  BY <1>2, <1>3

(* A player who presses the race button has read all there is to wait for. *)
Composed(s, a, b, strict) ==
    /\ a = <<>> /\ Range(b) \cap Answers = {}
    /\ strict => (~s.readyMe \/ Busy(s)) /\ INFO_WON \notin Range(b)

(* The click of a settled machine, whether the opponent is there or not. *)
LEMMA Pressing ==
  ASSUME NEW ws, NEW wt, NEW a, NEW b, NEW n, NEW strict \in BOOLEAN,
         NEW s \in Machine, NEW t \in Machine,
         Meets(s, t, a, b, ws, wt, strict), Here(s), Fits(n), Composed(s, a, b, strict)
  PROVE  LET r == raceClick(s, n)
         IN  Meets(r.s, t, a \o r.out, b, ws, wt, strict) /\ Carries(s, r.s)
<1>1. CASE Here(t)
  <2>1. InTouch(s, t, a, b, ws, wt, strict)
    BY <1>1 DEF Meets, Side
  <2>2. /\ InTouch(raceClick(s, n).s, t, a \o raceClick(s, n).out, b, ws, wt, strict)
        /\ Goes(s, raceClick(s, n).s)
    BY <2>1, Clicking DEF Composed
  <2>. QED
    BY <1>1, <2>2, StaysInTouch
<1>2. CASE ~Here(t)
  <2>1. Fades(s, raceClick(s, n).s)
    BY ClickFades DEF Meets, Side
  <2>. QED
    BY <1>2, <2>1, Fading
<1>. QED
  BY <1>1, <1>2

(* The key that completes the text, whether the opponent is there or not. *)
LEMMA Winning ==
  ASSUME NEW ws, NEW wt, NEW a, NEW b, NEW strict \in BOOLEAN,
         NEW s \in Machine, NEW t \in Machine,
         Meets(s, t, a, b, ws, wt, strict), Here(s),
         s.status = "typing", t.status # "ready"
  PROVE  LET r == endRace(s)
         IN  Meets(r.s, t, a \o r.out, b, s.text, wt, strict) /\ Carries(s, r.s)
<1>1. CASE Here(t)
  <2>1. InTouch(s, t, a, b, ws, wt, strict)
    BY <1>1 DEF Meets, Side
  <2>2. /\ InTouch(endRace(s).s, t, a \o endRace(s).out, b, s.text, wt, strict)
        /\ Goes(s, endRace(s).s)
    BY <2>1, Completing
  <2>. QED
    BY <1>1, <2>2, StaysInTouch
<1>2. CASE ~Here(t)
  <2> DEFINE u == endRace(s).s
             a2 == a \o endRace(s).out
  <2>1. /\ u.status = "finished" /\ u.won = TRUE /\ u.app = s.app /\ u.text = s.text
        /\ u.receiving = s.receiving /\ u.bits = s.bits
    BY DEF endRace, Send, Machine
  <2>. HIDE DEF u, a2
  <2>2. Side(u, t, a2, b, s.text, wt, strict)
    BY <1>2, <2>1 DEF Meets, Side, Here, Alone, Gone, Blank, Busy
  <2>3. Side(t, u, b, a2, wt, s.text, strict)
    BY <1>2, <2>1 DEF Meets, Side, Here, Busy
  <2>. QED
    BY <2>1, <2>2, <2>3 DEF Meets, Carries, u, a2
<1>. QED
  BY <1>1, <1>2

(* The notice that the opponent has left. *)
LEMMA HearsExit ==
  ASSUME NEW s \in Machine, Waits(s)
  PROVE  LET r == readByte(s, INFO_EXIT)
         IN  Fades(s, r.s) /\ Blank(r.s)
<1> DEFINE v == resetInfo(s)
           r == readByte(s, INFO_EXIT)
<1>1. v \in Machine
  BY ResetTyped
<1>2. /\ v.status = "unready" /\ v.app = s.app /\ v.receiving = s.receiving /\ v.bits = s.bits
      /\ v.readyMe = FALSE /\ v.readyYou = FALSE /\ v.seedYou = 0
  BY DEF resetInfo, resetRacingInfo, resetTypingInfo, Machine
<1>3. r = readAnswer(v, INFO_EXIT)
  BY HandlesExit
<1>. HIDE DEF v, r
<1>4. INFO_EXIT \notin {INFO_READY_ACK, INFO_NREADY_ACK}
  BY DEF INFO_EXIT, INFO_READY_ACK, INFO_NREADY_ACK, INFO_BITS
<1>5. Passes(v, r)
  BY <1>1, <1>3, <1>4, AnswerPasses
<1>6. r.s \in Machine /\ Alike(v, r.s) /\ r.s.app = v.app /\ r.s.receiving = v.receiving /\
      r.s.bits = v.bits
  BY <1>1, <1>5, PassedAlike
<1>7. Blank(r.s)
  BY <1>2, <1>6 DEF Alike, Blank, Busy
<1>8. Fades(s, r.s)
  BY <1>2, <1>6, <1>7 DEF Fades, Alike, Busy
<1>. QED
  BY <1>7, <1>8 DEF r

(* A byte read, whether the opponent is there or not. *)
LEMMA Hearing ==
  ASSUME NEW ws, NEW wt, NEW a, NEW b, NEW strict \in BOOLEAN,
         NEW s \in Machine, NEW t \in Machine,
         Meets(s, t, a, b, ws, wt, strict), Here(s), b # <<>>
  PROVE  LET r == readByte(s, Head(b))
         IN  Meets(r.s, t, a \o r.out, Tail(b), ws, wt, strict) /\ Carries(s, r.s)
<1>1. CASE Here(t)
  <2>1. InTouch(s, t, a, b, ws, wt, strict)
    BY <1>1 DEF Meets, Side
  <2>2. /\ InTouch(readByte(s, Head(b)).s, t, a \o readByte(s, Head(b)).out, Tail(b), ws,
           wt, strict)
        /\ Goes(s, readByte(s, Head(b)).s)
    BY <2>1, Reading
  <2>. QED
    BY <1>1, <2>2, StaysInTouch
<1>2. CASE ~Here(t)
  <2>1. Alone(s, b)
    BY <1>2 DEF Meets, Side
  <2>2. Waits(s) /\ b = <<INFO_EXIT>>
    BY <2>1 DEF Alone, Gone, Waits
  <2>3. Head(b) = INFO_EXIT /\ Tail(b) = <<>>
    BY <2>2
  <2>4. Fades(s, readByte(s, INFO_EXIT).s) /\ Blank(readByte(s, INFO_EXIT).s)
    BY <2>2, HearsExit
  <2> DEFINE u == readByte(s, Head(b)).s
             a2 == a \o readByte(s, Head(b)).out
             b2 == Tail(b)
  <2>5. Fades(s, u) /\ Blank(u) /\ b2 = <<>>
    BY <2>3, <2>4
  <2>. HIDE DEF u, a2, b2
  <2>6. Meets(u, t, a2, b2, ws, wt, strict) /\ Carries(s, u)
    BY <1>2, <2>5, Fading
  <2>. QED
    BY <2>6 DEF u, a2, b2
<1>. QED
  BY <1>1, <1>2

(* A timer interrupt, whatever screen the two are on. *)
LEMMA TimePasses ==
  ASSUME NEW ws, NEW wt, NEW a, NEW b, NEW strict \in BOOLEAN,
         NEW s \in Machine, NEW t \in Machine,
         Meets(s, t, a, b, ws, wt, strict),
         Here(s) /\ Here(t) /\ s.status = "ready" /\ s.left = 0 => a = <<>>
  PROVE  Meets(Timed(s), t, a, b, ws, wt, strict) /\ Carries(s, Timed(s))
<1> DEFINE u == Timed(s)
<1>1. /\ u \in Machine /\ u.app = s.app /\ u.waitingAck = s.waitingAck
      /\ u.receiving = s.receiving /\ u.bits = s.bits /\ u.seedMe = s.seedMe
      /\ u.text = s.text /\ u.won = s.won /\ u.readyMe = s.readyMe
      /\ u.readyYou = s.readyYou /\ u.seedYou = s.seedYou
      /\ u.waitingForSeed = s.waitingForSeed
      /\ u.left = (IF s.left < 0 THEN s.left ELSE s.left - 1)
      /\ u.status = IF s.app = "raceState" /\ s.status = "ready" /\ u.left < 0
                     THEN "typing" ELSE s.status
  BY TimedIs
<1>2. u.left \in Int /\ s.left \in Int
  BY <1>1 DEF Machine
<1>. HIDE DEF u
<1>3. Here(u) /\ u.status = "ready" => u.left >= 0
  BY <1>1, <1>2 DEF Here
<1>4. Carries(s, u)
  BY <1>1 DEF Carries
<1>5. CASE Here(s) /\ Here(t)
  <2>1. InTouch(s, t, a, b, ws, wt, strict) /\ (s.status = "ready" => s.left >= 0)
    BY <1>5 DEF Meets, Side
  <2>2. InTouch(u, t, a, b, ws, wt, strict)
    BY <1>5, <2>1, Ticking DEF u
  <2>3. Here(u) /\ (t.status = "ready" => t.left >= 0)
    BY <1>1, <1>5 DEF Here, Meets, Side
  <2>4. Meets(u, t, a, b, ws, wt, strict)
    BY <1>1, <1>3, <1>5, <2>2, <2>3, FaceToFace
  <2>. QED
    BY <1>4, <2>4 DEF u
<1>6. CASE ~Here(s) \/ ~Here(t)
  <2>1. Fades(s, u)
    BY <1>1, <1>3 DEF Fades, Busy, Blank
  <2>. QED
    BY <1>6, <2>1, Fading DEF u
<1>. QED
  BY <1>5, <1>6

-----------------------------------------------------------------------------
(* 5. The steps of the two machines and the theorems.                      *)

(* No machine restarts its race in a step. *)
Continues ==
    \A p \in Peer : Racing(p) /\ peer'[p].status = "ready" =>
        peer[p].status = "ready" /\ peer'[p].text = peer[p].text

(* What two machines agree on, from one machine's side. *)
LEMMA MeetsAt ==
  ASSUME NEW strict, NEW p \in Peer, Agreement(strict)
  PROVE  Meets(peer[p], peer[Other(p)], chan[p], chan[Other(p)], wonText[p],
         wonText[Other(p)], strict)
<1>1. Other(p) \in Peer /\ Other(Other(p)) = p
  BY TwoPeers, BothPeers
<1>. QED
  BY <1>1 DEF Agreement, Meets

(* A step of one machine. *)
LEMMA Moved ==
  ASSUME NEW u, NEW a2, NEW b2, NEW ws2, NEW strict, NEW p \in Peer, TypeOK,
         peer' = [peer EXCEPT ![p] = u],
         chan'[Other(p)] = b2, chan'[p] = a2,
         wonText'[p] = ws2, wonText'[Other(p)] = wonText[Other(p)],
         Meets(u, peer[Other(p)], a2, b2, ws2, wonText[Other(p)], strict),
         Carries(peer[p], u)
  PROVE  Agreement(strict)' /\ Continues
<1> DEFINE q == Other(p)
<1>1. q \in Peer /\ q # p /\ Other(q) = p /\ \A x \in Peer : x = p \/ x = q
  BY TwoPeers, BothPeers
<1>2. peer'[p] = u /\ peer'[q] = peer[q]
  BY <1>1 DEF TypeOK
<1>. HIDE DEF q
<1>3. Side(peer'[p], peer'[q], chan'[p], chan'[q], wonText'[p], wonText'[q], strict)
  BY <1>2 DEF Meets, q
<1>4. Side(peer'[q], peer'[p], chan'[q], chan'[p], wonText'[q], wonText'[p], strict)
  BY <1>2 DEF Meets, q
<1>5. Agreement(strict)'
  <2>. SUFFICES ASSUME NEW x \in Peer
                PROVE  Side(peer'[x], peer'[Other(x)], chan'[x], chan'[Other(x)],
                            wonText'[x], wonText'[Other(x)], strict)
    BY DEF Agreement
  <2>1. CASE x = p
    BY <1>3, <2>1 DEF q
  <2>2. CASE x = q
    BY <1>1, <1>4, <2>2
  <2>. QED
    BY <1>1, <2>1, <2>2
<1>6. Continues
  BY <1>1, <1>2 DEF Continues, Racing, Carries, Busy
<1>. QED
  BY <1>5, <1>6

(* a2 are the bytes under way once a handler has sent its own. *)
Sent(a2, a, r) == a2 = a \o r.out

(* A handler that loses nothing and keeps the two machines in touch. *)
LEMMA Performed ==
  ASSUME NEW r, NEW a2, NEW ws2, NEW strict, NEW p \in Peer, NEW rx \in Seq(Byte), TypeOK,
         Typed(r),
         Perform(p, rx, r, 0), Lossless, Sent(a2, chan[p], r),
         wonText'[p] = ws2, wonText'[Other(p)] = wonText[Other(p)],
         Meets(r.s, peer[Other(p)], a2, rx, ws2, wonText[Other(p)], strict),
         Carries(peer[p], r.s)
  PROVE  Agreement(strict)' /\ Continues
<1>1. peer' = [peer EXCEPT ![p] = r.s] /\ chan'[Other(p)] = rx /\ chan'[p] = a2
  <2>1. peer' = [peer EXCEPT ![p] = r.s]
    BY LosslessPerform
  <2>2. chan'[p] = chan[p] \o r.out
    BY LosslessPerform
  <2>3. chan'[Other(p)] = rx
    BY LosslessReads
  <2>. QED
    BY <2>1, <2>2, <2>3 DEF Sent
<1>. QED
  BY <1>1, Moved

(* Nothing is lost, the players are patient; if strict, they keep to Ready *)
(* and attend to a WON.                                                    *)
Careful(strict) == Lossless /\ Patient /\ (strict => Committed /\ Attentive)

(* Every step of a machine, nothing being lost and the players being patient. *)
LEMMA AgreementStep ==
  ASSUME NEW strict \in BOOLEAN, NEW p \in Peer, TypeOK, RaceInv, Agreement(strict),
         \/ EnterRace(p) \/ LeaveRace(p) \/ Click(p) \/ FinishText(p)
         \/ Interrupt(p) \/ Overrun(p) \/ Tick(p),
         Lossless, Patient, strict => Committed /\ Attentive
  PROVE  Agreement(strict)' /\ Continues
<1> DEFINE q == Other(p)
           s == peer[p]
           t == peer[q]
           a == chan[p]
           b == chan[q]
<1>1. /\ q \in Peer /\ s \in Machine /\ t \in Machine /\ Framed(s) /\ Framed(t)
      /\ a \in Seq(Byte) /\ b \in Seq(Byte)
  BY TwoPeers DEF TypeOK, RaceInv, Good
<1>2. Meets(s, t, a, b, wonText[p], wonText[q], strict)
  BY MeetsAt
<1>3. CASE LeaveRace(p)
  <2> DEFINE u == [s EXCEPT !.app = "mainState"]
             r == Send(u, <<INFO_EXIT>>)
  <2>1. Here(s) /\ Perform(p, b, r, 0) /\ wonText' = wonText
    BY <1>3 DEF LeaveRace, Here
  <2>2. u \in Machine /\ u.app = "mainState"
    BY <1>1 DEF Machine
  <2>3. Typed(r) /\ r.s = u /\ r.out = <<INFO_EXIT>>
    BY <2>2, CodesAreBytes DEF Typed, Send
  <2>. HIDE DEF r
  <2>4. peer'[p] = u
    <3>1. Typed(r)
      BY <2>3
    <3>2. peer' = [peer EXCEPT ![p] = r.s]
      BY <1>1, <2>1, <3>1, LosslessPerform
    <3>. QED
      BY <2>3, <3>2 DEF TypeOK
  <2>5. Leaves(p)
    BY <2>1, <2>2, <2>4 DEF Leaves, Here
  <2>6. Settled(p) /\ s.receiving = INFO_ACK
    BY <2>5 DEF Patient
  <2>7. a = <<>> /\ Gone(s) /\ Gone(t)
    BY <1>1, <2>6, CodesApart DEF Settled, Gone, Framed
  <2>8. a \o r.out = <<INFO_EXIT>>
    <3>1. <<INFO_EXIT>> \in Seq(Byte)
      BY CodesAreBytes, CodePairs
    <3>. QED
      BY <2>3, <2>7, <3>1, NothingMore
  <2>9. Meets(u, t, <<INFO_EXIT>>, b, wonText[p], wonText[q], strict) /\ Carries(s, u)
    BY <1>1, <1>2, <2>1, <2>7, Leaving
  <2> DEFINE a2 == <<INFO_EXIT>>
  <2>10. Typed(r) /\ Meets(r.s, t, a2, b, wonText[p], wonText[q], strict) /\ Carries(s, r.s)
         /\ Sent(a2, a, r)
    BY <2>3, <2>8, <2>9 DEF Sent
  <2>. HIDE DEF u, a2
  <2>. QED
    BY <1>1, <2>1, <2>10, Performed
<1>4. CASE EnterRace(p)
  <2> DEFINE u == [resetInfo(s) EXCEPT !.app = "raceState"]
             r == Clear(u)
  <2>1. ~Here(s) /\ Perform(p, b, r, Len(b)) /\ wonText' = wonText /\ Enters(p)
    BY <1>4 DEF EnterRace, Here, Enters, TypeOK
  <2>2. chan'[q] = <<>> /\ (Here(t) => a = <<>>)
    BY <2>1 DEF Patient, Here
  <2>3. peer' = [peer EXCEPT ![p] = u] /\ chan'[p] = a
    <3>1. u \in Machine
      <4>1. \A v \in Machine : [v EXCEPT !.app = "raceState"] \in Machine
        BY DEF Machine
      <4>. QED
        BY <1>1, <4>1, ResetTyped
    <3>2. Typed(r) /\ r.s = u /\ r.out = <<>>
      BY <3>1, EmptyBytes DEF Typed, Clear
    <3>. HIDE DEF r
    <3>3. Typed(r)
      BY <3>2
    <3>4. peer' = [peer EXCEPT ![p] = r.s] /\ chan'[p] = a \o r.out
      BY <1>1, <2>1, <3>3, LosslessPerform
    <3>5. a \o r.out = a
      BY <1>1, <3>2, NothingMore
    <3>. QED
      BY <3>2, <3>4, <3>5
  <2>4. Meets(u, t, a, <<>>, wonText[p], wonText[q], strict) /\ Carries(s, u)
    <3>1. Here(t) => a = <<>>
      BY <2>2
    <3>. HIDE DEF q, s, t, a, b
    <3>. QED
      BY <1>1, <1>2, <2>1, <3>1, Entering
  <2>. HIDE DEF u
  <2>. QED
    BY <1>1, <2>1, <2>2, <2>3, <2>4, Moved
<1>5. CASE Click(p)
  <2> DEFINE n == Seed[p][clicks'[p]]
             r == raceClick(s, n)
  <2>1. Here(s) /\ Perform(p, b, r, 0) /\ wonText' = wonText /\ Clicks(p)
    BY <1>5 DEF Click, Here, Clicks, TypeOK
  <2>2. Fits(n)
    <3>1. clicks[p] \in Nat /\ clicks[p] < MaxClicks[p] /\ clicks'[p] = clicks[p] + 1
      BY <1>5 DEF Click, TypeOK
    <3>2. clicks'[p] \in DOMAIN Seed[p]
      BY <3>1, SeedAssumption, ClickAssumption, BoundAssumption
    <3>. QED
      BY <3>2, SeedsFit
  <2>3. a = <<>> /\ Range(b) \cap Answers = {}
    BY <2>1 DEF Patient, Settled
  <2>4. strict => (~s.readyMe \/ Busy(s)) /\ INFO_WON \notin Range(b)
    BY <2>1 DEF Committed, Attentive, Racing, Busy
  <2>. HIDE DEF n
  <2>5. Typed(r)
    BY <1>1, <2>2, ClickTyped
  <2>6. Meets(r.s, t, a \o r.out, b, wonText[p], wonText[q], strict) /\ Carries(s, r.s)
    <3>1. Composed(s, a, b, strict)
      BY <2>3, <2>4 DEF Composed
    <3>. HIDE DEF q, s, t, a, b
    <3>. QED
      BY <1>1, <1>2, <2>1, <2>2, <3>1, Pressing
  <2> DEFINE a2 == a \o r.out
  <2>7. Meets(r.s, t, a2, b, wonText[p], wonText[q], strict) /\ Sent(a2, a, r)
    BY <2>6 DEF Sent
  <2>. HIDE DEF r, a2
  <2>. QED
    BY <1>1, <2>1, <2>5, <2>6, <2>7, Performed
<1>6. CASE FinishText(p)
  <2> DEFINE r == endRace(s)
  <2>1. /\ Here(s) /\ s.status = "typing" /\ t.status # "ready" /\ Perform(p, b, r, 0)
        /\ wonText' = [wonText EXCEPT ![p] = s.text]
    BY <1>6 DEF FinishText, Here
  <2>2. wonText'[p] = s.text /\ wonText'[q] = wonText[q]
    BY <1>1, <2>1, TwoPeers DEF TypeOK
  <2>3. Typed(r)
    <3>1. [s EXCEPT !.status = "finished", !.won = TRUE] \in Machine
      BY <1>1 DEF Machine
    <3>. QED
      BY <3>1, CodesAreBytes DEF Typed, endRace, Send
  <2>4. Meets(r.s, t, a \o r.out, b, s.text, wonText[q], strict) /\ Carries(s, r.s)
    BY <1>1, <1>2, <2>1, Winning
  <2> DEFINE a2 == a \o r.out
  <2>5. Meets(r.s, t, a2, b, s.text, wonText[q], strict) /\ Sent(a2, a, r)
    BY <2>4 DEF Sent
  <2>. HIDE DEF r, a2
  <2>. QED
    BY <1>1, <2>1, <2>2, <2>3, <2>4, <2>5, Performed
<1>7. CASE Interrupt(p)
  <2> DEFINE r == readByte(s, Head(b))
  <2>1. Here(s) /\ b # <<>> /\ Perform(p, Tail(b), r, 0) /\ wonText' = wonText
    BY <1>7 DEF Interrupt, Here
  <2>2. Head(b) \in Byte /\ Tail(b) \in Seq(Byte)
    BY <1>1, <2>1
  <2>3. Typed(r)
    BY <1>1, <2>2, ByteTyped
  <2>4. Meets(r.s, t, a \o r.out, Tail(b), wonText[p], wonText[q], strict) /\ Carries(s, r.s)
    BY <1>1, <1>2, <2>1, Hearing
  <2> DEFINE a2 == a \o r.out
  <2>5. Meets(r.s, t, a2, Tail(b), wonText[p], wonText[q], strict) /\ Sent(a2, a, r)
    BY <2>4 DEF Sent
  <2>. HIDE DEF r, a2
  <2>. QED
    BY <1>1, <2>1, <2>2, <2>3, <2>4, <2>5, Performed
<1>8. CASE Overrun(p)
  BY <1>8 DEF Overrun, Lossless
<1>9. CASE Tick(p)
  <2> DEFINE u == Timed(s)
  <2>1. PICK clear \in BOOLEAN : Perform(p, b, [s |-> u, clear |-> clear, out |-> <<>>], 0)
    BY <1>9, TickIs
  <2> DEFINE r == [s |-> u, clear |-> clear, out |-> <<>>]
  <2>2. wonText' = wonText /\ (Present /\ s.status = "ready" /\ s.left = 0 => a = <<>>)
    BY <1>9 DEF Tick
  <2>3. Here(s) /\ Here(t) => Present
    BY BothPeers DEF Present, Here
  <2>4. Meets(u, t, a, b, wonText[p], wonText[q], strict) /\ Carries(s, u)
    BY <1>1, <1>2, <2>2, <2>3, TimePasses
  <2>5. u \in Machine
    BY <1>1, TimedTyped
  <2>. HIDE DEF u
  <2>6. Typed(r) /\ r.s = u /\ r.out = <<>>
    BY <2>5, EmptyBytes DEF Typed
  <2>7. Sent(a, a, r)
    BY <1>1, <2>6, NothingMore DEF Sent
  <2>8. Perform(p, b, r, 0)
    BY <2>1
  <2>9. Typed(r) /\ Meets(r.s, t, a, b, wonText[p], wonText[q], strict) /\ Carries(s, r.s)
    BY <2>4, <2>6
  <2>. HIDE DEF r
  <2>. QED
    BY <1>1, <2>2, <2>7, <2>8, <2>9, Performed
<1>. QED
  BY <1>3, <1>4, <1>5, <1>6, <1>7, <1>8, <1>9

(* Every step of careful players keeps the invariant and restarts no race. *)
LEMMA AgreementNext ==
  ASSUME NEW strict \in BOOLEAN, TypeOK, RaceInv, Agreement(strict),
         [Next /\ Careful(strict)]_vars
  PROVE  Agreement(strict)' /\ [Continues]_vars
<1>1. CASE UNCHANGED vars
  BY <1>1 DEF vars, Agreement
<1>2. CASE Next /\ Careful(strict)
  BY <1>2, AgreementStep DEF Next, Careful
<1>. QED
  BY <1>1, <1>2

(* The invariant holds when both machines are on the main screen. *)
LEMMA AgreementInit == ASSUME NEW strict, Init PROVE Agreement(strict)
<1>1. \A p \in Peer : Other(p) \in Peer
  BY TwoPeers
<1>2. \A p \in Peer : peer[p] = Idle
  BY DEF Init
<1>3. Idle.app = "mainState" /\ Idle.status = "unready" /\ Gone(Idle)
  BY DEF Idle, Gone
<1>. HIDE DEF Idle
<1>. QED
  BY <1>1, <1>2, <1>3 DEF Agreement, Side, Here, Busy

(* The whole invariant. *)
AllAgreed(strict) == TypeOK /\ RaceInv /\ Agreement(strict)

(* The invariant holds at the start and is kept. *)
LEMMA AllInit == ASSUME NEW strict PROVE Init => AllAgreed(strict)
  BY TypesInit, RaceInit, AgreementInit DEF AllAgreed

(* And is kept. *)
LEMMA AllNext ==
  ASSUME NEW strict \in BOOLEAN, AllAgreed(strict), [Next /\ Careful(strict)]_vars
  PROVE  AllAgreed(strict)' /\ [Continues]_vars
<1>1. [Next]_vars
  OBVIOUS
<1>. QED
  BY <1>1, TypesNext, RaceNext, AgreementNext DEF AllAgreed

(* The inductive invariant holds throughout for patient players on a cable *)
(* that loses nothing, and no step restarts a race.                        *)
THEOREM CarefulAgrees == CarefulSpec => []AllAgreed(FALSE) /\ [][Continues]_vars
<1>1. Init => AllAgreed(FALSE)
  BY AllInit
<1>2. AllAgreed(FALSE) /\ [Next /\ Lossless /\ Patient]_vars
        => AllAgreed(FALSE)' /\ [Continues]_vars
  <2>1. [Next /\ Lossless /\ Patient]_vars => [Next /\ Careful(FALSE)]_vars
    BY DEF Careful
  <2>. QED
    BY <2>1, AllNext
<1>. QED
  BY <1>1, <1>2, PTL DEF CarefulSpec

(* Its strict form holds throughout for patient players who do not take    *)
(* Ready back and do not press the race button past an unread WON.         *)
THEOREM AttentiveAgrees == AttentiveSpec => []AllAgreed(TRUE)
<1>1. Init => AllAgreed(TRUE)
  BY AllInit
<1>2. AllAgreed(TRUE) /\ [Next /\ Lossless /\ Patient /\ Committed /\ Attentive]_vars
        => AllAgreed(TRUE)'
  <2>1. [Next /\ Lossless /\ Patient /\ Committed /\ Attentive]_vars
          => [Next /\ Careful(TRUE)]_vars
    BY DEF Careful
  <2>. QED
    BY <2>1, AllNext
<1>. QED
  BY <1>1, <1>2, PTL DEF AttentiveSpec

(* Two machines in a race have the same words to type: the sum of the      *)
(* seeds is the same on both sides, in whatever order requests, answers    *)
(* and clicks cross (checkIfReady, proj.c).                                *)
THEOREM RaceTexts == CarefulSpec => []SameText
<1>1. AllAgreed(FALSE) => SameText
  <2>. SUFFICES ASSUME AllAgreed(FALSE), NEW p \in Peer, NEW q \in Peer, Racing(p), Racing(q)
                PROVE  peer[p].text = peer[q].text
    BY DEF SameText
  <2>1. q = p \/ q = Other(p)
    BY BothPeers
  <2>. QED
    BY <2>1 DEF AllAgreed, Agreement, Side, Racing, Busy
<1>. QED
  BY <1>1, CarefulAgrees, PTL

(* A player is shown "Lost" only for a text that the opponent has          *)
(* completed: no WON of an earlier race is taken for one of this           *)
(* (serial_port_ih, proj.c).                                               *)
THEOREM RaceLosers == CarefulSpec => []LoserBeatenHere
<1>1. AllAgreed(FALSE) => LoserBeatenHere
  BY DEF AllAgreed, Agreement, Side, LoserBeatenHere
<1>. QED
  BY <1>1, CarefulAgrees, PTL

(* A race that has begun is not begun again: no late READY_ACK or seed     *)
(* starts a second countdown (checkIfReady, proj.c).                       *)
THEOREM RaceGoesOn == CarefulSpec => NoRestart
<1>1. [][Continues]_vars <=> NoRestart
  BY DEF NoRestart, Continues
<1>. QED
  BY <1>1, CarefulAgrees

(* An idle cable between attentive players: what each machine knows. *)
LEMMA StillKnown ==
  ASSUME NEW p \in Peer, AllAgreed(TRUE), Present, Still
  PROVE  Accord(peer[p], peer[Other(p)], "none", "none", "", "")
<1> DEFINE s == peer[p]
           t == peer[Other(p)]
           a == chan[p]
           b == chan[Other(p)]
           ws == wonText[p]
           wt == wonText[Other(p)]
<1>1. Other(p) \in Peer /\ s \in Machine /\ t \in Machine /\ a = <<>> /\ b = <<>>
  BY TwoPeers DEF AllAgreed, TypeOK, Still
<1>2. InTouch(s, t, a, b, ws, wt, TRUE)
  BY <1>1 DEF AllAgreed, Agreement, Side, Here, Present
<1>. HIDE DEF s, t, a, b, ws, wt
<1>3. PICK f \in Phase, g \in Phase, l \in Replies, m \in Replies :
           Talk(s, t, a, b, f, g, l, m, ws, wt, TRUE)
  BY <1>2 DEF InTouch
<1>4. Wire(s, t, a, f, l) /\ Wire(t, s, b, g, m) /\ Accord(s, t, f, g, l, m)
  BY <1>3 DEF Talk
<1>5. f = "none" /\ l = "" /\ g = "none" /\ m = ""
  BY <1>1, <1>4, WireTyped
<1>. QED
  BY <1>4, <1>5 DEF s, t

(* On an idle cable a machine that counts down or types has an opponent    *)
(* that does.                                                              *)
LEMMA RunsWith ==
  ASSUME NEW s \in Machine, NEW t \in Machine, Accord(s, t, "none", "none", "", ""),
         s.status \in {"ready", "typing"}
  PROVE  t.status \in {"ready", "typing"}
  BY DEF Accord, Concord, Acked, Busy, BothReady, WithReady, WithWon, SeedDue, Machine

(* Once every byte has been read, both players race or neither does:       *)
(* nobody is left counting down or typing alone.                           *)
THEOREM RaceTogether == AttentiveSpec => []NobodyRacesAlone
<1>1. AllAgreed(TRUE) => NobodyRacesAlone
  <2>. SUFFICES ASSUME AllAgreed(TRUE), TypeOK, Present, Still,
                       NEW p \in Peer, NEW q \in Peer, Running(p)
                PROVE  Running(q)
    BY DEF NobodyRacesAlone, AllAgreed
  <2>1. q = p \/ q = Other(p)
    BY BothPeers
  <2>2. Accord(peer[p], peer[Other(p)], "none", "none", "", "")
    BY StillKnown
  <2>3. peer[p] \in Machine /\ peer[Other(p)] \in Machine
    BY TwoPeers DEF TypeOK
  <2>. QED
    BY <2>1, <2>2, <2>3, RunsWith DEF Running
<1>. QED
  BY <1>1, AttentiveAgrees, PTL

(* Once every byte has been read, each machine shows the opponent ready    *)
(* exactly when the opponent shows itself ready.                           *)
THEOREM RaceFlags == AttentiveSpec => []ReadyFlagsAgree
<1>1. AllAgreed(TRUE) => ReadyFlagsAgree
  <2>. SUFFICES ASSUME AllAgreed(TRUE), TypeOK, Present, Still,
                       \A p \in Peer : ~Racing(p) \/ Running(p),
                       NEW p \in Peer
                PROVE  peer[p].readyYou = peer[Other(p)].readyMe
    BY DEF ReadyFlagsAgree, AllAgreed
  <2> DEFINE s == peer[p]
             t == peer[Other(p)]
  <2>1. s \in Machine /\ t \in Machine /\ Other(p) \in Peer
    BY TwoPeers DEF TypeOK
  <2>2. Accord(s, t, "none", "none", "", "")
    BY StillKnown
  <2>3. Accord(t, s, "none", "none", "", "")
    BY <2>2 DEF Accord
  <2>4. /\ ~Busy(s) \/ s.status \in {"ready", "typing"}
        /\ ~Busy(t) \/ t.status \in {"ready", "typing"}
    BY <2>1 DEF Racing, Running, Busy
  <2>. HIDE DEF s, t
  <2>5. Busy(s) <=> Busy(t)
    BY <2>1, <2>2, <2>3, <2>4, RunsWith DEF Busy
  <2>6. CASE ~Busy(s) /\ ~Busy(t)
    BY <2>1, <2>2, <2>6 DEF Accord, Concord, Acked, WithReady, Machine, s, t
  <2>7. CASE Busy(s) /\ Busy(t)
    BY <2>1, <2>2, <2>7 DEF Accord, Concord, BothReady, Machine, s, t
  <2>. QED
    BY <2>5, <2>6, <2>7
<1>. QED
  BY <1>1, AttentiveAgrees, PTL
=============================================================================
