---------------------------- MODULE TelnetProofs ----------------------------
(***************************************************************************)
(* What Telnet keeps for every set of options, every set of sizes and any  *)
(* number of offers and requests: the types, that both sides of an option  *)
(* agree once nothing is on its way, and that the game was told the size   *)
(* and heard the hello.                                                    *)
(*                                                                         *)
(* The invariant says of each option what is on its way, whatever else is  *)
(* between: against an eager game, what the last word of Vosh leaves the   *)
(* game at; against a careful one, which questions are open.  Each side of *)
(* an option goes its own way, and both go the same way, with the channels *)
(* and the verbs exchanged, so the lemmas about Agreeing serve both.       *)
(***************************************************************************)
EXTENDS Telnet, TLAPS

-----------------------------------------------------------------------------
(* What is on its way about one option.                                    *)

\* The verbs of one side of an option: what one says of itself, and what it
\* says of the other.
Offers == {"WILL", "WONT"}
Requests == {"DO", "DONT"}

Word(m) == IF m.verb \in {"WILL", "DO"} THEN "yes" ELSE "no"
Words == {"yes", "no"}

\* The message is about the option, and says a verb of V.
Of(m, o, V) == m.verb \in V /\ m.opt = o

\* Of the messages of ch about o with a verb of V: there is none, all say w,
\* the last says w, there is one and it says w, there are two.
None(ch, o, V) == \A i \in 1 .. Len(ch) : ~Of(ch[i], o, V)
AllAre(ch, o, V, w) == \A i \in 1 .. Len(ch) : Of(ch[i], o, V) => Word(ch[i]) = w
LastIs(ch, o, V, w) == \E i \in 1 .. Len(ch) :
    /\ Of(ch[i], o, V) /\ Word(ch[i]) = w
    /\ \A j \in 1 .. Len(ch) : j > i => ~Of(ch[j], o, V)
OneIs(ch, o, V, w) == \E i \in 1 .. Len(ch) :
    /\ Of(ch[i], o, V) /\ Word(ch[i]) = w
    /\ \A j \in 1 .. Len(ch) : j # i => ~Of(ch[j], o, V)
TwoAre(ch, o, V, w, x) == \E i, j \in 1 .. Len(ch) :
    /\ i < j
    /\ Of(ch[i], o, V) /\ Word(ch[i]) = w
    /\ Of(ch[j], o, V) /\ Word(ch[j]) = x
    /\ \A k \in 1 .. Len(ch) : k \notin {i, j} => ~Of(ch[k], o, V)

-----------------------------------------------------------------------------
(* One side of one option: mine is what Vosh holds of it and its what the  *)
(* game does; in and out are the channels, with the verbs I and O; wanted  *)
(* says that Vosh wants the option on, and acts that the game is eager.    *)

\* An eager game: where what Vosh has yet to read changes nothing, the last
\* word it sent, or none, leaves the game as Vosh is.
Eager(mine, its, in, out, o, I, O, wanted) ==
    /\ its \in {"Yes", "No"}
    /\ wanted \/ (mine = "No" /\ AllAre(out, o, O, "no"))
    /\ mine # "No" /\ AllAre(in, o, I, "yes") =>
        /\ ~LastIs(out, o, O, "no")
        /\ None(out, o, O) => its = "Yes"
    /\ mine # "Yes" /\ AllAre(in, o, I, "no") /\ None(out, o, O) => its = "No"

\* A careful game: at most one question is open, beside the first DO EOR.
Careful(mine, its, in, out, o, I, O, wanted) ==
    /\ wanted \/ mine = "No"
    /\ \/ None(in, o, I) /\ None(out, o, O) /\ mine \in {"No", "Yes"} /\ its = mine
       \/ /\ None(out, o, O)
          /\ \/ its = "WantYes" /\ mine = "No" /\ OneIs(in, o, I, "yes")
             \/ its = "WantNo" /\ mine = "Yes" /\ OneIs(in, o, I, "no")
       \/ /\ None(in, o, I)
          /\ \/ its = "WantYes" /\ mine = "Yes" /\ OneIs(out, o, O, "yes")
             \/ its = "WantYes" /\ mine = "No" /\ ~wanted /\ OneIs(out, o, O, "no")
             \/ its = "WantNo" /\ mine = "No" /\ OneIs(out, o, O, "no")
       \/ /\ mine = "WantYes" /\ OneIs(out, o, O, "yes")
          /\ \/ its = "No" /\ None(in, o, I)
             \/ its = "WantYes" /\ OneIs(in, o, I, "yes")
       \/ /\ mine = "WantYes" /\ None(out, o, O)
          /\ \/ its = "Yes" /\ OneIs(in, o, I, "yes")
             \/ its = "No" /\ OneIs(in, o, I, "no")
             \/ its = "WantNo" /\ TwoAre(in, o, I, "yes", "no")
             \/ its = "WantYes" /\ TwoAre(in, o, I, "no", "yes")

Agreeing(acts, mine, its, in, out, o, I, O, wanted) ==
    /\ acts => Eager(mine, its, in, out, o, I, O, wanted)
    /\ ~acts => Careful(mine, its, in, out, o, I, O, wanted)

ServerSide(o) ==
    Agreeing(eager, server[o], does[o], toVosh, toGame, o, Offers, Requests,
             o \in WantsServer)
VoshSide(o) ==
    Agreeing(eager, vosh[o], lets[o], toVosh, toGame, o, Requests, Offers,
             o \in AgreesTo)

\* Nothing was said before the socket opens.
Dialing == stage = "dial" =>
    /\ toGame = <<>> /\ toVosh = <<>> /\ queue = <<>>
    /\ server = [o \in Opts |-> IF o = "EOR" THEN "WantYes" ELSE "No"]
    /\ does = [o \in Opts |-> "No"]

Sides == \A o \in Opts :
    /\ stage # "dial" => ServerSide(o)
    /\ VoshSide(o)

\* Only EOR is ever asked for.
AsksEor == \A o \in Opts : server[o] = "WantYes" => o = "EOR"

Echo == "ECHO" \in Opts => (held <=> server["ECHO"] = "Yes")

\* No message of R is in c; none comes after one of K; at most one is.
Free(c, R) == \A i \in 1 .. Len(c) : c[i] \notin R
After(c, K, R) == \E i \in 1 .. Len(c) :
    c[i] \in K /\ \A j \in 1 .. Len(c) : j > i => c[j] \notin R
One(c, R) == \A i, j \in 1 .. Len(c) : c[i] \in R /\ c[j] \in R => i = j

SizesTold == [verb: {"NAWS"}, size: Sizes]
GmcpAsked == {Msg("DO", "GMCP")}
NamesTold == [verb: {"IS"}, slot: 0 .. 2]

\* The last size on its way, or the one the game heard, is the loop's.
SizeSent == "NAWS" \in Opts /\ vosh["NAWS"] = "Yes" =>
    \/ heardSize = size /\ Free(toGame, SizesTold)
    \/ After(toGame, {NawsOf(size)}, SizesTold)

\* A hello comes after every DO that turns GMCP on.
HelloSent == "GMCP" \in Opts /\ server["GMCP"] = "Yes" =>
    \/ hello /\ Free(toGame, GmcpAsked)
    \/ After(toGame, {Hello}, GmcpAsked)

\* One name at most is asked for or on its way, and it is the next one.
NextName == IF Len(names) < 2 THEN Len(names) ELSE 2
NamesSent ==
    /\ Len(names) <= 4
    /\ \A i \in 1 .. Len(names) : names[i] = IF i < 3 THEN i - 1 ELSE 2
    /\ One(toVosh, {SendName}) /\ One(toGame, NamesTold)
    /\ Free(toVosh, {SendName}) \/ Free(toGame, NamesTold)
    /\ ~Free(toVosh, {SendName}) => Len(names) <= 3
    /\ Free(toGame, NamesTold) => cycle = Len(names)
    /\ ~Free(toGame, NamesTold) => cycle = Len(names) + 1 /\ Len(names) <= 3
    /\ Free(toGame, NamesTold \ {NameIs(NextName)})

\* The inductive invariant.
TInv ==
    /\ TypeOK /\ Dialing /\ Sides /\ AsksEor /\ Echo
    /\ SizeSent /\ HelloSent /\ NamesSent

-----------------------------------------------------------------------------
(* A channel whose word about the option does not change, one that takes   *)
(* another word, and one whose first word is read.                         *)

Same(ch, c2, o, V) ==
    /\ None(c2, o, V) <=> None(ch, o, V)
    /\ \A w \in Words :
        /\ AllAre(c2, o, V, w) <=> AllAre(ch, o, V, w)
        /\ LastIs(c2, o, V, w) <=> LastIs(ch, o, V, w)
        /\ OneIs(ch, o, V, w) => OneIs(c2, o, V, w)
    /\ \A w, x \in Words : TwoAre(ch, o, V, w, x) => TwoAre(c2, o, V, w, x)

Adds(ch, c2, o, V, w) ==
    /\ ~None(c2, o, V)
    /\ \A x \in Words :
        /\ AllAre(c2, o, V, x) <=> AllAre(ch, o, V, x) /\ w = x
        /\ LastIs(c2, o, V, x) <=> w = x
        /\ OneIs(ch, o, V, x) => TwoAre(c2, o, V, x, w)
    /\ None(ch, o, V) => OneIs(c2, o, V, w)

Takes(ch, c2, o, V, w) ==
    /\ ~None(ch, o, V)
    /\ \A x \in Words :
        /\ AllAre(ch, o, V, x) <=> AllAre(c2, o, V, x) /\ w = x
        /\ LastIs(c2, o, V, x) => LastIs(ch, o, V, x)
        /\ None(c2, o, V) => LastIs(ch, o, V, w)
        /\ OneIs(ch, o, V, x) => None(c2, o, V) /\ w = x
    /\ \A x, y \in Words : TwoAre(ch, o, V, x, y) => OneIs(c2, o, V, y) /\ w = x

\* A message that is not about the option changes no word about it.
LEMMA SameAppend ==
  ASSUME NEW S, NEW ch \in Seq(S), NEW m \in S, NEW o, NEW V, ~Of(m, o, V)
  PROVE  Same(ch, Append(ch, m), o, V)
<1> DEFINE c2 == Append(ch, m)
<1>1. /\ Len(ch) \in Nat /\ Len(c2) = Len(ch) + 1
      /\ \A i \in 1 .. Len(ch) : c2[i] = ch[i]
      /\ c2[Len(c2)] = m
  OBVIOUS
<1> HIDE DEF c2
<1>2. \A i \in 1 .. Len(c2) : Of(c2[i], o, V) => i \in 1 .. Len(ch)
  BY <1>1
<1>3. None(c2, o, V) <=> None(ch, o, V)
  BY <1>1, <1>2 DEF None
<1>4. ASSUME NEW w \in Words
      PROVE  /\ AllAre(c2, o, V, w) <=> AllAre(ch, o, V, w)
             /\ LastIs(c2, o, V, w) <=> LastIs(ch, o, V, w)
             /\ OneIs(ch, o, V, w) => OneIs(c2, o, V, w)
  <2>1. AllAre(c2, o, V, w) <=> AllAre(ch, o, V, w)
    BY <1>1, <1>2 DEF AllAre
  <2>2. LastIs(c2, o, V, w) => LastIs(ch, o, V, w)
    BY <1>1, <1>2 DEF LastIs
  <2>3. LastIs(ch, o, V, w) => LastIs(c2, o, V, w)
    BY <1>1, <1>2 DEF LastIs
  <2>4. OneIs(ch, o, V, w) => OneIs(c2, o, V, w)
    BY <1>1, <1>2 DEF OneIs
  <2> QED
    BY <2>1, <2>2, <2>3, <2>4
<1>5. ASSUME NEW w \in Words, NEW x \in Words, TwoAre(ch, o, V, w, x)
      PROVE  TwoAre(c2, o, V, w, x)
  BY <1>1, <1>2, <1>5 DEF TwoAre
<1> QED
  BY <1>3, <1>4, <1>5 DEF Same, c2

\* One that is about the option is its last word.
LEMMA AddsAppend ==
  ASSUME NEW S, NEW ch \in Seq(S), NEW m \in S, NEW o, NEW V, Of(m, o, V)
  PROVE  Adds(ch, Append(ch, m), o, V, Word(m))
<1> DEFINE c2 == Append(ch, m)
<1>1. /\ Len(ch) \in Nat /\ Len(c2) = Len(ch) + 1
      /\ \A i \in 1 .. Len(ch) : c2[i] = ch[i]
      /\ c2[Len(c2)] = m
  OBVIOUS
<1> HIDE DEF c2
<1>2. ~None(c2, o, V)
  BY <1>1 DEF None
<1>3. ASSUME NEW x \in Words
      PROVE  /\ AllAre(c2, o, V, x) <=> AllAre(ch, o, V, x) /\ Word(m) = x
             /\ LastIs(c2, o, V, x) <=> Word(m) = x
             /\ OneIs(ch, o, V, x) => TwoAre(c2, o, V, x, Word(m))
  <2>1. AllAre(c2, o, V, x) <=> AllAre(ch, o, V, x) /\ Word(m) = x
    BY <1>1 DEF AllAre
  <2>2. LastIs(c2, o, V, x) => Word(m) = x
    BY <1>1 DEF LastIs
  <2>3. Word(m) = x => LastIs(c2, o, V, x)
    BY <1>1 DEF LastIs
  <2>4. ASSUME OneIs(ch, o, V, x) PROVE TwoAre(c2, o, V, x, Word(m))
    <3>1. PICK i \in 1 .. Len(ch) :
            /\ Of(ch[i], o, V) /\ Word(ch[i]) = x
            /\ \A j \in 1 .. Len(ch) : j # i => ~Of(ch[j], o, V)
      BY <2>4 DEF OneIs
    <3>2. /\ i \in 1 .. Len(c2) /\ Len(c2) \in 1 .. Len(c2) /\ i < Len(c2)
          /\ Of(c2[i], o, V) /\ Word(c2[i]) = x
          /\ Of(c2[Len(c2)], o, V) /\ Word(c2[Len(c2)]) = Word(m)
      BY <1>1, <3>1
    <3>3. \A k \in 1 .. Len(c2) : k \notin {i, Len(c2)} => ~Of(c2[k], o, V)
      BY <1>1, <3>1
    <3> QED
      BY <3>2, <3>3 DEF TwoAre
  <2> QED
    BY <2>1, <2>2, <2>3, <2>4
<1>4. None(ch, o, V) => OneIs(c2, o, V, Word(m))
  BY <1>1 DEF None, OneIs
<1> QED
  BY <1>2, <1>3, <1>4 DEF Adds, c2

\* Reading a message that is not about the option changes no word about it.
LEMMA SameTail ==
  ASSUME NEW S, NEW ch \in Seq(S), ch # <<>>, NEW o, NEW V, ~Of(Head(ch), o, V)
  PROVE  Same(ch, Tail(ch), o, V)
<1> DEFINE c2 == Tail(ch)
<1>1. /\ Len(ch) \in Nat /\ Len(ch) # 0 /\ Len(c2) = Len(ch) - 1
      /\ \A i \in 1 .. Len(c2) : c2[i] = ch[i + 1]
      /\ ch[1] = Head(ch)
  OBVIOUS
<1> HIDE DEF c2
<1>2. ASSUME NEW i \in 1 .. Len(ch), i # 1
      PROVE  i - 1 \in 1 .. Len(c2) /\ c2[i - 1] = ch[i]
  BY <1>1, <1>2
<1>3. \A i \in 1 .. Len(ch) : Of(ch[i], o, V) => i # 1
  BY <1>1
<1>4. None(c2, o, V) <=> None(ch, o, V)
  <2>1. None(ch, o, V) => None(c2, o, V)
    BY <1>1 DEF None
  <2>2. None(c2, o, V) => None(ch, o, V)
    BY <1>1, <1>2, <1>3 DEF None
  <2> QED
    BY <2>1, <2>2
<1>5. ASSUME NEW w \in Words
      PROVE  /\ AllAre(c2, o, V, w) <=> AllAre(ch, o, V, w)
             /\ LastIs(c2, o, V, w) <=> LastIs(ch, o, V, w)
             /\ OneIs(ch, o, V, w) => OneIs(c2, o, V, w)
  <2>1. AllAre(ch, o, V, w) => AllAre(c2, o, V, w)
    BY <1>1 DEF AllAre
  <2>2. AllAre(c2, o, V, w) => AllAre(ch, o, V, w)
    BY <1>1, <1>2, <1>3 DEF AllAre
  <2>3. ASSUME LastIs(ch, o, V, w) PROVE LastIs(c2, o, V, w)
    <3>1. PICK i \in 1 .. Len(ch) :
            /\ Of(ch[i], o, V) /\ Word(ch[i]) = w
            /\ \A j \in 1 .. Len(ch) : j > i => ~Of(ch[j], o, V)
      BY <2>3 DEF LastIs
    <3>2. i - 1 \in 1 .. Len(c2) /\ c2[i - 1] = ch[i]
      BY <1>2, <1>3, <3>1
    <3>3. \A j \in 1 .. Len(c2) : j > i - 1 => ~Of(c2[j], o, V)
      BY <1>1, <3>1
    <3> QED
      BY <3>1, <3>2, <3>3 DEF LastIs
  <2>4. ASSUME LastIs(c2, o, V, w) PROVE LastIs(ch, o, V, w)
    <3>1. PICK i \in 1 .. Len(c2) :
            /\ Of(c2[i], o, V) /\ Word(c2[i]) = w
            /\ \A j \in 1 .. Len(c2) : j > i => ~Of(c2[j], o, V)
      BY <2>4 DEF LastIs
    <3>2. i + 1 \in 1 .. Len(ch) /\ ch[i + 1] = c2[i]
      BY <1>1, <3>1
    <3>3. \A j \in 1 .. Len(ch) : j > i + 1 => ~Of(ch[j], o, V)
      BY <1>1, <1>2, <3>1
    <3> QED
      BY <3>1, <3>2, <3>3 DEF LastIs
  <2>5. ASSUME OneIs(ch, o, V, w) PROVE OneIs(c2, o, V, w)
    <3>1. PICK i \in 1 .. Len(ch) :
            /\ Of(ch[i], o, V) /\ Word(ch[i]) = w
            /\ \A j \in 1 .. Len(ch) : j # i => ~Of(ch[j], o, V)
      BY <2>5 DEF OneIs
    <3>2. i - 1 \in 1 .. Len(c2) /\ c2[i - 1] = ch[i]
      BY <1>2, <1>3, <3>1
    <3>3. \A j \in 1 .. Len(c2) : j # i - 1 => ~Of(c2[j], o, V)
      BY <1>1, <3>1
    <3> QED
      BY <3>1, <3>2, <3>3 DEF OneIs
  <2> QED
    BY <2>1, <2>2, <2>3, <2>4, <2>5
<1>6. ASSUME NEW w \in Words, NEW x \in Words, TwoAre(ch, o, V, w, x)
      PROVE  TwoAre(c2, o, V, w, x)
  <2>1. PICK i, j \in 1 .. Len(ch) :
          /\ i < j
          /\ Of(ch[i], o, V) /\ Word(ch[i]) = w
          /\ Of(ch[j], o, V) /\ Word(ch[j]) = x
          /\ \A k \in 1 .. Len(ch) : k \notin {i, j} => ~Of(ch[k], o, V)
    BY <1>6 DEF TwoAre
  <2>2. /\ i - 1 \in 1 .. Len(c2) /\ c2[i - 1] = ch[i]
        /\ j - 1 \in 1 .. Len(c2) /\ c2[j - 1] = ch[j]
        /\ i - 1 < j - 1
    BY <1>2, <1>3, <2>1
  <2>3. \A k \in 1 .. Len(c2) : k \notin {i - 1, j - 1} => ~Of(c2[k], o, V)
    BY <1>1, <2>1
  <2> QED
    BY <2>1, <2>2, <2>3 DEF TwoAre
<1> QED
  BY <1>4, <1>5, <1>6 DEF Same, c2

\* Reading one that is about it takes the first word.
LEMMA TakesTail ==
  ASSUME NEW S, NEW ch \in Seq(S), ch # <<>>, NEW o, NEW V, Of(Head(ch), o, V)
  PROVE  Takes(ch, Tail(ch), o, V, Word(Head(ch)))
<1> DEFINE c2 == Tail(ch)
           v == Word(Head(ch))
<1>1. /\ Len(ch) \in Nat /\ Len(ch) # 0 /\ Len(c2) = Len(ch) - 1
      /\ \A i \in 1 .. Len(c2) : c2[i] = ch[i + 1]
      /\ Of(ch[1], o, V) /\ Word(ch[1]) = v /\ 1 \in 1 .. Len(ch)
  OBVIOUS
<1> HIDE DEF c2, v
<1>2. ASSUME NEW i \in 1 .. Len(ch), i # 1
      PROVE  i - 1 \in 1 .. Len(c2) /\ c2[i - 1] = ch[i]
  BY <1>1, <1>2
<1>3. ~None(ch, o, V)
  BY <1>1 DEF None
<1>4. ASSUME NEW x \in Words
      PROVE  /\ AllAre(ch, o, V, x) <=> AllAre(c2, o, V, x) /\ v = x
             /\ LastIs(c2, o, V, x) => LastIs(ch, o, V, x)
             /\ None(c2, o, V) => LastIs(ch, o, V, v)
             /\ OneIs(ch, o, V, x) => None(c2, o, V) /\ v = x
  <2>1. AllAre(ch, o, V, x) => AllAre(c2, o, V, x) /\ v = x
    BY <1>1 DEF AllAre
  <2>2. AllAre(c2, o, V, x) /\ v = x => AllAre(ch, o, V, x)
    BY <1>1, <1>2 DEF AllAre
  <2>3. ASSUME LastIs(c2, o, V, x) PROVE LastIs(ch, o, V, x)
    <3>1. PICK i \in 1 .. Len(c2) :
            /\ Of(c2[i], o, V) /\ Word(c2[i]) = x
            /\ \A j \in 1 .. Len(c2) : j > i => ~Of(c2[j], o, V)
      BY <2>3 DEF LastIs
    <3>2. i + 1 \in 1 .. Len(ch) /\ ch[i + 1] = c2[i]
      BY <1>1, <3>1
    <3>3. \A j \in 1 .. Len(ch) : j > i + 1 => ~Of(ch[j], o, V)
      BY <1>1, <1>2, <3>1
    <3> QED
      BY <3>1, <3>2, <3>3 DEF LastIs
  <2>4. ASSUME None(c2, o, V) PROVE LastIs(ch, o, V, v)
    <3>1. \A j \in 1 .. Len(ch) : j > 1 => ~Of(ch[j], o, V)
      BY <1>1, <1>2, <2>4 DEF None
    <3> QED
      BY <1>1, <3>1 DEF LastIs
  <2>5. ASSUME OneIs(ch, o, V, x) PROVE None(c2, o, V) /\ v = x
    <3>1. PICK i \in 1 .. Len(ch) :
            /\ Of(ch[i], o, V) /\ Word(ch[i]) = x
            /\ \A j \in 1 .. Len(ch) : j # i => ~Of(ch[j], o, V)
      BY <2>5 DEF OneIs
    <3>2. i = 1
      BY <1>1, <3>1
    <3> QED
      BY <1>1, <3>1, <3>2 DEF None
  <2> QED
    BY <2>1, <2>2, <2>3, <2>4, <2>5
<1>5. ASSUME NEW x \in Words, NEW y \in Words, TwoAre(ch, o, V, x, y)
      PROVE  OneIs(c2, o, V, y) /\ v = x
  <2>1. PICK i, j \in 1 .. Len(ch) :
          /\ i < j
          /\ Of(ch[i], o, V) /\ Word(ch[i]) = x
          /\ Of(ch[j], o, V) /\ Word(ch[j]) = y
          /\ \A k \in 1 .. Len(ch) : k \notin {i, j} => ~Of(ch[k], o, V)
    BY <1>5 DEF TwoAre
  <2>2. i = 1 /\ j # 1
    BY <1>1, <2>1
  <2>3. j - 1 \in 1 .. Len(c2) /\ c2[j - 1] = ch[j]
    BY <1>2, <2>2
  <2>4. \A k \in 1 .. Len(c2) : k # j - 1 => ~Of(c2[k], o, V)
    BY <1>1, <2>1, <2>2
  <2> QED
    BY <1>1, <2>1, <2>2, <2>3, <2>4 DEF OneIs
<1> QED
  BY <1>3, <1>4, <1>5 DEF Takes, c2, v

-----------------------------------------------------------------------------
(* What each kind of step does to one side of one option.                  *)

\* Nothing about it was said or read.
LEMMA OthersAgree ==
  ASSUME NEW acts, NEW mine, NEW its, NEW in, NEW in2, NEW out, NEW out2,
         NEW o, NEW I, NEW O, NEW wanted,
         Agreeing(acts, mine, its, in, out, o, I, O, wanted),
         Same(in, in2, o, I), Same(out, out2, o, O)
  PROVE  Agreeing(acts, mine, its, in2, out2, o, I, O, wanted)
<1> USE DEF Same, Words
<1>1. CASE acts
  BY <1>1 DEF Agreeing, Eager
<1>2. CASE ~acts
  BY <1>2 DEF Agreeing, Careful
<1> QED
  BY <1>1, <1>2

\* Vosh reads a yes: it is on already or asked for it, or it agrees, or it
\* does not want it.
LEMMA VoshReadsYes ==
  ASSUME NEW acts, NEW mine, NEW its, NEW in, NEW in2, NEW out, NEW out2,
         NEW o, NEW I, NEW O, NEW wanted,
         Agreeing(acts, mine, its, in, out, o, I, O, wanted),
         mine \in Side, Takes(in, in2, o, I, "yes")
  PROVE  /\ mine # "No" /\ Same(out, out2, o, O)
              => Agreeing(acts, "Yes", its, in2, out2, o, I, O, wanted)
         /\ mine = "No" /\ wanted /\ Adds(out, out2, o, O, "yes")
              => Agreeing(acts, "Yes", its, in2, out2, o, I, O, wanted)
         /\ mine = "No" /\ ~wanted /\ Adds(out, out2, o, O, "no")
              => Agreeing(acts, "No", its, in2, out2, o, I, O, wanted)
<1> USE DEF Takes, Words, Side
<1>1. CASE acts
  BY <1>1 DEF Agreeing, Eager, Same, Adds
<1>2. CASE ~acts
  <2>1. Careful(mine, its, in, out, o, I, O, wanted)
    BY <1>2 DEF Agreeing
  <2>2. mine # "No" /\ Same(out, out2, o, O)
          => Careful("Yes", its, in2, out2, o, I, O, wanted)
    BY <2>1 DEF Careful, Same
  <2>3. mine = "No" /\ wanted /\ Adds(out, out2, o, O, "yes")
          => Careful("Yes", its, in2, out2, o, I, O, wanted)
    BY <2>1 DEF Careful, Adds
  <2>4. mine = "No" /\ ~wanted /\ Adds(out, out2, o, O, "no")
          => Careful("No", its, in2, out2, o, I, O, wanted)
    BY <2>1 DEF Careful, Adds
  <2> QED
    BY <1>2, <2>2, <2>3, <2>4 DEF Agreeing
<1> QED
  BY <1>1, <1>2

\* Vosh reads a no: it is off already or asked for it, or it turns it off.
LEMMA VoshReadsNo ==
  ASSUME NEW acts, NEW mine, NEW its, NEW in, NEW in2, NEW out, NEW out2,
         NEW o, NEW I, NEW O, NEW wanted,
         Agreeing(acts, mine, its, in, out, o, I, O, wanted),
         mine \in Side, Takes(in, in2, o, I, "no")
  PROVE  /\ mine # "Yes" /\ Same(out, out2, o, O)
              => Agreeing(acts, "No", its, in2, out2, o, I, O, wanted)
         /\ mine = "Yes" /\ Adds(out, out2, o, O, "no")
              => Agreeing(acts, "No", its, in2, out2, o, I, O, wanted)
<1> USE DEF Takes, Words, Side
<1>1. CASE acts
  BY <1>1 DEF Agreeing, Eager, Same, Adds
<1>2. CASE ~acts
  <2>1. Careful(mine, its, in, out, o, I, O, wanted)
    BY <1>2 DEF Agreeing
  <2>2. mine # "Yes" /\ Same(out, out2, o, O)
          => Careful("No", its, in2, out2, o, I, O, wanted)
    BY <2>1 DEF Careful, Same
  <2>3. mine = "Yes" /\ Adds(out, out2, o, O, "no")
          => Careful("No", its, in2, out2, o, I, O, wanted)
    BY <2>1 DEF Careful, Adds
  <2> QED
    BY <1>2, <2>2, <2>3 DEF Agreeing
<1> QED
  BY <1>1, <1>2

\* The game says yes by itself.  An eager one that asks takes nothing on yet.
LEMMA GameSaysYes ==
  ASSUME NEW acts, NEW mine, NEW its, NEW in, NEW in2, NEW out, NEW out2,
         NEW o, NEW I, NEW O, NEW wanted,
         Agreeing(acts, mine, its, in, out, o, I, O, wanted),
         mine \in Side, NEW now, Adds(in, in2, o, I, "yes"), out2 = out,
         IF acts THEN now \in {its, "Yes"} ELSE its = "No" /\ now = "WantYes"
  PROVE  Agreeing(acts, mine, now, in2, out2, o, I, O, wanted)
<1> USE DEF Adds, Words, Side
<1>1. CASE acts
  BY <1>1 DEF Agreeing, Eager
<1>2. CASE ~acts
  BY <1>2 DEF Agreeing, Careful
<1> QED
  BY <1>1, <1>2

\* The game says no by itself.
LEMMA GameSaysNo ==
  ASSUME NEW acts, NEW mine, NEW its, NEW in, NEW in2, NEW out, NEW out2,
         NEW o, NEW I, NEW O, NEW wanted,
         Agreeing(acts, mine, its, in, out, o, I, O, wanted),
         mine \in Side, NEW now, Adds(in, in2, o, I, "no"), out2 = out,
         its = "Yes", now = IF acts THEN "No" ELSE "WantNo"
  PROVE  Agreeing(acts, mine, now, in2, out2, o, I, O, wanted)
<1> USE DEF Adds, Words, Side
<1>1. CASE acts
  BY <1>1 DEF Agreeing, Eager
<1>2. CASE ~acts
  BY <1>2 DEF Agreeing, Careful
<1> QED
  BY <1>1, <1>2

\* The game hears a yes.  It answers one it did not ask for, and an eager
\* one answers each.
LEMMA GameHearsYes ==
  ASSUME NEW acts, NEW mine, NEW its, NEW in, NEW in2, NEW out, NEW out2,
         NEW o, NEW I, NEW O, NEW wanted,
         Agreeing(acts, mine, its, in, out, o, I, O, wanted),
         mine \in Side, NEW now, Takes(out, out2, o, O, "yes"),
         \/ (acts \/ its = "No") /\ now = "Yes" /\ Adds(in, in2, o, I, "yes")
         \/ ~acts /\ its = "No" /\ now = "No" /\ Adds(in, in2, o, I, "no")
         \/ /\ ~acts /\ its # "No" /\ in2 = in
            /\ now = IF its = "WantNo" THEN "No" ELSE "Yes"
  PROVE  Agreeing(acts, mine, now, in2, out2, o, I, O, wanted)
<1> USE DEF Adds, Takes, Words, Side
<1>1. CASE acts
  BY <1>1 DEF Agreeing, Eager
<1>2. CASE ~acts
  BY <1>2 DEF Agreeing, Careful
<1> QED
  BY <1>1, <1>2

\* The game hears a no.  A careful one that is on would answer, but it hears
\* none that it did not ask for.
LEMMA GameHearsNo ==
  ASSUME NEW acts, NEW mine, NEW its, NEW in, NEW in2, NEW out, NEW out2,
         NEW o, NEW I, NEW O, NEW wanted,
         Agreeing(acts, mine, its, in, out, o, I, O, wanted),
         mine \in Side, Takes(out, out2, o, O, "no"),
         acts \/ its # "Yes" => in2 = in
  PROVE  Agreeing(acts, mine, "No", in2, out2, o, I, O, wanted)
<1> USE DEF Takes, Words, Side
<1>1. CASE acts
  BY <1>1 DEF Agreeing, Eager
<1>2. CASE ~acts
  BY <1>2 DEF Agreeing, Careful
<1> QED
  BY <1>1, <1>2

-----------------------------------------------------------------------------
(* The messages, and what each action does to the two channels.            *)

\* What a message says depends on its verb.
LEMMA MessageForm ==
  ASSUME NEW m \in Messages
  PROVE  /\ m.verb \in Verbs => m.opt \in Opts
         /\ m.verb = "NAWS" => m.size \in Sizes
         /\ m.verb = "IS" => m.slot \in 0 .. 2
         /\ m.verb \in Verbs \cup {"NAWS", "HELLO", "SEND", "IS"}
  BY DEF Messages, Verbs

\* Each message that Vosh or the game sends is one.
LEMMA MessageMade ==
  /\ \A v \in Verbs, o \in Opts : Msg(v, o) \in Messages
  /\ \A s \in Sizes : NawsOf(s) \in Messages
  /\ Hello \in Messages /\ SendName \in Messages
  /\ \A i \in 0 .. 2 : NameIs(i) \in Messages
  BY DEF Messages, Msg, NawsOf, Hello, SendName, NameIs

LEMMA MessageSays ==
  /\ \A v, o : Msg(v, o).verb = v /\ Msg(v, o).opt = o
  /\ \A s : NawsOf(s).verb = "NAWS" /\ NawsOf(s).size = s
  /\ Hello.verb = "HELLO" /\ SendName.verb = "SEND"
  /\ \A i : NameIs(i).verb = "IS" /\ NameIs(i).slot = i
  BY DEF Msg, NawsOf, Hello, SendName, NameIs

LEMMA SameChannel == \A ch, o, V : Same(ch, ch, o, V)
  BY DEF Same

LEMMA SameSame ==
  ASSUME NEW a, NEW b, NEW c, NEW o, NEW V, Same(a, b, o, V), Same(b, c, o, V)
  PROVE  Same(a, c, o, V)
  BY DEF Same

LEMMA AddsSame ==
  ASSUME NEW a, NEW b, NEW c, NEW o, NEW V, NEW w \in Words,
         Adds(a, b, o, V, w), Same(b, c, o, V)
  PROVE  Adds(a, c, o, V, w)
  BY DEF Adds, Same

\* The head of a channel is read.
LEMMA Reads ==
  ASSUME NEW ch \in Seq(Messages), ch # <<>>, NEW o, NEW V
  PROVE  /\ Head(ch).verb \in V /\ Head(ch).opt = o
              => Takes(ch, Tail(ch), o, V, Word(Head(ch)))
         /\ ~(Head(ch).verb \in V /\ Head(ch).opt = o)
              => Same(ch, Tail(ch), o, V)
         /\ Head(ch) \in Messages /\ Tail(ch) \in Seq(Messages)
<1>1. Of(Head(ch), o, V) => Takes(ch, Tail(ch), o, V, Word(Head(ch)))
  BY TakesTail
<1>2. ~Of(Head(ch), o, V) => Same(ch, Tail(ch), o, V)
  BY SameTail
<1>3. Head(ch) \in Messages /\ Tail(ch) \in Seq(Messages)
  OBVIOUS
<1> QED
  BY <1>1, <1>2, <1>3 DEF Of

\* A message of one option is sent.
LEMMA Sends ==
  ASSUME NEW ch \in Seq(Messages), NEW v \in Verbs, NEW p \in Opts,
         NEW o, NEW V
  PROVE  /\ v \in V /\ p = o => Adds(ch, Append(ch, Msg(v, p)), o, V, Word(Msg(v, p)))
         /\ ~(v \in V /\ p = o) => Same(ch, Append(ch, Msg(v, p)), o, V)
         /\ Append(ch, Msg(v, p)) \in Seq(Messages)
<1>1. Msg(v, p) \in Messages /\ Msg(v, p).verb = v /\ Msg(v, p).opt = p
  BY MessageMade, MessageSays
<1>2. Of(Msg(v, p), o, V)
        => Adds(ch, Append(ch, Msg(v, p)), o, V, Word(Msg(v, p)))
  BY <1>1, AddsAppend
<1>3. ~Of(Msg(v, p), o, V) => Same(ch, Append(ch, Msg(v, p)), o, V)
  BY <1>1, SameAppend
<1> QED
  BY <1>1, <1>2, <1>3 DEF Of

\* A message of no option is sent.
LEMMA SendsOther ==
  ASSUME NEW ch \in Seq(Messages), NEW m \in Messages, m.verb \notin Verbs,
         NEW o, NEW V \in {Offers, Requests}
  PROVE  Same(ch, Append(ch, m), o, V) /\ Append(ch, m) \in Seq(Messages)
<1>1. ~Of(m, o, V)
  BY DEF Of, Offers, Requests, Verbs
<1> QED
  BY <1>1, SameAppend

LEMMA WordOf ==
  /\ \A o : /\ Word(Msg("WILL", o)) = "yes" /\ Word(Msg("DO", o)) = "yes"
            /\ Word(Msg("WONT", o)) = "no" /\ Word(Msg("DONT", o)) = "no"
  /\ \A m : /\ m.verb \in {"WILL", "DO"} => Word(m) = "yes"
            /\ m.verb \in {"WONT", "DONT"} => Word(m) = "no"
  BY MessageSays DEF Word

-----------------------------------------------------------------------------
(* Both sides of every option, step by step.                               *)

Chans == toGame \in Seq(Messages) /\ toVosh \in Seq(Messages)

\* A step of neither side of the option o.
LEMMA Untouched ==
  ASSUME NEW o, ServerSide(o), VoshSide(o), eager' = eager,
         server'[o] = server[o], does'[o] = does[o],
         vosh'[o] = vosh[o], lets'[o] = lets[o],
         \A V \in {Offers, Requests} :
            Same(toVosh, toVosh', o, V) /\ Same(toGame, toGame', o, V)
  PROVE  ServerSide(o)' /\ VoshSide(o)'
<1>1. ServerSide(o)'
  BY OthersAgree DEF ServerSide
<1>2. VoshSide(o)'
  BY OthersAgree DEF VoshSide
<1> QED
  BY <1>1, <1>2

\* A message about the option p with the verb v is read, or said, or neither.
Kinds == {Offers, Requests}
Means(v) == IF v \in {"WILL", "DO"} THEN "yes" ELSE "no"
Hears(c, c2, p, v) == \A o \in Opts, V \in Kinds :
    IF o = p /\ v \in V THEN Takes(c, c2, o, V, Means(v)) ELSE Same(c, c2, o, V)
Tells(c, c2, p, v) == \A o \in Opts, V \in Kinds :
    IF o = p /\ v \in V THEN Adds(c, c2, o, V, Means(v)) ELSE Same(c, c2, o, V)
Nothing(c, c2) == \A o \in Opts, V \in Kinds : Same(c, c2, o, V)

LEMMA HeadHeard ==
  ASSUME NEW c \in Seq(Messages), c # <<>>, Head(c).verb \in Verbs
  PROVE  /\ Head(c).opt \in Opts
         /\ Hears(c, Tail(c), Head(c).opt, Head(c).verb)
<1>1. Head(c).opt \in Opts
  BY Reads, MessageForm
<1>2. Word(Head(c)) = Means(Head(c).verb)
  BY DEF Word, Means
<1> QED
  BY <1>1, <1>2, Reads DEF Hears

LEMMA OtherHeard ==
  ASSUME NEW c \in Seq(Messages), c # <<>>, Head(c).verb \notin Verbs
  PROVE  Nothing(c, Tail(c))
  BY Reads DEF Nothing, Kinds, Offers, Requests, Verbs

LEMMA Told ==
  ASSUME NEW c \in Seq(Messages), NEW v \in Verbs, NEW p \in Opts
  PROVE  Tells(c, Append(c, Msg(v, p)), p, v) /\ Append(c, Msg(v, p)) \in Seq(Messages)
<1>1. Word(Msg(v, p)) = Means(v)
  BY MessageSays DEF Word, Means
<1> QED
  BY <1>1, Sends DEF Tells

LEMMA OtherTold ==
  ASSUME NEW c \in Seq(Messages), NEW m \in Messages, m.verb \notin Verbs
  PROVE  Nothing(c, Append(c, m)) /\ Append(c, m) \in Seq(Messages)
  BY SendsOther DEF Nothing, Kinds

LEMMA NothingMore ==
  ASSUME NEW a, NEW b, NEW c, Nothing(b, c)
  PROVE  /\ Nothing(a, b) => Nothing(a, c)
         /\ \A p, v : Tells(a, b, p, v) => Tells(a, c, p, v)
<1>1. Nothing(a, b) => Nothing(a, c)
  BY SameSame DEF Nothing
<1>2. ASSUME NEW p, NEW v, Tells(a, b, p, v), NEW o \in Opts, NEW V \in Kinds
      PROVE  IF o = p /\ v \in V THEN Adds(a, c, o, V, Means(v)) ELSE Same(a, c, o, V)
  <2>1. Same(b, c, o, V) /\ Means(v) \in Words
    BY DEF Nothing, Means, Words
  <2> QED
    BY <1>2, <2>1, SameSame, AddsSame DEF Tells
<1> QED
  BY <1>1, <1>2 DEF Tells

LEMMA NothingSaid == \A c : Nothing(c, c)
  BY SameChannel DEF Nothing

\* Vosh hears an offer about p.
LEMMA OfferHeard ==
  ASSUME server \in [Opts -> Side],
         \A o \in Opts : ServerSide(o) /\ VoshSide(o),
         NEW p \in Opts, NEW v \in Offers, NEW now,
         Hears(toVosh, toVosh', p, v),
         server' = [server EXCEPT ![p] = now],
         UNCHANGED <<vosh, does, lets, eager>>,
         \/ /\ v = "WILL" /\ now = "Yes" /\ server[p] # "No"
            /\ Nothing(toGame, toGame')
         \/ /\ v = "WILL" /\ now = "Yes" /\ server[p] = "No" /\ p \in WantsServer
            /\ Tells(toGame, toGame', p, "DO")
         \/ /\ v = "WILL" /\ now = "No" /\ server[p] = "No" /\ p \notin WantsServer
            /\ Tells(toGame, toGame', p, "DONT")
         \/ /\ v = "WONT" /\ now = "No" /\ server[p] # "Yes"
            /\ Nothing(toGame, toGame')
         \/ /\ v = "WONT" /\ now = "No" /\ server[p] = "Yes"
            /\ Tells(toGame, toGame', p, "DONT")
  PROVE  \A o \in Opts : ServerSide(o)' /\ VoshSide(o)'
<1> USE DEF Kinds
<1>1. /\ Offers \in Kinds /\ Requests \in Kinds
      /\ v \in Offers /\ v \notin Requests
      /\ {"DO", "DONT"} \subseteq Requests
      /\ "DO" \notin Offers /\ "DONT" \notin Offers
      /\ Means("DO") = "yes" /\ Means("DONT") = "no"
      /\ v = "WILL" => Means(v) = "yes"
      /\ v = "WONT" => Means(v) = "no"
  BY DEF Offers, Requests, Means
<1> SUFFICES ASSUME NEW o \in Opts PROVE ServerSide(o)' /\ VoshSide(o)'
  OBVIOUS
<1>2. CASE o # p
  <2>1. \A V \in Kinds : Same(toVosh, toVosh', o, V) /\ Same(toGame, toGame', o, V)
    BY <1>2 DEF Hears, Tells, Nothing
  <2> QED
    BY <1>2, <2>1, Untouched
<1>3. CASE o = p
  <2>1. Takes(toVosh, toVosh', o, Offers, Means(v))
    BY <1>1, <1>3 DEF Hears
  <2>2. Same(toVosh, toVosh', o, Requests) /\ Same(toGame, toGame', o, Offers)
    BY <1>1, <1>3 DEF Hears, Tells, Nothing
  <2>3. /\ Nothing(toGame, toGame') => Same(toGame, toGame', o, Requests)
        /\ Tells(toGame, toGame', p, "DO") => Adds(toGame, toGame', o, Requests, "yes")
        /\ Tells(toGame, toGame', p, "DONT") => Adds(toGame, toGame', o, Requests, "no")
    BY <1>1, <1>3 DEF Tells, Nothing
  <2>4. server[o] \in Side /\ server'[o] = now
    BY <1>3
  <2>5. Agreeing(eager, server[o], does[o], toVosh, toGame, o, Offers, Requests,
                 o \in WantsServer)
    BY DEF ServerSide
  <2>6. Agreeing(eager, now, does[o], toVosh', toGame', o, Offers, Requests,
                 o \in WantsServer)
    <3>1. CASE v = "WILL"
      <4>1. \/ server[o] # "No" /\ now = "Yes" /\ Same(toGame, toGame', o, Requests)
            \/ /\ server[o] = "No" /\ now = "Yes" /\ o \in WantsServer
               /\ Adds(toGame, toGame', o, Requests, "yes")
            \/ /\ server[o] = "No" /\ now = "No" /\ o \notin WantsServer
               /\ Adds(toGame, toGame', o, Requests, "no")
        BY <1>3, <2>3, <3>1
      <4>2. server[o] \in Side /\ Takes(toVosh, toVosh', o, Offers, "yes")
        BY <1>1, <2>1, <2>4, <3>1
      <4> QED
        BY <2>5, <4>1, <4>2, VoshReadsYes
    <3>2. CASE v = "WONT"
      BY <1>1, <1>3, <2>1, <2>3, <2>4, <2>5, <3>2, VoshReadsNo
    <3> QED
      BY <3>1, <3>2 DEF Offers
  <2>7. ServerSide(o)'
    BY <2>4, <2>6 DEF ServerSide
  <2>8. VoshSide(o)'
    BY <2>2, OthersAgree DEF VoshSide
  <2> QED
    BY <2>7, <2>8
<1> QED
  BY <1>2, <1>3

\* Vosh hears a request about p.
LEMMA RequestHeard ==
  ASSUME vosh \in [Opts -> Side],
         \A o \in Opts : ServerSide(o) /\ VoshSide(o),
         NEW p \in Opts, NEW v \in Requests, NEW now,
         Hears(toVosh, toVosh', p, v),
         vosh' = [vosh EXCEPT ![p] = now],
         UNCHANGED <<server, does, lets, eager>>,
         \/ /\ v = "DO" /\ now = "Yes" /\ vosh[p] # "No"
            /\ Nothing(toGame, toGame')
         \/ /\ v = "DO" /\ now = "Yes" /\ vosh[p] = "No" /\ p \in AgreesTo
            /\ Tells(toGame, toGame', p, "WILL")
         \/ /\ v = "DO" /\ now = "No" /\ vosh[p] = "No" /\ p \notin AgreesTo
            /\ Tells(toGame, toGame', p, "WONT")
         \/ /\ v = "DONT" /\ now = "No" /\ vosh[p] # "Yes"
            /\ Nothing(toGame, toGame')
         \/ /\ v = "DONT" /\ now = "No" /\ vosh[p] = "Yes"
            /\ Tells(toGame, toGame', p, "WONT")
  PROVE  \A o \in Opts : ServerSide(o)' /\ VoshSide(o)'
<1> USE DEF Kinds
<1>1. /\ Offers \in Kinds /\ Requests \in Kinds
      /\ v \in Requests /\ v \notin Offers
      /\ {"WILL", "WONT"} \subseteq Offers
      /\ "WILL" \notin Requests /\ "WONT" \notin Requests
      /\ Means("WILL") = "yes" /\ Means("WONT") = "no"
      /\ v = "DO" => Means(v) = "yes"
      /\ v = "DONT" => Means(v) = "no"
  BY DEF Offers, Requests, Means
<1> SUFFICES ASSUME NEW o \in Opts PROVE ServerSide(o)' /\ VoshSide(o)'
  OBVIOUS
<1>2. CASE o # p
  <2>1. \A V \in Kinds : Same(toVosh, toVosh', o, V) /\ Same(toGame, toGame', o, V)
    BY <1>2 DEF Hears, Tells, Nothing
  <2> QED
    BY <1>2, <2>1, Untouched
<1>3. CASE o = p
  <2>1. Takes(toVosh, toVosh', o, Requests, Means(v))
    BY <1>1, <1>3 DEF Hears
  <2>2. Same(toVosh, toVosh', o, Offers) /\ Same(toGame, toGame', o, Requests)
    BY <1>1, <1>3 DEF Hears, Tells, Nothing
  <2>3. /\ Nothing(toGame, toGame') => Same(toGame, toGame', o, Offers)
        /\ Tells(toGame, toGame', p, "WILL") => Adds(toGame, toGame', o, Offers, "yes")
        /\ Tells(toGame, toGame', p, "WONT") => Adds(toGame, toGame', o, Offers, "no")
    BY <1>1, <1>3 DEF Tells, Nothing
  <2>4. vosh[o] \in Side /\ vosh'[o] = now
    BY <1>3
  <2>5. Agreeing(eager, vosh[o], lets[o], toVosh, toGame, o, Requests, Offers,
                 o \in AgreesTo)
    BY DEF VoshSide
  <2>6. Agreeing(eager, now, lets[o], toVosh', toGame', o, Requests, Offers,
                 o \in AgreesTo)
    <3>1. CASE v = "DO"
      <4>1. \/ vosh[o] # "No" /\ now = "Yes" /\ Same(toGame, toGame', o, Offers)
            \/ /\ vosh[o] = "No" /\ now = "Yes" /\ o \in AgreesTo
               /\ Adds(toGame, toGame', o, Offers, "yes")
            \/ /\ vosh[o] = "No" /\ now = "No" /\ o \notin AgreesTo
               /\ Adds(toGame, toGame', o, Offers, "no")
        BY <1>3, <2>3, <3>1
      <4>2. vosh[o] \in Side /\ Takes(toVosh, toVosh', o, Requests, "yes")
        BY <1>1, <2>1, <2>4, <3>1
      <4> QED
        BY <2>5, <4>1, <4>2, VoshReadsYes
    <3>2. CASE v = "DONT"
      BY <1>1, <1>3, <2>1, <2>3, <2>4, <2>5, <3>2, VoshReadsNo
    <3> QED
      BY <3>1, <3>2 DEF Requests
  <2>7. VoshSide(o)'
    BY <2>4, <2>6 DEF VoshSide
  <2>8. ServerSide(o)'
    BY <2>2, OthersAgree DEF ServerSide
  <2> QED
    BY <2>7, <2>8
<1> QED
  BY <1>2, <1>3

\* The game offers, stops, or hears a request: of what it does and what is on
\* its way, only what is about p changes.
LEMMA GameTurnsIt ==
  ASSUME server \in [Opts -> Side], vosh \in [Opts -> Side],
         does \in [Opts -> GameSide],
         \A o \in Opts : ServerSide(o) /\ VoshSide(o),
         NEW p \in Opts, NEW now,
         does' = [does EXCEPT ![p] = now],
         UNCHANGED <<server, vosh, lets, eager>>,
         \/ /\ Tells(toVosh, toVosh', p, "WILL") /\ toGame' = toGame
            /\ IF eager THEN now = "Yes" ELSE does[p] = "No" /\ now = "WantYes"
         \/ /\ Tells(toVosh, toVosh', p, "WONT") /\ toGame' = toGame
            /\ does[p] = "Yes" /\ now = IF eager THEN "No" ELSE "WantNo"
         \/ /\ Hears(toGame, toGame', p, "DO")
            /\ \/ /\ eager \/ does[p] = "No"
                  /\ now = "Yes" /\ Tells(toVosh, toVosh', p, "WILL")
               \/ /\ ~eager /\ does[p] = "No"
                  /\ now = "No" /\ Tells(toVosh, toVosh', p, "WONT")
               \/ /\ ~eager /\ does[p] # "No" /\ toVosh' = toVosh
                  /\ now = IF does[p] = "WantNo" THEN "No" ELSE "Yes"
         \/ /\ Hears(toGame, toGame', p, "DONT") /\ now = "No"
            /\ IF ~eager /\ does[p] = "Yes" THEN Tells(toVosh, toVosh', p, "WONT")
               ELSE toVosh' = toVosh
  PROVE  \A o \in Opts : ServerSide(o)' /\ VoshSide(o)'
<1> USE DEF Kinds
<1>1. /\ Offers \in Kinds /\ Requests \in Kinds
      /\ {"WILL", "WONT"} \subseteq Offers /\ {"DO", "DONT"} \subseteq Requests
      /\ Offers \cap Requests = {}
      /\ Means("WILL") = "yes" /\ Means("WONT") = "no"
      /\ Means("DO") = "yes" /\ Means("DONT") = "no"
  BY DEF Offers, Requests, Means
<1>2. /\ toGame' = toGame => Nothing(toGame, toGame')
      /\ toVosh' = toVosh => Nothing(toVosh, toVosh')
  BY NothingSaid
<1> SUFFICES ASSUME NEW o \in Opts PROVE ServerSide(o)' /\ VoshSide(o)'
  OBVIOUS
<1>3. CASE o # p
  <2>1. \A V \in Kinds : Same(toVosh, toVosh', o, V)
    BY <1>2, <1>3 DEF Tells, Nothing
  <2>2. \A V \in Kinds : Same(toGame, toGame', o, V)
    BY <1>2, <1>3 DEF Hears, Nothing
  <2> QED
    BY <1>3, <2>1, <2>2, Untouched
<1>4. CASE o = p
  <2>1. Same(toVosh, toVosh', o, Requests)
    BY <1>1, <1>2, <1>4 DEF Tells, Nothing
  <2>2. Same(toGame, toGame', o, Offers)
    BY <1>1, <1>2, <1>4 DEF Hears, Nothing
  <2>3. /\ Tells(toVosh, toVosh', p, "WILL") => Adds(toVosh, toVosh', o, Offers, "yes")
        /\ Tells(toVosh, toVosh', p, "WONT") => Adds(toVosh, toVosh', o, Offers, "no")
    BY <1>1, <1>4 DEF Tells
  <2>4. /\ Hears(toGame, toGame', p, "DO") => Takes(toGame, toGame', o, Requests, "yes")
        /\ Hears(toGame, toGame', p, "DONT") => Takes(toGame, toGame', o, Requests, "no")
    BY <1>1, <1>4 DEF Hears
  <2>5. server[o] \in Side /\ does'[o] = now
    BY <1>4
  <2>6. Agreeing(eager, server[o], does[o], toVosh, toGame, o, Offers, Requests,
                 o \in WantsServer)
    BY DEF ServerSide
  <2>7. Agreeing(eager, server[o], now, toVosh', toGame', o, Offers, Requests,
                 o \in WantsServer)
    <3>1. CASE /\ Tells(toVosh, toVosh', p, "WILL") /\ toGame' = toGame
               /\ IF eager THEN now = "Yes" ELSE does[p] = "No" /\ now = "WantYes"
      BY <1>4, <2>3, <2>5, <2>6, <3>1, GameSaysYes
    <3>2. CASE /\ Tells(toVosh, toVosh', p, "WONT") /\ toGame' = toGame
               /\ does[p] = "Yes" /\ now = IF eager THEN "No" ELSE "WantNo"
      BY <1>4, <2>3, <2>5, <2>6, <3>2, GameSaysNo
    <3>3. CASE /\ Hears(toGame, toGame', p, "DO")
               /\ \/ /\ eager \/ does[p] = "No"
                     /\ now = "Yes" /\ Tells(toVosh, toVosh', p, "WILL")
                  \/ /\ ~eager /\ does[p] = "No"
                     /\ now = "No" /\ Tells(toVosh, toVosh', p, "WONT")
                  \/ /\ ~eager /\ does[p] # "No" /\ toVosh' = toVosh
                     /\ now = IF does[p] = "WantNo" THEN "No" ELSE "Yes"
      <4>1. \/ /\ eager \/ does[o] = "No"
               /\ now = "Yes" /\ Adds(toVosh, toVosh', o, Offers, "yes")
            \/ /\ ~eager /\ does[o] = "No"
               /\ now = "No" /\ Adds(toVosh, toVosh', o, Offers, "no")
            \/ /\ ~eager /\ does[o] # "No" /\ toVosh' = toVosh
               /\ now = IF does[o] = "WantNo" THEN "No" ELSE "Yes"
        BY <1>4, <2>3, <2>6, <3>3 
      <4>2. Takes(toGame, toGame', o, Requests, "yes")
        BY <2>4, <3>3
      <4> QED
        <5>1. CASE (eager \/ does[o] = "No") /\ now = "Yes"
          BY <2>5, <2>6, <4>1, <4>2, <5>1, GameHearsYes
        <5>2. CASE ~eager /\ does[o] = "No" /\ now = "No"
          BY <2>5, <2>6, <4>1, <4>2, <5>2, GameHearsYes
        <5>3. CASE ~eager /\ does[o] # "No"
          BY <2>5, <2>6, <4>1, <4>2, <5>3, GameHearsYes
        <5> QED
          BY <4>1, <5>1, <5>2, <5>3
    <3>4. CASE /\ Hears(toGame, toGame', p, "DONT") /\ now = "No"
               /\ IF ~eager /\ does[p] = "Yes" THEN Tells(toVosh, toVosh', p, "WONT")
                  ELSE toVosh' = toVosh
      BY <1>4, <2>4, <2>5, <2>6, <3>4, GameHearsNo
    <3> QED
      BY <3>1, <3>2, <3>3, <3>4
  <2>8. ServerSide(o)'
    BY <2>5, <2>7 DEF ServerSide
  <2>9. VoshSide(o)'
    BY <2>1, <2>2, OthersAgree DEF VoshSide
  <2> QED
    BY <2>8, <2>9
<1> QED
  BY <1>3, <1>4

\* The game asks, forbids, or hears an offer.  An eager one that asks takes
\* nothing on yet.
LEMMA GameTakesIt ==
  ASSUME server \in [Opts -> Side], vosh \in [Opts -> Side],
         lets \in [Opts -> GameSide],
         \A o \in Opts : ServerSide(o) /\ VoshSide(o),
         NEW p \in Opts, NEW now,
         lets' = [lets EXCEPT ![p] = now],
         UNCHANGED <<server, vosh, does, eager>>,
         \/ /\ Tells(toVosh, toVosh', p, "DO") /\ toGame' = toGame
            /\ IF eager THEN now = lets[p] ELSE lets[p] = "No" /\ now = "WantYes"
         \/ /\ Tells(toVosh, toVosh', p, "DONT") /\ toGame' = toGame
            /\ lets[p] = "Yes" /\ now = IF eager THEN "No" ELSE "WantNo"
         \/ /\ Hears(toGame, toGame', p, "WILL")
            /\ now = IF lets[p] = "WantNo" THEN "No" ELSE "Yes"
            /\ IF eager \/ lets[p] = "No" THEN Tells(toVosh, toVosh', p, "DO")
               ELSE toVosh' = toVosh
         \/ /\ Hears(toGame, toGame', p, "WONT") /\ now = "No"
            /\ IF ~eager /\ lets[p] = "Yes" THEN Tells(toVosh, toVosh', p, "DONT")
               ELSE toVosh' = toVosh
  PROVE  \A o \in Opts : ServerSide(o)' /\ VoshSide(o)'
<1> USE DEF Kinds
<1>1. /\ Offers \in Kinds /\ Requests \in Kinds
      /\ {"DO", "DONT"} \subseteq Requests /\ {"WILL", "WONT"} \subseteq Offers
      /\ Requests \cap Offers = {}
      /\ Means("DO") = "yes" /\ Means("DONT") = "no"
      /\ Means("WILL") = "yes" /\ Means("WONT") = "no"
  BY DEF Offers, Requests, Means
<1>2. /\ toGame' = toGame => Nothing(toGame, toGame')
      /\ toVosh' = toVosh => Nothing(toVosh, toVosh')
  BY NothingSaid
<1> SUFFICES ASSUME NEW o \in Opts PROVE ServerSide(o)' /\ VoshSide(o)'
  OBVIOUS
<1>3. CASE o # p
  <2>1. \A V \in Kinds : Same(toVosh, toVosh', o, V)
    BY <1>2, <1>3 DEF Tells, Nothing
  <2>2. \A V \in Kinds : Same(toGame, toGame', o, V)
    BY <1>2, <1>3 DEF Hears, Nothing
  <2> QED
    BY <1>3, <2>1, <2>2, Untouched
<1>4. CASE o = p
  <2>1. Same(toVosh, toVosh', o, Offers)
    BY <1>1, <1>2, <1>4 DEF Tells, Nothing
  <2>2. Same(toGame, toGame', o, Requests)
    BY <1>1, <1>2, <1>4 DEF Hears, Nothing
  <2>3. /\ Tells(toVosh, toVosh', p, "DO") => Adds(toVosh, toVosh', o, Requests, "yes")
        /\ Tells(toVosh, toVosh', p, "DONT") => Adds(toVosh, toVosh', o, Requests, "no")
    BY <1>1, <1>4 DEF Tells
  <2>4. /\ Hears(toGame, toGame', p, "WILL") => Takes(toGame, toGame', o, Offers, "yes")
        /\ Hears(toGame, toGame', p, "WONT") => Takes(toGame, toGame', o, Offers, "no")
    BY <1>1, <1>4 DEF Hears
  <2>5. vosh[o] \in Side /\ lets'[o] = now
    BY <1>4
  <2>6. Agreeing(eager, vosh[o], lets[o], toVosh, toGame, o, Requests, Offers,
                 o \in AgreesTo)
    BY DEF VoshSide
  <2>7. Agreeing(eager, vosh[o], now, toVosh', toGame', o, Requests, Offers,
                 o \in AgreesTo)
    <3>1. CASE /\ Tells(toVosh, toVosh', p, "DO") /\ toGame' = toGame
               /\ IF eager THEN now = lets[p] ELSE lets[p] = "No" /\ now = "WantYes"
      BY <1>4, <2>3, <2>5, <2>6, <3>1, GameSaysYes
    <3>2. CASE /\ Tells(toVosh, toVosh', p, "DONT") /\ toGame' = toGame
               /\ lets[p] = "Yes" /\ now = IF eager THEN "No" ELSE "WantNo"
      BY <1>4, <2>3, <2>5, <2>6, <3>2, GameSaysNo
    <3>3. CASE /\ Hears(toGame, toGame', p, "WILL")
               /\ now = IF lets[p] = "WantNo" THEN "No" ELSE "Yes"
               /\ IF eager \/ lets[p] = "No" THEN Tells(toVosh, toVosh', p, "DO")
                  ELSE toVosh' = toVosh
      <4>1. \/ /\ eager \/ lets[o] = "No"
               /\ now = "Yes" /\ Adds(toVosh, toVosh', o, Requests, "yes")
            \/ /\ ~eager /\ lets[o] = "No"
               /\ now = "No" /\ Adds(toVosh, toVosh', o, Requests, "no")
            \/ /\ ~eager /\ lets[o] # "No" /\ toVosh' = toVosh
               /\ now = IF lets[o] = "WantNo" THEN "No" ELSE "Yes"
        BY <1>4, <2>3, <2>6, <3>3 DEF Agreeing, Eager
      <4>2. Takes(toGame, toGame', o, Offers, "yes")
        BY <2>4, <3>3
      <4> QED
        <5>1. CASE (eager \/ lets[o] = "No") /\ now = "Yes"
          BY <2>5, <2>6, <4>1, <4>2, <5>1, GameHearsYes
        <5>2. CASE ~eager /\ lets[o] = "No" /\ now = "No"
          BY <2>5, <2>6, <4>1, <4>2, <5>2, GameHearsYes
        <5>3. CASE ~eager /\ lets[o] # "No"
          BY <2>5, <2>6, <4>1, <4>2, <5>3, GameHearsYes
        <5> QED
          BY <4>1, <5>1, <5>2, <5>3
    <3>4. CASE /\ Hears(toGame, toGame', p, "WONT") /\ now = "No"
               /\ IF ~eager /\ lets[p] = "Yes" THEN Tells(toVosh, toVosh', p, "DONT")
                  ELSE toVosh' = toVosh
      BY <1>4, <2>4, <2>5, <2>6, <3>4, GameHearsNo
    <3> QED
      BY <3>1, <3>2, <3>3, <3>4
  <2>8. VoshSide(o)'
    BY <2>5, <2>7 DEF VoshSide
  <2>9. ServerSide(o)'
    BY <2>1, <2>2, OthersAgree DEF ServerSide
  <2> QED
    BY <2>8, <2>9
<1> QED
  BY <1>3, <1>4

-----------------------------------------------------------------------------
(* The type of every variable.                                             *)

\* What Vosh writes in answer to WILL and DO.
LEMMA AnswersMade ==
  ASSUME TypeOK, NEW p \in Opts
  PROVE  /\ AnswerWill(p) \in Seq(Messages) /\ Announce(p) \in Seq(Messages)
         /\ AnswerDo(p) \in Seq(Messages)
<1>1. /\ \A v \in Verbs : Msg(v, p) \in Messages
      /\ Hello \in Messages /\ NawsOf(size) \in Messages
  BY MessageMade DEF TypeOK
<1>2. AnswerWill(p) \in Seq(Messages)
  BY <1>1 DEF AnswerWill, Verbs
<1>3. Announce(p) \in Seq(Messages)
  BY <1>1 DEF Announce
<1>4. AnswerDo(p) \in Seq(Messages)
  BY <1>1 DEF AnswerDo, Verbs
<1> QED
  BY <1>2, <1>3, <1>4

\* Only one message has the verb SEND, and one the verb HELLO.
LEMMA SendRead ==
  ASSUME NEW m \in Messages
  PROVE  /\ m.verb = "SEND" <=> m = SendName
         /\ m.verb = "HELLO" <=> m = Hello
         /\ m.verb = "NAWS" <=> m \in SizesTold
         /\ m.verb = "NAWS" => m = NawsOf(m.size)
         /\ m.verb = "IS" <=> m \in NamesTold
         /\ m.verb = "IS" => m = NameIs(m.slot)
         /\ m \in GmcpAsked <=> m.verb = "DO" /\ m.opt = "GMCP"
  BY DEF Messages, Verbs, SendName, Hello, SizesTold, NamesTold, NawsOf, NameIs, GmcpAsked, Msg

LEMMA TypeDial ==
  ASSUME TypeOK,
         SocketOpens \/ PutSlot \/ PagePushes \/ \E s \in Sizes : ReachSlot(s) \/ Resize(s)
  PROVE  TypeOK'
<1>1. CASE SocketOpens
  <2>1. toGame' \in Seq(Messages)
    BY <1>1, MessageMade DEF SocketOpens, TypeOK, Verbs, Opts
  <2> QED
    BY <1>1, <2>1 DEF SocketOpens, TypeOK, gameVars
<1>2. CASE PutSlot
  BY <1>2 DEF PutSlot, TypeOK, gameVars
<1>3. CASE PagePushes
  BY <1>3 DEF PagePushes, TellSize, TypeOK, gameVars
<1>4. ASSUME NEW s \in Sizes, ReachSlot(s) PROVE TypeOK'
  <2>1. queue' \in Seq(Sizes)
    BY <1>4 DEF ReachSlot, TypeOK
  <2> QED
    BY <1>4, <2>1 DEF ReachSlot, TypeOK, gameVars
<1>5. ASSUME NEW s \in Sizes, Resize(s) PROVE TypeOK'
  <2>1. resizes' \in 0 .. Resizes
    BY <1>5, TelnetAssumption DEF Resize, TypeOK
  <2> QED
    BY <1>5, <2>1 DEF Resize, TellSize, TypeOK, gameVars
<1> QED
  BY <1>1, <1>2, <1>3, <1>4, <1>5

LEMMA TypeVosh ==
  ASSUME TInv, Vosh PROVE TypeOK'
<1> USE DEF TInv
<1>1. ASSUME NEW v, VoshReads(v)
      PROVE  /\ toVosh' \in Seq(Messages)
             /\ v \in Verbs => Head(toVosh).opt \in Opts
  BY <1>1, Reads, MessageForm DEF VoshReads, TypeOK
<1>2. CASE LoopTakesSize
  <2>1. Head(queue) \in Sizes /\ Tail(queue) \in Seq(Sizes)
    BY <1>2 DEF LoopTakesSize, TypeOK
  <2>2. toGame' \in Seq(Messages)
    BY <1>2, <2>1, MessageMade DEF LoopTakesSize, TypeOK
  <2> QED
    BY <1>2, <2>1, <2>2 DEF LoopTakesSize, TypeOK, gameVars
<1>3. CASE RespondWill
  <2>1. toVosh' \in Seq(Messages) /\ Head(toVosh).opt \in Opts
    BY <1>1, <1>3 DEF RespondWill, Verbs
  <2>2. toGame' \in Seq(Messages)
    BY <1>3, <2>1, AnswersMade DEF RespondWill, TypeOK
  <2>3. server' \in [Opts -> Side] /\ held' \in BOOLEAN
    BY <1>3, <2>1 DEF RespondWill, TypeOK, Side
  <2> QED
    BY <1>3, <2>1, <2>2, <2>3 DEF RespondWill, VoshReads, TypeOK, gameVars
<1>4. CASE RespondWont
  <2>1. toVosh' \in Seq(Messages) /\ Head(toVosh).opt \in Opts
    BY <1>1, <1>4 DEF RespondWont, Verbs
  <2>2. toGame' \in Seq(Messages)
    BY <1>4, <2>1, MessageMade DEF RespondWont, TypeOK, Verbs
  <2>3. server' \in [Opts -> Side] /\ held' \in BOOLEAN
    BY <1>4, <2>1 DEF RespondWont, TypeOK, Side
  <2> QED
    BY <1>4, <2>1, <2>2, <2>3 DEF RespondWont, VoshReads, TypeOK, gameVars
<1>5. CASE RespondDo
  <2>1. toVosh' \in Seq(Messages) /\ Head(toVosh).opt \in Opts
    BY <1>1, <1>5 DEF RespondDo, Verbs
  <2>2. toGame' \in Seq(Messages)
    BY <1>5, <2>1, AnswersMade DEF RespondDo, TypeOK
  <2>3. vosh' \in [Opts -> {"No", "Yes"}]
    BY <1>5, <2>1 DEF RespondDo, TypeOK
  <2> QED
    BY <1>5, <2>1, <2>2, <2>3 DEF RespondDo, VoshReads, TypeOK, gameVars
<1>6. CASE RespondDont
  <2>1. toVosh' \in Seq(Messages) /\ Head(toVosh).opt \in Opts
    BY <1>1, <1>6 DEF RespondDont, Verbs
  <2>2. toGame' \in Seq(Messages)
    BY <1>6, <2>1, MessageMade DEF RespondDont, TypeOK, Verbs
  <2>3. vosh' \in [Opts -> {"No", "Yes"}]
    BY <1>6, <2>1 DEF RespondDont, TypeOK
  <2> QED
    BY <1>6, <2>1, <2>2, <2>3 DEF RespondDont, VoshReads, TypeOK, gameVars
<1>7. CASE RespondTtype
  <2>1. toVosh' \in Seq(Messages)
    BY <1>1, <1>7 DEF RespondTtype
  <2>2. cycle' \in 0 .. 4
    <3>1. 1 \in 1 .. Len(toVosh) /\ toVosh[1] = SendName
      BY <1>7, SendRead DEF RespondTtype, VoshReads, TypeOK
    <3>2. Len(names) <= 3 /\ cycle = Len(names)
      BY <3>1 DEF NamesSent, Free
    <3>3. Len(names) \in Nat
      BY DEF TypeOK
    <3> QED
      BY <1>7, <3>2, <3>3 DEF RespondTtype
  <2>3. toGame' \in Seq(Messages)
    <3>1. NameSlot \in 0 .. 2
      BY DEF NameSlot, TypeOK
    <3> QED
      BY <1>7, <3>1, MessageMade DEF RespondTtype, TypeOK
  <2> QED
    BY <1>7, <2>1, <2>2, <2>3 DEF RespondTtype, VoshReads, TypeOK, gameVars
<1> QED
  BY <1>2, <1>3, <1>4, <1>5, <1>6, <1>7 DEF Vosh

LEMMA TypeGame ==
  ASSUME TypeOK, Game PROVE TypeOK'
<1>1. ASSUME NEW v, GameReads(v)
      PROVE  /\ toGame' \in Seq(Messages) /\ Head(toGame) \in Messages
             /\ Head(toGame).verb = v
  BY <1>1, Reads DEF GameReads, TypeOK
<1>2. \A v \in Verbs, o \in Opts : Append(toVosh, Msg(v, o)) \in Seq(Messages)
  BY Told DEF TypeOK
<1>3. CASE GameHearsDo
  <2>1. toGame' \in Seq(Messages) /\ Head(toGame).opt \in Opts
    BY <1>1, <1>3, MessageForm DEF GameHearsDo, Verbs
  <2>2. toVosh' \in Seq(Messages)
    BY <1>2, <1>3, <2>1 DEF GameHearsDo, Says, TypeOK, Verbs
  <2>3. does' \in [Opts -> GameSide]
    BY <1>3, <2>1 DEF GameHearsDo, TypeOK, Side, GameSide
  <2>4. hello' \in BOOLEAN
    BY <1>3 DEF GameHearsDo, TypeOK
  <2> QED
    BY <1>3, <2>1, <2>2, <2>3, <2>4 DEF GameHearsDo, GameReads, TypeOK, voshVars
<1>4. CASE GameHearsDont
  <2>1. toGame' \in Seq(Messages) /\ Head(toGame).opt \in Opts
    BY <1>1, <1>4, MessageForm DEF GameHearsDont, Verbs
  <2>2. toVosh' \in Seq(Messages) /\ does' \in [Opts -> GameSide]
    BY <1>2, <1>4, <2>1 DEF GameHearsDont, Says, TypeOK, Side, GameSide, Verbs
  <2> QED
    BY <1>4, <2>1, <2>2 DEF GameHearsDont, GameReads, TypeOK, voshVars
<1>5. CASE GameHearsWill
  <2>1. toGame' \in Seq(Messages) /\ Head(toGame).opt \in Opts
    BY <1>1, <1>5, MessageForm DEF GameHearsWill, Verbs
  <2>2. toVosh' \in Seq(Messages) /\ lets' \in [Opts -> GameSide]
    BY <1>2, <1>5, <2>1 DEF GameHearsWill, Says, TypeOK, Side, GameSide, Verbs
  <2> QED
    BY <1>5, <2>1, <2>2 DEF GameHearsWill, GameReads, TypeOK, voshVars
<1>6. CASE GameHearsWont
  <2>1. toGame' \in Seq(Messages) /\ Head(toGame).opt \in Opts
    BY <1>1, <1>6, MessageForm DEF GameHearsWont, Verbs
  <2>2. toVosh' \in Seq(Messages) /\ lets' \in [Opts -> GameSide]
    BY <1>2, <1>6, <2>1 DEF GameHearsWont, Says, TypeOK, Side, GameSide, Verbs
  <2> QED
    BY <1>6, <2>1, <2>2 DEF GameHearsWont, GameReads, TypeOK, voshVars
<1>7. CASE GameHearsSize
  <2>1. toGame' \in Seq(Messages) /\ heardSize' \in Sizes
    BY <1>1, <1>7, MessageForm DEF GameHearsSize
  <2> QED
    BY <1>7, <2>1 DEF GameHearsSize, GameReads, TypeOK, voshVars
<1>8. CASE GameHearsHello
  <2>1. toGame' \in Seq(Messages)
    BY <1>1, <1>8 DEF GameHearsHello
  <2> QED
    BY <1>8, <2>1 DEF GameHearsHello, GameReads, TypeOK, voshVars
<1>9. CASE GameHearsName
  <2>1. toGame' \in Seq(Messages) /\ Head(toGame).slot \in 0 .. 2
    BY <1>1, <1>9, MessageForm DEF GameHearsName
  <2>2. names' \in Seq(0 .. 2)
    BY <1>9, <2>1 DEF GameHearsName, TypeOK
  <2> QED
    BY <1>9, <2>1, <2>2 DEF GameHearsName, GameReads, TypeOK, voshVars
<1>10. CASE GameAsksName
  <2>1. toVosh' \in Seq(Messages)
    BY <1>10, MessageMade DEF GameAsksName, TypeOK
  <2> QED
    BY <1>10, <2>1 DEF GameAsksName, TypeOK, voshVars, gameVars
<1> QED
  BY <1>3, <1>4, <1>5, <1>6, <1>7, <1>8, <1>9, <1>10 DEF Game

LEMMA TypeStarts ==
  ASSUME TypeOK, NEW o \in Opts,
         GameOffers(o) \/ GameStops(o) \/ GameAsks(o) \/ GameForbids(o)
  PROVE  TypeOK'
<1>1. ASSUME NEW v \in Verbs, GameStarts(v, o)
      PROVE  toVosh' \in Seq(Messages) /\ starts' \in 0 .. Starts
  BY <1>1, Told, TelnetAssumption DEF GameStarts, TypeOK
<1>2. toVosh' \in Seq(Messages) /\ starts' \in 0 .. Starts
  BY <1>1 DEF GameOffers, GameStops, GameAsks, GameForbids, Verbs
<1>3. does' \in [Opts -> GameSide] /\ lets' \in [Opts -> GameSide]
  BY DEF GameOffers, GameStops, GameAsks, GameForbids, TypeOK, Side, GameSide
<1> QED
  BY <1>2, <1>3
  DEF GameOffers, GameStops, GameAsks, GameForbids, GameStarts, TypeOK, voshVars

LEMMA TypeStep ==
  ASSUME TInv, [Next]_vars PROVE TypeOK'
<1>1. CASE UNCHANGED vars
  BY <1>1 DEF vars, voshVars, gameVars, TypeOK, TInv
<1>2. CASE Next
  BY <1>2, TypeDial, TypeVosh, TypeGame, TypeStarts DEF Next, Dial, Freely, TInv
<1> QED
  BY <1>1, <1>2

LEMMA TypeInit == Init => TypeOK
<1> SUFFICES ASSUME Init PROVE TypeOK
  OBVIOUS
<1>1. /\ server \in [Opts -> Side] /\ vosh \in [Opts -> {"No", "Yes"}]
      /\ does \in [Opts -> GameSide] /\ lets \in [Opts -> GameSide]
  BY DEF Init, Side, GameSide
<1>2. /\ queue \in Seq(Sizes) /\ toGame \in Seq(Messages) /\ toVosh \in Seq(Messages)
      /\ names \in Seq(0 .. 2)
  BY DEF Init
<1>3. starts \in 0 .. Starts /\ resizes \in 0 .. Resizes /\ cycle \in 0 .. 4
  BY TelnetAssumption DEF Init
<1> QED
  BY <1>1, <1>2, <1>3 DEF Init, TypeOK

-----------------------------------------------------------------------------
(* Both sides of every option, action by action.                           *)

BothSides == \A o \in Opts : ServerSide(o) /\ VoshSide(o)

\* Before the socket opens nothing is on its way: who reads, reads later.
LEMMA SidesOpen ==
  ASSUME TInv, stage # "dial" PROVE BothSides
  BY DEF TInv, Sides, BothSides

LEMMA ChansOf == TypeOK => Chans
  BY DEF TypeOK, Chans

\* A step that only sends Hello, a size or a name, or reads one.
LEMMA SidesQuiet ==
  ASSUME BothSides, UNCHANGED <<server, vosh, does, lets, eager>>,
         Nothing(toVosh, toVosh'), Nothing(toGame, toGame')
  PROVE  BothSides'
<1> SUFFICES ASSUME NEW o \in Opts PROVE ServerSide(o)' /\ VoshSide(o)'
  BY DEF BothSides
<1>1. \A V \in Kinds : Same(toVosh, toVosh', o, V) /\ Same(toGame, toGame', o, V)
  BY DEF Nothing
<1> QED
  BY <1>1, Untouched DEF BothSides, Kinds

LEMMA VoshHeard ==
  ASSUME TypeOK, NEW verb \in Verbs, VoshReads(verb)
  PROVE  /\ Head(toVosh).opt \in Opts
         /\ Hears(toVosh, toVosh', Head(toVosh).opt, verb)
         /\ stage # "dial"
  BY HeadHeard, ChansOf DEF Chans, VoshReads

LEMMA GameHeard ==
  ASSUME TypeOK, NEW verb \in Verbs, GameReads(verb)
  PROVE  /\ Head(toGame).opt \in Opts
         /\ Hears(toGame, toGame', Head(toGame).opt, verb)
  BY HeadHeard, ChansOf DEF Chans, GameReads

\* What Vosh writes when it reads WILL.
LEMMA WillWrites ==
  ASSUME TypeOK, RespondWill, NEW p, p = Head(toVosh).opt
  PROVE  \E mid \in Seq(Messages) :
            /\ server[p] # "No" => mid = toGame
            /\ server[p] = "No" =>
                  mid = Append(toGame, Msg(IF p \in WantsServer THEN "DO" ELSE "DONT", p))
            /\ toGame' = IF p = "GMCP" /\ server[p] # "Yes" THEN Append(mid, Hello)
                         ELSE mid
<1>1. p \in Opts /\ toGame \in Seq(Messages)
  BY VoshHeard DEF RespondWill, Verbs, TypeOK
<1> DEFINE mid == toGame \o AnswerWill(p)
<1>2. /\ server[p] # "No" => mid = toGame
      /\ server[p] = "No" =>
            mid = Append(toGame, Msg(IF p \in WantsServer THEN "DO" ELSE "DONT", p))
      /\ mid \in Seq(Messages)
  BY <1>1, MessageMade DEF AnswerWill, Verbs
<1>3. toGame' = mid \o Announce(p)
  BY <1>1 DEF RespondWill
<1>4. \A c \in Seq(Messages) : c \o <<>> = c /\ c \o <<Hello>> = Append(c, Hello)
  BY MessageMade
<1> HIDE DEF mid
<1>5. toGame' = IF p = "GMCP" /\ server[p] # "Yes" THEN Append(mid, Hello) ELSE mid
  BY <1>2, <1>3, <1>4 DEF Announce
<1> QED
  BY <1>2, <1>5

LEMMA WillSides ==
  ASSUME TInv, RespondWill PROVE BothSides'
<1>1. PICK p \in Opts : /\ p = Head(toVosh).opt
                        /\ Hears(toVosh, toVosh', p, "WILL")
  BY VoshHeard DEF RespondWill, Verbs, TInv
<1>2. BothSides /\ server \in [Opts -> Side] /\ toGame \in Seq(Messages)
  BY VoshHeard, SidesOpen DEF RespondWill, Verbs, TInv, TypeOK
<1> DEFINE now == IF p \in WantsServer \/ server[p] # "No" THEN "Yes" ELSE "No"
<1>3. server' = [server EXCEPT ![p] = now] /\ UNCHANGED <<vosh, does, lets, eager>>
  BY <1>1, <1>2 DEF RespondWill, VoshReads, gameVars
<1>4. PICK mid \in Seq(Messages) :
        /\ server[p] # "No" => mid = toGame
        /\ server[p] = "No" =>
              mid = Append(toGame, Msg(IF p \in WantsServer THEN "DO" ELSE "DONT", p))
        /\ toGame' = IF p = "GMCP" /\ server[p] # "Yes" THEN Append(mid, Hello)
                     ELSE mid
  BY <1>1, WillWrites DEF TInv
<1>5. Nothing(mid, toGame')
  BY <1>4, NothingSaid, OtherTold, MessageMade, MessageSays DEF Verbs
<1>6. /\ server[p] # "No" => Nothing(toGame, toGame')
      /\ server[p] = "No" /\ p \in WantsServer => Tells(toGame, toGame', p, "DO")
      /\ server[p] = "No" /\ p \notin WantsServer => Tells(toGame, toGame', p, "DONT")
  BY <1>2, <1>4, <1>5, Told, NothingMore DEF Verbs
<1>7. \/ now = "Yes" /\ server[p] # "No" /\ Nothing(toGame, toGame')
      \/ /\ now = "Yes" /\ server[p] = "No" /\ p \in WantsServer
         /\ Tells(toGame, toGame', p, "DO")
      \/ /\ now = "No" /\ server[p] = "No" /\ p \notin WantsServer
         /\ Tells(toGame, toGame', p, "DONT")
  BY <1>6
<1> HIDE DEF now
<1> QED
  BY <1>1, <1>2, <1>3, <1>7, OfferHeard DEF BothSides, Offers

LEMMA WontSides ==
  ASSUME TInv, RespondWont PROVE BothSides'
<1>1. PICK p \in Opts : /\ p = Head(toVosh).opt
                        /\ Hears(toVosh, toVosh', p, "WONT")
  BY VoshHeard DEF RespondWont, Verbs, TInv
<1>2. BothSides /\ server \in [Opts -> Side] /\ toGame \in Seq(Messages)
  BY VoshHeard, SidesOpen DEF RespondWont, Verbs, TInv, TypeOK
<1>3. /\ server' = [server EXCEPT ![p] = "No"]
      /\ toGame' = IF server[p] = "Yes" THEN Append(toGame, Msg("DONT", p))
                   ELSE toGame
      /\ UNCHANGED <<vosh, does, lets, eager>>
  BY <1>1, <1>2 DEF RespondWont, VoshReads, gameVars
<1>4. /\ server[p] # "Yes" => Nothing(toGame, toGame')
      /\ server[p] = "Yes" => Tells(toGame, toGame', p, "DONT")
  BY <1>2, <1>3, Told, NothingSaid DEF Verbs
<1> QED
  BY <1>1, <1>2, <1>3, <1>4, OfferHeard DEF BothSides, Offers

\* What Vosh writes when it reads DO.
LEMMA DoWrites ==
  ASSUME TypeOK, RespondDo, NEW p, p = Head(toVosh).opt
  PROVE  \/ vosh[p] = "Yes" /\ toGame' = toGame
         \/ /\ vosh[p] = "No" /\ p \notin AgreesTo
            /\ toGame' = Append(toGame, Msg("WONT", p))
         \/ /\ vosh[p] = "No" /\ p \in AgreesTo /\ p # "NAWS"
            /\ toGame' = Append(toGame, Msg("WILL", p))
         \/ /\ vosh[p] = "No" /\ p \in AgreesTo /\ p = "NAWS"
            /\ toGame' = Append(Append(toGame, Msg("WILL", p)), NawsOf(size))
<1>1. /\ p \in Opts /\ vosh[p] \in {"No", "Yes"} /\ toGame \in Seq(Messages)
      /\ toGame' = toGame \o AnswerDo(p)
  BY VoshHeard DEF RespondDo, Verbs, TypeOK
<1>2. /\ Msg("WONT", p) \in Messages /\ Msg("WILL", p) \in Messages
      /\ NawsOf(size) \in Messages
  BY <1>1, MessageMade DEF Verbs, TypeOK
<1>3. \A m, n \in Messages :
        /\ toGame \o <<>> = toGame
        /\ toGame \o <<m>> = Append(toGame, m)
        /\ toGame \o <<m, n>> = Append(Append(toGame, m), n)
  BY <1>1
<1>4. \/ vosh[p] = "Yes" /\ AnswerDo(p) = <<>>
      \/ vosh[p] = "No" /\ p \notin AgreesTo /\ AnswerDo(p) = <<Msg("WONT", p)>>
      \/ /\ vosh[p] = "No" /\ p \in AgreesTo /\ p # "NAWS"
         /\ AnswerDo(p) = <<Msg("WILL", p)>>
      \/ /\ vosh[p] = "No" /\ p \in AgreesTo /\ p = "NAWS"
         /\ AnswerDo(p) = <<Msg("WILL", p), NawsOf(size)>>
  BY <1>1 DEF AnswerDo
<1> QED
  BY <1>1, <1>2, <1>3, <1>4

LEMMA DoSides ==
  ASSUME TInv, RespondDo PROVE BothSides'
<1>1. PICK p \in Opts : /\ p = Head(toVosh).opt
                        /\ Hears(toVosh, toVosh', p, "DO")
  BY VoshHeard DEF RespondDo, Verbs, TInv
<1>2. /\ BothSides /\ vosh \in [Opts -> {"No", "Yes"}]
      /\ toGame \in Seq(Messages) /\ size \in Sizes
  BY VoshHeard, SidesOpen DEF RespondDo, Verbs, TInv, TypeOK
<1> DEFINE now == IF p \in AgreesTo THEN "Yes" ELSE vosh[p]
<1>3. /\ vosh' = [vosh EXCEPT ![p] = now]
      /\ UNCHANGED <<server, does, lets, eager>>
  BY <1>1, <1>2 DEF RespondDo, VoshReads, gameVars
<1>4. /\ Tells(toGame, Append(toGame, Msg("WILL", p)), p, "WILL")
      /\ Tells(toGame, Append(toGame, Msg("WONT", p)), p, "WONT")
      /\ Append(toGame, Msg("WILL", p)) \in Seq(Messages)
  BY <1>2, Told DEF Verbs
<1>5. Nothing(Append(toGame, Msg("WILL", p)),
              Append(Append(toGame, Msg("WILL", p)), NawsOf(size)))
  BY <1>2, <1>4, OtherTold, MessageMade, MessageSays DEF Verbs
<1>6. Tells(toGame, Append(Append(toGame, Msg("WILL", p)), NawsOf(size)), p, "WILL")
  BY <1>4, <1>5, NothingMore
<1>7. /\ vosh[p] = "Yes" => Nothing(toGame, toGame')
      /\ vosh[p] = "No" /\ p \in AgreesTo => Tells(toGame, toGame', p, "WILL")
      /\ vosh[p] = "No" /\ p \notin AgreesTo => Tells(toGame, toGame', p, "WONT")
  BY <1>1, <1>4, <1>6, NothingSaid, DoWrites DEF TInv
<1>8. \/ now = "Yes" /\ vosh[p] # "No" /\ Nothing(toGame, toGame')
      \/ /\ now = "Yes" /\ vosh[p] = "No" /\ p \in AgreesTo
         /\ Tells(toGame, toGame', p, "WILL")
      \/ /\ now = "No" /\ vosh[p] = "No" /\ p \notin AgreesTo
         /\ Tells(toGame, toGame', p, "WONT")
  BY <1>2, <1>7
<1>9. vosh \in [Opts -> Side]
  BY <1>2 DEF Side
<1> HIDE DEF now
<1> QED
  BY <1>1, <1>2, <1>3, <1>8, <1>9, RequestHeard DEF BothSides, Requests

LEMMA DontSides ==
  ASSUME TInv, RespondDont PROVE BothSides'
<1>1. PICK p \in Opts : /\ p = Head(toVosh).opt
                        /\ Hears(toVosh, toVosh', p, "DONT")
  BY VoshHeard DEF RespondDont, Verbs, TInv
<1>2. /\ BothSides /\ vosh \in [Opts -> {"No", "Yes"}]
      /\ toGame \in Seq(Messages)
  BY VoshHeard, SidesOpen DEF RespondDont, Verbs, TInv, TypeOK
<1>3. /\ vosh' = [vosh EXCEPT ![p] = "No"]
      /\ toGame' = IF vosh[p] = "Yes" THEN Append(toGame, Msg("WONT", p))
                   ELSE toGame
      /\ UNCHANGED <<server, does, lets, eager>>
  BY <1>1, <1>2 DEF RespondDont, VoshReads, gameVars
<1>4. /\ vosh[p] # "Yes" => Nothing(toGame, toGame')
      /\ vosh[p] = "Yes" => Tells(toGame, toGame', p, "WONT")
  BY <1>2, <1>3, Told, NothingSaid DEF Verbs
<1>5. vosh \in [Opts -> Side]
  BY <1>2 DEF Side
<1> QED
  BY <1>1, <1>2, <1>3, <1>4, <1>5, RequestHeard DEF BothSides, Requests

\* Steps about no option.
LEMMA OtherSides ==
  ASSUME TInv, BothSides,
         \/ LoopTakesSize \/ RespondTtype \/ GameAsksName
         \/ GameHearsSize \/ GameHearsHello \/ GameHearsName
         \/ PutSlot \/ PagePushes \/ (\E s \in Sizes : ReachSlot(s) \/ Resize(s))
  PROVE  BothSides'
<1>1. Chans /\ queue \in Seq(Sizes) /\ cycle \in Nat
  BY DEF TInv, TypeOK, Chans
<1>2. toGame' = toGame => Nothing(toGame, toGame')
  BY NothingSaid
<1>3. toVosh' = toVosh => Nothing(toVosh, toVosh')
  BY NothingSaid
<1>4. CASE LoopTakesSize
  <2>1. Head(queue) \in Sizes
    BY <1>1, <1>4 DEF LoopTakesSize
  <2>2. Nothing(toGame, toGame')
    BY <1>1, <1>2, <1>4, <2>1, OtherTold, MessageMade, MessageSays
    DEF LoopTakesSize, Verbs, Chans
  <2> QED
    BY <1>3, <1>4, <2>2, SidesQuiet DEF LoopTakesSize, gameVars
<1>5. CASE RespondTtype
  <2>1. NameSlot \in 0 .. 2
    BY <1>1 DEF NameSlot
  <2>2. Nothing(toGame, toGame')
    BY <1>1, <1>5, <2>1, OtherTold, MessageMade, MessageSays
    DEF RespondTtype, Verbs, Chans
  <2>3. Nothing(toVosh, toVosh')
    BY <1>1, <1>5, OtherHeard DEF RespondTtype, VoshReads, Verbs, Chans
  <2> QED
    BY <1>5, <2>2, <2>3, SidesQuiet DEF RespondTtype, VoshReads, gameVars
<1>6. CASE GameAsksName
  <2>1. Nothing(toVosh, toVosh')
    BY <1>1, <1>6, OtherTold, MessageMade, MessageSays DEF GameAsksName, Verbs, Chans
  <2> QED
    BY <1>2, <1>6, <2>1, SidesQuiet DEF GameAsksName, gameVars, voshVars
<1>7. CASE GameHearsSize \/ GameHearsHello \/ GameHearsName
  <2>1. Nothing(toGame, toGame')
    BY <1>1, <1>7, OtherHeard
    DEF GameHearsSize, GameHearsHello, GameHearsName, GameReads, Verbs, Chans
  <2> QED
    BY <1>3, <1>7, <2>1, SidesQuiet
    DEF GameHearsSize, GameHearsHello, GameHearsName, GameReads, voshVars
<1>8. CASE PutSlot \/ PagePushes \/ (\E s \in Sizes : ReachSlot(s) \/ Resize(s))
  BY <1>2, <1>3, <1>8, SidesQuiet
  DEF PutSlot, PagePushes, ReachSlot, Resize, TellSize, gameVars
<1> QED
  BY <1>4, <1>5, <1>6, <1>7, <1>8

\* What the game does and says by itself about an option.
LEMMA StartSides ==
  ASSUME TInv, NEW p \in Opts,
         GameOffers(p) \/ GameStops(p) \/ GameAsks(p) \/ GameForbids(p)
  PROVE  BothSides'
<1>1. /\ BothSides /\ toVosh \in Seq(Messages)
      /\ server \in [Opts -> Side] /\ vosh \in [Opts -> Side]
      /\ does \in [Opts -> GameSide] /\ lets \in [Opts -> GameSide]
  BY SidesOpen
  DEF GameOffers, GameStops, GameAsks, GameForbids, GameStarts, TInv, TypeOK, Side
<1>2. \A v \in Verbs : Tells(toVosh, Append(toVosh, Msg(v, p)), p, v)
  BY <1>1, Told
<1>3. CASE GameOffers(p) \/ GameStops(p)
  <2> DEFINE now == does'[p]
  <2>1. /\ toGame' = toGame /\ UNCHANGED <<server, vosh, lets, eager>>
        /\ does' = [does EXCEPT ![p] = now]
    BY <1>1, <1>3 DEF GameOffers, GameStops, GameStarts, voshVars
  <2>2. \/ /\ Tells(toVosh, toVosh', p, "WILL")
           /\ IF eager THEN now = "Yes" ELSE does[p] = "No" /\ now = "WantYes"
        \/ /\ Tells(toVosh, toVosh', p, "WONT")
           /\ does[p] = "Yes" /\ now = IF eager THEN "No" ELSE "WantNo"
    BY <1>1, <1>2, <1>3 DEF GameOffers, GameStops, GameStarts, Verbs
  <2>3. PICK n : n = now
    OBVIOUS
  <2> HIDE DEF now
  <2> QED
    BY <1>1, <2>1, <2>2, <2>3, GameTurnsIt DEF BothSides
<1>4. CASE GameAsks(p) \/ GameForbids(p)
  <2> DEFINE now == lets'[p]
  <2>1. /\ toGame' = toGame /\ UNCHANGED <<server, vosh, does, eager>>
        /\ lets' = [lets EXCEPT ![p] = now]
    BY <1>1, <1>4 DEF GameAsks, GameForbids, GameStarts, voshVars
  <2>2. \/ /\ Tells(toVosh, toVosh', p, "DO")
           /\ IF eager THEN now = lets[p] ELSE lets[p] = "No" /\ now = "WantYes"
        \/ /\ Tells(toVosh, toVosh', p, "DONT")
           /\ lets[p] = "Yes" /\ now = IF eager THEN "No" ELSE "WantNo"
    BY <1>1, <1>2, <1>4 DEF GameAsks, GameForbids, GameStarts, Verbs
  <2>3. PICK n : n = now
    OBVIOUS
  <2> HIDE DEF now
  <2> QED
    BY <1>1, <2>1, <2>2, <2>3, GameTakesIt DEF BothSides
<1> QED
  BY <1>3, <1>4

\* What the game does and says about an option it hears of.
LEMMA HearSides ==
  ASSUME TInv, GameHearsDo \/ GameHearsDont \/ GameHearsWill \/ GameHearsWont
  PROVE  BothSides'
<1>1. /\ BothSides /\ toVosh \in Seq(Messages)
      /\ server \in [Opts -> Side] /\ vosh \in [Opts -> Side]
      /\ does \in [Opts -> GameSide] /\ lets \in [Opts -> GameSide]
  <2>1. stage # "dial"
    BY DEF GameHearsDo, GameHearsDont, GameHearsWill, GameHearsWont, GameReads,
           TInv, Dialing
  <2> QED
    BY <2>1, SidesOpen DEF TInv, TypeOK, Side
<1>2. PICK p \in Opts :
        /\ p = Head(toGame).opt
        /\ \A v \in Verbs : GameReads(v) => Hears(toGame, toGame', p, v)
  <2>1. \E v \in Verbs : GameReads(v)
    BY DEF GameHearsDo, GameHearsDont, GameHearsWill, GameHearsWont, Verbs
  <2> QED
    BY <2>1, GameHeard DEF TInv
<1>3. \A v \in Verbs : Tells(toVosh, Append(toVosh, Msg(v, p)), p, v)
  BY <1>1, Told
<1>4. CASE GameHearsDo \/ GameHearsDont
  <2>1. /\ UNCHANGED <<server, vosh, lets, eager>>
        /\ does' = [does EXCEPT ![p] = does'[p]]
    BY <1>1, <1>2, <1>4 DEF GameHearsDo, GameHearsDont, GameReads, voshVars
  <2>2. PICK now : now = does'[p]
    OBVIOUS
  <2>3. \/ /\ Hears(toGame, toGame', p, "DO")
           /\ \/ /\ eager \/ does[p] = "No"
                 /\ now = "Yes" /\ Tells(toVosh, toVosh', p, "WILL")
              \/ /\ ~eager /\ does[p] = "No"
                 /\ now = "No" /\ Tells(toVosh, toVosh', p, "WONT")
              \/ /\ ~eager /\ does[p] # "No" /\ toVosh' = toVosh
                 /\ now = IF does[p] = "WantNo" THEN "No" ELSE "Yes"
        \/ /\ Hears(toGame, toGame', p, "DONT") /\ now = "No"
           /\ IF ~eager /\ does[p] = "Yes" THEN Tells(toVosh, toVosh', p, "WONT")
              ELSE toVosh' = toVosh
    <3>1. CASE GameHearsDo
      BY <1>1, <1>2, <1>3, <2>2, <3>1 DEF GameHearsDo, Says, Verbs
    <3>2. CASE GameHearsDont
      BY <1>1, <1>2, <1>3, <2>2, <3>2 DEF GameHearsDont, Says, Verbs
    <3> QED
      BY <1>4, <3>1, <3>2
  <2> QED
    BY <1>1, <2>1, <2>2, <2>3, GameTurnsIt DEF BothSides
<1>5. CASE GameHearsWill \/ GameHearsWont
  <2>1. /\ UNCHANGED <<server, vosh, does, eager>>
        /\ lets' = [lets EXCEPT ![p] = lets'[p]]
    BY <1>1, <1>2, <1>5 DEF GameHearsWill, GameHearsWont, GameReads, voshVars
  <2>2. PICK now : now = lets'[p]
    OBVIOUS
  <2>3. \/ /\ Hears(toGame, toGame', p, "WILL")
           /\ now = IF lets[p] = "WantNo" THEN "No" ELSE "Yes"
           /\ IF eager \/ lets[p] = "No" THEN Tells(toVosh, toVosh', p, "DO")
              ELSE toVosh' = toVosh
        \/ /\ Hears(toGame, toGame', p, "WONT") /\ now = "No"
           /\ IF ~eager /\ lets[p] = "Yes" THEN Tells(toVosh, toVosh', p, "DONT")
              ELSE toVosh' = toVosh
    <3>1. CASE GameHearsWill
      BY <1>1, <1>2, <1>3, <2>2, <3>1 DEF GameHearsWill, Says, Verbs
    <3>2. CASE GameHearsWont
      BY <1>1, <1>2, <1>3, <2>2, <3>2 DEF GameHearsWont, Says, Verbs
    <3> QED
      BY <1>5, <3>1, <3>2
  <2> QED
    BY <1>1, <2>1, <2>2, <2>3, GameTakesIt DEF BothSides
<1> QED
  BY <1>4, <1>5

LEMMA Empty == \A o, V, w :
    None(<<>>, o, V) /\ AllAre(<<>>, o, V, w) /\ ~LastIs(<<>>, o, V, w)
  BY DEF None, AllAre, LastIs

\* The first DO EOR is on its way once the socket is open.
LEMMA OpenSides ==
  ASSUME TInv, SocketOpens PROVE BothSides'
<1>1. /\ toGame = <<>> /\ toVosh = <<>> /\ toVosh' = <<>>
      /\ toGame' = Append(toGame, Msg("DO", "EOR"))
      /\ server = [o \in Opts |-> IF o = "EOR" THEN "WantYes" ELSE "No"]
      /\ does = [o \in Opts |-> "No"]
      /\ UNCHANGED <<server, vosh, does, lets, eager>>
      /\ "EOR" \in Opts /\ Chans
  BY ChansOf DEF SocketOpens, TInv, Dialing, gameVars, Opts
<1>2. Tells(toGame, toGame', "EOR", "DO")
  BY <1>1, Told DEF Verbs, Chans
<1> SUFFICES ASSUME NEW o \in Opts PROVE ServerSide(o)' /\ VoshSide(o)'
  BY DEF BothSides
<1>3. VoshSide(o)'
  <2>1. VoshSide(o)
    BY DEF TInv, Sides
  <2>2. Same(toVosh, toVosh', o, Requests)
    BY <1>1, SameChannel
  <2>3. Same(toGame, toGame', o, Offers)
    BY <1>2 DEF Tells, Kinds, Offers
  <2> QED
    BY <1>1, <2>1, <2>2, <2>3, OthersAgree DEF VoshSide
<1>4. ServerSide(o)'
  <2>1. /\ server'[o] = IF o = "EOR" THEN "WantYes" ELSE "No"
        /\ does'[o] = "No" /\ eager' = eager
    BY <1>1
  <2>2. None(toVosh', o, Offers) /\ \A w : AllAre(toVosh', o, Offers, w)
    BY <1>1, Empty
  <2>3. CASE o = "EOR"
    <3>1. Adds(toGame, toGame', o, Requests, "yes")
      BY <1>2, <2>3 DEF Tells, Kinds, Requests, Means
    <3>2. /\ ~None(toGame', o, Requests) /\ ~LastIs(toGame', o, Requests, "no")
          /\ OneIs(toGame', o, Requests, "yes")
      BY <1>1, <3>1, Empty DEF Adds, Words
    <3>3. o \in WantsServer
      BY <2>3 DEF WantsServer
    <3> QED
      BY <2>1, <2>2, <2>3, <3>2, <3>3 DEF ServerSide, Agreeing, Eager, Careful
  <2>4. CASE o # "EOR"
    <3>1. Same(toGame, toGame', o, Requests)
      BY <1>2, <2>4 DEF Tells, Kinds
    <3>2. None(toGame', o, Requests) /\ AllAre(toGame', o, Requests, "no")
      BY <1>1, <3>1, Empty DEF Same, Words
    <3> QED
      BY <2>1, <2>2, <2>4, <3>2 DEF ServerSide, Agreeing, Eager, Careful
  <2> QED
    BY <2>3, <2>4
<1> QED
  BY <1>3, <1>4

LEMMA SidesStep ==
  ASSUME TInv, [Next]_vars PROVE Sides'
<1>1. CASE stage = "dial" /\ ~SocketOpens
  <2>1. UNCHANGED <<server, vosh, does, lets, eager, toGame, toVosh, stage>>
    BY <1>1 DEF Next, Dial, Vosh, Game, Freely, TInv, Dialing, PutSlot, PagePushes,
       TellSize, Resize, ReachSlot, LoopTakesSize, RespondWill, RespondWont,
       RespondDo, RespondDont, RespondTtype, VoshReads, GameHearsDo, GameHearsDont,
       GameHearsWill, GameHearsWont, GameHearsSize, GameHearsHello, GameHearsName,
       GameReads, GameAsksName, GameOffers, GameStops, GameAsks, GameForbids,
       GameStarts, vars, voshVars, gameVars
  <2> SUFFICES ASSUME NEW o \in Opts PROVE VoshSide(o)'
    BY <1>1, <2>1 DEF Sides
  <2>2. VoshSide(o)
    BY DEF TInv, Sides
  <2> QED
    BY <2>1, <2>2 DEF VoshSide
<1>2. CASE stage # "dial"
  <2>1. BothSides
    BY <1>2, SidesOpen
  <2>2. CASE UNCHANGED vars
    BY <2>1, <2>2, SidesQuiet, NothingSaid DEF vars, voshVars, gameVars, Sides, BothSides
  <2>3. CASE SocketOpens
    BY <1>2, <2>3 DEF SocketOpens
  <2>4. CASE Next /\ ~SocketOpens
    <3>1. BothSides'
      BY <2>1, <2>4, WillSides, WontSides, DoSides, DontSides, OtherSides, StartSides,
         HearSides DEF Next, Dial, Vosh, Game, Freely
    <3> QED
      BY <3>1 DEF Sides, BothSides
  <2> QED
    BY <2>2, <2>3, <2>4
<1>3. CASE SocketOpens
  BY <1>3, OpenSides DEF Sides, BothSides
<1> QED
  BY <1>1, <1>2, <1>3

LEMMA SidesInit == Init => Sides
<1> SUFFICES ASSUME Init, NEW o \in Opts PROVE stage = "dial" /\ VoshSide(o)
  BY DEF Sides
<1>1. /\ stage = "dial" /\ vosh[o] = "No" /\ lets[o] = "No"
      /\ toVosh = <<>> /\ toGame = <<>>
  BY DEF Init
<1> QED
  BY <1>1, Empty DEF VoshSide, Agreeing, Eager, Careful

-----------------------------------------------------------------------------
(* What the last message of a kind on its way says.                        *)

LEMMA AppendFree ==
  ASSUME NEW S, NEW c \in Seq(S), NEW m \in S, NEW R
  PROVE  /\ Free(Append(c, m), R) <=> Free(c, R) /\ m \notin R
         /\ \A K : After(c, K, R) /\ m \notin R => After(Append(c, m), K, R)
         /\ \A K : m \in K => After(Append(c, m), K, R)
         /\ One(c, R) /\ (m \notin R \/ Free(c, R)) => One(Append(c, m), R)
<1> DEFINE d == Append(c, m)
<1>1. /\ Len(c) \in Nat /\ Len(d) = Len(c) + 1 /\ d[Len(d)] = m
      /\ \A i \in 1 .. Len(c) : d[i] = c[i]
  OBVIOUS
<1> HIDE DEF d
<1>2. \A i \in 1 .. Len(d) : i \in 1 .. Len(c) \/ i = Len(d)
  BY <1>1
<1>3. \A i \in 1 .. Len(c) : i \in 1 .. Len(d) /\ i < Len(d)
  BY <1>1
<1>4. Len(d) \in 1 .. Len(d)
  BY <1>1
<1>5. Free(d, R) <=> Free(c, R) /\ m \notin R
  BY <1>1, <1>2, <1>3, <1>4 DEF Free
<1>6. ASSUME NEW K, After(c, K, R), m \notin R PROVE After(d, K, R)
  <2>1. PICK i \in 1 .. Len(c) :
          c[i] \in K /\ \A j \in 1 .. Len(c) : j > i => c[j] \notin R
    BY <1>6 DEF After
  <2>2. i \in 1 .. Len(d) /\ d[i] \in K
    BY <1>1, <1>3, <2>1
  <2>3. \A j \in 1 .. Len(d) : j > i => d[j] \notin R
    BY <1>1, <1>2, <1>6, <2>1
  <2> QED
    BY <2>2, <2>3 DEF After
<1>7. ASSUME NEW K, m \in K PROVE After(d, K, R)
  <2>1. \A j \in 1 .. Len(d) : ~(j > Len(d))
    BY <1>1
  <2> QED
    BY <1>1, <1>4, <1>7, <2>1 DEF After
<1>8. ASSUME One(c, R), m \notin R \/ Free(c, R) PROVE One(d, R)
  BY <1>1, <1>2, <1>8 DEF One, Free
<1> QED
  BY <1>5, <1>6, <1>7, <1>8 DEF d

LEMMA TailFree ==
  ASSUME NEW S, NEW c \in Seq(S), c # <<>>, NEW R
  PROVE  /\ Free(c, R) <=> Free(Tail(c), R) /\ Head(c) \notin R
         /\ \A K : After(c, K, R) =>
                After(Tail(c), K, R) \/ (Head(c) \in K /\ Free(Tail(c), R))
         /\ One(c, R) => One(Tail(c), R) /\ (Head(c) \in R => Free(Tail(c), R))
<1> DEFINE d == Tail(c)
<1>1. /\ Len(c) \in Nat /\ Len(c) # 0 /\ Len(d) = Len(c) - 1 /\ c[1] = Head(c)
      /\ \A i \in 1 .. Len(d) : d[i] = c[i + 1]
  OBVIOUS
<1> HIDE DEF d
<1>2. \A i \in 1 .. Len(c) : i = 1 \/ (i - 1 \in 1 .. Len(d) /\ d[i - 1] = c[i])
  BY <1>1
<1>3. \A i \in 1 .. Len(d) : i + 1 \in 1 .. Len(c) /\ i + 1 # 1
  BY <1>1
<1>4. 1 \in 1 .. Len(c)
  BY <1>1
<1>5. Free(c, R) <=> Free(d, R) /\ Head(c) \notin R
  BY <1>1, <1>2, <1>3, <1>4 DEF Free
<1>6. ASSUME NEW K, After(c, K, R)
      PROVE  After(d, K, R) \/ (Head(c) \in K /\ Free(d, R))
  <2>1. PICK i \in 1 .. Len(c) :
          c[i] \in K /\ \A j \in 1 .. Len(c) : j > i => c[j] \notin R
    BY <1>6 DEF After
  <2>2. CASE i = 1
    <3>1. \A j \in 1 .. Len(d) : d[j] \notin R
      BY <1>1, <1>3, <2>1, <2>2
    <3> QED
      BY <1>1, <2>1, <2>2, <3>1 DEF Free
  <2>3. CASE i # 1
    <3>1. i - 1 \in 1 .. Len(d) /\ d[i - 1] \in K
      BY <1>2, <2>1, <2>3
    <3>2. \A j \in 1 .. Len(d) : j > i - 1 => d[j] \notin R
      BY <1>1, <1>3, <2>1
    <3> QED
      BY <3>1, <3>2 DEF After
  <2> QED
    BY <2>2, <2>3
<1>7. ASSUME One(c, R) PROVE One(d, R) /\ (Head(c) \in R => Free(d, R))
  <2>1. One(d, R)
    <3> SUFFICES ASSUME NEW i \in 1 .. Len(d), NEW j \in 1 .. Len(d),
                        d[i] \in R, d[j] \in R
                 PROVE  i = j
      BY DEF One
    <3>1. i + 1 = j + 1
      BY <1>1, <1>3, <1>7 DEF One
    <3> QED
      BY <3>1
  <2>2. Head(c) \in R => Free(d, R)
    <3> SUFFICES ASSUME Head(c) \in R, NEW i \in 1 .. Len(d), d[i] \in R PROVE FALSE
      BY DEF Free
    <3>1. i + 1 = 1
      BY <1>1, <1>3, <1>4, <1>7 DEF One
    <3> QED
      BY <1>3, <3>1
  <2> QED
    BY <2>1, <2>2
<1> QED
  BY <1>5, <1>6, <1>7 DEF d

LEMMA NothingIn == \A R : Free(<<>>, R) /\ One(<<>>, R)
  BY DEF Free, One

-----------------------------------------------------------------------------
(* The rest of the invariant.                                              *)

LEMMA DialingStep ==
  ASSUME TInv, [Next]_vars PROVE Dialing'
<1> SUFFICES ASSUME stage' = "dial"
             PROVE  UNCHANGED <<toGame, toVosh, queue, server, does, stage>>
  BY DEF TInv, Dialing
<1>1. stage = "dial"
  BY DEF Next, Dial, Vosh, Game, Freely, SocketOpens, PutSlot, PagePushes,
     TellSize, Resize, ReachSlot, LoopTakesSize, RespondWill, RespondWont,
     RespondDo, RespondDont, RespondTtype, VoshReads, GameHearsDo, GameHearsDont,
     GameHearsWill, GameHearsWont, GameHearsSize, GameHearsHello, GameHearsName,
     GameReads, GameAsksName, GameOffers, GameStops, GameAsks, GameForbids,
     GameStarts, vars, voshVars, gameVars
<1> QED
  BY <1>1 DEF Next, Dial, Vosh, Game, Freely, TInv, Dialing, SocketOpens, PutSlot,
     PagePushes, TellSize, Resize, ReachSlot, LoopTakesSize, RespondWill, RespondWont,
     RespondDo, RespondDont, RespondTtype, VoshReads, GameHearsDo, GameHearsDont,
     GameHearsWill, GameHearsWont, GameHearsSize, GameHearsHello, GameHearsName,
     GameReads, GameAsksName, GameOffers, GameStops, GameAsks, GameForbids,
     GameStarts, vars, voshVars, gameVars

\* Only RespondWill and RespondWont change what Vosh holds of the server.
LEMMA ServerKept ==
  ASSUME [Next]_vars, ~RespondWill, ~RespondWont
  PROVE  server' = server /\ held' = held
  BY DEF Next, Dial, Vosh, Game, Freely, SocketOpens, PutSlot, PagePushes,
     TellSize, Resize, ReachSlot, LoopTakesSize,
     RespondDo, RespondDont, RespondTtype, VoshReads, GameHearsDo, GameHearsDont,
     GameHearsWill, GameHearsWont, GameHearsSize, GameHearsHello, GameHearsName,
     GameReads, GameAsksName, GameOffers, GameStops, GameAsks, GameForbids,
     GameStarts, vars, voshVars, gameVars

LEMMA EchoStep ==
  ASSUME TInv, [Next]_vars PROVE AsksEor' /\ Echo'
<1>1. AsksEor /\ Echo /\ server \in [Opts -> Side] /\ held \in BOOLEAN
  BY DEF TInv, TypeOK
<1>2. CASE RespondWill
  <2>1. PICK p \in Opts : p = Head(toVosh).opt
    BY <1>2, VoshHeard DEF RespondWill, Verbs, TInv
  <2>2. /\ server' = [server EXCEPT ![p] =
                        IF p \in WantsServer \/ server[p] # "No" THEN "Yes" ELSE "No"]
        /\ held' = (held \/ p = "ECHO")
    BY <1>1, <1>2, <2>1 DEF RespondWill
  <2>3. AsksEor'
    BY <1>1, <2>2 DEF AsksEor
  <2>4. Echo'
    BY <1>1, <2>2 DEF Echo, WantsServer
  <2> QED
    BY <2>3, <2>4
<1>3. CASE RespondWont
  <2>1. PICK p \in Opts : p = Head(toVosh).opt
    BY <1>3, VoshHeard DEF RespondWont, Verbs, TInv
  <2>2. server' = [server EXCEPT ![p] = "No"] /\ held' = (held /\ p # "ECHO")
    BY <1>1, <1>3, <2>1 DEF RespondWont
  <2>3. AsksEor'
    BY <1>1, <2>2 DEF AsksEor
  <2>4. Echo'
    BY <1>1, <2>2 DEF Echo
  <2> QED
    BY <2>3, <2>4
<1>4. CASE ~RespondWill /\ ~RespondWont
  BY <1>1, <1>4, ServerKept DEF AsksEor, Echo
<1> QED
  BY <1>2, <1>3, <1>4

\* What the other steps do to the messages on their way to the game.
LEMMA OtherWrites ==
  ASSUME TypeOK, [Next]_vars, ~RespondWill, ~RespondDo, ~LoopTakesSize, ~RespondTtype
  PROVE  \/ toGame' = toGame
         \/ /\ toGame # <<>> /\ toGame' = Tail(toGame)
            /\ Head(toGame).verb = "NAWS" => GameHearsSize
            /\ Head(toGame).verb = "HELLO" => GameHearsHello
            /\ Head(toGame).verb = "IS" => GameHearsName
         \/ \E v \in Verbs, p \in Opts :
                /\ toGame' = Append(toGame, Msg(v, p))
                /\ v = "DO" => p = "EOR"
<1>1. CASE SocketOpens
  BY <1>1 DEF SocketOpens, Verbs, Opts
<1>2. CASE RespondWont
  BY <1>2, VoshHeard DEF RespondWont, Verbs
<1>3. CASE RespondDont
  BY <1>3, VoshHeard DEF RespondDont, Verbs
<1>4. CASE Game /\ ~GameAsksName
  BY <1>4 DEF Game, GameHearsDo, GameHearsDont, GameHearsWill, GameHearsWont,
     GameHearsSize, GameHearsHello, GameHearsName, GameReads
<1>5. CASE \/ PutSlot \/ PagePushes \/ GameAsksName \/ UNCHANGED vars
           \/ (\E s \in Sizes : ReachSlot(s) \/ Resize(s))
           \/ \E o \in Opts : GameOffers(o) \/ GameStops(o) \/ GameAsks(o) \/ GameForbids(o)
  BY <1>5 DEF PutSlot, PagePushes, TellSize, GameAsksName, ReachSlot, Resize,
     GameOffers, GameStops, GameAsks, GameForbids, GameStarts, vars
<1> QED
  BY <1>1, <1>2, <1>3, <1>4, <1>5 DEF Next, Dial, Vosh, Game, Freely

\* A message about an option tells no size and no name, and says no hello.
LEMMA OptionOnly ==
  ASSUME NEW v \in Verbs, NEW p
  PROVE  /\ Msg(v, p) \notin SizesTold /\ Msg(v, p) \notin NamesTold
         /\ Msg(v, p) # SendName
         /\ Msg(v, p) \in GmcpAsked => v = "DO" /\ p = "GMCP"
  BY MessageSays DEF SizesTold, NamesTold, GmcpAsked, Verbs

LEMMA OtherOnly ==
  /\ Hello \notin SizesTold /\ Hello \notin NamesTold /\ Hello \notin GmcpAsked
  /\ Hello # SendName
  /\ \A s : /\ NawsOf(s) \notin NamesTold /\ NawsOf(s) \notin GmcpAsked
            /\ NawsOf(s) # SendName
  /\ \A i : /\ NameIs(i) \notin SizesTold /\ NameIs(i) \notin GmcpAsked
            /\ NameIs(i) # SendName
  /\ SendName \notin NamesTold
  BY MessageSays DEF SizesTold, NamesTold, GmcpAsked

\* Neither size changes, and the messages still tell the last one.
LEMMA SizeKept ==
  ASSUME TInv, [Next]_vars, ~LoopTakesSize, ~RespondDo, ~GameHearsSize
  PROVE  /\ size' = size /\ heardSize' = heardSize
         /\ "NAWS" \in Opts /\ vosh'["NAWS"] = "Yes" => vosh["NAWS"] = "Yes"
<1>1. size' = size
  BY DEF Next, Dial, Vosh, Game, Freely, SocketOpens, PutSlot, PagePushes,
     TellSize, Resize, ReachSlot, RespondWill, RespondWont, RespondDont, RespondTtype,
     VoshReads, GameHearsDo, GameHearsDont, GameHearsWill, GameHearsWont,
     GameHearsHello, GameHearsName, GameReads, GameAsksName, GameOffers, GameStops,
     GameAsks, GameForbids, GameStarts, vars, voshVars, gameVars
<1>2. heardSize' = heardSize
  BY DEF Next, Dial, Vosh, Game, Freely, SocketOpens, PutSlot, PagePushes,
     TellSize, Resize, ReachSlot, RespondWill, RespondWont, RespondDont, RespondTtype,
     VoshReads, GameHearsDo, GameHearsDont, GameHearsWill, GameHearsWont,
     GameHearsHello, GameHearsName, GameReads, GameAsksName, GameOffers, GameStops,
     GameAsks, GameForbids, GameStarts, vars, voshVars, gameVars
<1>3. CASE RespondDont
  <2>1. vosh \in [Opts -> {"No", "Yes"}]
    BY DEF TInv, TypeOK
  <2>2. \E p : vosh' = [vosh EXCEPT ![p] = "No"]
    BY <1>3 DEF RespondDont
  <2> QED
    BY <1>1, <1>2, <2>1, <2>2
<1>4. CASE ~RespondDont
  <2>1. vosh' = vosh
    BY <1>4 DEF Next, Dial, Vosh, Game, Freely, SocketOpens, PutSlot, PagePushes,
       TellSize, Resize, ReachSlot, RespondWill, RespondWont, RespondTtype,
       VoshReads, GameHearsDo, GameHearsDont, GameHearsWill, GameHearsWont,
       GameHearsHello, GameHearsName, GameReads, GameAsksName, GameOffers, GameStops,
       GameAsks, GameForbids, GameStarts, vars, voshVars, gameVars
  <2> QED
    BY <1>1, <1>2, <2>1
<1> QED
  BY <1>3, <1>4

LEMMA SizeStep ==
  ASSUME TInv, [Next]_vars PROVE SizeSent'
<1> DEFINE Said(h, c, s) == \/ h = s /\ Free(c, SizesTold)
                            \/ After(c, {NawsOf(s)}, SizesTold)
<1>1. /\ TypeOK /\ SizeSent /\ toGame \in Seq(Messages) /\ queue \in Seq(Sizes)
      /\ vosh \in [Opts -> {"No", "Yes"}] /\ size \in Sizes
  BY DEF TInv, TypeOK
<1> SUFFICES ASSUME "NAWS" \in Opts, vosh'["NAWS"] = "Yes"
             PROVE  Said(heardSize, toGame, size)'
  BY DEF SizeSent
<1>2. vosh["NAWS"] = "Yes" => Said(heardSize, toGame, size)
  BY <1>1 DEF SizeSent
\* A message that tells no size.
<1>3. ASSUME NEW c \in Seq(Messages), NEW m \in Messages, m \notin SizesTold,
             NEW h, NEW s, Said(h, c, s)
      PROVE  Said(h, Append(c, m), s)
  BY <1>3, AppendFree
<1>4. CASE LoopTakesSize
  <2>1. PICK s \in Sizes : s = size'
    BY <1>1, <1>4 DEF LoopTakesSize
  <2>2. toGame' = Append(toGame, NawsOf(s)) /\ NawsOf(s) \in Messages
    BY <1>4, <2>1, MessageMade DEF LoopTakesSize
  <2>3. After(Append(toGame, NawsOf(s)), {NawsOf(s)}, SizesTold)
    <3>1. toGame \in Seq(Messages) /\ NawsOf(s) \in Messages
      BY <1>1, <2>2
    <3> QED
      BY <3>1, AppendFree
  <2> QED
    BY <2>1, <2>2, <2>3
<1>5. CASE RespondDo
  <2>1. PICK p \in Opts : p = Head(toVosh).opt
    BY <1>1, <1>5, VoshHeard DEF RespondDo, Verbs
  <2>2. /\ size' = size /\ heardSize' = heardSize
        /\ vosh' = [vosh EXCEPT ![p] = IF p \in AgreesTo THEN "Yes" ELSE @]
    BY <1>1, <1>5, <2>1 DEF RespondDo, VoshReads, gameVars
  <2>3. /\ \A v \in Verbs : Msg(v, p) \in Messages /\ Msg(v, p) \notin SizesTold
        /\ NawsOf(size) \in Messages
    BY <1>1, MessageMade, OptionOnly
  <2>4. CASE vosh["NAWS"] = "Yes" /\ ~(vosh[p] = "No" /\ p = "NAWS")
    <3>1. toGame' = toGame \/ \E v \in Verbs : toGame' = Append(toGame, Msg(v, p))
      BY <1>1, <1>5, <2>1, <2>4, DoWrites DEF Verbs
    <3>2. Said(heardSize, toGame, size)
      BY <1>2, <2>4
    <3>3. Said(heardSize, toGame', size)
      BY <1>1, <1>3, <2>3, <3>1, <3>2
    <3> QED
      BY <2>2, <3>3
  <2>5. CASE vosh["NAWS"] = "No" \/ (vosh[p] = "No" /\ p = "NAWS")
    <3>1. p = "NAWS" /\ vosh[p] = "No"
      BY <1>1, <2>2, <2>5
    <3>2. toGame' = Append(Append(toGame, Msg("WILL", p)), NawsOf(size))
      BY <1>1, <1>5, <2>1, <3>1, DoWrites DEF AgreesTo
    <3>3. Append(toGame, Msg("WILL", p)) \in Seq(Messages)
      BY <1>1, <2>3 DEF Verbs
    <3>4. After(Append(Append(toGame, Msg("WILL", p)), NawsOf(size)),
                {NawsOf(size)}, SizesTold)
      <4>1. NawsOf(size) \in Messages
        BY <2>3
      <4> QED
        BY <3>3, <4>1, AppendFree
    <3> QED
      BY <2>2, <3>2, <3>4
  <2> QED
    BY <1>1, <2>4, <2>5
<1>6. CASE GameHearsSize
  <2>1. /\ toGame' = Tail(toGame) /\ toGame # <<>> /\ size' = size
        /\ heardSize' = Head(toGame).size
        /\ vosh["NAWS"] = "Yes" /\ Head(toGame).verb = "NAWS"
    BY <1>6 DEF GameHearsSize, GameReads, voshVars
  <2>2. Head(toGame) \in SizesTold /\ Head(toGame) = NawsOf(Head(toGame).size)
    BY <1>1, <2>1, Reads, SendRead
  <2>3. \/ After(Tail(toGame), {NawsOf(size)}, SizesTold)
        \/ Head(toGame) = NawsOf(size) /\ Free(Tail(toGame), SizesTold)
    BY <1>1, <1>2, <2>1, <2>2, TailFree
  <2>4. Head(toGame) = NawsOf(size) => heardSize' = size
    BY <2>1, MessageSays
  <2> QED
    BY <2>1, <2>3, <2>4
<1>7. CASE ~LoopTakesSize /\ ~RespondDo /\ ~GameHearsSize
  <2>1. /\ size' = size /\ heardSize' = heardSize /\ vosh["NAWS"] = "Yes"
        /\ Said(heardSize, toGame, size)
    BY <1>2, <1>7, SizeKept
  <2>2. CASE RespondWill
    <3>1. PICK p \in Opts : p = Head(toVosh).opt
      BY <1>1, <2>2, VoshHeard DEF RespondWill, Verbs
    <3>2. PICK mid \in Seq(Messages) :
            /\ mid = toGame \/ (\E v \in Verbs : mid = Append(toGame, Msg(v, p)))
            /\ toGame' = Append(mid, Hello) \/ toGame' = mid
      <4>1. server[p] = "No" => "DO" \in Verbs /\ "DONT" \in Verbs
        BY DEF Verbs
      <4> QED
        BY <1>1, <2>2, <3>1, <4>1, WillWrites
    <3>3. Said(heardSize, mid, size)
      BY <1>1, <1>3, <2>1, <3>2, MessageMade, OptionOnly
    <3>4. Said(heardSize, toGame', size)
      BY <1>3, <3>2, <3>3, MessageMade, OtherOnly
    <3> QED
      BY <2>1, <3>4
  <2>3. CASE RespondTtype
    <3>1. NameSlot \in 0 .. 2
      BY <1>1 DEF NameSlot, TypeOK
    <3>2. Said(heardSize, toGame', size)
      BY <1>1, <1>3, <2>1, <2>3, <3>1, MessageMade, OtherOnly DEF RespondTtype
    <3> QED
      BY <2>1, <3>2
  <2>4. CASE ~RespondWill /\ ~RespondTtype
    <3>1. CASE toGame' = toGame
      BY <2>1, <3>1
    <3>2. CASE /\ toGame # <<>> /\ toGame' = Tail(toGame)
               /\ Head(toGame).verb = "NAWS" => GameHearsSize
      <4>1. Head(toGame) \in Messages /\ Head(toGame) \notin SizesTold
        BY <1>1, <1>7, <3>2, Reads, SendRead
      <4>2. Head(toGame) # NawsOf(size)
        BY <1>1, <4>1, SendRead, MessageMade, MessageSays
      <4>3. Said(heardSize, toGame', size)
        BY <1>1, <2>1, <3>2, <4>1, <4>2, TailFree
      <4> QED
        BY <2>1, <4>3
    <3>3. CASE \E v \in Verbs, p \in Opts : toGame' = Append(toGame, Msg(v, p))
      <4>1. Said(heardSize, toGame', size)
        BY <1>1, <1>3, <2>1, <3>3, MessageMade, OptionOnly
      <4> QED
        BY <2>1, <4>1
    <3> QED
      BY <1>1, <1>7, <2>4, <3>1, <3>2, <3>3, OtherWrites
  <2> QED
    BY <2>2, <2>3, <2>4
<1> QED
  BY <1>4, <1>5, <1>6, <1>7

\* The hello is kept, but for the reading of a DO that turns GMCP on.
LEMMA HelloKept ==
  ASSUME TypeOK, [Next]_vars, ~GameHearsHello
  PROVE  \/ hello' = hello
         \/ toGame # <<>> /\ toGame' = Tail(toGame) /\ Head(toGame) \in GmcpAsked
<1>1. CASE GameHearsDo
  <2>1. toGame # <<>> /\ toGame' = Tail(toGame) /\ Head(toGame).verb = "DO"
    BY <1>1 DEF GameHearsDo, GameReads
  <2>2. Head(toGame) \in Messages
    BY <2>1, Reads DEF TypeOK
  <2>3. hello' = hello \/ Head(toGame).opt = "GMCP"
    BY <1>1 DEF GameHearsDo, TypeOK
  <2> QED
    BY <2>1, <2>2, <2>3, SendRead
<1>2. CASE ~GameHearsDo
  BY <1>2 DEF Next, Dial, Vosh, Game, Freely, SocketOpens, PutSlot, PagePushes,
     TellSize, Resize, ReachSlot, LoopTakesSize, RespondWill, RespondWont, RespondDo,
     RespondDont, RespondTtype, VoshReads, GameHearsDont, GameHearsWill, GameHearsWont,
     GameHearsSize, GameHearsName, GameReads, GameAsksName, GameOffers, GameStops,
     GameAsks, GameForbids, GameStarts, vars, voshVars, gameVars
<1> QED
  BY <1>1, <1>2

\* What Vosh writes when it reads DO, the request for a name, or a size.
LEMMA OwnWrites ==
  ASSUME TypeOK, RespondDo \/ RespondTtype \/ LoopTakesSize
  PROVE  \/ toGame' = toGame
         \/ \E v \in Offers, p \in Opts : toGame' = Append(toGame, Msg(v, p))
         \/ \E s \in Sizes : toGame' = Append(toGame, NawsOf(s))
         \/ \E p \in Opts, s \in Sizes :
                toGame' = Append(Append(toGame, Msg("WILL", p)), NawsOf(s))
         \/ RespondTtype /\ NameSlot \in 0 .. 2 /\ toGame' = Append(toGame, NameIs(NameSlot))
<1>1. CASE RespondDo
  <2>1. PICK p \in Opts : p = Head(toVosh).opt
    BY <1>1, VoshHeard DEF RespondDo, Verbs
  <2>2. size \in Sizes
    BY DEF TypeOK
  <2> QED
    BY <1>1, <2>1, <2>2, DoWrites DEF Offers
<1>2. CASE RespondTtype
  BY <1>2 DEF RespondTtype, NameSlot, TypeOK
<1>3. CASE LoopTakesSize
  <2>1. Head(queue) \in Sizes
    BY <1>3 DEF LoopTakesSize, TypeOK
  <2> QED
    BY <1>3, <2>1 DEF LoopTakesSize
<1> QED
  BY <1>1, <1>2, <1>3

LEMMA HelloStep ==
  ASSUME TInv, [Next]_vars PROVE HelloSent'
<1> DEFINE Said(h, c) == \/ h /\ Free(c, GmcpAsked)
                         \/ After(c, {Hello}, GmcpAsked)
<1>1. /\ TypeOK /\ HelloSent /\ toGame \in Seq(Messages) /\ AsksEor
      /\ server \in [Opts -> Side] /\ hello \in BOOLEAN
  BY DEF TInv, TypeOK
<1> SUFFICES ASSUME "GMCP" \in Opts, server'["GMCP"] = "Yes"
             PROVE  Said(hello, toGame)'
  BY DEF HelloSent
<1>2. server["GMCP"] = "Yes" => Said(hello, toGame)
  BY <1>1 DEF HelloSent
\* A message that does not ask for GMCP.
<1>3. ASSUME NEW c \in Seq(Messages), NEW m \in Messages, m \notin GmcpAsked,
             NEW h, Said(h, c)
      PROVE  Said(h, Append(c, m))
  BY <1>3, AppendFree
<1>4. /\ \A v \in Verbs, p \in Opts :
            /\ Msg(v, p) \in Messages
            /\ Msg(v, p) \in GmcpAsked => v = "DO" /\ p = "GMCP"
      /\ \A s \in Sizes : NawsOf(s) \in Messages /\ NawsOf(s) \notin GmcpAsked
      /\ \A i \in 0 .. 2 : NameIs(i) \in Messages /\ NameIs(i) \notin GmcpAsked
  BY MessageMade, OptionOnly, OtherOnly
<1>5. CASE RespondWill
  <2>1. PICK p \in Opts : p = Head(toVosh).opt
    BY <1>1, <1>5, VoshHeard DEF RespondWill, Verbs
  <2>2. /\ hello' = hello
        /\ server' = [server EXCEPT ![p] =
                        IF p \in WantsServer \/ server[p] # "No" THEN "Yes" ELSE "No"]
    BY <1>1, <1>5, <2>1 DEF RespondWill, VoshReads, gameVars
  <2>3. PICK mid \in Seq(Messages) :
          /\ server[p] # "No" => mid = toGame
          /\ server[p] = "No" =>
                mid = Append(toGame, Msg(IF p \in WantsServer THEN "DO" ELSE "DONT", p))
          /\ toGame' = IF p = "GMCP" /\ server[p] # "Yes" THEN Append(mid, Hello)
                       ELSE mid
    BY <1>1, <1>5, <2>1, WillWrites
  <2>4. CASE server["GMCP"] = "Yes"
    <3>1. Said(hello, toGame)
      BY <1>2, <2>4
    <3>2. toGame' = mid /\ (mid = toGame \/ p # "GMCP")
      BY <2>3, <2>4
    <3>3. Said(hello, mid)
      <4>1. \/ mid = toGame
            \/ \E v \in Verbs : mid = Append(toGame, Msg(v, p))
        BY <2>3 DEF Verbs
      <4> QED
        BY <1>1, <1>3, <1>4, <3>1, <3>2, <4>1
    <3> QED
      BY <2>2, <3>2, <3>3
  <2>5. CASE server["GMCP"] # "Yes"
    <3>1. p = "GMCP"
      BY <1>1, <2>2, <2>5
    <3>2. toGame' = Append(mid, Hello)
      BY <2>3, <2>5, <3>1
    <3>3. After(Append(mid, Hello), {Hello}, GmcpAsked)
      <4>1. mid \in Seq(Messages) /\ Hello \in Messages
        BY <2>3, MessageMade
      <4> QED
        BY <4>1, AppendFree
    <3> QED
      BY <3>2, <3>3
  <2> QED
    BY <2>4, <2>5
<1>6. CASE ~RespondWill
  <2>1. server["GMCP"] = "Yes"
    <3>1. CASE RespondWont
      <4>1. \E p : server' = [server EXCEPT ![p] = "No"]
        BY <3>1 DEF RespondWont
      <4> QED
        BY <1>1, <4>1
    <3>2. CASE ~RespondWont
      BY <1>6, <3>2, ServerKept
    <3> QED
      BY <3>1, <3>2
  <2>2. Said(hello, toGame)
    BY <1>2, <2>1
  <2>3. CASE RespondDo \/ RespondTtype \/ LoopTakesSize
    <3>1. hello' = hello
      BY <2>3 DEF RespondDo, RespondTtype, LoopTakesSize, VoshReads, gameVars
    <3>2. \A v \in Offers, p \in Opts : v \in Verbs /\ Msg(v, p) \notin GmcpAsked
      BY <1>4 DEF Offers, Verbs
    <3>3. Said(hello, toGame')
      <4>1. CASE \E p \in Opts, s \in Sizes :
                    toGame' = Append(Append(toGame, Msg("WILL", p)), NawsOf(s))
        <5>1. PICK p \in Opts, s \in Sizes :
                toGame' = Append(Append(toGame, Msg("WILL", p)), NawsOf(s))
          BY <4>1
        <5>2. Msg("WILL", p) \in Messages /\ Msg("WILL", p) \notin GmcpAsked
          BY <1>4, <3>2 DEF Offers, Verbs
        <5>3. /\ Said(hello, Append(toGame, Msg("WILL", p)))
              /\ Append(toGame, Msg("WILL", p)) \in Seq(Messages)
          <6> HIDE DEF Said
          <6>1. toGame \in Seq(Messages)
            BY <1>1
          <6>2. Said(hello, Append(toGame, Msg("WILL", p)))
            BY <1>3, <2>2, <5>2, <6>1
          <6>3. Append(toGame, Msg("WILL", p)) \in Seq(Messages)
            BY <5>2, <6>1
          <6> QED
            BY <6>2, <6>3
        <5>4. NawsOf(s) \in Messages /\ NawsOf(s) \notin GmcpAsked
          BY <1>4
        <5> HIDE DEF Said
        <5> QED
          BY <1>3, <5>1, <5>3, <5>4
      <4> QED
        BY <1>1, <1>3, <1>4, <2>2, <2>3, <3>2, <4>1, OwnWrites
    <3> QED
      BY <3>1, <3>3
  <2>4. CASE ~RespondDo /\ ~RespondTtype /\ ~LoopTakesSize
    <3>1. CASE toGame' = toGame
      <4>1. hello' = hello \/ hello'
        <5>1. CASE GameHearsHello
          BY <5>1 DEF GameHearsHello
        <5>2. CASE ~GameHearsHello
          <6>1. toGame # <<>> => Len(Tail(toGame)) # Len(toGame)
            BY <1>1
          <6> QED
            BY <1>1, <3>1, <5>2, <6>1, HelloKept
        <5> QED
          BY <5>1, <5>2
      <4> QED
        BY <2>2, <3>1, <4>1
    <3>2. CASE /\ toGame # <<>> /\ toGame' = Tail(toGame)
               /\ Head(toGame).verb = "HELLO" => GameHearsHello
      <4>1. Head(toGame) \in Messages /\ (Head(toGame) = Hello => GameHearsHello)
        BY <1>1, <3>2, Reads, SendRead
      <4>2. GameHearsHello => hello'
        BY DEF GameHearsHello
      <4>3. \/ After(toGame', {Hello}, GmcpAsked)
            \/ Head(toGame) = Hello /\ Free(toGame', GmcpAsked)
            \/ /\ hello /\ Free(toGame', GmcpAsked) /\ Head(toGame) \notin GmcpAsked
        BY <1>1, <2>2, <3>2, TailFree
      <4>4. ~GameHearsHello /\ Head(toGame) \notin GmcpAsked => hello' = hello
        BY <1>1, HelloKept
      <4> QED
        BY <4>1, <4>2, <4>3, <4>4
    <3>3. CASE \E v \in Verbs, p \in Opts :
                  toGame' = Append(toGame, Msg(v, p)) /\ (v = "DO" => p = "EOR")
      <4>1. Said(hello, toGame')
        BY <1>1, <1>3, <1>4, <2>2, <3>3
      <4>2. hello' = hello \/ hello'
        <5>1. GameHearsHello => hello'
          BY DEF GameHearsHello
        <5>2. toGame # <<>> => Len(Tail(toGame)) < Len(toGame)
          BY <1>1
        <5>3. toGame' # Tail(toGame) \/ toGame = <<>>
          <6>1. \A m \in Messages : Len(Append(toGame, m)) > Len(toGame)
            BY <1>1
          <6>2. Len(toGame') > Len(toGame)
            BY <1>4, <3>3, <6>1
          <6> QED
            BY <1>1, <5>2, <6>2
        <5> QED
          BY <1>1, <5>1, <5>3, HelloKept
      <4> QED
        BY <4>1, <4>2
    <3> QED
      BY <1>1, <1>6, <2>4, <3>1, <3>2, <3>3, OtherWrites
  <2> QED
    BY <2>3, <2>4
<1> QED
  BY <1>5, <1>6

\* The messages to Vosh, the names and the count: who changes what.
LEMMA NamesKept ==
  ASSUME TypeOK, [Next]_vars, ~RespondTtype, ~GameAsksName, ~GameHearsName
  PROVE  /\ names' = names /\ cycle' = cycle
         /\ \/ toVosh' = toVosh
            \/ \E v \in Verbs, p \in Opts : toVosh' = Append(toVosh, Msg(v, p))
            \/ /\ toVosh # <<>> /\ toVosh' = Tail(toVosh)
               /\ Head(toVosh).verb # "SEND"
<1>1. names' = names /\ cycle' = cycle
  BY DEF Next, Dial, Vosh, Game, Freely, SocketOpens, PutSlot, PagePushes,
     TellSize, Resize, ReachSlot, LoopTakesSize, RespondWill, RespondWont, RespondDo,
     RespondDont, VoshReads, GameHearsDo, GameHearsDont, GameHearsWill, GameHearsWont,
     GameHearsSize, GameHearsHello, GameReads, GameOffers, GameStops, GameAsks,
     GameForbids, GameStarts, vars, voshVars, gameVars
<1>2. CASE RespondWill \/ RespondWont \/ RespondDo \/ RespondDont
  BY <1>1, <1>2 DEF RespondWill, RespondWont, RespondDo, RespondDont, VoshReads
<1>3. CASE \E o \in Opts : GameOffers(o) \/ GameStops(o) \/ GameAsks(o) \/ GameForbids(o)
  BY <1>1, <1>3 DEF GameOffers, GameStops, GameAsks, GameForbids, GameStarts, Verbs
<1>4. CASE GameHearsDo \/ GameHearsDont \/ GameHearsWill \/ GameHearsWont
  <2>1. Head(toGame).opt \in Opts
    BY <1>4, GameHeard
    DEF GameHearsDo, GameHearsDont, GameHearsWill, GameHearsWont, Verbs
  <2> QED
    BY <1>1, <1>4, <2>1
    DEF GameHearsDo, GameHearsDont, GameHearsWill, GameHearsWont, Says, Verbs
<1>5. CASE \/ SocketOpens \/ PutSlot \/ PagePushes \/ LoopTakesSize
           \/ GameHearsSize \/ GameHearsHello \/ UNCHANGED vars
           \/ \E s \in Sizes : ReachSlot(s) \/ Resize(s)
  BY <1>1, <1>5 DEF SocketOpens, PutSlot, PagePushes, TellSize, LoopTakesSize,
     GameHearsSize, GameHearsHello, ReachSlot, Resize, vars
<1> QED
  BY <1>2, <1>3, <1>4, <1>5 DEF Next, Dial, Vosh, Game, Freely

\* What they do to the messages to the game: no name comes or goes.
LEMMA NoNameMoves ==
  ASSUME TypeOK, [Next]_vars, ~RespondTtype, ~GameHearsName, NEW x
  PROVE  /\ Free(toGame', NamesTold) <=> Free(toGame, NamesTold)
         /\ One(toGame, NamesTold) => One(toGame', NamesTold)
         /\ Free(toGame, NamesTold \ {NameIs(x)})
                => Free(toGame', NamesTold \ {NameIs(x)})
<1> DEFINE Kept(c, d) == /\ Free(d, NamesTold) <=> Free(c, NamesTold)
                         /\ One(c, NamesTold) => One(d, NamesTold)
                         /\ Free(c, NamesTold \ {NameIs(x)})
                                => Free(d, NamesTold \ {NameIs(x)})
<1>1. toGame \in Seq(Messages)
  BY DEF TypeOK
<1>2. ASSUME NEW c \in Seq(Messages), NEW m \in Messages, m \notin NamesTold
      PROVE  Kept(c, Append(c, m)) /\ Append(c, m) \in Seq(Messages)
  BY <1>2, AppendFree
<1>3. \A c, d, e : Kept(c, d) /\ Kept(d, e) => Kept(c, e)
  OBVIOUS
<1>4. /\ \A v \in Verbs, p \in Opts : Msg(v, p) \in Messages /\ Msg(v, p) \notin NamesTold
      /\ \A s \in Sizes : NawsOf(s) \in Messages /\ NawsOf(s) \notin NamesTold
      /\ Hello \in Messages /\ Hello \notin NamesTold
  BY MessageMade, OptionOnly, OtherOnly
<1>5. \A c : Kept(c, c)
  OBVIOUS
<1>6. ASSUME toGame # <<>>, toGame' = Tail(toGame),
             Head(toGame).verb = "IS" => GameHearsName
      PROVE  Kept(toGame, toGame')
  <2>1. Head(toGame) \notin NamesTold
    BY <1>1, <1>6, Reads, SendRead
  <2> QED
    BY <1>1, <1>6, <2>1, TailFree
<1> SUFFICES Kept(toGame, toGame')
  OBVIOUS
<1> HIDE DEF Kept
<1>7. CASE RespondWill
  <2>1. PICK p \in Opts : p = Head(toVosh).opt
    BY <1>7, VoshHeard DEF RespondWill, Verbs
  <2>2. PICK mid \in Seq(Messages) :
          /\ mid = toGame \/ (\E v \in Verbs : mid = Append(toGame, Msg(v, p)))
          /\ toGame' = Append(mid, Hello) \/ toGame' = mid
    <3>1. "DO" \in Verbs /\ "DONT" \in Verbs /\ (server[p] = "No" \/ server[p] # "No")
      BY DEF Verbs
    <3> QED
      BY <1>7, <2>1, <3>1, WillWrites
  <2>3. Kept(toGame, mid)
    BY <1>1, <1>2, <1>4, <1>5, <2>2
  <2>4. Kept(mid, toGame')
    BY <1>2, <1>4, <1>5, <2>2
  <2> QED
    BY <1>3, <2>3, <2>4
<1>8. CASE RespondDo \/ LoopTakesSize
  <2>1. CASE \E p \in Opts, s \in Sizes :
                toGame' = Append(Append(toGame, Msg("WILL", p)), NawsOf(s))
    <3>1. PICK p \in Opts, s \in Sizes :
            toGame' = Append(Append(toGame, Msg("WILL", p)), NawsOf(s))
      BY <2>1
    <3>2. /\ Kept(toGame, Append(toGame, Msg("WILL", p)))
          /\ Append(toGame, Msg("WILL", p)) \in Seq(Messages)
      BY <1>1, <1>2, <1>4 DEF Verbs
    <3>3. Kept(Append(toGame, Msg("WILL", p)), toGame')
      BY <1>2, <1>4, <3>1, <3>2
    <3> QED
      BY <1>3, <3>2, <3>3
  <2>2. Offers \subseteq Verbs
    BY DEF Offers, Verbs
  <2> QED
    BY <1>1, <1>2, <1>4, <1>5, <1>8, <2>1, <2>2, OwnWrites
<1>9. CASE ~RespondWill /\ ~RespondDo /\ ~LoopTakesSize
  BY <1>1, <1>2, <1>4, <1>5, <1>6, <1>9, OtherWrites
<1> QED
  BY <1>7, <1>8, <1>9

LEMMA NamesStep ==
  ASSUME TInv, [Next]_vars PROVE NamesSent'
<1>1. /\ TypeOK /\ NamesSent /\ toGame \in Seq(Messages) /\ toVosh \in Seq(Messages)
      /\ names \in Seq(0 .. 2) /\ Len(names) \in Nat
  BY DEF TInv, TypeOK
<1>2. CASE RespondTtype
  <2>1. /\ toVosh # <<>> /\ toVosh' = Tail(toVosh) /\ Head(toVosh) = SendName
        /\ names' = names /\ cycle' = cycle + 1
        /\ toGame' = Append(toGame, NameIs(NameSlot))
    BY <1>1, <1>2, Reads, SendRead DEF RespondTtype, VoshReads, gameVars
  <2>2. ~Free(toVosh, {SendName})
    BY <1>1, <2>1, TailFree
  <2>3. /\ Free(toGame, NamesTold) /\ cycle = Len(names) /\ Len(names) <= 3
        /\ One(toVosh, {SendName}) /\ One(toGame, NamesTold)
    BY <1>1, <2>2 DEF NamesSent
  <2>4. Free(toVosh', {SendName}) /\ One(toVosh', {SendName})
    BY <1>1, <2>1, <2>3, TailFree
  <2>5. NameSlot = NextName /\ NextName' = NextName /\ NameSlot \in 0 .. 2
    BY <1>1, <2>1, <2>3 DEF NameSlot, NextName
  <2>6. NameIs(NameSlot) \in Messages /\ NameIs(NameSlot) \in NamesTold
    BY <2>5, MessageMade, SendRead, MessageSays
  <2>7. ~Free(toGame', NamesTold) /\ One(toGame', NamesTold)
    <3>1. toGame \in Seq(Messages) /\ toGame' = Append(toGame, NameIs(NameSlot))
      BY <1>1, <2>1
    <3> QED
      BY <2>3, <2>6, <3>1, AppendFree
  <2>8. Free(toGame, NamesTold \ {NameIs(NextName)})
    BY <1>1 DEF NamesSent
  <2>9. Free(toGame', NamesTold \ {NameIs(NextName)})
    BY <1>1, <2>1, <2>5, <2>6, <2>8, AppendFree
  <2> QED
    BY <1>1, <2>1, <2>3, <2>4, <2>5, <2>7, <2>9 DEF NamesSent
<1>3. CASE GameHearsName
  <2>1. /\ toGame # <<>> /\ toGame' = Tail(toGame) /\ Head(toGame) \in NamesTold
        /\ Head(toGame) = NameIs(Head(toGame).slot)
        /\ names' = Append(names, Head(toGame).slot) /\ cycle' = cycle
        /\ toVosh' = toVosh
    BY <1>1, <1>3, Reads, SendRead DEF GameHearsName, GameReads, voshVars
  <2>2. ~Free(toGame, NamesTold)
    BY <1>1, <2>1, TailFree
  <2>3. /\ Free(toVosh, {SendName}) /\ cycle = Len(names) + 1 /\ Len(names) <= 3
        /\ One(toGame, NamesTold) /\ One(toVosh, {SendName})
        /\ Free(toGame, NamesTold \ {NameIs(NextName)})
    BY <1>1, <2>2 DEF NamesSent
  <2>4. Free(toGame', NamesTold) /\ One(toGame', NamesTold)
    BY <1>1, <2>1, <2>3, TailFree
  <2>5. Head(toGame).slot = NextName
    <3>1. Head(toGame) = NameIs(NextName)
      BY <1>1, <2>1, <2>3, TailFree
    <3> QED
      BY <3>1, MessageSays
  <2>6. NextName \in 0 .. 2
    <3>1. PICK n \in Nat : n = Len(names)
      BY <1>1
    <3>2. NextName = IF n < 2 THEN n ELSE 2
      BY <3>1 DEF NextName
    <3> QED
      BY <3>2
  <2>7. /\ Len(names') = Len(names) + 1
        /\ \A i \in 1 .. Len(names') :
             names'[i] = IF i <= Len(names) THEN names[i] ELSE NextName
    BY <1>1, <2>1, <2>5, <2>6
  <2>8. \A i \in 1 .. Len(names) : names[i] = IF i < 3 THEN i - 1 ELSE 2
    BY <1>1 DEF NamesSent
  <2>9. \A i \in 1 .. Len(names') : names'[i] = IF i < 3 THEN i - 1 ELSE 2
    BY <1>1, <2>7, <2>8 DEF NextName
  <2>10. Free(toGame', NamesTold \ {NameIs(NextName')})
    BY <2>4 DEF Free
  <2> QED
    BY <1>1, <2>1, <2>3, <2>4, <2>7, <2>9, <2>10 DEF NamesSent
<1>4. CASE GameAsksName
  <2>1. /\ toVosh' = Append(toVosh, SendName) /\ toGame' = toGame
        /\ names' = names /\ cycle' = cycle
        /\ Free(toVosh, {SendName})
        /\ \A i \in 1 .. Len(toGame) : toGame[i].verb # "IS"
    BY <1>4 DEF GameAsksName, voshVars, gameVars, Free
  <2>2. Free(toGame, NamesTold)
    BY <1>1, <2>1, SendRead DEF Free
  <2>3. Len(names) <= 3
    <3>1. /\ Len(names) <= 4
          /\ \A i \in 1 .. Len(names) : names[i] = IF i < 3 THEN i - 1 ELSE 2
      BY <1>1 DEF NamesSent
    <3>2. CASE Len(names) = 4
      <4>1. names[4] = names[3]
        BY <3>1, <3>2
      <4>2. Repeats
        BY <3>2, <4>1 DEF Repeats
      <4> QED
        BY <1>4, <4>2 DEF GameAsksName
    <3>3. PICK n \in Nat : n = Len(names)
      BY <1>1
    <3>4. n <= 4 /\ n # 4
      BY <3>1, <3>2, <3>3
    <3>5. n <= 3
      BY <3>4
    <3> QED
      BY <3>3, <3>5
  <2>4. One(toVosh', {SendName})
    <3>1. toVosh \in Seq(Messages) /\ SendName \in Messages /\ One(toVosh, {SendName})
      BY <1>1, MessageMade DEF NamesSent
    <3> QED
      BY <2>1, <3>1, AppendFree
  <2> QED
    BY <1>1, <2>1, <2>2, <2>3, <2>4 DEF NamesSent, NextName
<1>5. CASE ~RespondTtype /\ ~GameHearsName /\ ~GameAsksName
  <2>1. names' = names /\ cycle' = cycle /\ NextName' = NextName
    BY <1>1, <1>5, NamesKept DEF NextName
  <2>2. /\ Free(toVosh', {SendName}) <=> Free(toVosh, {SendName})
        /\ One(toVosh, {SendName}) => One(toVosh', {SendName})
    <3>1. CASE \E v \in Verbs, p \in Opts : toVosh' = Append(toVosh, Msg(v, p))
      BY <1>1, <3>1, AppendFree, MessageMade, OptionOnly
    <3>2. CASE toVosh # <<>> /\ toVosh' = Tail(toVosh) /\ Head(toVosh).verb # "SEND"
      <4>1. Head(toVosh) # SendName
        BY <3>2, MessageSays
      <4> QED
        BY <1>1, <3>2, <4>1, TailFree
    <3> QED
      BY <1>1, <1>5, <3>1, <3>2, NamesKept
  <2>3. /\ Free(toGame', NamesTold) <=> Free(toGame, NamesTold)
        /\ One(toGame, NamesTold) => One(toGame', NamesTold)
        /\ Free(toGame, NamesTold \ {NameIs(NextName)})
               => Free(toGame', NamesTold \ {NameIs(NextName')})
    <3>1. PICK x : x = NextName
      OBVIOUS
    <3> QED
      BY <1>1, <1>5, <2>1, <3>1, NoNameMoves
  <2> QED
    BY <1>1, <2>1, <2>2, <2>3 DEF NamesSent
<1> QED
  BY <1>2, <1>3, <1>4, <1>5

-----------------------------------------------------------------------------
(* The theorems.                                                           *)

LEMMA InvInit == Init => TInv
<1> SUFFICES ASSUME Init PROVE TInv
  OBVIOUS
<1>1. TypeOK /\ Sides
  BY TypeInit, SidesInit
<1>2. Dialing /\ AsksEor /\ Echo
  BY DEF Init, Dialing, AsksEor, Echo
<1>3. SizeSent /\ HelloSent
  BY DEF Init, SizeSent, HelloSent
<1>4. NamesSent
  BY NothingIn DEF Init, NamesSent
<1> QED
  BY <1>1, <1>2, <1>3, <1>4 DEF TInv

LEMMA InvNext == TInv /\ [Next]_vars => TInv'
  BY TypeStep, SidesStep, DialingStep, EchoStep, SizeStep, HelloStep, NamesStep
  DEF TInv

\* Spec, but for its fairness.
LEMMA Steps == Spec => []TInv
<1>1. Init => TInv
  BY InvInit
<1>2. TInv /\ [Next]_vars => TInv'
  BY InvNext
<1> QED
  BY <1>1, <1>2, PTL DEF Spec

THEOREM TypesHold == Spec => []TypeOK
<1>1. TInv => TypeOK
  BY DEF TInv
<1> QED
  BY <1>1, Steps, PTL

\* With both channels empty, neither side of an option has a question open.
LEMMA QuietSides ==
  ASSUME TInv, Quiet, NEW o \in Opts
  PROVE  /\ server[o] = "Yes" <=> does[o] = "Yes"
         /\ vosh[o] = "Yes" <=> lets[o] = "Yes"
         /\ {server[o], vosh[o], does[o], lets[o]} \subseteq {"No", "Yes"}
<1>1. /\ ServerSide(o) /\ VoshSide(o) /\ toGame = <<>> /\ toVosh = <<>>
      /\ server[o] \in Side /\ vosh[o] \in {"No", "Yes"} /\ eager \in BOOLEAN
  BY DEF TInv, TypeOK, Sides, Quiet
<1>2. \A V, w : /\ None(<<>>, o, V) /\ AllAre(<<>>, o, V, w)
                /\ ~OneIs(<<>>, o, V, w)
                /\ \A x : ~TwoAre(<<>>, o, V, w, x)
  BY DEF None, AllAre, OneIs, TwoAre
<1>3. server[o] \in {"No", "Yes"} /\ does[o] = server[o]
  BY <1>1, <1>2 DEF ServerSide, Agreeing, Eager, Careful, Side
<1>4. lets[o] = vosh[o]
  BY <1>1, <1>2 DEF VoshSide, Agreeing, Eager, Careful, Side
<1> QED
  BY <1>1, <1>3, <1>4

\* Both sides read every option alike once nothing is on its way.
THEOREM SidesAlike == Spec => []SidesAgree
<1>1. TInv => SidesAgree
  <2> SUFFICES ASSUME TInv PROVE SidesAgree
    OBVIOUS
  <2>1. ASSUME Quiet, NEW o \in Opts
        PROVE  /\ server[o] = "Yes" <=> does[o] = "Yes"
               /\ vosh[o] = "Yes" <=> lets[o] = "Yes"
               /\ server[o] # "WantYes"
               /\ does[o] \in {"No", "Yes"} /\ lets[o] \in {"No", "Yes"}
    BY <2>1, QuietSides
  <2>2. Echo
    BY DEF TInv
  <2> QED
    BY <2>1, <2>2 DEF SidesAgree, Echo
<1> QED
  BY <1>1, Steps, PTL

\* What the game turned on, Vosh told it of.
THEOREM GameIsTold == Spec => []GameTold
<1>1. TInv => GameTold
  <2> SUFFICES ASSUME TInv, Quiet
               PROVE  /\ "NAWS" \in Opts /\ lets["NAWS"] = "Yes" => heardSize = size
                      /\ "GMCP" \in Opts /\ does["GMCP"] = "Yes" => hello
    BY DEF GameTold
  <2>1. toGame = <<>> /\ SizeSent /\ HelloSent
    BY DEF TInv, Quiet
  <2>2. \A K, R : ~After(<<>>, K, R)
    BY DEF After
  <2>3. "NAWS" \in Opts /\ lets["NAWS"] = "Yes" => vosh["NAWS"] = "Yes"
    BY QuietSides
  <2>4. "GMCP" \in Opts /\ does["GMCP"] = "Yes" => server["GMCP"] = "Yes"
    BY QuietSides
  <2> QED
    BY <2>1, <2>2, <2>3, <2>4 DEF SizeSent, HelloSent
<1> QED
  BY <1>1, Steps, PTL
=============================================================================
