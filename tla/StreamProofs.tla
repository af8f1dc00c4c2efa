---------------------------- MODULE StreamProofs ----------------------------
(***************************************************************************)
(* What Stream keeps for every burst, bound and set of paces.  Each        *)
(* invariant has a lemma for one step, and they share the lemma of types.  *)
(***************************************************************************)
EXTENDS Stream, TLAPS

\* The types without the bound on the lines that wait.
Types ==
    /\ perSec \in Paces /\ tokens \in 0 .. Full /\ idle \in 0 .. MaxIdle
    /\ waiting \in Seq(Lines)
    /\ last \in Texts \cup {NoText} /\ repeats \in Nat /\ heldBack \in BOOLEAN
    /\ holding \in BOOLEAN /\ held \in Seq(Lines) /\ linesOut \in Int
    /\ batch \in Seq(Lines) /\ draining \in BOOLEAN
    /\ offered \in 0 .. Offers /\ typed \in 0 .. Typings
    /\ out \in Nat /\ passed \in 0 .. Offers
    /\ gameLast \in Texts \cup {NoText} /\ gameRuns \in Nat /\ worst \in Nat
    /\ flow \in Nat

\* The refill never passes the burst.
LEMMA RefillTypes ==
    ASSUME perSec \in Nat, tokens \in 0 .. Full, idle \in Nat
    PROVE  Refilled \in 0 .. Full
<1> USE StreamAssumption
<1>1. Full \in Nat
    BY DEF Full
<1>2. CASE perSec = 0
    BY <1>2 DEF Refilled
<1>3. CASE perSec # 0
    <2>1. idle * perSec \in Nat
        OBVIOUS
    <2> QED BY <1>1, <1>3, <2>1 DEF Refilled, Least
<1> QED BY <1>2, <1>3

\* The lines of a call are lines, numbered from the next number on.
LEMMA NumberedTypes ==
    ASSUME offered \in Nat, NEW texts \in Seq(Texts), offered + Len(texts) <= Offers
    PROVE  /\ Numbered(texts) \in Seq(Lines)
           /\ Len(Numbered(texts)) = Len(texts)
           /\ \A i \in 1 .. Len(texts) : Numbered(texts)[i].number = offered + i
<1> USE StreamAssumption
<1>1. \A i \in 1 .. Len(texts) :
        [text |-> texts[i], number |-> offered + i] \in Lines
    BY DEF Lines
<1> QED BY <1>1 DEF Numbered

\* A call sends one line or two.
LEMMA CallTypes == ASSUME NEW texts \in OneCall PROVE texts \in Seq(Texts)
<1>1. PICK n \in 1 .. 2 : texts \in [1 .. n -> Texts]
    BY DEF OneCall
<1> QED BY <1>1

\* What a line that reaches the game leaves of the counts.
LEMMA CountTypes ==
    ASSUME NEW text \in Texts, NEW before \in Texts \cup {NoText}, NEW count \in Nat
    PROVE  Counted(text, before, count) \in Nat /\ Compared(text, before) \in Texts \cup {NoText}
BY DEF Counted, Compared

\* A step past the pace, or through it, keeps the types of what it counts.
LEMMA PassTypes ==
    ASSUME Types, NEW text \in Texts, Passes(text)
    PROVE  /\ last' \in Texts \cup {NoText} /\ repeats' \in Nat /\ heldBack' \in BOOLEAN
           /\ linesOut' \in Int /\ out' \in Nat /\ passed' = passed
           /\ gameLast' \in Texts \cup {NoText} /\ gameRuns' \in Nat
           /\ worst' = worst /\ flow' = flow
<1>1. /\ Counted(text, last, repeats) \in Nat
      /\ Compared(text, last) \in Texts \cup {NoText}
      /\ Counted(text, gameLast, gameRuns) \in Nat
      /\ Compared(text, gameLast) \in Texts \cup {NoText}
    BY CountTypes DEF Types
<1>2. heldBack' \in BOOLEAN
    BY DEF Passes, Went
<1> QED BY <1>1, <1>2 DEF Types, Passes, Went, Reaches

\* A line the pace lets go keeps the types of what it counts and of the ghosts.
LEMMA LetsGoTypes ==
    ASSUME Types, NEW line \in Lines, LetsGo(line)
    PROVE  /\ last' \in Texts \cup {NoText} /\ repeats' \in Nat /\ heldBack' \in BOOLEAN
           /\ linesOut' \in Int /\ out' \in Nat /\ passed' \in 0 .. Offers
           /\ gameLast' \in Texts \cup {NoText} /\ gameRuns' \in Nat
           /\ worst' \in Nat /\ flow' \in Nat
<1>1. line.text \in Texts /\ line.number \in 1 .. Offers
    BY DEF Lines
<1>2. /\ Counted(line.text, last, repeats) \in Nat
      /\ Compared(line.text, last) \in Texts \cup {NoText}
      /\ Counted(line.text, gameLast, gameRuns) \in Nat
      /\ Compared(line.text, gameLast) \in Texts \cup {NoText}
    BY <1>1, CountTypes DEF Types
<1>3. heldBack' \in BOOLEAN
    BY DEF LetsGo, Went
<1>4. /\ last' \in Texts \cup {NoText} /\ repeats' \in Nat
      /\ gameLast' \in Texts \cup {NoText} /\ gameRuns' \in Nat
    BY <1>2 DEF LetsGo, Went, Reaches
<1>5. worst' \in Nat
    BY <1>4 DEF Types, LetsGo
<1>6. linesOut' \in Int /\ out' \in Nat
    BY DEF Types, LetsGo, Reaches
<1>7. passed' \in 0 .. Offers
    BY <1>1, StreamAssumption DEF LetsGo
<1>8. flow' \in Nat
    BY StreamAssumption DEF Types, LetsGo
<1> QED BY <1>3, <1>4, <1>5, <1>6, <1>7, <1>8

\* The types hold at the start.
LEMMA InitTypes == Init => Types
<1>1. Full \in Nat
    BY StreamAssumption DEF Full
<1>2. <<>> \in Seq(Lines)
    OBVIOUS
<1>3. ASSUME Init
      PROVE  /\ heldBack \in BOOLEAN /\ holding \in BOOLEAN /\ draining \in BOOLEAN
             /\ waiting \in Seq(Lines) /\ held \in Seq(Lines) /\ batch \in Seq(Lines)
    BY <1>2, <1>3 DEF Init
<1>4. ASSUME Init
      PROVE  /\ perSec \in Paces /\ tokens \in 0 .. Full /\ idle \in 0 .. MaxIdle
             /\ offered \in 0 .. Offers /\ typed \in 0 .. Typings
             /\ passed \in 0 .. Offers
    BY <1>1, <1>4, StreamAssumption DEF Init
<1>5. ASSUME Init
      PROVE  /\ last \in Texts \cup {NoText} /\ gameLast \in Texts \cup {NoText}
             /\ repeats \in Nat /\ linesOut \in Int /\ out \in Nat
             /\ gameRuns \in Nat /\ worst \in Nat /\ flow \in Nat
    BY <1>5 DEF Init
<1> QED BY <1>3, <1>4, <1>5 DEF Types

\* Every step keeps the types.
LEMMA NextTypes ==
    ASSUME Types, [Next]_vars
    PROVE  Types'
<1> USE StreamAssumption
<1>1. perSec \in Nat /\ Refilled \in 0 .. Full
    BY RefillTypes DEF Types
<1>2. ASSUME NEW texts \in OneCall, WriteAll(texts)
      PROVE  Types'
    <2>1. texts \in Seq(Texts) /\ Len(texts) \in Nat
        BY CallTypes
    <2>2. Numbered(texts) \in Seq(Lines)
        BY <1>2, <2>1, NumberedTypes DEF Types, WriteAll
    <2>3. offered' \in 0 .. Offers
        BY <1>2, <2>1 DEF Types, WriteAll
    <2>4. CASE holding
        <3>1. held' = held \o Numbered(texts) /\ linesOut' = linesOut + Len(texts)
            BY <1>2, <2>4 DEF WriteAll
        <3>2. held' \in Seq(Lines) /\ linesOut' \in Int
            BY <2>1, <2>2, <3>1 DEF Types
        <3> QED BY <1>2, <2>3, <2>4, <3>2 DEF Types, WriteAll, ghosts
    <2>5. CASE ~holding
        <3>1. tokens' \in 0 .. Full /\ idle' \in 0 .. MaxIdle
            BY <1>1, <1>2, <2>5 DEF Types, WriteAll, Refill
        <3>2. batch' \in Seq(Lines)
            BY <1>2, <2>2, <2>5 DEF WriteAll
        <3> QED BY <1>2, <2>3, <2>5, <3>1, <3>2 DEF Types, WriteAll, ghosts
    <2> QED BY <2>4, <2>5
<1>3. ASSUME NEW text \in Texts, WriteNow(text)
      PROVE  Types'
    BY <1>3, PassTypes DEF Types, WriteNow
<1>4. ASSUME NEW text \in Texts, WriteStep(text)
      PROVE  Types'
    <2>1. CASE holding
        <3>1. <<text>> \in Seq(Texts) /\ offered + Len(<<text>>) <= Offers
            BY <1>4 DEF Types, WriteStep
        <3>2. Numbered(<<text>>) \in Seq(Lines)
            <4>1. offered \in Nat
                BY DEF Types
            <4> QED BY <3>1, <4>1, NumberedTypes
        <3>3. held' = held \o Numbered(<<text>>) /\ linesOut' = linesOut + 1
            BY <1>4, <2>1 DEF WriteStep
        <3>4. held' \in Seq(Lines) /\ linesOut' \in Int
            BY <3>2, <3>3 DEF Types
        <3> QED BY <1>4, <2>1, <3>4 DEF Types, WriteStep, ghosts
    <2>2. CASE ~holding
        BY <1>4, <2>2, PassTypes DEF Types, WriteStep
    <2> QED BY <2>1, <2>2
<1>5. ASSUME OfferWaits PROVE Types'
    <2>1. Head(batch) \in Lines /\ Tail(batch) \in Seq(Lines)
        BY <1>5 DEF Types, OfferWaits
    <2>2. Kept(Append(waiting, Head(batch))) \in Seq(Lines)
        BY <2>1 DEF Types, Kept
    <2> QED BY <1>5, <2>1, <2>2 DEF Types, OfferWaits, ghosts
<1>6. ASSUME OfferStopped PROVE Types'
    BY <1>6 DEF Types, OfferStopped, StopsLine, ghosts
<1>7. ASSUME OfferGoes PROVE Types'
    <2>1. Head(batch) \in Lines /\ Tail(batch) \in Seq(Lines)
        BY <1>7 DEF Types, OfferGoes
    <2>2. tokens' \in 0 .. Full
        BY <1>7 DEF Types, OfferGoes, GoesNow, Full
    <2> QED BY <1>7, <2>1, <2>2, LetsGoTypes DEF Types, OfferGoes
<1>8. ASSUME DrainStopped PROVE Types'
    BY <1>8 DEF Types, DrainStopped, StopsLine, ghosts
<1>9. ASSUME DrainGoes PROVE Types'
    <2>1. Head(waiting) \in Lines /\ Tail(waiting) \in Seq(Lines)
        BY <1>9 DEF Types, DrainGoes
    <2>2. tokens' \in 0 .. Full
        BY <1>9 DEF Types, DrainGoes, Full
    <2> QED BY <1>9, <2>1, <2>2, LetsGoTypes DEF Types, DrainGoes
<1>10. ASSUME DrainEnds PROVE Types'
    BY <1>10 DEF Types, DrainEnds, paceVars, ghosts
<1>11. ASSUME SendPaced PROVE Types'
    BY <1>1, <1>11 DEF Types, SendPaced, Refill, ghosts
<1>12. ASSUME DropPaced PROVE Types'
    BY <1>12 DEF Types, DropPaced, ghosts
<1>13. ASSUME Hold PROVE Types'
    BY <1>13 DEF Types, Hold, ghosts
<1>14. ASSUME Release PROVE Types'
    <2>1. tokens' \in 0 .. Full /\ idle' \in 0 .. MaxIdle
        BY <1>1, <1>14 DEF Types, Release, Refill
    <2>2. held' \in Seq(Lines) /\ batch' \in Seq(Lines) /\ linesOut' \in Int
        BY <1>14 DEF Types, Release
    <2> QED BY <1>14, <2>1, <2>2 DEF Types, Release, ghosts
<1>15. ASSUME NEW pace \in Paces, SetPace(pace)
       PROVE  Types'
    BY <1>15 DEF Types, SetPace
<1>16. ASSUME Tick PROVE Types'
    BY <1>1, <1>16 DEF Types, Tick
<1>17. ASSUME UNCHANGED vars PROVE Types'
    BY <1>17 DEF Types, vars, paceVars, ghosts
<1> QED BY <1>2, <1>3, <1>4, <1>5, <1>6, <1>7, <1>8, <1>9, <1>10, <1>11, <1>12,
           <1>13, <1>14, <1>15, <1>16, <1>17 DEF Next, InCall

-----------------------------------------------------------------------------
(* The lines counted, and the count of repeats.                            *)

\* The hold and the pace never keep lines at the same time.
Apart ==
    /\ ~holding => held = <<>>
    /\ holding => waiting = <<>> /\ batch = <<>> /\ ~draining

\* At the start neither the hold nor the pace keeps a line.
LEMMA ApartInit == Init => Apart
BY DEF Init, Apart

\* Hold takes what the pace kept, and Release leaves nothing in the hold.
LEMMA ApartStep ==
    ASSUME Apart, [Next]_vars
    PROVE  Apart'
<1> USE DEF Apart
<1>1. ASSUME NEW texts \in OneCall, WriteAll(texts)
      PROVE  Apart'
    BY <1>1 DEF WriteAll
<1>2. ASSUME NEW text \in Texts, WriteNow(text) \/ WriteStep(text)
      PROVE  Apart'
    BY <1>2 DEF WriteNow, WriteStep
<1>3. ASSUME OfferWaits \/ OfferStopped \/ OfferGoes
      PROVE  Apart'
    BY <1>3 DEF OfferWaits, OfferStopped, OfferGoes
<1>4. ASSUME DrainStopped \/ DrainGoes \/ DrainEnds \/ SendPaced \/ DropPaced
      PROVE  Apart'
    BY <1>4 DEF DrainStopped, DrainGoes, DrainEnds, SendPaced, DropPaced, paceVars
<1>5. ASSUME Hold \/ Release PROVE Apart'
    BY <1>5 DEF Hold, Release, Between
<1>6. ASSUME (\E pace \in Paces : SetPace(pace)) \/ Tick \/ UNCHANGED vars
      PROVE  Apart'
    BY <1>6 DEF SetPace, Tick, vars, paceVars
<1> QED BY <1>1, <1>2, <1>3, <1>4, <1>5, <1>6 DEF Next, InCall

\* The pace counts what the game counts.
SameCount == gameLast = last /\ gameRuns = repeats

\* At the start nothing has left and nothing is counted.
LEMMA CountedInit == Init => LinesCounted /\ SameCount /\ NeverPastStop
BY StreamAssumption DEF Init, LinesCounted, SameCount, NeverPastStop

\* Lines that join others add to their number.
LEMMA JoinedLength ==
    ASSUME NEW before \in Seq(Lines), NEW more \in Seq(Lines)
    PROVE  Len(before \o more) = Len(before) + Len(more)
OBVIOUS

\* A line is counted as it leaves or as the hold takes it, and Release takes
\* back the count of what it hands to the pace.
LEMMA LinesCountedStep ==
    ASSUME Types, Apart, LinesCounted, [Next]_vars
    PROVE  LinesCounted'
<1> USE DEF LinesCounted
<1>1. held \in Seq(Lines) /\ Len(held) \in Nat /\ linesOut \in Int /\ out \in Nat
    BY DEF Types
<1>2. ASSUME NEW texts \in OneCall, WriteAll(texts)
      PROVE  LinesCounted'
    <2>1. offered \in Nat /\ texts \in Seq(Texts) /\ offered + Len(texts) <= Offers
        BY <1>2, CallTypes DEF Types, WriteAll
    <2>2. Numbered(texts) \in Seq(Lines) /\ Len(Numbered(texts)) = Len(texts)
        BY <2>1, NumberedTypes
    <2>3. CASE holding
        <3>1. /\ held' = held \o Numbered(texts)
              /\ linesOut' = linesOut + Len(texts) /\ out' = out
            BY <1>2, <2>3 DEF WriteAll, ghosts
        <3>2. Len(held') = Len(held) + Len(texts)
            BY <1>1, <2>2, <3>1, JoinedLength
        <3>3. Len(texts) \in Nat
            BY <2>1
        <3> QED BY <1>1, <3>1, <3>2, <3>3
    <2>4. CASE ~holding
        BY <1>2, <2>4 DEF WriteAll, ghosts
    <2> QED BY <2>3, <2>4
<1>3. ASSUME NEW text \in Texts, WriteNow(text)
      PROVE  LinesCounted'
    BY <1>1, <1>3 DEF WriteNow, Passes, Reaches
<1>4. ASSUME NEW text \in Texts, WriteStep(text)
      PROVE  LinesCounted'
    <2>1. CASE holding
        <3>1. offered \in Nat /\ <<text>> \in Seq(Texts) /\ offered + Len(<<text>>) <= Offers
            BY <1>4, StreamAssumption DEF Types, WriteStep
        <3>2. Numbered(<<text>>) \in Seq(Lines) /\ Len(Numbered(<<text>>)) = 1
            BY <3>1, NumberedTypes
        <3>3. held' = held \o Numbered(<<text>>)
            BY <1>4, <2>1 DEF WriteStep
        <3>4. Len(held') = Len(held) + Len(Numbered(<<text>>))
            BY <1>1, <3>2, <3>3, JoinedLength
        <3>5. Len(held') = Len(held) + 1
            BY <3>2, <3>4
        <3>6. linesOut' = linesOut + 1 /\ out' = out
            BY <1>4, <2>1 DEF WriteStep, ghosts
        <3> QED BY <1>1, <3>5, <3>6
    <2>2. CASE ~holding
        BY <1>1, <1>4, <2>2 DEF WriteStep, Passes, Reaches
    <2> QED BY <2>1, <2>2
<1>5. ASSUME OfferGoes \/ DrainGoes PROVE LinesCounted'
    BY <1>1, <1>5 DEF OfferGoes, DrainGoes, LetsGo, Reaches
<1>6. ASSUME Hold PROVE LinesCounted'
    <2>1. Len(held) = 0 /\ Len(waiting) \in Nat
        BY <1>6 DEF Types, Apart, Hold
    <2> QED BY <1>1, <1>6, <2>1 DEF Types, Hold, ghosts
<1>7. ASSUME Release PROVE LinesCounted'
    BY <1>1, <1>7 DEF Release, ghosts
<1>8. ASSUME OfferWaits \/ OfferStopped \/ DrainStopped \/ DrainEnds \/ SendPaced
             \/ DropPaced \/ (\E pace \in Paces : SetPace(pace)) \/ Tick \/ UNCHANGED vars
      PROVE  LinesCounted'
    BY <1>8 DEF OfferWaits, OfferStopped, DrainStopped, DrainEnds, StopsLine,
                SendPaced, DropPaced, SetPace, Tick, vars, paceVars, ghosts
<1> QED BY <1>2, <1>3, <1>4, <1>5, <1>6, <1>7, <1>8 DEF Next, InCall

\* The pace and the game count alike, so the check of RepeatStops is a check
\* of the game's count.
LEMMA SameCountStep ==
    ASSUME Types, SameCount, NeverPastStop, [Next]_vars
    PROVE  SameCount' /\ NeverPastStop'
<1> USE DEF SameCount, NeverPastStop
<1>1. ASSUME NEW text \in Texts, Passes(text)
      PROVE  SameCount' /\ NeverPastStop'
    BY <1>1 DEF Passes, Went, Reaches
<1>2. ASSUME NEW line \in Lines, LetsGo(line), ~RepeatStops(line.text)
      PROVE  SameCount' /\ NeverPastStop'
    <2>1. SameCount'
        BY <1>2 DEF LetsGo, Went, Reaches
    <2>2. CASE Repeats(line.text, gameLast)
        <3>1. repeats + 1 < RepeatStop
            BY <1>2, <2>2, StreamAssumption DEF RepeatStops, Types
        <3>2. gameRuns' = repeats + 1
            BY <1>2, <2>2 DEF LetsGo, Reaches, Counted
        <3> QED BY <1>2, <2>1, <3>1, <3>2 DEF LetsGo
    <2>3. CASE ~Repeats(line.text, gameLast)
        BY <1>2, <2>1, <2>3 DEF LetsGo
    <2> QED BY <2>2, <2>3
<1>3. ASSUME NEW text \in Texts, WriteNow(text) \/ WriteStep(text)
      PROVE  SameCount' /\ NeverPastStop'
    BY <1>1, <1>3 DEF WriteNow, WriteStep, ghosts
<1>4. ASSUME OfferGoes PROVE SameCount' /\ NeverPastStop'
    <2>1. Head(batch) \in Lines
        BY <1>4 DEF Types, OfferGoes
    <2> QED BY <1>2, <1>4, <2>1 DEF OfferGoes
<1>5. ASSUME DrainGoes PROVE SameCount' /\ NeverPastStop'
    <2>1. Head(waiting) \in Lines
        BY <1>5 DEF Types, DrainGoes
    <2> QED BY <1>2, <1>5, <2>1 DEF DrainGoes
<1>6. ASSUME OfferWaits \/ OfferStopped \/ DrainStopped \/ DrainEnds \/ SendPaced
             \/ DropPaced \/ Hold \/ Release
      PROVE  SameCount' /\ NeverPastStop'
    BY <1>6 DEF OfferWaits, OfferStopped, DrainStopped, DrainEnds, StopsLine,
                SendPaced, DropPaced, Hold, Release, paceVars, ghosts
<1>7. ASSUME (\E texts \in OneCall : WriteAll(texts))
             \/ (\E pace \in Paces : SetPace(pace)) \/ Tick \/ UNCHANGED vars
      PROVE  SameCount' /\ NeverPastStop'
    BY <1>7 DEF WriteAll, SetPace, Tick, vars, paceVars, ghosts
<1> QED BY <1>3, <1>4, <1>5, <1>6, <1>7 DEF Next, InCall

-----------------------------------------------------------------------------
(* The pace.                                                               *)

\* What the bucket holds at the next look at it, with what flowed out,
\* never passes the burst.  The bucket is looked at as a call starts.
Ready == IF perSec = 0 THEN 0 ELSE Least(Full, tokens + idle * perSec)

Balanced ==
    /\ flow + Ready <= Full
    /\ ~Between => perSec = 0 \/ idle = 0

\* Ready is what the refill of the next call leaves, where there is a pace.
LEMMA ReadyTypes ==
    ASSUME Types
    PROVE  /\ Full \in Nat /\ perSec \in Nat /\ idle * perSec \in Nat
           /\ Ready \in Nat /\ Ready <= Full
           /\ perSec # 0 => Ready = Refilled
<1>1. Full \in Nat /\ perSec \in Nat
    BY StreamAssumption DEF Types, Full
<1>2. idle \in Nat /\ idle * perSec \in Nat
    BY <1>1, StreamAssumption DEF Types
<1>3. tokens \in Nat
    BY <1>1 DEF Types
<1> QED BY <1>1, <1>2, <1>3 DEF Ready, Least, Refilled

\* Arithmetic, apart from the state it is about.
LEMMA Product ==
    ASSUME NEW a \in Nat, NEW b \in Nat
    PROVE  a * b \in Nat /\ 0 * b = 0 /\ (a + 1) * b = a * b + b /\ 0 + b = b
OBVIOUS

\* The least of two is no more than the first.
LEMMA LeastTypes ==
    ASSUME NEW a \in Nat, NEW b \in Nat
    PROVE  Least(a, b) \in Nat /\ Least(a, b) <= a /\ Least(a, Least(a, b)) = Least(a, b)
BY DEF Least

\* A step of time leaks from the bucket what it adds to the tokens.
LEMMA Leaks ==
    ASSUME NEW full \in Nat, NEW rate \in Nat, NEW level \in Nat, NEW next \in Nat,
           NEW ready \in Nat, NEW nextReady \in Nat,
           level + ready <= full, nextReady <= full, nextReady <= ready + rate,
           next = IF level > rate THEN level - rate ELSE 0
    PROVE  next + nextReady <= full
OBVIOUS

\* The bucket is full at the start and nothing has flowed out.
LEMMA BalancedInit == Init => Balanced
BY InitTypes, ReadyTypes DEF Init, Balanced, Between

\* A line that goes moves Second from the bucket to the flow, and time adds to
\* the bucket no more than it takes from the flow.
LEMMA BalancedStep ==
    ASSUME Types, Types', Balanced, [Next]_vars
    PROVE  Balanced'
<1>1. /\ Full \in Nat /\ perSec \in Nat /\ idle * perSec \in Nat
      /\ Ready \in Nat /\ Ready <= Full
      /\ perSec # 0 => Ready = Refilled
    BY ReadyTypes
<1>2. flow \in Nat /\ flow' \in Nat /\ tokens \in 0 .. Full /\ idle \in Nat
    BY StreamAssumption DEF Types
<1>3. flow + Ready <= Full
    BY DEF Balanced
\* A look at the bucket leaves what it holds.
<1>4. ASSUME Refill, perSec' = perSec
      PROVE  Ready' = Ready /\ (perSec = 0 \/ idle' = 0)
    <2>1. CASE perSec = 0
        BY <1>4, <2>1 DEF Ready
    <2>2. CASE perSec # 0
        <3>1. tokens' = Refilled /\ idle' = 0 /\ perSec' = perSec
            BY <1>4, <2>2 DEF Refill
        <3>2. tokens' = Ready
            BY <1>1, <2>2, <3>1
        <3>3. idle' * perSec' = 0
            BY <1>1, <3>1, Product
        <3>4. tokens' + idle' * perSec' = Ready
            BY <1>1, <3>2, <3>3
        <3>5. Ready' = Least(Full, Ready)
            BY <2>2, <3>1, <3>4 DEF Ready, Full
        <3>6. Ready' = Ready
            BY <1>1, <3>5 DEF Least
        <3> QED BY <3>1, <3>6
    <2> QED BY <2>1, <2>2
\* A line that goes takes its tokens.
<1>5. ASSUME NEW line, LetsGo(line), perSec' = perSec, idle' = idle,
             perSec # 0 => tokens >= Second /\ tokens' = tokens - Second,
             perSec = 0 \/ idle = 0
      PROVE  flow' + Ready' <= Full
    <2>1. CASE perSec = 0
        BY <1>2, <1>3, <1>5, <2>1 DEF Ready, LetsGo
    <2>2. CASE perSec # 0
        <3>1. flow' = flow + Second
            BY <1>5, <2>2 DEF LetsGo
        <3>2. Ready = tokens
            BY <1>1, <1>2, <1>5, <2>2 DEF Ready, Least
        <3>3. Ready' = tokens - Second
            BY <1>1, <1>2, <1>5, <2>2, StreamAssumption DEF Ready, Least, Full
        <3> QED BY <1>1, <1>2, <1>3, <3>1, <3>2, <3>3, StreamAssumption
    <2> QED BY <2>1, <2>2
<1>6. ASSUME (\E texts \in OneCall : WriteAll(texts)) \/ SendPaced \/ Release
      PROVE  Balanced'
    <2>1. flow' = flow /\ perSec' = perSec
        BY <1>6 DEF WriteAll, SendPaced, Release, ghosts
    <2>2. CASE Refill
        BY <1>3, <1>4, <2>1, <2>2 DEF Balanced, Full
    <2>3. CASE UNCHANGED <<tokens, idle>> /\ Between'
        BY <1>3, <2>1, <2>3 DEF Balanced, Ready, Full
    <2>4. Refill \/ (UNCHANGED <<tokens, idle>> /\ Between')
        BY <1>6 DEF WriteAll, SendPaced, Release, Between
    <2> QED BY <2>2, <2>3, <2>4
<1>7. ASSUME OfferGoes PROVE Balanced'
    <2>1. perSec = 0 \/ idle = 0
        BY <1>7 DEF OfferGoes, Balanced, Between
    <2>2. flow' + Ready' <= Full
        BY <1>5, <1>7, <2>1 DEF OfferGoes, GoesNow
    <2> QED BY <1>7, <2>1, <2>2 DEF OfferGoes, Balanced, Full
<1>8. ASSUME DrainGoes PROVE Balanced'
    <2>1. perSec = 0 \/ idle = 0
        BY <1>8 DEF DrainGoes, Balanced, Between
    <2>2. flow' + Ready' <= Full
        BY <1>5, <1>8, <2>1 DEF DrainGoes
    <2> QED BY <1>8, <2>1, <2>2 DEF DrainGoes, Balanced, Full
<1>9. ASSUME NEW pace \in Paces, SetPace(pace)
      PROVE  Balanced'
    <2>1. flow' = 0 /\ Between'
        BY <1>9 DEF SetPace, Between
    <2>2. Ready' <= Full /\ Ready' \in Nat
        <3>1. perSec' \in Nat /\ idle' = idle /\ tokens' = tokens
            BY <1>9, StreamAssumption DEF SetPace
        <3>2. idle * perSec' \in Nat
            BY <1>2, <3>1, Product
        <3>3. tokens + idle * perSec' \in Nat
            BY <1>1, <1>2, <3>2
        <3>4. Ready' = IF perSec' = 0 THEN 0 ELSE Least(Full, tokens + idle * perSec')
            BY <3>1 DEF Ready, Full
        <3> QED BY <1>1, <3>3, <3>4, LeastTypes
    <2>3. flow' + Ready' <= Full
        <3>1. flow' = 0
            BY <2>1
        <3>2. flow' + Ready' = Ready'
            BY <1>2, <2>2, <3>1, Product
        <3> QED BY <2>2, <3>2
    <2> QED BY <2>1, <2>3 DEF Balanced, Full
<1>10. ASSUME Tick PROVE Balanced'
    <2>1. Between' /\ perSec' = perSec /\ tokens' = tokens /\ idle' = idle + 1
        BY <1>10 DEF Tick, Between
    <2>2. idle' * perSec' = idle * perSec + perSec
        BY <1>1, <1>2, <2>1
    <2>3. CASE perSec = 0
        BY <1>2, <1>3, <1>10, <2>1, <2>3 DEF Balanced, Ready, Tick, Full
    <2>4. CASE perSec # 0
        <3>1. Ready' <= Ready + perSec /\ Ready' <= Full
            BY <1>1, <1>2, <2>1, <2>2, <2>4 DEF Ready, Least, Full
        <3>2. flow' = IF flow > perSec THEN flow - perSec ELSE 0
            BY <1>10 DEF Tick
        <3>3. Ready' \in Nat
            <4>1. tokens' + idle' * perSec' \in Nat
                BY <1>1, <1>2, <2>1, <2>2
            <4> QED BY <1>1, <2>1, <2>4, <4>1 DEF Ready, Least, Full
        <3>4. flow' + Ready' <= Full
            BY <1>1, <1>2, <1>3, <3>1, <3>2, <3>3, Leaks
        <3> QED BY <2>1, <3>4 DEF Balanced, Full
    <2> QED BY <2>3, <2>4
<1>11. ASSUME UNCHANGED <<perSec, tokens, idle, flow>>, Between' \/ ~Between
       PROVE  Balanced'
    BY <1>11 DEF Balanced, Ready, Full
<1>12. ASSUME OfferWaits \/ OfferStopped \/ DrainStopped
       PROVE  Balanced'
    BY <1>11, <1>12 DEF OfferWaits, OfferStopped, DrainStopped, StopsLine, ghosts, Between
<1>13. ASSUME DrainEnds PROVE Balanced'
    BY <1>11, <1>13 DEF DrainEnds, paceVars, ghosts, Between
<1>14. ASSUME DropPaced \/ Hold PROVE Balanced'
    BY <1>11, <1>14 DEF DropPaced, Hold, ghosts, Between
<1>15. ASSUME NEW text \in Texts, WriteNow(text)
       PROVE  Balanced'
    BY <1>11, <1>15 DEF WriteNow, Passes, Between
<1>16. ASSUME NEW text \in Texts, WriteStep(text)
       PROVE  Balanced'
    BY <1>11, <1>16 DEF WriteStep, Passes, ghosts, Between
<1>17. ASSUME UNCHANGED vars PROVE Balanced'
    BY <1>11, <1>17 DEF vars, paceVars, ghosts, Between
<1> QED BY <1>6, <1>7, <1>8, <1>9, <1>10, <1>12, <1>13,
           <1>14, <1>15, <1>16, <1>17 DEF Next, InCall

-----------------------------------------------------------------------------
(* The lines that wait.                                                    *)

\* Only a call that is under way, at a pace, may pass the bound.
Bounded == batch = <<>> \/ perSec = 0 => Len(waiting) <= Runaway

\* No line waits at the start.
LEMMA BoundedInit == Init => Bounded
BY StreamAssumption DEF Init, Bounded

\* The last line of a call that would leave too many drops them all.
LEMMA BoundedStep ==
    ASSUME Types, Apart, Bounded, [Next]_vars
    PROVE  Bounded'
<1> USE StreamAssumption DEF Bounded
<1>1. waiting \in Seq(Lines) /\ batch \in Seq(Lines)
    BY DEF Types
<1>2. ASSUME NEW texts \in OneCall, WriteAll(texts)
      PROVE  Bounded'
    BY <1>2 DEF WriteAll, Between
<1>3. ASSUME OfferWaits PROVE Bounded'
    <2>1. perSec' # 0
        BY <1>3 DEF OfferWaits, GoesNow
    <2>2. CASE Len(batch) = 1
        <3>1. Head(batch) \in Lines
            BY <1>1, <1>3 DEF OfferWaits
        <3>2. Append(waiting, Head(batch)) \in Seq(Lines)
            BY <1>1, <3>1
        <3> QED BY <1>3, <2>2, <3>2 DEF OfferWaits, Kept
    <2>3. CASE Len(batch) # 1
        <3>1. Tail(batch) # <<>>
            <4>1. Len(Tail(batch)) = Len(batch) - 1 /\ Len(batch) \in Nat /\ Len(batch) # 0
                BY <1>1, <1>3 DEF OfferWaits
            <4>2. Len(Tail(batch)) # 0
                BY <2>3, <4>1
            <4>3. Len(<<>>) = 0
                OBVIOUS
            <4> QED BY <4>2, <4>3, Zenon
        <3> QED BY <1>3, <2>1, <3>1 DEF OfferWaits
    <2> QED BY <2>2, <2>3
<1>4. ASSUME OfferStopped \/ OfferGoes PROVE Bounded'
    <2>1. waiting' = waiting /\ (perSec = 0 \/ waiting = <<>>)
        BY <1>4 DEF OfferStopped, OfferGoes, GoesNow
    <2> QED BY <2>1
<1>5. ASSUME DrainStopped \/ DrainGoes PROVE Bounded'
    <2>1. waiting' = Tail(waiting) /\ waiting # <<>> /\ UNCHANGED <<batch, perSec>>
        BY <1>5 DEF DrainStopped, DrainGoes
    <2>2. Len(Tail(waiting)) <= Len(waiting)
        BY <1>1, <2>1
    <2>3. Len(waiting) \in Nat /\ Len(Tail(waiting)) \in Nat
        BY <1>1, <2>1
    <2> QED BY <2>1, <2>2, <2>3
<1>6. ASSUME DropPaced \/ Hold PROVE Bounded'
    BY <1>6 DEF DropPaced, Hold
<1>7. ASSUME Release PROVE Bounded'
    BY <1>7 DEF Release, Apart
<1>8. ASSUME NEW pace \in Paces, SetPace(pace)
      PROVE  Bounded'
    BY <1>8 DEF SetPace, Between
<1>9. ASSUME NEW text \in Texts, WriteNow(text) \/ WriteStep(text)
      PROVE  Bounded'
    BY <1>9 DEF WriteNow, WriteStep
<1>10. ASSUME DrainEnds \/ SendPaced \/ Tick \/ UNCHANGED vars
       PROVE  Bounded'
    BY <1>10 DEF DrainEnds, SendPaced, Tick, vars, paceVars
<1> QED BY <1>2, <1>3, <1>4, <1>5, <1>6, <1>7, <1>8, <1>9, <1>10 DEF Next, InCall

-----------------------------------------------------------------------------
(* The order.                                                              *)

Within(lines, low, high) ==
    \A i \in 1 .. Len(lines) : low < lines[i].number /\ lines[i].number <= high

Precedes(lines, others) ==
    \A i \in 1 .. Len(lines), j \in 1 .. Len(others) :
        lines[i].number < others[j].number

\* Where no pace is 0, each queue rises, and what waits was sent before what
\* the call still has.
Ordered ==
    /\ passed <= offered
    /\ Rises(waiting) /\ Rises(held) /\ Rises(batch)
    /\ Within(waiting, passed, offered)
    /\ Within(held, passed, offered)
    /\ Within(batch, passed, offered)
    /\ Precedes(waiting, batch)

\* A sequence that rises still does without its first line, which is below
\* the others.
LEMMA TailRises ==
    ASSUME NEW lines \in Seq(Lines), lines # <<>>, Rises(lines),
           NEW low \in Nat, NEW high \in Nat, Within(lines, low, high)
    PROVE  /\ Head(lines) \in Lines
           /\ low < Head(lines).number /\ Head(lines).number <= high
           /\ Rises(Tail(lines))
           /\ Within(Tail(lines), Head(lines).number, high)
           /\ Within(Tail(lines), low, high)
<1>1. Len(lines) \in Nat \ {0} /\ Len(Tail(lines)) = Len(lines) - 1
    OBVIOUS
<1>2. \A i \in 1 .. Len(Tail(lines)) : Tail(lines)[i] = lines[i + 1] /\ i + 1 \in 2 .. Len(lines)
    BY <1>1
<1>3. Head(lines) = lines[1] /\ lines[1] \in Lines
    BY <1>1
<1>4. low < lines[1].number /\ lines[1].number <= high
    BY <1>1 DEF Within
<1>5. Rises(Tail(lines))
    BY <1>1, <1>2 DEF Rises
<1>6. \A i \in 1 .. Len(Tail(lines)) :
        lines[1].number < lines[i + 1].number /\ lines[i + 1].number <= high
    BY <1>1, <1>2 DEF Rises, Within
<1>7. \A i \in 1 .. Len(Tail(lines)) : low < lines[i + 1].number
    BY <1>1, <1>2 DEF Within
<1> QED BY <1>2, <1>3, <1>4, <1>5, <1>6, <1>7 DEF Within

\* Two sequences that rise, the one below the other, rise when joined.
LEMMA JoinRises ==
    ASSUME NEW lines \in Seq(Lines), NEW others \in Seq(Lines),
           Rises(lines), Rises(others), Precedes(lines, others)
    PROVE  Rises(lines \o others)
<1> DEFINE Joined == lines \o others
<1>1. /\ Len(lines) \in Nat /\ Len(others) \in Nat
      /\ Len(Joined) = Len(lines) + Len(others)
    OBVIOUS
<1>2. \A i \in 1 .. Len(Joined) :
        Joined[i] = IF i <= Len(lines) THEN lines[i] ELSE others[i - Len(lines)]
    OBVIOUS
<1> HIDE DEF Joined
<1>3. SUFFICES ASSUME NEW i \in 1 .. Len(Joined), NEW j \in 1 .. Len(Joined), i < j
               PROVE  Joined[i].number < Joined[j].number
    BY DEF Rises, Joined
<1>4. CASE j <= Len(lines)
    BY <1>1, <1>2, <1>3, <1>4 DEF Rises
<1>5. CASE i <= Len(lines) /\ j > Len(lines)
    BY <1>1, <1>2, <1>3, <1>5 DEF Precedes
<1>6. CASE i > Len(lines)
    <2> DEFINE m == i - Len(lines)
               n == j - Len(lines)
    <2>1. m \in 1 .. Len(others) /\ n \in 1 .. Len(others) /\ m < n
        BY <1>1, <1>3, <1>6
    <2>2. Joined[i] = others[m] /\ Joined[j] = others[n]
        BY <1>1, <1>2, <1>3, <1>6
    <2> HIDE DEF m, n
    <2>3. others[m].number < others[n].number
        BY <2>1 DEF Rises
    <2> QED BY <2>2, <2>3
<1> QED BY <1>1, <1>3, <1>4, <1>5, <1>6

\* What joins two sequences within bounds is within them.
LEMMA JoinWithin ==
    ASSUME NEW lines \in Seq(Lines), NEW others \in Seq(Lines),
           NEW low \in Nat, NEW high \in Nat,
           Within(lines, low, high), Within(others, low, high)
    PROVE  Within(lines \o others, low, high)
<1> DEFINE Joined == lines \o others
<1>1. /\ Len(lines) \in Nat /\ Len(others) \in Nat
      /\ Len(Joined) = Len(lines) + Len(others)
    OBVIOUS
<1>2. \A i \in 1 .. Len(Joined) :
        Joined[i] = IF i <= Len(lines) THEN lines[i] ELSE others[i - Len(lines)]
    OBVIOUS
<1> HIDE DEF Joined
<1>3. Within(Joined, low, high)
    BY <1>1, <1>2 DEF Within
<1> QED BY <1>3 DEF Joined

\* The lines of a call rise, past every number given before.
LEMMA NumberedOrder ==
    ASSUME offered \in Nat, NEW texts \in Seq(Texts), offered + Len(texts) <= Offers,
           NEW low \in Nat, low <= offered
    PROVE  /\ Rises(Numbered(texts))
           /\ Within(Numbered(texts), low, offered + Len(texts))
           /\ Within(Numbered(texts), offered, offered + Len(texts))
<1>1. /\ Len(texts) \in Nat /\ Len(Numbered(texts)) = Len(texts)
      /\ \A i \in 1 .. Len(texts) : Numbered(texts)[i].number = offered + i
    BY NumberedTypes
<1> QED BY <1>1 DEF Rises, Within

\* Every line has a number.
LEMMA NumberTypes ==
    ASSUME NEW lines \in Seq(Lines), NEW i \in 1 .. Len(lines)
    PROVE  lines[i].number \in Nat
<1>1. lines[i] \in Lines
    OBVIOUS
<1>2. lines[i].number \in 1 .. Offers
    BY <1>1 DEF Lines
<1> QED BY <1>2, StreamAssumption

\* What is at most a number comes before what is past it.
LEMMA WithinPrecedes ==
    ASSUME NEW lines \in Seq(Lines), NEW others \in Seq(Lines),
           NEW low \in Nat, NEW middle \in Nat, NEW high \in Nat,
           Within(lines, low, middle), Within(others, middle, high)
    PROVE  Precedes(lines, others)
<1>1. \A i \in 1 .. Len(lines) : lines[i].number \in Nat
    BY NumberTypes
<1>2. \A i \in 1 .. Len(others) : others[i].number \in Nat
    BY NumberTypes
<1> QED BY <1>1, <1>2 DEF Within, Precedes

\* A higher bound bounds as well.
LEMMA WithinWider ==
    ASSUME NEW lines \in Seq(Lines), NEW low \in Nat, NEW high \in Nat, NEW higher \in Nat,
           Within(lines, low, high), high <= higher
    PROVE  Within(lines, low, higher)
<1>1. \A i \in 1 .. Len(lines) : lines[i].number \in Nat
    BY NumberTypes
<1> QED BY <1>1 DEF Within

\* The first of the later lines joins the end of the earlier ones.
LEMMA OneJoins ==
    ASSUME NEW lines \in Seq(Lines), NEW others \in Seq(Lines), others # <<>>,
           NEW low \in Nat, NEW high \in Nat,
           Rises(lines), Rises(others), Precedes(lines, others),
           Within(lines, low, high), Within(others, low, high)
    PROVE  /\ Append(lines, Head(others)) \in Seq(Lines)
           /\ Rises(Append(lines, Head(others)))
           /\ Within(Append(lines, Head(others)), low, high)
           /\ Precedes(Append(lines, Head(others)), Tail(others))
<1> DEFINE Longer == Append(lines, Head(others))
<1>1. /\ Len(lines) \in Nat /\ Len(others) \in Nat \ {0}
      /\ Len(Tail(others)) = Len(others) - 1
      /\ Head(others) = others[1] /\ Head(others) \in Lines
    OBVIOUS
<1>2. /\ Longer \in Seq(Lines) /\ Len(Longer) = Len(lines) + 1
      /\ \A i \in 1 .. Len(Longer) :
            Longer[i] = IF i <= Len(lines) THEN lines[i] ELSE others[1]
    BY <1>1
<1>3. \A j \in 1 .. Len(Tail(others)) :
        Tail(others)[j] = others[j + 1] /\ j + 1 \in 2 .. Len(others)
    BY <1>1
<1> HIDE DEF Longer
<1>4. Rises(Longer)
    BY <1>1, <1>2 DEF Rises, Precedes
<1>5. Within(Longer, low, high)
    BY <1>1, <1>2 DEF Within
<1>6. ASSUME NEW i \in 1 .. Len(Longer), NEW j \in 1 .. Len(Tail(others))
      PROVE  Longer[i].number < Tail(others)[j].number
    <2>1. CASE i <= Len(lines)
        BY <1>1, <1>2, <1>3, <1>6, <2>1 DEF Precedes
    <2>2. CASE i > Len(lines)
        BY <1>1, <1>2, <1>3, <1>6, <2>2 DEF Rises
    <2> QED BY <1>1, <1>2, <2>1, <2>2
<1>7. Precedes(Longer, Tail(others))
    BY <1>6 DEF Precedes
<1> QED BY <1>2, <1>4, <1>5, <1>7 DEF Longer

\* What comes before a sequence comes before its tail.
LEMMA TailPrecedes ==
    ASSUME NEW lines \in Seq(Lines), NEW others \in Seq(Lines), Precedes(lines, others)
    PROVE  /\ lines # <<>> => Precedes(Tail(lines), others)
           /\ others # <<>> => Precedes(lines, Tail(others))
<1>1. ASSUME lines # <<>>
      PROVE  Precedes(Tail(lines), others)
    <2>1. \A i \in 1 .. Len(Tail(lines)) : Tail(lines)[i] = lines[i + 1] /\ i + 1 \in 1 .. Len(lines)
        BY <1>1
    <2> QED BY <2>1 DEF Precedes
<1>2. ASSUME others # <<>>
      PROVE  Precedes(lines, Tail(others))
    <2>1. \A i \in 1 .. Len(Tail(others)) : Tail(others)[i] = others[i + 1] /\ i + 1 \in 1 .. Len(others)
        BY <1>2
    <2> QED BY <2>1 DEF Precedes
<1> QED BY <1>1, <1>2

\* Nothing is queued at the start.
LEMMA OrderedInit == Init => Ordered
BY StreamAssumption DEF Init, Ordered, Rises, Within, Precedes

\* With a pace a line goes at once only if none waits, so no step takes a line
\* out of its turn.
LEMMA OrderedStep ==
    ASSUME 0 \notin Paces, Types, Apart, Ordered, [Next]_vars
    PROVE  Ordered'
<1> USE DEF Ordered
<1>1. /\ waiting \in Seq(Lines) /\ held \in Seq(Lines) /\ batch \in Seq(Lines)
      /\ offered \in Nat /\ passed \in Nat
    BY StreamAssumption DEF Types
<1>2. perSec # 0
    BY DEF Types
<1>3. /\ Rises(<<>>) /\ \A low, high : Within(<<>>, low, high)
      /\ \A lines : Precedes(<<>>, lines) /\ Precedes(lines, <<>>)
    BY DEF Rises, Within, Precedes
<1>4. ASSUME NEW texts \in OneCall, WriteAll(texts)
      PROVE  Ordered'
    <2>1. texts \in Seq(Texts) /\ Len(texts) \in Nat
        BY CallTypes
    <2>2. offered + Len(texts) <= Offers /\ offered' = offered + Len(texts)
          /\ passed' = passed /\ waiting' = waiting
        BY <1>4 DEF WriteAll, ghosts
    <2>3. /\ Numbered(texts) \in Seq(Lines) /\ Rises(Numbered(texts))
          /\ Within(Numbered(texts), passed, offered')
          /\ Within(Numbered(texts), offered, offered')
        BY <1>1, <2>1, <2>2, NumberedTypes, NumberedOrder
    <2>4. offered' \in Nat /\ offered <= offered' /\ passed' <= offered'
        BY <1>1, <2>1, <2>2
    <2>5. Within(waiting, passed, offered') /\ Within(held, passed, offered')
        BY <1>1, <2>4, WithinWider
    <2>6. CASE holding
        <3>1. held' = held \o Numbered(texts) /\ batch' = batch
            BY <1>4, <2>6 DEF WriteAll
        <3>2. Precedes(held, Numbered(texts))
            BY <1>1, <2>3, <2>4, WithinPrecedes
        <3>3. Rises(held')
            BY <1>1, <2>3, <3>1, <3>2, JoinRises
        <3>4. Within(held', passed, offered')
            BY <1>1, <2>3, <2>4, <2>5, <3>1, JoinWithin
        <3>5. waiting = <<>> /\ batch = <<>>
            BY <2>6 DEF Apart
        <3> QED BY <1>3, <2>2, <2>4, <3>1, <3>3, <3>4, <3>5
    <2>7. CASE ~holding
        <3>1. held' = held /\ batch' = Numbered(texts)
            BY <1>4, <2>7 DEF WriteAll
        <3>2. Precedes(waiting, Numbered(texts))
            BY <1>1, <2>3, <2>4, WithinPrecedes
        <3> QED BY <2>2, <2>3, <2>4, <2>5, <3>1, <3>2
    <2> QED BY <2>6, <2>7
<1>5. ASSUME NEW text \in Texts, WriteNow(text)
      PROVE  Ordered'
    BY <1>5 DEF WriteNow, Passes
<1>6. ASSUME NEW text \in Texts, WriteStep(text)
      PROVE  Ordered'
    <2>1. <<text>> \in Seq(Texts) /\ Len(<<text>>) = 1
        OBVIOUS
    <2>2. offered + Len(<<text>>) <= Offers /\ offered' = offered + Len(<<text>>)
        <3>1. offered < Offers /\ offered' = offered + 1
            BY <1>6 DEF WriteStep
        <3> QED BY <1>1, <2>1, <3>1, StreamAssumption
    <2>3. passed' = passed /\ waiting' = waiting /\ batch' = batch
        BY <1>6 DEF WriteStep, Passes, ghosts
    <2>4. offered' \in Nat /\ offered <= offered' /\ passed' <= offered'
        BY <1>1, <2>1, <2>2, <2>3
    <2>5. /\ Within(waiting, passed, offered') /\ Within(held, passed, offered')
          /\ Within(batch, passed, offered')
        BY <1>1, <2>4, WithinWider
    <2>6. CASE holding
        <3>1. held' = held \o Numbered(<<text>>)
            BY <1>6, <2>6 DEF WriteStep
        <3>2. /\ Numbered(<<text>>) \in Seq(Lines) /\ Rises(Numbered(<<text>>))
              /\ Within(Numbered(<<text>>), passed, offered')
              /\ Within(Numbered(<<text>>), offered, offered')
            BY <1>1, <2>1, <2>2, NumberedTypes, NumberedOrder
        <3>3. Precedes(held, Numbered(<<text>>))
            BY <1>1, <2>4, <3>2, WithinPrecedes
        <3>4. Rises(held')
            BY <1>1, <3>1, <3>2, <3>3, JoinRises
        <3>5. Within(held', passed, offered')
            BY <1>1, <2>4, <2>5, <3>1, <3>2, JoinWithin
        <3> QED BY <2>3, <2>4, <2>5, <3>4, <3>5
    <2>7. CASE ~holding
        <3>1. held' = held
            BY <1>6, <2>7 DEF WriteStep
        <3> QED BY <2>3, <2>4, <2>5, <3>1
    <2> QED BY <2>6, <2>7
<1>7. ASSUME OfferWaits PROVE Ordered'
    <2>1. /\ batch # <<>> /\ batch' = Tail(batch)
          /\ held' = held /\ passed' = passed /\ offered' = offered
          /\ waiting' = Append(waiting, Head(batch)) \/ waiting' = <<>>
        BY <1>7 DEF OfferWaits, Kept, ghosts
    <2>2. Rises(batch') /\ Within(batch', passed, offered)
        BY <1>1, <2>1, TailRises
    <2>3. CASE waiting' = Append(waiting, Head(batch))
        <3>1. /\ Rises(waiting') /\ Within(waiting', passed, offered)
              /\ Precedes(waiting', batch')
            BY <1>1, <2>1, <2>3, OneJoins
        <3> QED BY <2>1, <2>2, <3>1
    <2>4. CASE waiting' = <<>>
        BY <1>3, <2>1, <2>2, <2>4
    <2> QED BY <2>1, <2>3, <2>4
<1>8. ASSUME OfferStopped PROVE Ordered'
    <2>1. /\ batch # <<>> /\ batch' = Tail(batch)
          /\ UNCHANGED <<waiting, held, passed, offered>>
        BY <1>8 DEF OfferStopped, StopsLine, ghosts
    <2>2. Rises(batch') /\ Within(batch', passed, offered) /\ Precedes(waiting, batch')
        BY <1>1, <2>1, TailRises, TailPrecedes
    <2> QED BY <2>1, <2>2
<1>9. ASSUME OfferGoes PROVE Ordered'
    <2>1. /\ batch # <<>> /\ batch' = Tail(batch) /\ waiting = <<>>
          /\ UNCHANGED <<waiting, held, offered>> /\ passed' = Head(batch).number
        BY <1>2, <1>9 DEF OfferGoes, GoesNow, LetsGo
    <2>2. /\ Rises(batch') /\ Within(batch', passed', offered)
          /\ passed' <= offered
        BY <1>1, <2>1, TailRises
    <2>3. held = <<>>
        BY <2>1 DEF Apart
    <2> QED BY <1>3, <2>1, <2>2, <2>3
<1>10. ASSUME DrainStopped PROVE Ordered'
    <2>1. /\ waiting # <<>> /\ waiting' = Tail(waiting)
          /\ UNCHANGED <<batch, held, passed, offered>>
        BY <1>10 DEF DrainStopped, StopsLine, ghosts
    <2>2. Rises(waiting') /\ Within(waiting', passed, offered) /\ Precedes(waiting', batch)
        BY <1>1, <2>1, TailRises, TailPrecedes
    <2> QED BY <2>1, <2>2
<1>11. ASSUME DrainGoes PROVE Ordered'
    <2>1. /\ waiting # <<>> /\ waiting' = Tail(waiting)
          /\ UNCHANGED <<batch, held, offered>> /\ passed' = Head(waiting).number
        BY <1>11 DEF DrainGoes, LetsGo
    <2>2. /\ Rises(waiting') /\ Within(waiting', passed', offered)
          /\ Precedes(waiting', batch) /\ passed' <= offered
        BY <1>1, <2>1, TailRises, TailPrecedes
    <2>3. held = <<>>
        BY <2>1 DEF Apart
    <2>4. Within(batch, passed', offered)
        <3>1. Head(waiting) = waiting[1] /\ 1 \in 1 .. Len(waiting)
            BY <1>1, <2>1
        <3>2. \A j \in 1 .. Len(batch) : waiting[1].number < batch[j].number
            BY <3>1 DEF Precedes
        <3> QED BY <2>1, <3>1, <3>2 DEF Within
    <2> QED BY <1>3, <2>1, <2>2, <2>3, <2>4
<1>12. ASSUME DropPaced PROVE Ordered'
    BY <1>3, <1>12 DEF DropPaced, ghosts
<1>13. ASSUME Hold PROVE Ordered'
    BY <1>3, <1>13 DEF Hold, ghosts
<1>14. ASSUME Release PROVE Ordered'
    <2>1. waiting = <<>>
        BY <1>14 DEF Release, Apart
    <2>2. /\ held' = <<>> /\ batch' = held /\ UNCHANGED <<waiting, passed, offered>>
        BY <1>14 DEF Release, ghosts
    <2> QED BY <1>3, <2>1, <2>2
<1>15. ASSUME UNCHANGED <<waiting, held, batch, passed, offered>>
       PROVE  Ordered'
    BY <1>15
<1>16. ASSUME DrainEnds \/ SendPaced \/ (\E pace \in Paces : SetPace(pace)) \/ Tick
              \/ UNCHANGED vars
       PROVE  Ordered'
    BY <1>15, <1>16 DEF DrainEnds, SendPaced, SetPace, Tick, vars, paceVars, ghosts
<1> QED BY <1>4, <1>5, <1>6, <1>7, <1>8, <1>9, <1>10, <1>11, <1>12, <1>13, <1>14, <1>16
        DEF Next, InCall

-----------------------------------------------------------------------------
(* The theorems.                                                           *)

Inductive ==
    /\ Types /\ Apart /\ LinesCounted /\ SameCount /\ NeverPastStop
    /\ Balanced /\ Bounded

\* The parts of the invariant hold together from the start and through
\* every step.
LEMMA InductiveHolds == Spec => []Inductive
<1>1. Init => Inductive
    BY InitTypes, ApartInit, CountedInit, BalancedInit, BoundedInit DEF Inductive
<1>2. Inductive /\ [Next]_vars => Inductive'
    BY NextTypes, ApartStep, LinesCountedStep, SameCountStep, BalancedStep, BoundedStep
       DEF Inductive
<1> QED BY <1>1, <1>2, PTL DEF Spec

\* Every variable keeps its type, and between two calls no more than Runaway
\* lines wait, however fast automation sends (Pace::offer, RUNAWAY).
THEOREM TypeCorrect == Spec => []TypeOK
<1>1. Inductive => TypeOK
    <2>1. ASSUME Inductive
          PROVE  Types /\ linesOut \in Nat /\ (Between => Len(waiting) <= Runaway)
        <3>1. linesOut \in Nat
            BY <2>1 DEF Inductive, Types, LinesCounted
        <3>2. Between => Len(waiting) <= Runaway
            BY <2>1 DEF Inductive, Bounded, Between
        <3> QED BY <2>1, <3>1, <3>2 DEF Inductive
    <2> QED BY <2>1 DEF Types, TypeOK
<1> QED BY <1>1, InductiveHolds, PTL

\* Stream::lines_out is the number of lines that left and of those the hold
\* keeps, for every burst, bound and pace.
THEOREM Counts == Spec => []LinesCounted
<1>1. Inductive => LinesCounted
    BY DEF Inductive
<1> QED BY <1>1, InductiveHolds, PTL

\* Automation never takes the game's count of one command to REPEAT_STOP.
THEOREM Stops == Spec => []NeverPastStop
<1>1. Inductive => NeverPastStop
    BY DEF Inductive
<1> QED BY <1>1, InductiveHolds, PTL

\* What the pace lets go fits a bucket of Burst lines that leaks perSec lines
\* a second.
THEOREM KeepsPace == Spec => []PaceKept
<1>1. Inductive => PaceKept
    <2>1. ASSUME Inductive PROVE PaceKept
        <3>1. Ready \in Nat /\ Full \in Nat /\ flow \in Nat /\ flow + Ready <= Full
            BY <2>1, ReadyTypes DEF Inductive, Balanced, Types
        <3> QED BY <3>1 DEF PaceKept
    <2> QED BY <2>1
<1> QED BY <1>1, InductiveHolds, PTL

\* Where every profile sets a pace, the lines of automation leave in the order
\* they were sent (Stream::release, Pace::offer).  Without that a change to no
\* pace lets a line jump those that wait.
THEOREM LeavesInOrder ==
    ASSUME 0 \notin Paces
    PROVE  Spec => []InOrder
<1>1. Init => Ordered
    BY OrderedInit
<1>2. Inductive /\ Ordered /\ [Next]_vars => Ordered'
    BY OrderedStep DEF Inductive
<1>3. ASSUME Inductive, Ordered
      PROVE  InOrder
    <2> DEFINE queue == waiting \o held \o batch
    <2>1. waiting \in Seq(Lines) /\ held \in Seq(Lines) /\ batch \in Seq(Lines)
          /\ passed \in Nat /\ offered \in Nat
        BY <1>3, StreamAssumption DEF Inductive, Types
    <2>2. queue \in Seq(Lines) /\ Rises(queue) /\ Within(queue, passed, offered)
        <3>1. CASE holding
            <4>1. waiting = <<>> /\ batch = <<>>
                BY <1>3, <3>1 DEF Inductive, Apart
            <4>2. queue = held
                BY <2>1, <4>1
            <4> QED BY <1>3, <2>1, <4>2 DEF Ordered
        <3>2. CASE ~holding
            <4>1. held = <<>>
                BY <1>3, <3>2 DEF Inductive, Apart
            <4>2. queue = waiting \o batch
                BY <2>1, <4>1
            <4>3. Rises(waiting \o batch) /\ Within(waiting \o batch, passed, offered)
                BY <1>3, <2>1, JoinRises, JoinWithin DEF Ordered
            <4> QED BY <2>1, <4>2, <4>3
        <3> QED BY <3>1, <3>2
    <2> HIDE DEF queue
    <2>3. ASSUME queue # <<>> PROVE passed < Head(queue).number
        BY <2>1, <2>2, <2>3, TailRises
    <2> QED BY <2>2, <2>3 DEF InOrder, queue
<1> QED BY <1>1, <1>2, <1>3, InductiveHolds, PTL DEF Spec

\* While the writing card holds, nothing of automation leaves: what leaves is
\* what you type (Stream::write_all, write_step, pace_due).
THEOREM HoldKeeps == Spec => HoldHolds
<1>1. ASSUME Inductive, [Next]_vars, holding, holding'
      PROVE  out' - out = typed' - typed
    <2>1. out \in Nat /\ typed \in Nat /\ batch = <<>> /\ ~draining
        BY <1>1, StreamAssumption DEF Inductive, Types, Apart
    <2>2. ASSUME NEW text \in Texts, WriteNow(text)
          PROVE  out' - out = typed' - typed
        <3>1. out' = out + 1 /\ typed' = typed + 1
            BY <2>2 DEF WriteNow, Passes, Reaches
        <3> QED BY <2>1, <3>1
    <2>3. ASSUME UNCHANGED <<out, typed>>
          PROVE  out' - out = typed' - typed
        BY <2>1, <2>3
    <2>4. ASSUME NEW text \in Texts, WriteStep(text)
          PROVE  out' - out = typed' - typed
        BY <1>1, <2>3, <2>4 DEF WriteStep, ghosts
    <2>5. ASSUME NEW texts \in OneCall, WriteAll(texts)
          PROVE  out' - out = typed' - typed
        BY <2>3, <2>5 DEF WriteAll, ghosts
    <2>6. ~InCall /\ ~Hold /\ ~Release
        BY <1>1, <2>1 DEF InCall, OfferWaits, OfferStopped, OfferGoes, DrainStopped,
                          DrainGoes, DrainEnds, Hold, Release
    <2>7. ASSUME SendPaced \/ DropPaced \/ (\E pace \in Paces : SetPace(pace)) \/ Tick
                 \/ UNCHANGED vars
          PROVE  out' - out = typed' - typed
        BY <2>3, <2>7 DEF SendPaced, DropPaced, SetPace, Tick, vars, ghosts
    <2> QED BY <1>1, <2>2, <2>4, <2>5, <2>6, <2>7 DEF Next
<1>2. Inductive /\ [Next]_vars => [holding /\ holding' => out' - out = typed' - typed]_vars
    BY <1>1
<1> QED BY <1>2, InductiveHolds, PTL DEF Spec, HoldHolds
=============================================================================
