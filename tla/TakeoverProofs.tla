--------------------------- MODULE TakeoverProofs ---------------------------
(***************************************************************************)
(* Theorems of Takeover for every set of sessions and of characters, and   *)
(* any number of links and picks.                                          *)
(***************************************************************************)
EXTENDS Takeover, SequenceTheorems, TLAPS

Texts == Logins \cup {"asks", "left", "closed"}

-----------------------------------------------------------------------------
(* The text on its way                                                     *)

\* What one more text does to the texts unread.
LEMMA OneMore ==
    ASSUME NEW q \in Seq(Texts), NEW text \in Texts
    PROVE  /\ Append(q, text) \in Seq(Texts) /\ Append(q, text) # <<>>
           /\ \A i \in DOMAIN Append(q, text) : Append(q, text)[i] = text
                 \/ (i \in DOMAIN q /\ Append(q, text)[i] = q[i])
           /\ \A i \in DOMAIN q : i \in DOMAIN Append(q, text) /\ Append(q, text)[i] = q[i]
BY AppendProperties, LenProperties

\* What is left after the first is read was there before.
LEMMA OneLess ==
    ASSUME NEW q \in Seq(Texts), q # <<>>
    PROVE  /\ Tail(q) \in Seq(Texts)
           /\ 1 \in DOMAIN q /\ Head(q) = q[1] /\ Head(q) \in Texts
           /\ \A i \in DOMAIN Tail(q) : i + 1 \in DOMAIN q /\ Tail(q)[i] = q[i + 1]
                                        /\ i + 1 # 1 /\ i \in Nat
BY HeadTailProperties, LenProperties

-----------------------------------------------------------------------------
(* The types                                                               *)

\* The game has a character where it has more than the menu.
Placed ==
    \A s \in Sessions : place[s] \in {"picks", "asks", "yes", "in"} => who[s] \in Characters

Types == TypeOK /\ Placed

LEMMA TypesInit == Init => Types
BY TakeoverAssumption DEF Init, Types, Placed, TypeOK, Logins

LEMMA TypesYou ==
    ASSUME Types, NEW s \in Sessions, You(s) PROVE Types'
<1>1. CASE Connect(s)
    BY <1>1, TakeoverAssumption DEF Connect, Opens, Types, Placed, TypeOK, watch
<1>2. CASE Disconnect(s)
    BY <1>2 DEF Disconnect, Folds, GameLoses, Types, Placed, TypeOK, bounds
<1>3. CASE AnswerNo(s)
    BY <1>3 DEF AnswerNo, Types, Placed, TypeOK, seriesVars, histories, bounds
<1>4. CASE AnswerYes(s)
    BY <1>4 DEF AnswerYes, Types, Placed, TypeOK, histories, bounds
<1>5. CASE \E c \in Characters : Pick(s, c)
    BY <1>5 DEF Pick, Types, Placed, TypeOK, seriesVars, histories
<1> QED BY <1>1, <1>2, <1>3, <1>4, <1>5 DEF You

LEMMA TypesGame ==
    ASSUME Types, NEW s \in Sessions, Game(s) PROVE Types'
<1>0. wire[s] \in Seq(Texts) /\ \A t \in Sessions : wire[t] \in Seq(Texts)
    BY DEF Types, TypeOK, Texts
<1>1. CASE GameAsks(s)
    <2>1. wire' \in [Sessions -> Seq(Texts)]
        BY <1>0, <1>1, OneMore DEF GameAsks, Sends, Types, TypeOK, Texts
    <2> QED BY <1>1, <2>1 DEF GameAsks, Types, Placed, TypeOK, Texts, loopVars, watch, seriesVars, histories, bounds
<1>2. CASE GameLetsIn(s)
    <2>1. wire' \in [Sessions -> Seq(Texts)]
        BY <1>0, <1>2, OneMore DEF GameLetsIn, Sends, Types, TypeOK, Texts
    <2> QED BY <1>2, <2>1 DEF GameLetsIn, Enters, Types, Placed, TypeOK, Texts, loopVars, watch, seriesVars, bounds
<1>3. CASE GameGives(s)
    <2>1. wire' \in [Sessions -> Seq(Texts)]
        <3>1. PICK login \in Logins : \A t \in Sessions :
                wire'[t] \in {Append(wire[t], login), Append(wire[t], "closed"), wire[t]}
            BY <1>3, Zenon DEF GameGives
        <3>2. \A t \in Sessions : /\ Append(wire[t], login) \in Seq(Texts)
                                  /\ Append(wire[t], "closed") \in Seq(Texts)
            BY <1>0, OneMore DEF Texts
        <3>3. wire' = [t \in Sessions |-> wire'[t]]
            BY <1>3, Zenon DEF GameGives
        <3> QED BY <1>0, <3>1, <3>2, <3>3
    <2>2. /\ place' = [t \in Sessions |-> place'[t]]
          /\ place'[s] = "in"
          /\ \A t \in Sessions : place'[t] \in {"in", "none", place[t]}
          /\ \A t \in Sessions \ {s} : place'[t] \in {"none", place[t]}
        BY <1>3 DEF GameGives, Others
    <2>3. closer' \in [Sessions -> Sessions \cup {NoSession}]
        BY <1>3 DEF GameGives, Types, TypeOK
    <2>4. overtaken' \in [Sessions -> BOOLEAN] /\ stale' \in SUBSET Characters /\ place[s] = "yes"
        BY <1>3 DEF GameGives, Enters, Types, TypeOK
    <2>5. UNCHANGED <<loopVars, seriesVars, who, claimed, bounds>>
        BY <1>3 DEF GameGives
    <2> QED BY <2>1, <2>2, <2>3, <2>4, <2>5 DEF Types, Placed, TypeOK, Texts, loopVars, watch, seriesVars, bounds
<1>4. CASE GameLeaves(s)
    <2>1. wire' \in [Sessions -> Seq(Texts)]
        BY <1>0, <1>4, OneMore DEF GameLeaves, Sends, Types, TypeOK, Texts
    <2> QED BY <1>4, <2>1 DEF GameLeaves, Types, Placed, TypeOK, Texts, loopVars, watch, seriesVars, histories, bounds
<1>5. CASE GameSeesGone(s)
    BY <1>5 DEF GameSeesGone, GameLoses, Types, Placed, TypeOK, loopVars, watch, seriesVars, histories, bounds
<1>6. CASE Breaks(s)
    BY <1>6 DEF Breaks, GameLoses, Types, Placed, TypeOK, watch, seriesVars, histories, bounds
<1> QED BY <1>1, <1>2, <1>3, <1>4, <1>5, <1>6 DEF Game

LEMMA ReadTypes ==
    ASSUME Types, NEW s \in Sessions, NEW text, Hears(s, text)
    PROVE  wire' \in [Sessions -> Seq(Texts)]
BY OneLess DEF Hears, Types, TypeOK, Texts

LEMMA TypesLoop ==
    ASSUME Types, NEW s \in Sessions, Loop(s) PROVE Types'
<1>1. CASE ReadQuestion(s)
    BY <1>1, ReadTypes DEF ReadQuestion, Types, Placed, TypeOK, Texts, seriesVars, histories, bounds
<1>2. CASE ReadLeft(s)
    BY <1>2, ReadTypes DEF ReadLeft, Types, Placed, TypeOK, Texts, seriesVars, bounds
<1>3. CASE ReadLogin(s)
    <2>1. wire' \in [Sessions -> Seq(Texts)]
        BY <1>3, ReadTypes DEF ReadLogin
    <2>2. PICK login \in Logins :
            /\ character' = [character EXCEPT ![s] = IF Names(s, login) \notin {Nobody, character[s]}
                                                     THEN Names(s, login) ELSE @]
            /\ taken' = [taken EXCEPT ![s] = @ /\ ~(Names(s, login) \notin {Nobody, character[s]})]
            /\ asked' = [asked EXCEPT ![s] = @ /\ ~(Names(s, login) \notin {Nobody, character[s]})]
            /\ naming' = [naming EXCEPT ![s] = IF Names(s, login) \notin {Nobody, character[s]}
                                               THEN Others(s) ELSE {}]
            /\ claimed' = [claimed EXCEPT ![s] = Names(s, login) \notin {Nobody, character[s]}
                                                 /\ Others(s) = {}]
        BY <1>3, Zenon DEF ReadLogin
    <2>3. Names(s, login) \in Characters \cup {Nobody} /\ Others(s) \in SUBSET Sessions
        BY DEF Names, Others, Types, TypeOK
    <2>4. /\ playing' = [playing EXCEPT ![s] = TRUE] /\ picked' = [picked EXCEPT ![s] = Nobody]
          /\ UNCHANGED <<stage, took, held, seriesVars, place, who, stale, overtaken, closer, bounds>>
        BY <1>3 DEF ReadLogin
    <2> QED BY <2>1, <2>2, <2>3, <2>4 DEF Types, Placed, TypeOK, Texts, seriesVars, bounds
<1>4. CASE \E t \in Sessions : TakeFrom(s, t)
    BY <1>4 DEF TakeFrom, Types, Placed, TypeOK, gameVars, bounds
<1>5. CASE ReadClose(s)
    BY <1>5, ReadTypes DEF ReadClose, Types, Placed, TypeOK, Texts, watch, seriesVars, histories, bounds
<1>6. CASE LoopFolds(s)
    BY <1>6 DEF LoopFolds, Folds, Types, Placed, TypeOK, seriesVars, gameVars, bounds
<1>7. CASE DropDeclines(s)
    BY <1>7 DEF DropDeclines, Types, Placed, TypeOK, watch, seriesVars, gameVars, histories, bounds
<1>8. CASE DropDecides(s)
    BY <1>8 DEF DropDecides, Types, Placed, TypeOK, watch, gameVars, histories, bounds
<1>9. CASE GraceEnds(s)
    BY <1>9 DEF GraceEnds, Types, Placed, TypeOK, seriesVars, gameVars, histories, bounds
<1> QED BY <1>1, <1>2, <1>3, <1>4, <1>5, <1>6, <1>7, <1>8, <1>9 DEF Loop

LEMMA TypesSeries ==
    ASSUME Types, NEW s \in Sessions, Series(s) PROVE Types'
<1>1. CASE SeriesStarts(s)
    <2>1. /\ series' \in [Sessions -> {"none", "wait", "dial"}]
          /\ lost' \in [Sessions -> Characters \cup {Nobody}]
        <3>1. CASE UNCHANGED <<series, lost>>
            BY <3>1 DEF Types, TypeOK
        <3>2. CASE series' = [series EXCEPT ![s] = "wait"] /\ lost' = [lost EXCEPT ![s] = character[s]]
            BY <3>2 DEF Types, TypeOK
        <3> QED BY <1>1, <3>1, <3>2 DEF SeriesStarts
    <2> QED BY <1>1, <2>1 DEF SeriesStarts, Types, Placed, TypeOK, watch, gameVars, histories, bounds
<1>2. CASE SeriesStops(s)
    BY <1>2 DEF SeriesStops, Types, Placed, TypeOK, loopVars, watch, gameVars, histories, bounds
<1>3. CASE SeriesDials(s)
    BY <1>3 DEF SeriesDials, Types, Placed, TypeOK, watch, gameVars, histories, bounds
<1>4. CASE SeriesFails(s)
    BY <1>4 DEF SeriesFails, Types, Placed, TypeOK, loopVars, watch, gameVars, histories, bounds
<1>5. CASE SeriesReaches(s)
    BY <1>5 DEF SeriesReaches, Opens, Types, Placed, TypeOK, watch, bounds
<1> QED BY <1>1, <1>2, <1>3, <1>4, <1>5 DEF Series

LEMMA TypesStep == Types /\ [Next]_vars => Types'
<1> SUFFICES ASSUME Types, [Next]_vars PROVE Types'
    OBVIOUS
<1>1. CASE UNCHANGED vars
    BY <1>1 DEF vars, Types, Placed, TypeOK, loopVars, watch, seriesVars, gameVars, histories, bounds
<1>2. CASE \E c \in Characters : GameSeesStale(c)
    BY <1>2 DEF GameSeesStale, Types, Placed, TypeOK, loopVars, watch, seriesVars, histories, bounds
<1> QED BY <1>1, <1>2, TypesYou, TypesGame, TypesLoop, TypesSeries DEF Next

\* Every variable keeps its type, for any sessions and characters.
THEOREM TakeoverTypes == Spec => []TypeOK
<1>1. Types => TypeOK
    BY DEF Types
<1> QED BY <1>1, TypesInit, TypesStep, PTL DEF Spec

-----------------------------------------------------------------------------
(* No try of a character that was taken                                    *)

\* A link that plays is up or just ended, and one that dials has none.
Standing ==
    \A s \in Sessions :
        /\ stage[s] \in {"off", "folded", "decided"} => ~playing[s]
        /\ naming[s] # {} => stage[s] = "up" /\ playing[s]
        /\ series[s] # "none" => stage[s] = "off"
        /\ naming[s] # {} \/ (claimed[s] /\ playing[s]) => character[s] # Nobody

\* The session s was told of the login of t.
Told(t, s) == playing[t] /\ (claimed[t] \/ (naming[t] # {} /\ s \notin naming[t]))

\* The stronger form: a login counts for each session it was told to, the
\* rest still to come.
Barred ==
    \A s, t \in Sessions :
        s # t /\ Told(t, s) /\ character[t] = lost[s] => series[s] # "dial"

Heard == Types /\ Standing /\ Barred

LEMMA HeardInit == Init => Heard
<1> SUFFICES ASSUME Init PROVE Heard
    OBVIOUS
<1> QED BY TypesInit DEF Init, Heard, Standing, Barred, Told

LEMMA HeardSame ==
    ASSUME Heard, Types',
           UNCHANGED <<stage, character, playing, naming, claimed, series, lost>>
    PROVE  Heard'
BY DEF Heard, Standing, Barred, Told

LEMMA HeardYou ==
    ASSUME Heard, Types', NEW s \in Sessions, You(s) PROVE Heard'
<1>1. CASE Connect(s)
    BY <1>1 DEF Connect, Opens, Heard, Types, TypeOK, Standing, Barred, Told, watch
<1>2. CASE Disconnect(s)
    BY <1>2 DEF Disconnect, Folds, Heard, Types, TypeOK, Standing, Barred, Told
<1>3. CASE AnswerNo(s)
    BY <1>3, HeardSame DEF AnswerNo, seriesVars, histories
<1>4. CASE AnswerYes(s)
    BY <1>4, HeardSame DEF AnswerYes, histories
<1>5. CASE \E c \in Characters : Pick(s, c)
    BY <1>5, HeardSame DEF Pick, seriesVars, histories
<1> QED BY <1>1, <1>2, <1>3, <1>4, <1>5 DEF You

LEMMA HeardGame ==
    ASSUME Heard, Types', NEW s \in Sessions, Game(s) PROVE Heard'
<1>1. CASE GameAsks(s)
    BY <1>1, HeardSame DEF GameAsks, loopVars, watch, seriesVars, histories
<1>2. CASE GameLetsIn(s)
    BY <1>2, HeardSame DEF GameLetsIn, loopVars, watch, seriesVars
<1>3. CASE GameGives(s)
    BY <1>3, HeardSame DEF GameGives, loopVars, watch, seriesVars
<1>4. CASE GameLeaves(s)
    BY <1>4, HeardSame DEF GameLeaves, loopVars, watch, seriesVars, histories
<1>5. CASE GameSeesGone(s)
    BY <1>5, HeardSame DEF GameSeesGone, loopVars, watch, seriesVars, histories
<1>6. CASE Breaks(s)
    BY <1>6 DEF Breaks, Reads, Heard, Types, TypeOK, Standing, Barred, Told, watch, seriesVars, histories
<1> QED BY <1>1, <1>2, <1>3, <1>4, <1>5, <1>6 DEF Game

\* A login bars no try before the first session is told.
LEMMA HeardLogin ==
    ASSUME Heard, Types', NEW s \in Sessions, ReadLogin(s) PROVE Heard'
<1>0. /\ character = [t \in Sessions |-> character[t]] /\ naming = [t \in Sessions |-> naming[t]]
      /\ claimed = [t \in Sessions |-> claimed[t]] /\ playing = [t \in Sessions |-> playing[t]]
    BY DEF Heard, Types, TypeOK
<1>1. PICK login \in Logins :
        /\ Hears(s, login)
        /\ character' = [character EXCEPT ![s] = IF Names(s, login) \notin {Nobody, character[s]}
                                                 THEN Names(s, login) ELSE @]
        /\ naming' = [naming EXCEPT ![s] = IF Names(s, login) \notin {Nobody, character[s]}
                                           THEN Others(s) ELSE {}]
        /\ claimed' = [claimed EXCEPT ![s] = Names(s, login) \notin {Nobody, character[s]}
                                             /\ Others(s) = {}]
    BY Zenon DEF ReadLogin
<1>2. /\ playing' = [playing EXCEPT ![s] = TRUE] /\ UNCHANGED <<stage, series, lost>>
      /\ stage[s] = "up"
    BY <1>1 DEF ReadLogin, seriesVars, Hears, Reads
<1>3. \A t \in Sessions \ {s} : /\ character'[t] = character[t] /\ naming'[t] = naming[t]
                                /\ claimed'[t] = claimed[t] /\ playing'[t] = playing[t]
    BY <1>1, <1>2 DEF Heard, Types, TypeOK
<1>4. CASE Names(s, login) \notin {Nobody, character[s]}
    <2>1. character'[s] # Nobody
        BY <1>0, <1>1, <1>4, Zenon
    <2>2. naming'[s] = Others(s) /\ playing'[s]
        BY <1>0, <1>1, <1>2, <1>4, Zenon
    <2>3. claimed'[s] <=> Others(s) = {}
        <3>1. claimed'[s] = (Names(s, login) \notin {Nobody, character[s]} /\ Others(s) = {})
            BY <1>0, <1>1, Zenon
        <3> QED BY <1>4, <3>1
    <2> QED BY <1>2, <1>3, <2>1, <2>2, <2>3 DEF Heard, Standing, Barred, Told, Others
<1>5. CASE Names(s, login) \in {Nobody, character[s]}
    <2>1. naming'[s] = {} /\ claimed'[s] = FALSE /\ playing'[s]
        BY <1>0, <1>1, <1>2, <1>5, Zenon
    <2> QED BY <1>2, <1>3, <2>1 DEF Heard, Standing, Barred, Told, Others
<1> QED BY <1>4, <1>5

\* The login bars one more session, whose try it ended.
LEMMA HeardTake ==
    ASSUME Heard, Types', NEW s \in Sessions, NEW t \in Sessions, TakeFrom(s, t) PROVE Heard'
<1>1. /\ series' = [series EXCEPT ![t] = IF lost[t] = character[s] THEN "none" ELSE @]
      /\ naming' = [naming EXCEPT ![s] = @ \ {t}]
      /\ claimed' = [claimed EXCEPT ![s] = (naming[s] = {t})]
      /\ UNCHANGED <<stage, character, playing, lost>> /\ t \in naming[s]
    BY DEF TakeFrom
<1>2. Standing'
    BY <1>1 DEF Heard, Types, TypeOK, Standing
<1>3. Barred'
    <2> SUFFICES ASSUME NEW a \in Sessions, NEW b \in Sessions, a # b, Told(b, a)',
                        character[b] = lost[a], series'[a] = "dial"
                 PROVE  FALSE
        BY <1>1 DEF Barred
    <2>1. series[a] = "dial" /\ ~(a = t /\ lost[t] = character[s])
        BY <1>1 DEF Heard, Types, TypeOK
    <2>2. Told(b, a)
        <3>1. CASE b # s
            BY <1>1, <3>1 DEF Told, Heard, Types, TypeOK
        <3>2. CASE b = s
            BY <1>1, <2>1, <3>2 DEF Told, Heard, Types, TypeOK
        <3> QED BY <3>1, <3>2
    <2> QED BY <2>1, <2>2 DEF Heard, Barred
<1> QED BY <1>2, <1>3 DEF Heard

LEMMA HeardLoop ==
    ASSUME Heard, Types', NEW s \in Sessions, Loop(s) PROVE Heard'
<1>1. CASE ReadQuestion(s)
    BY <1>1, HeardSame DEF ReadQuestion, seriesVars, histories
<1>2. CASE ReadLeft(s)
    BY <1>2 DEF ReadLeft, Hears, Reads, Heard, Types, TypeOK, Standing, Barred, Told, seriesVars
<1>3. CASE ReadClose(s)
    BY <1>3 DEF ReadClose, Hears, Reads, Heard, Types, TypeOK, Standing, Barred, Told, watch, seriesVars, histories
<1>4. CASE LoopFolds(s)
    BY <1>4 DEF LoopFolds, Folds, Heard, Types, TypeOK, Standing, Barred, Told, seriesVars
<1>5. CASE DropDeclines(s)
    BY <1>5 DEF DropDeclines, Heard, Types, TypeOK, Standing, Barred, Told, watch, seriesVars, histories
<1>6. CASE DropDecides(s)
    BY <1>6 DEF DropDecides, Heard, Types, TypeOK, Standing, Barred, Told, watch, histories
<1>7. CASE GraceEnds(s)
    BY <1>7, HeardSame DEF GraceEnds, seriesVars, histories
<1> QED BY <1>1, <1>2, <1>3, <1>4, <1>5, <1>6, <1>7, HeardLogin, HeardTake DEF Loop

\* A try looks before it dials.
LEMMA HeardDials ==
    ASSUME Heard, Types', NEW s \in Sessions, SeriesDials(s) PROVE Heard'
<1>1. /\ series[s] = "wait" /\ series' = [series EXCEPT ![s] = "dial"]
      /\ character' = [character EXCEPT ![s] = Nobody]
      /\ UNCHANGED <<stage, playing, naming, claimed, lost>>
    BY DEF SeriesDials, watch, histories
<1>2. ~playing[s] /\ naming[s] = {}
    BY <1>1 DEF Heard, Standing
<1>3. Standing'
    BY <1>1, <1>2 DEF Heard, Types, TypeOK, Standing
<1>4. \A t \in Sessions \ {s} : playing[t] /\ lost[s] # Nobody => character[t] # lost[s]
    BY DEF SeriesDials, TakenSince, Others
<1>5. \A t \in Sessions : Told(t, s) => character[t] # Nobody
    BY DEF Heard, Standing, Told
<1>6. Barred'
    <2> SUFFICES ASSUME NEW a \in Sessions, NEW b \in Sessions, a # b, Told(b, a)',
                        character'[b] = lost[a], series'[a] = "dial"
                 PROVE  FALSE
        BY <1>1 DEF Barred
    <2>1. Told(b, a) /\ b # s
        BY <1>1, <1>2 DEF Told
    <2>2. character[b] = lost[a] /\ playing[b]
        BY <1>1, <2>1 DEF Heard, Types, TypeOK, Told
    <2>3. CASE a = s
        BY <1>4, <1>5, <2>1, <2>2, <2>3
    <2>4. CASE a # s
        BY <1>1, <2>1, <2>2, <2>4 DEF Heard, Types, TypeOK, Barred
    <2> QED BY <2>3, <2>4
<1> QED BY <1>3, <1>6 DEF Heard

LEMMA HeardSeries ==
    ASSUME Heard, Types', NEW s \in Sessions, Series(s) PROVE Heard'
<1>1. CASE SeriesStarts(s)
    <2>1. /\ stage[s] = "decided" /\ stage' = [stage EXCEPT ![s] = "off"]
          /\ UNCHANGED <<character, playing, naming, claimed>>
        BY <1>1 DEF SeriesStarts, watch, histories
    <2>2. CASE UNCHANGED <<series, lost>>
        BY <2>1, <2>2 DEF Heard, Types, TypeOK, Standing, Barred, Told
    <2>3. CASE series' = [series EXCEPT ![s] = "wait"] /\ lost' = [lost EXCEPT ![s] = character[s]]
        BY <2>1, <2>3 DEF Heard, Types, TypeOK, Standing, Barred, Told
    <2> QED BY <1>1, <2>2, <2>3 DEF SeriesStarts
<1>2. CASE SeriesStops(s)
    BY <1>2 DEF SeriesStops, Heard, Types, TypeOK, Standing, Barred, Told, loopVars, watch, histories
<1>3. CASE SeriesFails(s)
    BY <1>3 DEF SeriesFails, Heard, Types, TypeOK, Standing, Barred, Told, loopVars, watch, histories
<1>4. CASE SeriesReaches(s)
    BY <1>4 DEF SeriesReaches, Opens, Heard, Types, TypeOK, Standing, Barred, Told, watch
<1> QED BY <1>1, <1>2, <1>3, <1>4, HeardDials DEF Series

LEMMA HeardStep == Heard /\ [Next]_vars => Heard'
<1> SUFFICES ASSUME Heard, [Next]_vars PROVE Heard'
    OBVIOUS
<1>0. Types'
    BY TypesStep DEF Heard
<1>1. CASE UNCHANGED vars
    BY <1>0, <1>1, HeardSame DEF vars, loopVars, watch, seriesVars, histories
<1>2. CASE \E c \in Characters : GameSeesStale(c)
    BY <1>0, <1>2, HeardSame DEF GameSeesStale, loopVars, watch, seriesVars, histories
<1> QED BY <1>0, <1>1, <1>2, HeardYou, HeardGame, HeardLoop, HeardSeries DEF Next

\* No try opens a link for a character that another session plays after
\* it told this one, for any number of sessions: the look of the try and
\* the login leave no gap between them.
THEOREM TakenNotDialed == Spec => []NoTryOfTaken
<1>1. Heard => NoTryOfTaken
    BY DEF Heard, Barred, Told, NoTryOfTaken, Others
<1> QED BY <1>1, HeardInit, HeardStep, PTL DEF Spec

-----------------------------------------------------------------------------
(* What the game sent and you answered                                     *)

\* A login is the first text unread, and the close of a link the last.
Shape(q) ==
    \A i \in DOMAIN q :
        /\ q[i] \in Logins => i = 1
        /\ q[i] = "closed" => i = Len(q)

Closes(q) == \E i \in DOMAIN q : q[i] = "closed"

\* The question stands when it was read, and only a link that is up has
\* text unread or is known to the game.
Unread ==
    \A s \in Sessions :
        /\ stage[s] # "up" => wire[s] = <<>> /\ place[s] = "none"
        /\ place[s] \in {"picks", "yes"} => wire[s] = <<>>
        /\ place[s] = "asks" => wire[s] = <<"asks">> \/ (wire[s] = <<>> /\ asked[s])
        /\ Shape(wire[s])
        /\ Closes(wire[s]) => place[s] = "none"

\* A Y the game has yet to act on, and one whose link it closed for, are
\* within the grace of the drop they explain.
Graced ==
    \A s \in Sessions :
        /\ place[s] = "yes" => took[s] = "recent"
        /\ stage[s] = "decided" => closer[s] = NoSession
        /\ closer[s] # s
        /\ stage[s] \in {"up", "ended", "folded"} /\ closer[s] # NoSession
            => took[closer[s]] = "recent"

Answered == Heard /\ Unread /\ Graced

LEMMA ShapeNone ==
    /\ Shape(<<>>) /\ ~Closes(<<>>) /\ <<>> \in Seq(Texts)
    /\ Shape(<<"asks">>) /\ ~Closes(<<"asks">>) /\ <<"asks">> # <<>>
BY DEF Shape, Closes, Logins

LEMMA ShapeLogin ==
    ASSUME NEW login \in Logins
    PROVE  LET q == Append(<<>>, login) IN
           q \in Seq(Texts) /\ Shape(q) /\ ~Closes(q) /\ q # <<>> /\ Head(q) = login
BY DEF Shape, Closes, Logins, Texts

LEMMA ShapeSent ==
    ASSUME NEW q \in Seq(Texts), NEW text \in Texts,
           Shape(q), ~Closes(q), q = <<>> \/ text \notin Logins
    PROVE  Shape(Append(q, text)) /\ (Closes(Append(q, text)) => text = "closed")
<1>1. /\ Len(q) \in Nat /\ DOMAIN q = 1..Len(q)
      /\ Len(Append(q, text)) = Len(q) + 1 /\ DOMAIN Append(q, text) = 1..(Len(q) + 1)
      /\ Append(q, text)[Len(q) + 1] = text
      /\ \A i \in 1..Len(q) : Append(q, text)[i] = q[i]
      /\ q = <<>> => Len(q) = 0
    BY AppendProperties, LenProperties
<1>2. \A i \in DOMAIN Append(q, text) : i = Len(q) + 1 \/ i \in 1..Len(q)
    BY <1>1
<1> QED BY <1>1, <1>2 DEF Shape, Closes

LEMMA ShapeRead ==
    ASSUME NEW q \in Seq(Texts), q # <<>>, Shape(q)
    PROVE  /\ Shape(Tail(q)) /\ (Closes(Tail(q)) => Closes(q))
           /\ Tail(q) # <<>> => Head(Tail(q)) \notin Logins
           /\ Head(q) = "closed" => Tail(q) = <<>> /\ Closes(q)
<1>1. /\ Len(q) \in Nat \ {0} /\ DOMAIN q = 1..Len(q) /\ Head(q) = q[1]
      /\ Tail(q) \in Seq(Texts) /\ Len(Tail(q)) = Len(q) - 1
      /\ DOMAIN Tail(q) = 1..(Len(q) - 1)
      /\ \A i \in 1..(Len(q) - 1) : Tail(q)[i] = q[i + 1]
    BY HeadTailProperties, LenProperties
<1>2. \A i \in DOMAIN Tail(q) : i + 1 \in DOMAIN q /\ Tail(q)[i] = q[i + 1] /\ i \in Nat \ {0}
    BY <1>1
<1>5. Shape(Tail(q))
    <2> SUFFICES ASSUME NEW i \in DOMAIN Tail(q)
                 PROVE  Tail(q)[i] \notin Logins /\ (Tail(q)[i] = "closed" => i = Len(Tail(q)))
        BY DEF Shape
    <2>1. i + 1 \in DOMAIN q /\ Tail(q)[i] = q[i + 1] /\ i + 1 # 1 /\ i \in Nat
        BY <1>2
    <2>2. (q[i + 1] \in Logins => i + 1 = 1) /\ (q[i + 1] = "closed" => i + 1 = Len(q))
        BY <2>1 DEF Shape
    <2>3. Tail(q)[i] = "closed" => i = Len(Tail(q))
        <3>1. Len(Tail(q)) = Len(q) - 1 /\ Len(q) \in Nat
            BY <1>1
        <3> QED BY <2>1, <2>2, <3>1
    <2> QED BY <2>1, <2>2, <2>3
<1>6. Closes(Tail(q)) => Closes(q)
    BY <1>2 DEF Closes
<1>3. Tail(q) # <<>> => Head(Tail(q)) = q[2] /\ 2 \in DOMAIN q
    BY <1>1, HeadTailProperties, LenProperties
<1>4. Head(q) = "closed" => Tail(q) = <<>> /\ Closes(q)
    BY <1>1, LenProperties, EmptySeq DEF Shape, Closes
<1>7. Tail(q) # <<>> => Head(Tail(q)) \notin Logins
    <2> SUFFICES ASSUME Tail(q) # <<>> PROVE q[2] \notin Logins
        BY <1>3
    <2>1. q[2] \in Logins => 2 = 1
        BY <1>3 DEF Shape
    <2> QED BY <2>1
<1> QED BY <1>4, <1>5, <1>6, <1>7

LEMMA AnsweredInit == Init => Answered
<1> SUFFICES ASSUME Init PROVE Answered
    OBVIOUS
<1>1. Heard
    BY HeardInit
<1>2. Unread /\ Graced
    BY TakeoverAssumption, ShapeNone DEF Init, Unread, Graced
<1> QED BY <1>1, <1>2 DEF Answered

\* What a step leaves, where it sends and reads nothing and the game moves no link.
LEMMA AnsweredSame ==
    ASSUME Answered, Heard', UNCHANGED <<stage, asked, took, wire, place, closer>>
    PROVE  Answered'
BY DEF Answered, Unread, Graced

LEMMA AnsweredTypes ==
    ASSUME Answered
    PROVE  /\ Unread /\ Graced
           /\ stage \in [Sessions -> {"off", "up", "ended", "folded", "decided"}]
           /\ asked \in [Sessions -> BOOLEAN] /\ took \in [Sessions -> {"no", "recent", "old"}]
           /\ place \in [Sessions -> {"none", "menu", "picks", "asks", "yes", "in"}]
           /\ wire \in [Sessions -> Seq(Texts)]
           /\ closer \in [Sessions -> Sessions \cup {NoSession}]
           /\ NoSession \notin Sessions
BY TakeoverAssumption DEF Answered, Heard, Types, TypeOK, Texts

LEMMA AnsweredYou ==
    ASSUME Answered, Heard', NEW s \in Sessions, You(s) PROVE Answered'
<1> USE AnsweredTypes
<1> SUFFICES Unread' /\ Graced'
    BY DEF Answered
<1>1. CASE Connect(s)
    BY <1>1, ShapeNone DEF Connect, Opens, Unread, Graced, watch
<1>2. CASE Disconnect(s)
    <2>1. /\ stage' = [stage EXCEPT ![s] = "off"] /\ wire' = [wire EXCEPT ![s] = <<>>]
          /\ place' = [place EXCEPT ![s] = "none"]
          /\ asked' = [asked EXCEPT ![s] = FALSE] /\ took' = [took EXCEPT ![s] = "no"]
          /\ closer' = [t \in Sessions |-> IF closer[t] = s THEN NoSession ELSE closer[t]]
        BY <1>2 DEF Disconnect, Folds, GameLoses
    <2>2. Unread'
        BY <2>1, ShapeNone DEF Unread
    <2>3. Graced'
        BY <2>1, TakeoverAssumption DEF Graced
    <2> QED BY <2>2, <2>3
<1>3. CASE AnswerNo(s)
    BY <1>3 DEF AnswerNo, Sees, Reads, Unread, Graced, seriesVars, histories
<1>4. CASE AnswerYes(s)
    <2>1. /\ place[s] = "asks" /\ wire[s] = <<>> /\ took' = [took EXCEPT ![s] = IF asked[s] THEN "recent" ELSE @]
          /\ asked' = [asked EXCEPT ![s] = FALSE] /\ place' = [place EXCEPT ![s] = "yes"]
          /\ UNCHANGED <<stage, wire, closer>>
        BY <1>4 DEF AnswerYes, Sees, histories
    <2>2. asked[s]
        BY <2>1, ShapeNone DEF Unread
    <2> QED BY <2>1, <2>2, ShapeNone DEF Unread, Graced
<1>5. CASE \E c \in Characters : Pick(s, c)
    BY <1>5 DEF Pick, Sees, Reads, Unread, Graced, seriesVars, histories
<1> QED BY <1>1, <1>2, <1>3, <1>4, <1>5 DEF You

LEMMA AnsweredGame ==
    ASSUME Answered, Heard', NEW s \in Sessions, Game(s) PROVE Answered'
<1> USE AnsweredTypes
<1> SUFFICES Unread' /\ Graced'
    BY DEF Answered
<1>0. \A t \in Sessions :
        /\ wire[t] \in Seq(Texts) /\ Shape(wire[t])
        /\ place[t] # "none" => ~Closes(wire[t]) /\ stage[t] = "up"
    BY DEF Unread, Texts
<1>1. CASE GameAsks(s)
    <2>1. wire[s] = <<>> /\ wire' = [wire EXCEPT ![s] = Append(@, "asks")] /\ stage[s] = "up"
          /\ place' = [place EXCEPT ![s] = "asks"] /\ UNCHANGED <<stage, asked, took, closer>>
        BY <1>1 DEF GameAsks, Sends, Unread, loopVars, watch, histories
    <2>2. wire'[s] = <<"asks">>
        BY <2>1
    <2> QED BY <1>0, <2>1, <2>2, ShapeNone DEF Unread, Graced
<1>2. CASE GameLetsIn(s)
    <2>1. PICK login \in Logins : wire' = [wire EXCEPT ![s] = Append(@, login)]
        BY <1>2 DEF GameLetsIn, Sends
    <2>2. place' = [place EXCEPT ![s] = "in"] /\ stage[s] = "up" /\ wire[s] = <<>>
          /\ UNCHANGED <<stage, asked, took, closer>>
        BY <1>2 DEF GameLetsIn, Unread, loopVars, watch
    <2>3. Shape(wire'[s]) /\ ~Closes(wire'[s])
        BY <2>1, <2>2, ShapeLogin
    <2> QED BY <2>1, <2>2, <2>3 DEF Unread, Graced
<1>3. CASE GameGives(s)
    <2>1. PICK login \in Logins : \A t \in Sessions :
            wire'[t] = CASE t = s -> Append(wire[t], login)
                         [] t \in {u \in Others(s) : Plays(u, who[s])} -> Append(wire[t], "closed")
                         [] OTHER -> wire[t]
        BY <1>3 DEF GameGives
    <2>2. \A t \in Sessions :
            /\ place'[t] = IF t = s THEN "in"
                           ELSE IF t \in {u \in Others(s) : Plays(u, who[s])} THEN "none" ELSE place[t]
            /\ closer'[t] = IF t \in {u \in Others(s) : Plays(u, who[s])} THEN s ELSE closer[t]
        BY <1>3, Zenon DEF GameGives
    <2>3. place[s] = "yes" /\ UNCHANGED <<stage, asked, took>>
        BY <1>3 DEF GameGives, loopVars, watch
    <2>4. stage[s] = "up" /\ wire[s] = <<>> /\ took[s] = "recent"
        BY <2>3 DEF Unread, Graced
    <2>5. Unread'
        <3> SUFFICES ASSUME NEW t \in Sessions
                     PROVE /\ stage[t] # "up" => wire'[t] = <<>> /\ place'[t] = "none"
                           /\ place'[t] \in {"picks", "yes"} => wire'[t] = <<>>
                           /\ place'[t] = "asks" => wire'[t] = <<"asks">> \/ (wire'[t] = <<>> /\ asked[t])
                           /\ Shape(wire'[t]) /\ (Closes(wire'[t]) => place'[t] = "none")
            BY <2>3 DEF Unread
        <3>1. CASE t = s
            <4>1. wire'[s] = Append(wire[s], login) /\ place'[s] = "in"
                BY <2>1, <2>2, <3>1 DEF Others
            <4>2. Shape(wire'[s]) /\ ~Closes(wire'[s])
                BY <2>4, <4>1, ShapeLogin
            <4> QED BY <2>4, <3>1, <4>1, <4>2
        <3>2. CASE t # s /\ t \in {u \in Others(s) : Plays(u, who[s])}
            <4>1. wire'[t] = Append(wire[t], "closed") /\ place'[t] = "none" /\ place[t] = "in"
                BY <2>1, <2>2, <3>2 DEF Plays
            <4>2. Shape(wire'[t])
                BY <1>0, <4>1, ShapeSent DEF Texts, Logins
            <4>3. stage[t] = "up"
                BY <4>1 DEF Unread
            <4> QED BY <4>1, <4>2, <4>3
        <3>3. CASE t # s /\ t \notin {u \in Others(s) : Plays(u, who[s])}
            BY <2>1, <2>2, <3>3 DEF Unread
        <3> QED BY <3>1, <3>2, <3>3
    <2>6. Graced'
        <3>1. \A t \in Sessions : /\ place'[t] = "yes" => place[t] = "yes"
                                  /\ closer'[t] = closer[t]
                                     \/ (closer'[t] = s /\ t # s /\ stage[t] = "up")
            BY <2>2, <2>3 DEF Unread, Others, Plays
        <3> QED BY <2>3, <2>4, <3>1 DEF Graced
    <2> QED BY <2>5, <2>6
<1>4. CASE GameLeaves(s)
    <2>1. wire' = [wire EXCEPT ![s] = Append(@, "left")] /\ place' = [place EXCEPT ![s] = "menu"]
          /\ stage[s] = "up" /\ UNCHANGED <<stage, asked, took, closer>> /\ place[s] = "in"
        BY <1>4 DEF GameLeaves, Sends, Unread, loopVars, watch, histories
    <2>2. Shape(wire'[s]) /\ ~Closes(wire'[s])
        BY <1>0, <2>1, ShapeSent DEF Texts, Logins
    <2> QED BY <2>1, <2>2 DEF Unread, Graced
<1>5. CASE GameSeesGone(s)
    BY <1>5 DEF GameSeesGone, GameLoses, Unread, Graced, loopVars, watch, histories
<1>6. CASE Breaks(s)
    BY <1>6, ShapeNone DEF Breaks, Reads, GameLoses, Unread, Graced, watch, histories
<1> QED BY <1>1, <1>2, <1>3, <1>4, <1>5, <1>6 DEF Game

LEMMA AnsweredLoop ==
    ASSUME Answered, Heard', NEW s \in Sessions, Loop(s) PROVE Answered'
<1> USE AnsweredTypes
<1> SUFFICES Unread' /\ Graced'
    BY DEF Answered
<1>0. \A text : Hears(s, text) =>
        /\ stage[s] = "up" /\ wire[s] # <<>> /\ Head(wire[s]) = text
        /\ wire' = [wire EXCEPT ![s] = Tail(@)]
        /\ place[s] # "asks" => place[s] \in {"none", "menu", "in"}
        /\ Shape(wire'[s]) /\ (Closes(wire'[s]) => place[s] = "none")
        /\ text = "closed" => wire'[s] = <<>> /\ place[s] = "none"
        /\ place[s] = "asks" => text = "asks" /\ wire'[s] = <<>>
    <2> SUFFICES ASSUME NEW text, Hears(s, text)
                 PROVE  /\ stage[s] = "up" /\ wire[s] # <<>> /\ Head(wire[s]) = text
                        /\ wire' = [wire EXCEPT ![s] = Tail(@)]
                        /\ place[s] # "asks" => place[s] \in {"none", "menu", "in"}
                        /\ Shape(wire'[s]) /\ (Closes(wire'[s]) => place[s] = "none")
                        /\ text = "closed" => wire'[s] = <<>> /\ place[s] = "none"
                        /\ place[s] = "asks" => text = "asks" /\ wire'[s] = <<>>
        OBVIOUS
    <2>1. stage[s] = "up" /\ wire[s] # <<>> /\ Head(wire[s]) = text /\ wire' = [wire EXCEPT ![s] = Tail(@)]
        BY DEF Hears, Reads
    <2>2. /\ wire[s] \in Seq(Texts) /\ Shape(wire[s]) /\ wire'[s] = Tail(wire[s])
          /\ Closes(wire[s]) => place[s] = "none"
        BY <2>1 DEF Unread, Texts
    <2>3. /\ Shape(wire'[s]) /\ (Closes(wire'[s]) => place[s] = "none")
          /\ text = "closed" => wire'[s] = <<>> /\ place[s] = "none"
        <3>1. /\ Shape(Tail(wire[s])) /\ (Closes(Tail(wire[s])) => Closes(wire[s]))
              /\ Head(wire[s]) = "closed" => Tail(wire[s]) = <<>> /\ Closes(wire[s])
            BY <2>1, <2>2, ShapeRead
        <3> QED BY <2>1, <2>2, <3>1
    <2>4. place[s] = "asks" => text = "asks" /\ wire'[s] = <<>>
        BY <2>1, <2>2 DEF Unread
    <2>5. place[s] # "asks" => place[s] \in {"none", "menu", "in"}
        BY <2>1 DEF Unread
    <2> QED BY <2>1, <2>3, <2>4, <2>5
<1>1. CASE ReadQuestion(s)
    BY <1>0, <1>1 DEF ReadQuestion, Unread, Graced, histories
<1>2. CASE ReadLeft(s)
    BY <1>0, <1>2 DEF ReadLeft, Unread, Graced
<1>3. CASE ReadLogin(s)
    <2>1. PICK login \in Logins : Hears(s, login)
        BY <1>3 DEF ReadLogin
    <2>2. /\ UNCHANGED <<stage, took, place, closer>>
          /\ \A t \in Sessions \ {s} : asked'[t] = asked[t]
        BY <1>3 DEF ReadLogin
    <2> QED BY <1>0, <2>1, <2>2 DEF Unread, Graced, Logins
<1>4. CASE \E t \in Sessions : TakeFrom(s, t)
    BY <1>4 DEF TakeFrom, Unread, Graced, gameVars
<1>5. CASE ReadClose(s)
    BY <1>0, <1>5 DEF ReadClose, Unread, Graced, watch, histories
<1>6. CASE LoopFolds(s)
    BY <1>6, TakeoverAssumption DEF LoopFolds, Folds, Unread, Graced, gameVars
<1>7. CASE DropDeclines(s)
    BY <1>7 DEF DropDeclines, Unread, Graced, watch, gameVars, histories
<1>8. CASE DropDecides(s)
    <2>1. closer[s] = NoSession
        BY <1>8 DEF DropDecides, Declines, TookElsewhere, Others, Graced
    <2> QED BY <1>8, <2>1 DEF DropDecides, Unread, Graced, watch, gameVars, histories
<1>9. CASE GraceEnds(s)
    BY <1>9, TakeoverAssumption DEF GraceEnds, Others, Unread, Graced, gameVars, histories
<1> QED BY <1>1, <1>2, <1>3, <1>4, <1>5, <1>6, <1>7, <1>8, <1>9 DEF Loop

LEMMA AnsweredSeries ==
    ASSUME Answered, Heard', NEW s \in Sessions, Series(s) PROVE Answered'
<1>1. CASE SeriesStarts(s)
    BY <1>1 DEF SeriesStarts, Answered, Heard, Types, TypeOK, Unread, Graced, watch, gameVars, histories
<1>2. CASE SeriesStops(s)
    BY <1>2, AnsweredSame DEF SeriesStops, loopVars, watch, gameVars, histories
<1>3. CASE SeriesDials(s)
    BY <1>3, AnsweredSame DEF SeriesDials, watch, gameVars, histories
<1>4. CASE SeriesFails(s)
    BY <1>4, AnsweredSame DEF SeriesFails, loopVars, watch, gameVars, histories
<1>5. CASE SeriesReaches(s)
    <2>1. stage[s] = "off"
        BY <1>5 DEF SeriesReaches, Answered, Heard, Standing
    <2> QED BY <1>5, <2>1, AnsweredTypes, ShapeNone DEF SeriesReaches, Opens, Answered, Unread, Graced, watch
<1> QED BY <1>1, <1>2, <1>3, <1>4, <1>5 DEF Series

LEMMA AnsweredStep == Answered /\ [Next]_vars => Answered'
<1> SUFFICES ASSUME Answered, [Next]_vars PROVE Answered'
    OBVIOUS
<1>0. Heard'
    BY HeardStep DEF Answered
<1>1. CASE UNCHANGED vars
    BY <1>0, <1>1, AnsweredSame DEF vars, loopVars, watch, gameVars, histories
<1>2. CASE \E c \in Characters : GameSeesStale(c)
    BY <1>0, <1>2, AnsweredSame DEF GameSeesStale, loopVars, watch, histories
<1> QED BY <1>0, <1>1, <1>2, AnsweredYou, AnsweredGame, AnsweredLoop, AnsweredSeries DEF Next

\* A drop the game made because another session answered Y starts no
\* series, however the logins and the drop interleave: the grace of that
\* Y is still open when the drop is decided.
THEOREM TakenNotRedialed == Spec => TakenStaysDown
<1>1. ASSUME Answered, [Next]_vars
      PROVE  [\A s \in Sessions : series[s] = "none" /\ series'[s] = "wait"
                 => closer[s] = NoSession]_vars
    <2> SUFFICES ASSUME Next, NEW s \in Sessions, series[s] = "none", series'[s] = "wait"
                 PROVE  closer[s] = NoSession
        BY <1>1
    <2>0. series \in [Sessions -> {"none", "wait", "dial"}]
        BY <1>1 DEF Answered, Heard, Types, TypeOK
    <2>1. ~ \E c \in Characters : GameSeesStale(c)
        BY DEF GameSeesStale, seriesVars
    <2>2. ASSUME NEW r \in Sessions PROVE ~You(r)
        BY <2>0, <2>2 DEF You, Connect, Opens, Disconnect, AnswerNo, AnswerYes, Pick, seriesVars
    <2>3. ASSUME NEW r \in Sessions PROVE ~Game(r)
        BY DEF Game, GameAsks, GameLetsIn, GameGives, GameLeaves, GameSeesGone, Breaks, seriesVars
    <2>4. ASSUME NEW r \in Sessions PROVE ~Loop(r)
        BY <2>0, <2>4 DEF Loop, ReadQuestion, ReadLeft, ReadLogin, ReadClose, TakeFrom, LoopFolds,
            DropDeclines, DropDecides, GraceEnds, seriesVars
    <2>5. ASSUME NEW r \in Sessions, Series(r) PROVE SeriesStarts(s)
        BY <2>0, <2>5 DEF Series, SeriesStarts, SeriesStops, SeriesDials, SeriesFails, SeriesReaches,
            Opens, seriesVars
    <2>6. SeriesStarts(s)
        BY <2>1, <2>2, <2>3, <2>4, <2>5 DEF Next
    <2> QED BY <1>1, <2>6 DEF SeriesStarts, Answered, Graced
<1> QED BY <1>1, AnsweredInit, AnsweredStep, PTL DEF Spec, TakenStaysDown

-----------------------------------------------------------------------------
(* A mark of another session has a login behind it                         *)

Unheard(s) == wire[s] # <<>> /\ Head(wire[s]) \in Logins

Logging(s) == naming[s] # {} \/ Unheard(s)

\* A login not told yet is of the character picked last, on a link that
\* played none, and no two are of one character.
Picked ==
    \A s \in Sessions :
        /\ place[s] \in {"picks", "asks", "yes"} \/ Unheard(s)
            => ~playing[s] /\ naming[s] = {} /\ picked[s] = who[s]
        /\ naming[s] # {} => character[s] = who[s]
        /\ s \notin naming[s]
        /\ Logging(s) => who[s] \in Characters
        /\ \A t \in Others(s) : Logging(s) /\ Logging(t) => who[s] # who[t]

\* A mark, now or as the loop ended, means that a link got the character.
Marked ==
    /\ \A s, t \in Sessions :
        s # t /\ Logging(s) /\ playing[t] /\ character[t] = who[s] => overtaken[t]
    /\ \A s \in Sessions :
        /\ taken[s] => playing[s] /\ overtaken[s]
        /\ stage[s] = "folded" /\ held[s] = "taken" => overtaken[s]

Fair == Answered /\ Picked /\ Marked

LEMMA FairInit == Init => Fair
<1> SUFFICES ASSUME Init PROVE Fair
    OBVIOUS
<1> QED BY AnsweredInit DEF Init, Fair, Picked, Marked, Logging, Unheard

LEMMA FairTypes ==
    ASSUME Fair
    PROVE  /\ Unread /\ Standing /\ Picked /\ Marked /\ Placed
           /\ stage \in [Sessions -> {"off", "up", "ended", "folded", "decided"}]
           /\ playing \in [Sessions -> BOOLEAN] /\ taken \in [Sessions -> BOOLEAN]
           /\ character \in [Sessions -> Characters \cup {Nobody}]
           /\ picked \in [Sessions -> Characters \cup {Nobody}]
           /\ who \in [Sessions -> Characters \cup {Nobody}]
           /\ held \in [Sessions -> {"away", "plays", "taken"}]
           /\ naming \in [Sessions -> SUBSET Sessions]
           /\ place \in [Sessions -> {"none", "menu", "picks", "asks", "yes", "in"}]
           /\ wire \in [Sessions -> Seq(Texts)]
           /\ overtaken \in [Sessions -> BOOLEAN]
           /\ Nobody \notin Characters
BY TakeoverAssumption DEF Fair, Answered, Heard, Types, TypeOK, Texts

\* The login unread or not told yet is what LoginsApart looks at.
LEMMA PendingLogs ==
    ASSUME Fair, NEW s \in Sessions
    PROVE  Pending(s) <=> Logging(s)
<1>1. wire[s] \in Seq(Texts) /\ Shape(wire[s])
    BY FairTypes DEF Unread
<1>2. wire[s] # <<>> => 1 \in DOMAIN wire[s] /\ Head(wire[s]) = wire[s][1]
    BY <1>1, OneLess
<1>3. DOMAIN wire[s] # {} => wire[s] # <<>>
    BY <1>1
<1> QED BY <1>1, <1>2, <1>3 DEF Pending, Logging, Unheard, Shape

\* A text that is no login leaves the first as it is.
LEMMA HeadKept ==
    ASSUME NEW q \in Seq(Texts), NEW text \in Texts \ Logins,
           Append(q, text) # <<>>, Head(Append(q, text)) \in Logins
    PROVE  q # <<>> /\ Head(q) \in Logins
BY AppendProperties, LenProperties

\* A read leaves no login unread.
LEMMA ReadHears ==
    ASSUME Fair, NEW s \in Sessions, NEW text, Hears(s, text)
    PROVE  /\ ~Unheard(s)'
           /\ \A t \in Sessions \ {s} : wire'[t] = wire[t]
           /\ stage[s] = "up" /\ naming[s] = {} /\ (text \in Logins => Unheard(s))
<1>1. wire[s] # <<>> /\ Head(wire[s]) = text /\ wire' = [wire EXCEPT ![s] = Tail(@)]
      /\ stage[s] = "up" /\ naming[s] = {}
    BY DEF Hears, Reads
<1>2. wire[s] \in Seq(Texts) /\ Shape(wire[s]) /\ wire'[s] = Tail(wire[s])
      /\ \A t \in Sessions \ {s} : wire'[t] = wire[t]
    BY <1>1, FairTypes DEF Unread
<1>3. Tail(wire[s]) # <<>> => Head(Tail(wire[s])) \notin Logins
    BY <1>1, <1>2, ShapeRead
<1> QED BY <1>1, <1>2, <1>3 DEF Unheard

\* A step that lets nobody in, names nobody and marks nobody.
LEMMA FairKeeps ==
    ASSUME Fair, Answered',
           UNCHANGED <<naming, playing, character, picked, who, overtaken>>,
           \A t \in Sessions :
               /\ Unheard(t)' => Unheard(t)
               /\ place'[t] \in {"picks", "asks", "yes"} => place[t] \in {"picks", "asks", "yes"}
               /\ taken'[t] => taken[t]
               /\ stage'[t] = "folded" => stage[t] = "folded" /\ held'[t] = held[t]
    PROVE  Fair'
<1>1. \A t \in Sessions : Logging(t)' => Logging(t)
    BY DEF Logging
<1>2. Picked'
    BY <1>1, FairTypes DEF Picked, Others
<1>3. Marked'
    BY <1>1, FairTypes DEF Marked
<1> QED BY <1>2, <1>3 DEF Fair

LEMMA FairYou ==
    ASSUME Fair, Answered', NEW s \in Sessions, You(s) PROVE Fair'
<1> USE FairTypes
<1>1. CASE Connect(s)
    <2>1. stage[s] = "off" /\ ~playing[s] /\ wire[s] = <<>>
        BY <1>1 DEF Connect, Standing, Unread
    <2>2. Picked'
        BY <1>1, <2>1 DEF Connect, Opens, Standing, Picked, Logging, Unheard, watch
    <2>3. Marked'
        BY <1>1, <2>1 DEF Connect, Opens, Standing, Marked, Logging, Unheard, watch
    <2> QED BY <2>2, <2>3 DEF Fair
<1>2. CASE Disconnect(s)
    <2>1. /\ naming[s] = {} /\ wire' = [wire EXCEPT ![s] = <<>>] /\ playing' = [playing EXCEPT ![s] = FALSE]
          /\ stage' = [stage EXCEPT ![s] = "off"] /\ place' = [place EXCEPT ![s] = "none"]
          /\ picked' = [picked EXCEPT ![s] = Nobody] /\ taken' = [taken EXCEPT ![s] = FALSE]
          /\ \A t \in Sessions \ {s} : held'[t] = held[t]
          /\ UNCHANGED <<character, naming, who, overtaken>>
        BY <1>2 DEF Disconnect, Folds, GameLoses, Standing
    <2>2. Picked'
        BY <2>1 DEF Picked, Logging, Unheard, Others
    <2>3. Marked'
        BY <2>1 DEF Marked, Logging, Unheard
    <2> QED BY <2>2, <2>3 DEF Fair
<1>3. CASE AnswerNo(s)
    BY <1>3, FairKeeps DEF AnswerNo, Unheard, seriesVars, histories
<1>4. CASE AnswerYes(s)
    BY <1>4, FairKeeps DEF AnswerYes, Unheard, histories
<1>5. CASE \E c \in Characters : Pick(s, c)
    <2>1. PICK c \in Characters : Pick(s, c)
        BY <1>5
    <2>2. wire[s] = <<>> /\ naming[s] = {} /\ ~playing[s]
        BY <2>1 DEF Pick, Sees, Reads
    <2>3. Picked'
        BY <2>1, <2>2 DEF Pick, Picked, Logging, Unheard, Others, seriesVars, histories
    <2>4. Marked'
        BY <2>1, <2>2 DEF Pick, Marked, Logging, Unheard, seriesVars, histories
    <2> QED BY <2>3, <2>4 DEF Fair
<1> QED BY <1>1, <1>2, <1>3, <1>4, <1>5 DEF You

\* The game lets a character in.  It plays on no other link that has yet
\* to tell, and every other link that played it is overtaken.
LEMMA FairEnters ==
    ASSUME Fair, Answered', NEW s \in Sessions, Enters(s), place[s] \in {"picks", "yes"}, place'[s] = "in",
           UNCHANGED <<stage, held, naming, playing, character, picked, who, taken>>,
           \A t \in Others(s) :
               /\ Unheard(t)' => Unheard(t)
               /\ place'[t] \in {"picks", "asks", "yes"} => place[t] \in {"picks", "asks", "yes"}
    PROVE  Fair'
<1>1. ~playing[s] /\ naming[s] = {} /\ picked[s] = who[s] /\ who[s] \in Characters
    BY FairTypes DEF Picked, Placed
<1>2. \A t \in Others(s) : /\ Logging(t)' => Logging(t)
                           /\ Logging(t) => who[t] # who[s]
    BY PendingLogs DEF Enters, LoginsApart, Logging, Others
<1>3. overtaken' = [t \in Sessions |-> t # s /\ (overtaken[t] \/ character[t] = who[s])]
    BY DEF Enters
<1>4. Picked'
    BY <1>1, <1>2, FairTypes DEF Picked, Others
<1>5. Marked'
    <2>1. ASSUME NEW u \in Sessions, NEW t \in Sessions, u # t, Logging(u)', playing[t],
                 character[t] = who[u]
          PROVE  overtaken'[t]
        <3>1. t # s
            BY <1>1, <2>1
        <3>2. CASE u = s
            BY <1>3, <2>1, <3>1, <3>2
        <3>3. CASE u # s
            BY <1>2, <1>3, <2>1, <3>1, <3>3, FairTypes DEF Marked, Others
        <3> QED BY <3>2, <3>3
    <2>2. \A t \in Sessions : t # s /\ overtaken[t] => overtaken'[t]
        BY <1>3
    <2>3. stage[s] = "up" /\ ~taken[s]
        BY <1>1, FairTypes DEF Marked, Unread
    <2> QED BY <2>1, <2>2, <2>3, FairTypes DEF Marked
<1> QED BY <1>4, <1>5 DEF Fair

LEMMA FairGame ==
    ASSUME Fair, Answered', NEW s \in Sessions, Game(s) PROVE Fair'
<1>0. \A t \in Sessions : wire[t] \in Seq(Texts)
    BY FairTypes
<1>1. CASE GameAsks(s)
    <2>1. wire[s] = <<>> /\ wire' = [wire EXCEPT ![s] = Append(@, "asks")]
        BY <1>1, FairTypes DEF GameAsks, Sends, Unread
    <2>2. \A t \in Sessions : Unheard(t)' => Unheard(t)
        BY <1>0, <2>1, HeadKept, FairTypes DEF Unheard, Texts, Logins
    <2> QED BY <1>1, <2>2, FairKeeps, FairTypes DEF GameAsks, loopVars, watch, seriesVars, histories
<1>2. CASE GameLetsIn(s)
    <2>1. \A t \in Others(s) : wire'[t] = wire[t] /\ place'[t] = place[t]
        BY <1>2, FairTypes DEF GameLetsIn, Sends, Others
    <2> QED BY <1>2, <2>1, FairEnters, FairTypes DEF GameLetsIn, Unheard, loopVars, watch
<1>3. CASE GameGives(s)
    <2>1. \A t \in Others(s) : /\ wire'[t] = Append(wire[t], "closed") \/ wire'[t] = wire[t]
                               /\ place'[t] \in {"none", place[t]}
        BY <1>3 DEF GameGives, Others
    <2>2. \A t \in Others(s) : Unheard(t)' => Unheard(t)
        BY <1>0, <2>1, HeadKept DEF Unheard, Texts, Logins, Others
    <2>3. place'[s] = "in" /\ place[s] = "yes" /\ Enters(s)
          /\ UNCHANGED <<stage, held, naming, playing, character, picked, who, taken>>
        BY <1>3 DEF GameGives, loopVars, watch
    <2> QED BY <2>1, <2>2, <2>3, FairEnters
<1>4. CASE GameLeaves(s)
    <2>1. wire' = [wire EXCEPT ![s] = Append(@, "left")]
        BY <1>4 DEF GameLeaves, Sends
    <2>2. \A t \in Sessions : Unheard(t)' => Unheard(t)
        BY <1>0, <2>1, HeadKept, FairTypes DEF Unheard, Texts, Logins
    <2> QED BY <1>4, <2>2, FairKeeps, FairTypes DEF GameLeaves, loopVars, watch, seriesVars, histories
<1>5. CASE GameSeesGone(s)
    BY <1>5, FairKeeps, FairTypes DEF GameSeesGone, GameLoses, Unheard, loopVars, watch, seriesVars, histories
<1>6. CASE Breaks(s)
    BY <1>6, FairKeeps, FairTypes DEF Breaks, GameLoses, Unheard, watch, seriesVars, histories
<1> QED BY <1>1, <1>2, <1>3, <1>4, <1>5, <1>6 DEF Game

\* A login names the character picked last, which no other login under
\* way is of.
LEMMA FairLogin ==
    ASSUME Fair, Answered', NEW s \in Sessions, ReadLogin(s) PROVE Fair'
<1> USE FairTypes
<1>1. PICK login \in Logins :
        /\ Hears(s, login)
        /\ character' = [character EXCEPT ![s] = IF Names(s, login) \notin {Nobody, character[s]}
                                                 THEN Names(s, login) ELSE @]
        /\ taken' = [taken EXCEPT ![s] = @ /\ ~(Names(s, login) \notin {Nobody, character[s]})]
        /\ naming' = [naming EXCEPT ![s] = IF Names(s, login) \notin {Nobody, character[s]}
                                           THEN Others(s) ELSE {}]
    BY Zenon DEF ReadLogin
<1>2. /\ playing' = [playing EXCEPT ![s] = TRUE] /\ picked' = [picked EXCEPT ![s] = Nobody]
      /\ UNCHANGED <<stage, held, place, who, overtaken>>
    BY DEF ReadLogin
<1>3. /\ ~Unheard(s)' /\ Unheard(s)
      /\ \A t \in Sessions \ {s} : wire'[t] = wire[t]
    BY <1>1, ReadHears
<1>4. ~playing[s] /\ ~taken[s] /\ picked[s] = who[s] /\ who[s] \in Characters /\ Logging(s)
    BY <1>3 DEF Picked, Marked, Logging
<1>5. Names(s, login) = who[s]
    BY <1>4 DEF Names
<1>6. character'[s] = who[s] /\ ~taken'[s] /\ naming'[s] \in {Others(s), {}} /\ playing'[s]
    BY <1>1, <1>2, <1>4, <1>5
<1>7. \A t \in Sessions \ {s} : /\ character'[t] = character[t] /\ naming'[t] = naming[t]
                                /\ taken'[t] = taken[t] /\ playing'[t] = playing[t]
                                /\ picked'[t] = picked[t] /\ (Logging(t)' <=> Logging(t))
    BY <1>1, <1>2, <1>3 DEF Logging, Unheard
<1>8. place[s] \notin {"picks", "asks", "yes"}
    BY <1>3, ShapeNone DEF Unread, Unheard, Logins
<1>9. \A t \in Sessions \ {s} : Logging(t) => who[t] # who[s]
    BY <1>4 DEF Picked, Others
<1>10. Picked'
    BY <1>2, <1>3, <1>4, <1>6, <1>7, <1>8, <1>9 DEF Picked, Others, Logging, Unheard
<1>11. Marked'
    BY <1>2, <1>4, <1>6, <1>7, <1>9 DEF Marked
<1> QED BY <1>10, <1>11 DEF Fair

LEMMA FairLoop ==
    ASSUME Fair, Answered', NEW s \in Sessions, Loop(s) PROVE Fair'
<1> USE FairTypes
<1>0. \A t \in Sessions : \A text : Hears(s, text) /\ Unheard(t)' => Unheard(t)
    BY ReadHears DEF Unheard
<1>1. CASE ReadQuestion(s)
    BY <1>0, <1>1, FairKeeps DEF ReadQuestion, seriesVars, histories
<1>2. CASE ReadLeft(s)
    <2>1. /\ ~Unheard(s)' /\ naming[s] = {}
          /\ \A t \in Sessions \ {s} : wire'[t] = wire[t]
        BY <1>2, ReadHears DEF ReadLeft
    <2>2. Picked'
        BY <1>2, <2>1 DEF ReadLeft, Picked, Logging, Unheard, Others
    <2>3. Marked'
        BY <1>2, <2>1 DEF ReadLeft, Marked, Logging, Unheard
    <2> QED BY <2>2, <2>3 DEF Fair
<1>3. CASE \E t \in Sessions : TakeFrom(s, t)
    <2>1. PICK t \in Sessions : TakeFrom(s, t)
        BY <1>3
    <2>2. t # s /\ Logging(s) /\ character[s] = who[s]
        BY <2>1 DEF TakeFrom, Picked, Logging
    <2>3. playing[t] /\ character[t] = character[s] => overtaken[t]
        BY <2>2 DEF Marked
    <2>4. Picked'
        BY <2>1 DEF TakeFrom, Picked, Logging, Unheard, Others, gameVars
    <2>5. Marked'
        BY <2>1, <2>3 DEF TakeFrom, Marked, Logging, Unheard, gameVars
    <2> QED BY <2>4, <2>5 DEF Fair
<1>4. CASE ReadClose(s)
    BY <1>0, <1>4, FairKeeps DEF ReadClose, watch, seriesVars, histories
<1>5. CASE LoopFolds(s)
    <2>1. stage[s] = "ended" /\ wire[s] = <<>> /\ naming[s] = {} /\ place[s] = "none"
        BY <1>5 DEF LoopFolds, Unread, Standing
    <2>2. Picked'
        BY <1>5, <2>1 DEF LoopFolds, Folds, Picked, Logging, Unheard, Others, seriesVars, gameVars
    <2>3. Marked'
        BY <1>5, <2>1 DEF LoopFolds, Folds, Marked, Logging, Unheard, seriesVars, gameVars
    <2> QED BY <2>2, <2>3 DEF Fair
<1>6. CASE DropDeclines(s)
    BY <1>6, FairKeeps DEF DropDeclines, Unheard, watch, seriesVars, gameVars, histories
<1>7. CASE DropDecides(s)
    BY <1>7, FairKeeps DEF DropDecides, Unheard, watch, gameVars, histories
<1>8. CASE GraceEnds(s)
    BY <1>8, FairKeeps DEF GraceEnds, Unheard, seriesVars, gameVars, histories
<1> QED BY <1>1, <1>2, <1>3, <1>4, <1>5, <1>6, <1>7, <1>8, FairLogin DEF Loop

LEMMA FairSeries ==
    ASSUME Fair, Answered', NEW s \in Sessions, Series(s) PROVE Fair'
<1> USE FairTypes
<1>1. CASE SeriesStarts(s)
    BY <1>1, FairKeeps DEF SeriesStarts, Unheard, watch, gameVars, histories
<1>2. CASE SeriesStops(s)
    BY <1>2, FairKeeps DEF SeriesStops, Unheard, loopVars, watch, gameVars, histories
<1>3. CASE SeriesDials(s)
    <2>1. ~playing[s] /\ naming[s] = {} /\ wire[s] = <<>>
        BY <1>3 DEF SeriesDials, Standing, Unread
    <2>2. Picked'
        BY <1>3, <2>1 DEF SeriesDials, Picked, Logging, Unheard, watch, gameVars, histories
    <2>3. Marked'
        BY <1>3, <2>1 DEF SeriesDials, Marked, Logging, Unheard, watch, gameVars, histories
    <2> QED BY <2>2, <2>3 DEF Fair
<1>4. CASE SeriesFails(s)
    BY <1>4, FairKeeps DEF SeriesFails, Unheard, loopVars, watch, gameVars, histories
<1>5. CASE SeriesReaches(s)
    BY <1>5, FairKeeps DEF SeriesReaches, Opens, Unheard, watch
<1> QED BY <1>1, <1>2, <1>3, <1>4, <1>5 DEF Series

LEMMA FairStep == Fair /\ [Next]_vars => Fair'
<1> SUFFICES ASSUME Fair, [Next]_vars PROVE Fair'
    OBVIOUS
<1>0. Answered'
    BY AnsweredStep DEF Fair
<1>1. CASE UNCHANGED vars
    BY <1>0, <1>1, FairKeeps DEF vars, Unheard, loopVars, watch, gameVars, histories
<1>2. CASE \E c \in Characters : GameSeesStale(c)
    BY <1>0, <1>2, FairKeeps DEF GameSeesStale, Unheard, loopVars, watch, histories
<1> QED BY <1>0, <1>1, <1>2, FairYou, FairGame, FairLoop, FairSeries DEF Next

\* A drop is put down to another login only when another link got the
\* character since this one did, as long as two logins of one character
\* are told in the order the game let them in.
THEOREM TakenMeansOvertaken == Spec => []DeclinesTheTaken
<1>1. Fair => DeclinesTheTaken
    BY DEF Fair, Marked, DeclinesTheTaken
<1> QED BY <1>1, FairInit, FairStep, PTL DEF Spec
=============================================================================
