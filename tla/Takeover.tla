------------------------------ MODULE Takeover ------------------------------
(***************************************************************************)
(* The sessions on one game, which take each other's character: LinkWatch  *)
(* and the login that tells the other sessions, what a drop decides and    *)
(* the look of each try (session/reconnect.rs, session/gmcp.rs).  What a   *)
(* dial and its abort do inside one session is in Link; here each is one   *)
(* step.  Quits and closing lines concern one session, and are in Link.    *)
(***************************************************************************)
EXTENDS Naturals, Sequences, FiniteSets

CONSTANTS
    Sessions,
    Characters,
    Nobody,       \* no character
    NoSession,
    MaxConnects,  \* bound: the links you open
    MaxPicks      \* bound: the characters you pick at the account menu

ASSUME TakeoverAssumption ==
    /\ Nobody \notin Characters
    /\ NoSession \notin Sessions
    /\ MaxConnects \in Nat
    /\ MaxPicks \in Nat

VARIABLES
    stage,      \* where the loop of each session's link stands
    character,  \* Session::current_character
    playing,    \* LinkWatch of each session, one variable a field: you play
    asked,      \* the game asked whether to take the character
    took,       \* when a Y of yours took one, within TAKE_GRACE or before
    taken,      \* another session logged in as the character
    picked,     \* the character you picked at the account menu
    held,       \* what the watch said that a loop took as it ended
    naming,     \* the sessions that a login under way has yet to tell
    series,     \* the series of each session
    lost,       \* Lost::character of it
    later,      \* the sessions whose last Y came after Lost::at
    place,      \* where the game has each link
    who,        \* the character you picked last on each link
    stale,      \* the characters on a link the game has yet to see go
    wire,       \* what the game sent each link, unread
    claimed,    \* history: every other session was told of this play
    overtaken,  \* history: another link got the character of this one
    closer,     \* history: the session the game closed this link for
    connects,   \* how many links you opened
    picks       \* how many characters you picked

watch == <<playing, asked, took, taken, picked>>
loopVars == <<stage, character, watch, held, naming>>
seriesVars == <<series, lost, later>>
gameVars == <<place, who, stale, wire>>
histories == <<claimed, overtaken, closer>>
bounds == <<connects, picks>>
vars == <<loopVars, seriesVars, gameVars, histories, bounds>>

Logins == {"status", "vitals"}

TypeOK ==
    /\ stage \in [Sessions -> {"off", "up", "ended", "folded", "decided"}]
    /\ character \in [Sessions -> Characters \cup {Nobody}]
    /\ playing \in [Sessions -> BOOLEAN] /\ asked \in [Sessions -> BOOLEAN]
    /\ took \in [Sessions -> {"no", "recent", "old"}]
    /\ taken \in [Sessions -> BOOLEAN]
    /\ picked \in [Sessions -> Characters \cup {Nobody}]
    /\ held \in [Sessions -> {"away", "plays", "taken"}]
    /\ naming \in [Sessions -> SUBSET Sessions]
    /\ series \in [Sessions -> {"none", "wait", "dial"}]
    /\ lost \in [Sessions -> Characters \cup {Nobody}]
    /\ later \in [Sessions -> SUBSET Sessions]
    /\ place \in [Sessions -> {"none", "menu", "picks", "asks", "yes", "in"}]
    /\ who \in [Sessions -> Characters \cup {Nobody}]
    /\ stale \in SUBSET Characters
    /\ wire \in [Sessions -> Seq(Logins \cup {"asks", "left", "closed"})]
    /\ claimed \in [Sessions -> BOOLEAN] /\ overtaken \in [Sessions -> BOOLEAN]
    /\ closer \in [Sessions -> Sessions \cup {NoSession}]
    /\ connects \in Nat /\ picks \in Nat

Init ==
    /\ stage = [s \in Sessions |-> "off"]
    /\ character = [s \in Sessions |-> Nobody]
    /\ playing = [s \in Sessions |-> FALSE] /\ asked = playing /\ taken = playing
    /\ took = [s \in Sessions |-> "no"]
    /\ picked = character
    /\ held = [s \in Sessions |-> "away"]
    /\ naming = [s \in Sessions |-> {}]
    /\ series = [s \in Sessions |-> "none"]
    /\ lost = character
    /\ later = naming
    /\ place = [s \in Sessions |-> "none"]
    /\ who = character /\ stale = {}
    /\ wire = [s \in Sessions |-> <<>>]
    /\ claimed = playing /\ overtaken = playing
    /\ closer = [s \in Sessions |-> NoSession]
    /\ connects = 0 /\ picks = 0

Others(s) == Sessions \ {s}

-----------------------------------------------------------------------------
(* You: a Connect, a Disconnect, and what you type.                        *)

\* A link is open, at the account menu of the game.
Opens(s) ==
    /\ stage' = [stage EXCEPT ![s] = "up"]
    /\ place' = [place EXCEPT ![s] = "menu"]
    /\ series' = [series EXCEPT ![s] = "none"]
    /\ closer' = [closer EXCEPT ![s] = NoSession]

Connect(s) ==
    /\ stage[s] = "off" /\ connects < MaxConnects
    /\ Opens(s)
    /\ character' = [character EXCEPT ![s] = Nobody]
    /\ connects' = connects + 1
    /\ UNCHANGED <<watch, held, naming, lost, later, who, stale, wire, claimed,
                   overtaken, picks>>

\* What the game has of a link that is gone, seen by the game or not.
GameLoses(s, seen) ==
    /\ place' = [place EXCEPT ![s] = "none"]
    /\ stale' = IF place[s] = "in" /\ ~seen THEN stale \cup {who[s]} ELSE stale

\* The link ends with its unread text and with its watch: what another
\* session's Y or login said of it is void.
Folds(s) ==
    /\ playing' = [playing EXCEPT ![s] = FALSE]
    /\ asked' = [asked EXCEPT ![s] = FALSE]
    /\ took' = [took EXCEPT ![s] = "no"]
    /\ taken' = [taken EXCEPT ![s] = FALSE]
    /\ picked' = [picked EXCEPT ![s] = Nobody]
    /\ held' = [held EXCEPT ![s] = CASE ~playing[s] -> "away"
                                     [] playing[s] /\ taken[s] -> "taken"
                                     [] OTHER -> "plays"]
    /\ claimed' = [claimed EXCEPT ![s] = FALSE]
    /\ closer' = [t \in Sessions |-> IF closer[t] = s THEN NoSession ELSE closer[t]]

\* A Disconnect ends the series, or the link with no reason, after which
\* nothing redials.
Disconnect(s) ==
    /\ \/ stage[s] = "up" /\ naming[s] = {}
       \/ stage[s] = "off" /\ series[s] # "none"
    /\ stage' = [stage EXCEPT ![s] = "off"]
    /\ series' = [series EXCEPT ![s] = "none"]
    /\ Folds(s)
    /\ GameLoses(s, TRUE)
    /\ wire' = [wire EXCEPT ![s] = <<>>]
    /\ UNCHANGED <<character, naming, lost, later, who, overtaken, bounds>>

\* You act on what shows, in a loop that waits for you.
Reads(s) == stage[s] = "up" /\ naming[s] = {}
Sees(s) == Reads(s) /\ wire[s] = <<>>

\* You pick a character by its number in the account menu.
Pick(s, c) ==
    /\ Sees(s) /\ place[s] = "menu" /\ ~playing[s]
    /\ picks < MaxPicks
    /\ picked' = [picked EXCEPT ![s] = c]
    /\ asked' = [asked EXCEPT ![s] = FALSE]
    /\ place' = [place EXCEPT ![s] = "picks"]
    /\ who' = [who EXCEPT ![s] = c]
    /\ picks' = picks + 1
    /\ UNCHANGED <<stage, character, playing, took, taken, held, naming,
                   seriesVars, stale, wire, histories, connects>>

AnswerNo(s) ==
    /\ Sees(s) /\ place[s] = "asks"
    /\ asked' = [asked EXCEPT ![s] = FALSE]
    /\ place' = [place EXCEPT ![s] = "menu"]
    /\ UNCHANGED <<stage, character, playing, took, taken, picked, held, naming,
                   seriesVars, who, stale, wire, histories, bounds>>

\* A Y that answers the question takes the character another link plays.
AnswerYes(s) ==
    /\ Sees(s) /\ place[s] = "asks"
    /\ asked' = [asked EXCEPT ![s] = FALSE]
    /\ took' = [took EXCEPT ![s] = IF asked[s] THEN "recent" ELSE @]
    /\ later' = [t \in Sessions |-> IF asked[s] THEN later[t] \cup {s} ELSE later[t]]
    /\ place' = [place EXCEPT ![s] = "yes"]
    /\ UNCHANGED <<stage, character, playing, taken, picked, held, naming,
                   series, lost, who, stale, wire, histories, bounds>>

-----------------------------------------------------------------------------
(* The game, and the network between.                                      *)

Sends(s, text) == wire' = [wire EXCEPT ![s] = Append(@, text)]

Plays(s, c) == place[s] = "in" /\ who[s] = c

\* A login no loop has read, or is telling the others.
Pending(s) ==
    naming[s] # {} \/ \E i \in DOMAIN wire[s] : wire[s][i] \in Logins

\* Bound on time: a loop reads a login and tells it to the other sessions
\* sooner than another login of that character goes through the game.
LoginsApart(s) == \A t \in Others(s) : Pending(t) => who[t] # who[s]

\* The game lets a link in.  It sends Char.Status, or to a character left
\* link dead the vitals alone.
Enters(s) ==
    /\ LoginsApart(s)
    /\ overtaken' = [t \in Sessions |->
                        t # s /\ (overtaken[t] \/ character[t] = who[s])]

GameAsks(s) ==
    /\ place[s] = "picks"
    /\ who[s] \in stale \/ \E t \in Others(s) : Plays(t, who[s])
    /\ place' = [place EXCEPT ![s] = "asks"]
    /\ Sends(s, "asks")
    /\ UNCHANGED <<loopVars, seriesVars, who, stale, histories, bounds>>

GameLetsIn(s) ==
    /\ place[s] = "picks"
    /\ who[s] \notin stale /\ \A t \in Others(s) : ~Plays(t, who[s])
    /\ Enters(s)
    /\ place' = [place EXCEPT ![s] = "in"]
    /\ \E login \in Logins : Sends(s, login)
    /\ UNCHANGED <<loopVars, seriesVars, who, stale, claimed, closer, bounds>>

\* After your Y the game closes the link that plays the character, with
\* no line.
GameGives(s) ==
    /\ place[s] = "yes"
    /\ Enters(s)
    /\ LET from == {t \in Others(s) : Plays(t, who[s])} IN
        /\ place' = [t \in Sessions |->
                        IF t = s THEN "in" ELSE IF t \in from THEN "none" ELSE place[t]]
        /\ closer' = [t \in Sessions |-> IF t \in from THEN s ELSE closer[t]]
        /\ \E login \in Logins :
            wire' = [t \in Sessions |->
                        CASE t = s -> Append(wire[t], login)
                          [] t \in from -> Append(wire[t], "closed")
                          [] OTHER -> wire[t]]
    /\ stale' = stale \ {who[s]}
    /\ UNCHANGED <<loopVars, seriesVars, who, claimed, bounds>>

\* You step away to the account menu, or the game puts you there.
GameLeaves(s) ==
    /\ place[s] = "in"
    /\ place' = [place EXCEPT ![s] = "menu"]
    /\ Sends(s, "left")
    /\ UNCHANGED <<loopVars, seriesVars, who, stale, histories, bounds>>

\* The game sees a link go that the loop has yet to see go.
GameSeesGone(s) ==
    /\ stage[s] = "up" /\ place[s] # "none"
    /\ GameLoses(s, TRUE)
    /\ UNCHANGED <<loopVars, seriesVars, who, wire, histories, bounds>>

GameSeesStale(c) ==
    /\ c \in stale
    /\ stale' = stale \ {c}
    /\ UNCHANGED <<loopVars, seriesVars, place, who, wire, histories, bounds>>

\* The loop sees the link go, with what it has not read.
Breaks(s) ==
    /\ Reads(s)
    /\ \E seen \in BOOLEAN : GameLoses(s, seen)
    /\ stage' = [stage EXCEPT ![s] = "ended"]
    /\ wire' = [wire EXCEPT ![s] = <<>>]
    /\ UNCHANGED <<character, watch, held, naming, seriesVars, who, histories,
                   bounds>>

-----------------------------------------------------------------------------
(* The loop of a link: what it reads.                                      *)

Hears(s, text) ==
    /\ Reads(s) /\ wire[s] # <<>> /\ Head(wire[s]) = text
    /\ wire' = [wire EXCEPT ![s] = Tail(@)]

ReadQuestion(s) ==
    /\ Hears(s, "asks")
    /\ asked' = [asked EXCEPT ![s] = TRUE]
    /\ UNCHANGED <<stage, character, playing, took, taken, picked, held, naming,
                   seriesVars, place, who, stale, histories, bounds>>

\* Mutant: the mark another session left outlives the play it was for.
ReadLeft_KeepsTaken(s) ==
    /\ Hears(s, "left")
    /\ playing' = [playing EXCEPT ![s] = FALSE]
    /\ claimed' = [claimed EXCEPT ![s] = FALSE]
    /\ UNCHANGED <<stage, character, asked, took, taken, picked, held, naming,
                   seriesVars, place, who, stale, overtaken, closer, bounds>>

ReadLeft(s) ==
    /\ Hears(s, "left")
    /\ playing' = [playing EXCEPT ![s] = FALSE]
    /\ taken' = [taken EXCEPT ![s] = FALSE]
    /\ claimed' = [claimed EXCEPT ![s] = FALSE]
    /\ UNCHANGED <<stage, character, asked, took, picked, held, naming,
                   seriesVars, place, who, stale, overtaken, closer, bounds>>

\* Whom a login names: Char.Status the character, the first vitals of
\* play the one you picked at the menu.
Names(s, login) == IF login = "status" THEN who[s] ELSE picked[s]

\* A login as a name this session did not have is told to the others.
ReadLogin(s) ==
    \E login \in Logins :
        /\ Hears(s, login)
        /\ playing' = [playing EXCEPT ![s] = TRUE]
        /\ picked' = [picked EXCEPT ![s] = Nobody]
        /\ LET name == Names(s, login)
               new == name \notin {Nobody, character[s]}
           IN  /\ character' = [character EXCEPT ![s] = IF new THEN name ELSE @]
               /\ taken' = [taken EXCEPT ![s] = @ /\ ~new]
               /\ asked' = [asked EXCEPT ![s] = @ /\ ~new]
               /\ naming' = [naming EXCEPT ![s] = IF new THEN Others(s) ELSE {}]
               /\ claimed' = [claimed EXCEPT ![s] = new /\ Others(s) = {}]
        /\ UNCHANGED <<stage, took, held, seriesVars, place, who, stale,
                       overtaken, closer, bounds>>

\* The session t that plays the character is marked, and the series that
\* redials it ends.
TakeFrom(s, t) ==
    /\ t \in naming[s]
    /\ taken' = [taken EXCEPT ![t] =
                    @ \/ (playing[t] /\ character[t] = character[s])]
    /\ series' = [series EXCEPT ![t] = IF lost[t] = character[s] THEN "none" ELSE @]
    /\ naming' = [naming EXCEPT ![s] = @ \ {t}]
    /\ claimed' = [claimed EXCEPT ![s] = naming[s] = {t}]
    /\ UNCHANGED <<stage, character, playing, asked, took, picked, held, lost,
                   later, gameVars, overtaken, closer, bounds>>

ReadClose(s) ==
    /\ Hears(s, "closed")
    /\ stage' = [stage EXCEPT ![s] = "ended"]
    /\ UNCHANGED <<character, watch, held, naming, seriesVars, place, who,
                   stale, histories, bounds>>

-----------------------------------------------------------------------------
(* The drop, and the series it starts.                                     *)

LoopFolds(s) ==
    /\ stage[s] = "ended"
    /\ stage' = [stage EXCEPT ![s] = "folded"]
    /\ Folds(s)
    /\ UNCHANGED <<character, naming, seriesVars, gameVars, overtaken, bounds>>

TookElsewhere_None(s) == FALSE

\* Another session answered Y in the seconds before.
TookElsewhere(s) == \E t \in Others(s) : took[t] = "recent"

Declines(s) == held[s] \in {"away", "taken"} \/ TookElsewhere(s)

DropDeclines(s) ==
    /\ stage[s] = "folded" /\ Declines(s)
    /\ stage' = [stage EXCEPT ![s] = "off"]
    /\ UNCHANGED <<character, watch, held, naming, seriesVars, gameVars,
                   histories, bounds>>

\* The moment of the drop is read here, and the profile's lock waited for.
DropDecides(s) ==
    /\ stage[s] = "folded" /\ ~Declines(s)
    /\ stage' = [stage EXCEPT ![s] = "decided"]
    /\ later' = [later EXCEPT ![s] = {}]
    /\ UNCHANGED <<character, watch, held, naming, series, lost, gameVars,
                   histories, bounds>>

\* Reconnect may be off in the profile.
SeriesStarts(s) ==
    /\ stage[s] = "decided"
    /\ stage' = [stage EXCEPT ![s] = "off"]
    /\ \/ /\ series' = [series EXCEPT ![s] = "wait"]
          /\ lost' = [lost EXCEPT ![s] = character[s]]
       \/ UNCHANGED <<series, lost>>
    /\ UNCHANGED <<character, watch, held, naming, later, gameVars, histories,
                   bounds>>

\* Mutant: only a Y counts.
TakenSince_ByYes(s) ==
    \E t \in Others(s) : t \in later[s] /\ took[t] # "no"

TakenSince(s) ==
    \E t \in Others(s) :
        \/ t \in later[s] /\ took[t] # "no"
        \/ playing[t] /\ lost[s] # Nobody /\ character[t] = lost[s]

SeriesStops(s) ==
    /\ series[s] = "wait" /\ TakenSince(s)
    /\ series' = [series EXCEPT ![s] = "none"]
    /\ UNCHANGED <<loopVars, lost, later, gameVars, histories, bounds>>

\* A try forgets the character of the session as it dials.
SeriesDials(s) ==
    /\ series[s] = "wait" /\ ~TakenSince(s)
    /\ series' = [series EXCEPT ![s] = "dial"]
    /\ character' = [character EXCEPT ![s] = Nobody]
    /\ UNCHANGED <<stage, watch, held, naming, lost, later, gameVars, histories,
                   bounds>>

\* The next wait, or the end of the last try.
SeriesFails(s) ==
    /\ series[s] = "dial"
    /\ \E next \in {"wait", "none"} : series' = [series EXCEPT ![s] = next]
    /\ UNCHANGED <<loopVars, lost, later, gameVars, histories, bounds>>

SeriesReaches(s) ==
    /\ series[s] = "dial"
    /\ Opens(s)
    /\ UNCHANGED <<character, watch, held, naming, lost, later, who, stale,
                   wire, claimed, overtaken, bounds>>

\* Bound on time: TAKE_GRACE is longer than the game needs to close the
\* link it takes the character from, and its loop to see that.
GraceEnds(s) ==
    /\ took[s] = "recent" /\ place[s] # "yes"
    /\ \A t \in Others(s) : closer[t] = s => stage[t] \in {"off", "decided"}
    /\ took' = [took EXCEPT ![s] = "old"]
    /\ UNCHANGED <<stage, character, playing, asked, taken, picked, held, naming,
                   seriesVars, gameVars, histories, bounds>>

-----------------------------------------------------------------------------

You(s) ==
    \/ Connect(s) \/ Disconnect(s) \/ AnswerNo(s) \/ AnswerYes(s)
    \/ \E c \in Characters : Pick(s, c)

Game(s) ==
    \/ GameAsks(s) \/ GameLetsIn(s) \/ GameGives(s) \/ GameLeaves(s)
    \/ GameSeesGone(s) \/ Breaks(s)

Loop(s) ==
    \/ ReadQuestion(s) \/ ReadLeft(s) \/ ReadLogin(s) \/ ReadClose(s)
    \/ \E t \in Sessions : TakeFrom(s, t)
    \/ LoopFolds(s) \/ DropDeclines(s) \/ DropDecides(s) \/ GraceEnds(s)

Series(s) ==
    \/ SeriesStarts(s) \/ SeriesStops(s) \/ SeriesDials(s) \/ SeriesFails(s)
    \/ SeriesReaches(s)

Next ==
    \/ \E s \in Sessions : You(s) \/ Game(s) \/ Loop(s) \/ Series(s)
    \/ \E c \in Characters : GameSeesStale(c)

Spec == Init /\ [][Next]_vars

-----------------------------------------------------------------------------
(* What the sessions must keep.                                            *)

\* No try opens a link for a character that another session logged in as
\* and told the others of, whether the login came before the drop was
\* decided, while the series waited, or while the try dialed
\* (taken_since and took_character in session/reconnect.rs).
NoTryOfTaken ==
    \A s \in Sessions : \A t \in Others(s) :
        ~ (/\ series[s] = "dial" /\ claimed[t]
           /\ playing[t] /\ character[t] = lost[s])

\* A link the game closed because another session answered Y starts no
\* series while the link of that session lasts, though no login may have
\* named the character yet (took_elsewhere).
TakenStaysDown ==
    [][\A s \in Sessions : series[s] = "none" /\ series'[s] = "wait"
            => closer[s] = NoSession]_vars

\* A drop is put down to another session's login only when another link
\* got the character since this one did: a mark of an earlier play is no
\* reason (taken of LinkWatch).
DeclinesTheTaken ==
    \A s \in Sessions : stage[s] = "folded" /\ held[s] = "taken" => overtaken[s]
=============================================================================
