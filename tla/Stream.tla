------------------------------- MODULE Stream -------------------------------
(***************************************************************************)
(* What leaves on a connection, and when: the lines automation sends go    *)
(* through the hold of the writing card and then through the pace, with    *)
(* its burst, its drop of a runaway and its stop of a command sent over    *)
(* and over, while what you type and the steps of a walk pass by           *)
(* (session/socket.rs and session/pace.rs).                                *)
(*                                                                         *)
(* One task owns the stream.  A call that offers several lines, or lets    *)
(* out several, takes them one step each with nothing between the steps,   *)
(* since no other arm of io_loop runs within a call.  The lines of         *)
(* automation carry the number of their offer.                             *)
(***************************************************************************)
EXTENDS Integers, Sequences

CONSTANTS
    Words,      \* commands of two letters or more
    Shorts,     \* commands of one letter
    Burst,      \* BURST, the lines that go at once
    Runaway,    \* RUNAWAY, the lines that may wait
    RepeatStop, \* REPEAT_STOP
    Paces,      \* the paces a profile may set, 0 for none
    Second,     \* the steps of time in a second
    Offers,     \* bound: the lines automation sends
    Typings,    \* bound: the lines you type
    MaxIdle     \* bound: the time the pace goes without a look at it

\* The command !, which repeats the line before it, and no line at all.
Again == "again"
NoText == "none"

ASSUME StreamAssumption ==
    /\ Burst \in Nat \ {0} /\ Runaway \in Nat /\ RepeatStop \in Nat \ {0}
    /\ Paces \subseteq Nat /\ Paces # {}
    /\ Second \in Nat \ {0}
    /\ Offers \in Nat /\ Typings \in Nat /\ MaxIdle \in Nat
    /\ Words \cap Shorts = {} /\ {NoText, Again} \cap (Words \cup Shorts) = {}

Texts == Words \cup Shorts \cup {Again}
Lines == [text : Texts, number : 1 .. Offers]

VARIABLES
    perSec,     \* Pace::per_sec, 0 for none
    tokens,     \* Pace::tokens, where one line takes Second of them
    idle,       \* the time since Pace::refilled
    waiting,    \* Pace::waiting
    last,       \* Pace::last
    repeats,    \* Pace::repeats
    heldBack,   \* Pace::held_back
    holding,    \* Stream::held is Some
    held,       \* the lines in Stream::held
    linesOut,   \* Stream::lines_out
    batch,      \* the lines of Pace::offer that are still to come
    draining,   \* Pace::due is under way
    offered,    \* how many lines automation sent
    typed,      \* how many lines you typed
    out,        \* history: the lines that left
    passed,     \* history: the number of the newest line the pace let go
    gameLast,   \* the game: the line it compares with
    gameRuns,   \* the game: how often it heard that line in a row
    worst,      \* history: the most a repeat that the pace let go made gameRuns
    flow        \* history: the lines the pace let go, less what the pace
                \* allows over time, as a bucket that leaks

paceVars == <<perSec, tokens, idle, waiting, last, repeats, heldBack>>
ghosts == <<out, passed, gameLast, gameRuns, worst, flow>>
vars == <<paceVars, holding, held, linesOut, batch, draining, offered, typed,
          ghosts>>

Full == Burst * Second
Least(a, b) == IF a < b THEN a ELSE b

Init ==
    /\ perSec \in Paces
    /\ tokens = Full /\ idle = 0 /\ waiting = <<>>
    /\ last = NoText /\ repeats = 0 /\ heldBack = FALSE
    /\ holding = FALSE /\ held = <<>> /\ linesOut = 0
    /\ batch = <<>> /\ draining = FALSE
    /\ offered = 0 /\ typed = 0
    /\ out = 0 /\ passed = 0
    /\ gameLast = NoText /\ gameRuns = 0 /\ worst = 0
    /\ flow = 0

\* No call is under way.
Between == batch = <<>> /\ ~draining

-----------------------------------------------------------------------------
(* The count of repeats.                                                   *)

\* repeats_last is Some(true): the line repeats what went before it.
Repeats(text, before) == text = Again \/ (text \in Words /\ text = before)

Fresh(text, before) == text \in Words /\ text # before

Counted(text, before, count) ==
    IF Repeats(text, before) THEN count + 1
    ELSE IF Fresh(text, before) THEN 1 ELSE count

Compared(text, before) == IF text = Again THEN before ELSE text

\* Pace::went
Went(text) ==
    /\ repeats' = Counted(text, last, repeats)
    /\ heldBack' = (heldBack /\ ~Fresh(text, last))
    /\ last' = Compared(text, last)

\* repeat_stops: the repeat that reaches the stop, and each one after it.
RepeatStops(text) ==
    Repeats(text, last) /\ (heldBack \/ repeats + 1 >= RepeatStop)

\* write_raw, and the game that counts as comm.c does.
Reaches(text) ==
    /\ linesOut' = linesOut + 1
    /\ out' = out + 1
    /\ gameRuns' = Counted(text, gameLast, gameRuns)
    /\ gameLast' = Compared(text, gameLast)

\* A line that goes past the pace.
Passes(text) ==
    /\ Went(text)
    /\ Reaches(text)
    /\ UNCHANGED <<passed, worst, flow>>

\* A line of automation that the pace lets go.
LetsGo(line) ==
    /\ Went(line.text)
    /\ Reaches(line.text)
    /\ passed' = line.number
    /\ worst' = IF Repeats(line.text, gameLast) /\ gameRuns' > worst
                THEN gameRuns' ELSE worst
    /\ flow' = IF perSec = 0 THEN flow ELSE flow + Second

\* The stop drops the line.
StopsLine ==
    /\ heldBack' = TRUE
    /\ UNCHANGED <<last, repeats, linesOut, ghosts>>

-----------------------------------------------------------------------------
(* What automation sends.                                                  *)

Refilled_PastFull == IF perSec = 0 THEN tokens ELSE tokens + idle * perSec

\* Pace::refill
Refilled ==
    IF perSec = 0 THEN tokens ELSE Least(Full, tokens + idle * perSec)

Refill ==
    /\ tokens' = Refilled
    /\ idle' = IF perSec = 0 THEN idle ELSE 0

Numbered(texts) ==
    [i \in 1 .. Len(texts) |-> [text |-> texts[i], number |-> offered + i]]

\* write_all: the hold keeps the lines, or the pace takes them.
WriteAll(texts) ==
    /\ Between
    /\ offered + Len(texts) <= Offers
    /\ offered' = offered + Len(texts)
    /\ IF holding
       THEN /\ held' = held \o Numbered(texts)
            /\ linesOut' = linesOut + Len(texts)
            /\ UNCHANGED <<tokens, idle, batch>>
       ELSE /\ Refill
            /\ batch' = Numbered(texts)
            /\ UNCHANGED <<held, linesOut>>
    /\ UNCHANGED <<perSec, waiting, last, repeats, heldBack, holding, draining,
                   typed, ghosts>>

Kept_All(lines) == lines

\* Past the bound every line that waits is dropped, once the call is done.
Kept(lines) ==
    IF Len(batch) = 1 /\ Len(lines) > Runaway THEN <<>> ELSE lines

GoesNow_Jumps == perSec = 0 \/ tokens >= Second
GoesNow == perSec = 0 \/ (waiting = <<>> /\ tokens >= Second)

OfferWaits ==
    /\ batch # <<>>
    /\ ~GoesNow
    /\ waiting' = Kept(Append(waiting, Head(batch)))
    /\ batch' = Tail(batch)
    /\ UNCHANGED <<perSec, tokens, idle, last, repeats, heldBack, holding, held,
                   linesOut, draining, offered, typed, ghosts>>

OfferStopped ==
    /\ batch # <<>>
    /\ GoesNow
    /\ RepeatStops(Head(batch).text)
    /\ StopsLine
    /\ batch' = Tail(batch)
    /\ UNCHANGED <<perSec, tokens, idle, waiting, holding, held, draining,
                   offered, typed>>

OfferGoes ==
    /\ batch # <<>>
    /\ GoesNow
    /\ ~RepeatStops(Head(batch).text)
    /\ LetsGo(Head(batch))
    /\ tokens' = IF perSec = 0 THEN tokens ELSE tokens - Second
    /\ batch' = Tail(batch)
    /\ UNCHANGED <<perSec, idle, waiting, holding, held, draining, offered, typed>>

-----------------------------------------------------------------------------
(* The lines that wait.                                                    *)

SendPaced_Strict ==
    /\ Between
    /\ ~holding
    /\ waiting # <<>>
    /\ perSec = 0 \/ Refilled > Second
    /\ Refill
    /\ draining' = TRUE
    /\ UNCHANGED <<perSec, waiting, last, repeats, heldBack, holding, held,
                   linesOut, batch, offered, typed, ghosts>>

\* pace_due and send_paced: the turn of a line came, and nothing holds it.
SendPaced ==
    /\ Between
    /\ ~holding
    /\ waiting # <<>>
    /\ perSec = 0 \/ Refilled >= Second
    /\ Refill
    /\ draining' = TRUE
    /\ UNCHANGED <<perSec, waiting, last, repeats, heldBack, holding, held,
                   linesOut, batch, offered, typed, ghosts>>

DrainStopped ==
    /\ draining
    /\ waiting # <<>>
    /\ RepeatStops(Head(waiting).text)
    /\ StopsLine
    /\ waiting' = Tail(waiting)
    /\ UNCHANGED <<perSec, tokens, idle, holding, held, batch, draining,
                   offered, typed>>

DrainGoes_Unchecked ==
    /\ draining
    /\ waiting # <<>>
    /\ perSec = 0 \/ tokens >= Second
    /\ LetsGo(Head(waiting))
    /\ tokens' = IF perSec = 0 THEN tokens ELSE tokens - Second
    /\ waiting' = Tail(waiting)
    /\ UNCHANGED <<perSec, idle, holding, held, batch, draining, offered, typed>>

DrainGoes ==
    /\ draining
    /\ waiting # <<>>
    /\ ~RepeatStops(Head(waiting).text)
    /\ perSec = 0 \/ tokens >= Second
    /\ LetsGo(Head(waiting))
    /\ tokens' = IF perSec = 0 THEN tokens ELSE tokens - Second
    /\ waiting' = Tail(waiting)
    /\ UNCHANGED <<perSec, idle, holding, held, batch, draining, offered, typed>>

DrainEnds ==
    /\ draining
    /\ waiting # <<>> =>
        /\ ~RepeatStops(Head(waiting).text)
        /\ perSec # 0 /\ tokens < Second
    /\ draining' = FALSE
    /\ UNCHANGED <<paceVars, holding, held, linesOut, batch, offered, typed, ghosts>>

\* You drop the lines that wait.
DropPaced ==
    /\ Between
    /\ waiting # <<>>
    /\ waiting' = <<>>
    /\ UNCHANGED <<perSec, tokens, idle, last, repeats, heldBack, holding, held,
                   linesOut, batch, draining, offered, typed, ghosts>>

-----------------------------------------------------------------------------
(* What goes past the pace.                                                *)

\* write_now: a line you type, or one of the writing card's own.
WriteNow(text) ==
    /\ Between
    /\ typed < Typings
    /\ typed' = typed + 1
    /\ Passes(text)
    /\ UNCHANGED <<perSec, tokens, idle, waiting, holding, held, batch, draining,
                   offered>>

\* write_step: a step of a walk, which only the hold keeps.
WriteStep(text) ==
    /\ Between
    /\ offered < Offers
    /\ offered' = offered + 1
    /\ IF holding
       THEN /\ held' = held \o Numbered(<<text>>)
            /\ linesOut' = linesOut + 1
            /\ UNCHANGED <<last, repeats, heldBack, ghosts>>
       ELSE Passes(text) /\ UNCHANGED held
    /\ UNCHANGED <<perSec, tokens, idle, waiting, holding, batch, draining, typed>>

-----------------------------------------------------------------------------
(* The hold of the writing card.                                           *)

\* hold: the lines that wait go behind it.  A hold that holds already
\* finds none that wait, and changes nothing.
Hold ==
    /\ Between
    /\ ~holding
    /\ holding' = TRUE
    /\ held' = waiting
    /\ linesOut' = linesOut + Len(waiting)
    /\ waiting' = <<>>
    /\ UNCHANGED <<perSec, tokens, idle, last, repeats, heldBack, batch, draining,
                   offered, typed, ghosts>>

\* release: what the hold kept goes at the pace.
Release_CountsTwice ==
    /\ Between
    /\ holding
    /\ holding' = FALSE
    /\ held' = <<>>
    /\ batch' = held
    /\ IF held = <<>> THEN UNCHANGED <<tokens, idle>> ELSE Refill
    /\ UNCHANGED <<perSec, waiting, last, repeats, heldBack, linesOut, draining,
                   offered, typed, ghosts>>

Release ==
    /\ Between
    /\ holding
    /\ holding' = FALSE
    /\ held' = <<>>
    /\ batch' = held
    /\ linesOut' = linesOut - Len(held)
    /\ IF held = <<>> THEN UNCHANGED <<tokens, idle>> ELSE Refill
    /\ UNCHANGED <<perSec, waiting, last, repeats, heldBack, draining,
                   offered, typed, ghosts>>

-----------------------------------------------------------------------------

\* The poll takes the pace the profile set.  Another pace starts flow anew.
SetPace(pace) ==
    /\ Between
    /\ pace # perSec
    /\ perSec' = pace
    /\ flow' = 0
    /\ UNCHANGED <<tokens, idle, waiting, last, repeats, heldBack, holding, held,
                   linesOut, batch, draining, offered, typed, out, passed,
                   gameLast, gameRuns, worst>>

\* A step of time passes.
Tick ==
    /\ Between
    /\ idle < MaxIdle
    /\ idle' = idle + 1
    /\ flow' = IF flow > perSec THEN flow - perSec ELSE 0
    /\ UNCHANGED <<perSec, tokens, waiting, last, repeats, heldBack, holding, held,
                   linesOut, batch, draining, offered, typed, out, passed,
                   gameLast, gameRuns, worst>>

OneCall == UNION {[1 .. n -> Texts] : n \in 1 .. 2}

InCall == OfferWaits \/ OfferStopped \/ OfferGoes \/ DrainStopped \/ DrainGoes \/ DrainEnds

Next ==
    \/ \E texts \in OneCall : WriteAll(texts)
    \/ \E text \in Texts : WriteNow(text) \/ WriteStep(text)
    \/ InCall
    \/ SendPaced \/ DropPaced
    \/ Hold \/ Release
    \/ \E pace \in Paces : SetPace(pace)
    \/ Tick

\* A call goes on to its end, the timer of pace_due fires, and the writing
\* card's job ends.  Time passes whatever calls are made, and no call keeps it
\* from passing: endless calls do not fit between two ticks.
Spec ==
    /\ Init /\ [][Next]_vars
    /\ WF_vars(InCall) /\ WF_vars(SendPaced) /\ SF_vars(Tick) /\ WF_vars(Release)

-----------------------------------------------------------------------------

(* The type of every variable, with the most tokens and the most lines     *)
(* that wait between two calls.                                            *)
TypeOK ==
    /\ perSec \in Paces /\ tokens \in 0 .. Full /\ idle \in 0 .. MaxIdle
    /\ waiting \in Seq(Lines) /\ (Between => Len(waiting) <= Runaway)
    /\ last \in Texts \cup {NoText} /\ repeats \in Nat /\ heldBack \in BOOLEAN
    /\ holding \in BOOLEAN /\ held \in Seq(Lines) /\ linesOut \in Nat
    /\ batch \in Seq(Lines) /\ draining \in BOOLEAN
    /\ offered \in 0 .. Offers /\ typed \in 0 .. Typings
    /\ out \in Nat /\ passed \in 0 .. Offers
    /\ gameLast \in Texts \cup {NoText} /\ gameRuns \in Nat /\ worst \in Nat
    /\ flow \in Nat

Rises(lines) == \A i, j \in 1 .. Len(lines) : i < j => lines[i].number < lines[j].number

(* The lines of automation leave in the order they were sent, through the  *)
(* wait, a hold that takes them over and a release that hands them back    *)
(* (Stream::release: "in the order it came").                              *)
InOrder ==
    LET queue == waiting \o held \o batch
    IN  /\ Rises(queue)
        /\ queue # <<>> => passed < Head(queue).number

(* lines_out counts each line once, as it leaves or as the hold takes it,  *)
(* though a line may wait, be held, wait again and leave.                  *)
LinesCounted == linesOut = out + Len(held)

(* While the writing card holds, only the lines you type and its own       *)
(* reach the game's editor: nothing of automation waits outside the hold   *)
(* and nothing of it leaves.                                               *)
HoldHolds ==
    [][holding /\ holding' => out' - out = typed' - typed]_vars

(* The pace lets Burst lines go at once and perSec a second after that,    *)
(* in every stretch of time in which the pace stays the same.              *)
PaceKept == flow <= Full

(* Automation never takes the game's own count of a command to the stop,   *)
(* however the lines wait, are held or mix with what you type.             *)
NeverPastStop == worst < RepeatStop

(* No line waits for ever, whether it waits for the pace, for the hold to  *)
(* end or in a release that offers it again.                               *)
Drains == []<>(waiting = <<>> /\ held = <<>> /\ batch = <<>>)
=============================================================================
