-------------------------------- MODULE Link --------------------------------
(***************************************************************************)
(* The life of the link of one session: the slot that holds the handle of  *)
(* the task that runs a connection, the commands Connect, Disconnect,      *)
(* Close and Cancel, the series of redials a drop starts, and the loop of  *)
(* each connection from its start to its teardown.                         *)
(*                                                                         *)
(* Every step below runs from one await of the code to the next.  An abort *)
(* of a series lands at any await of it: a task that was running as the    *)
(* abort came goes on through the awaits that are ready, so a marked       *)
(* series either takes its next step or dies, except at a timer and at the *)
(* socket, which are never ready at once.                                  *)
(*                                                                         *)
(* A definition named D_Something is D with a mistake in it, kept beside D *)
(* to see that a property notices the mistake.                             *)
(***************************************************************************)
EXTENDS Naturals, FiniteSets

CONSTANTS
    Commands,   \* the IPC calls that may be in flight at once
    NoTask,     \* no task holds the lock of the slot
    MaxLinks,   \* bound: the connections that ever reach the game
    MaxOps,     \* bound: the commands that ever start
    Tries,      \* the tries of a series, 8 in the code
    Ops         \* the commands a run starts, a subset of AllOps

AllOps == {"connect", "disconnect", "close", "cancel", "take"}

Links == 1 .. MaxLinks
NoLink == 0

\* A task that may dial: a command, or the series the drop of a link began.
Tasks == Commands \cup Links

ASSUME LinkAssumption ==
    /\ MaxLinks \in Nat
    /\ MaxOps \in Nat
    /\ Tries \in Nat \ {0}
    /\ Ops \subseteq AllOps
    /\ Commands \cap (Links \cup {NoLink}) = {}
    /\ NoTask \notin Tasks

VARIABLES
    slot,       \* Session::slot: the link whose handle it holds, or NoLink
    owner,      \* the task that holds the slot's lock across an await
    redial,     \* Session::redial: the series it holds, or NoLink
    open,       \* the session map still holds the session
    on,         \* the profile has Reconnect when the link drops on
    target,     \* Session::current_connection names a target
    since,      \* Session::since has a time
    inSession,  \* TickRuntime::in_session, which Session::connected reads
    awaiting,   \* Session::awaiting_game_prompt
    page,       \* the last session://state the page heard
    watch,      \* Connection::link, what the loops follow for the redial
    phase,      \* where the loop of each link stands
    told,       \* the handle of each link dropped its outgoing channel
    dropped,    \* the loop of each link ended with a reason
    held,       \* the watch each loop took as it ended
    opener,     \* the task that dialed each link
    made,       \* how many links reached the game
    pc,         \* where each task stands
    op,         \* the command each command task runs
    hand,       \* the link whose handle each task holds or waits on
    prev,       \* the link a task replaces in the slot
    victim,     \* the series a command ends
    cut,        \* the command cut a series short
    live,       \* the link a disconnect took was not finished
    marked,     \* each series was aborted
    tries,      \* the tries each series made
    ops,        \* how many commands started
    wanted      \* history: a Connect came since the last Disconnect ended

sessionVars == <<slot, owner, redial, open, on, target, since, inSession,
                 awaiting, page, watch>>
linkVars == <<phase, told, dropped, held, opener, made>>
taskVars == <<pc, op, hand, prev, victim, cut, live, marked, tries, ops, wanted>>
vars == <<sessionVars, linkVars, taskVars>>

NoWatch == [playing |-> FALSE, expected |-> FALSE]

\* The places of a task.  A command is idle or in a call; a series is
\* unborn, runs, or is over, returned or aborted.
DialPlaces == {"dial", "dialWait", "clear", "socket", "spawn", "put",
               "putClosed", "putWait", "tell"}
SeriesPlaces == DialPlaces \cup {"wait"}
Over == {"returned", "aborted"}
CancelPlaces == {"cancel", "ending", "cancel2", "ending2"}
CommandPlaces == DialPlaces \cup CancelPlaces
                 \cup {"drop", "dropWait", "take", "takeWait", "finish"}

Places == {"idle", "unborn"} \cup CommandPlaces \cup SeriesPlaces \cup Over

\* The places where a task holds the slot's lock across an await.
Holding == {"takeWait", "putClosed", "putWait"}

Active(s) == pc[s] \in SeriesPlaces

Init ==
    /\ slot = NoLink /\ owner = NoTask /\ redial = NoLink
    /\ open = TRUE /\ on \in BOOLEAN /\ target = FALSE /\ since = FALSE
    /\ inSession = FALSE /\ awaiting = FALSE /\ page = "idle"
    /\ watch = NoWatch
    /\ phase = [l \in Links |-> "none"]
    /\ told = [l \in Links |-> FALSE]
    /\ dropped = [l \in Links |-> FALSE]
    /\ held = [l \in Links |-> NoWatch]
    /\ opener = [l \in Links |-> NoTask]
    /\ made = 0
    /\ pc = [t \in Tasks |-> IF t \in Commands THEN "idle" ELSE "unborn"]
    /\ op = [c \in Commands |-> "cancel"]
    /\ hand = [t \in Tasks |-> NoLink]
    /\ prev = [t \in Tasks |-> NoLink]
    /\ victim = [c \in Commands |-> NoLink]
    /\ cut = [c \in Commands |-> FALSE]
    /\ live = [c \in Commands |-> FALSE]
    /\ marked = [s \in Links |-> FALSE]
    /\ tries = [s \in Links |-> 0]
    /\ ops = 0
    /\ wanted = FALSE

-----------------------------------------------------------------------------
(* Taking a handle and shutting its link down.                             *)

Go(t, place) == pc' = [pc EXCEPT ![t] = place]

\* SessionHandle::shutdown drops the outgoing channel of the link.
Shut(l) == told' = IF l = NoLink THEN told ELSE [told EXCEPT ![l] = TRUE]

\* A task takes the handle out of the slot under a brief lock, and lets
\* the lock go before it waits for the loop.
TakeSlot(t, from, wait, next) ==
    /\ pc[t] = from
    /\ owner = NoTask
    /\ Shut(slot)
    /\ hand' = [hand EXCEPT ![t] = slot]
    /\ slot' = NoLink
    /\ Go(t, IF slot = NoLink THEN next ELSE wait)

\* The loop it shut down has returned.
LoopOver(t, from, next) ==
    /\ pc[t] = from
    /\ phase[hand[t]] = "done"
    /\ hand' = [hand EXCEPT ![t] = NoLink]
    /\ Go(t, next)

-----------------------------------------------------------------------------
(* The commands of the page, and another session's login as the character  *)
(* a series redials, which ends the series as a Cancel does.               *)

FirstPlace_NoCancel(o) == IF o = "connect" THEN "dial" ELSE "cancel"
FirstPlace_CancelFirst(o) == "cancel"

FirstPlace(o) == IF o = "connect" THEN "drop" ELSE "cancel"

Start(c, o) ==
    /\ pc[c] = "idle"
    /\ ops < MaxOps
    /\ o = "take" \/ open
    /\ ops' = ops + 1
    /\ op' = [op EXCEPT ![c] = o]
    /\ cut' = [cut EXCEPT ![c] = FALSE]
    /\ live' = [live EXCEPT ![c] = FALSE]
    /\ open' = (open /\ o # "close")
    /\ wanted' = (wanted \/ o = "connect")
    /\ Go(c, FirstPlace(o))
    /\ UNCHANGED <<slot, owner, redial, on, target, since, inSession,
                   awaiting, page, watch, linkVars, hand, prev, victim,
                   marked, tries>>

\* A Connect ends the link that runs before it ends a series, so the drop
\* of that link cannot start a series after.
ConnectDrop(c) ==
    /\ TakeSlot(c, "drop", "dropWait", "cancel")
    /\ UNCHANGED <<owner, redial, open, on, target, since, inSession, awaiting,
                   page, watch, phase, dropped, held, opener, made, op, prev,
                   victim, cut, live, marked, tries, ops, wanted>>

ConnectDropped(c) ==
    /\ LoopOver(c, "dropWait", "cancel")
    /\ UNCHANGED <<sessionVars, linkVars, op, prev, victim, cut, live, marked,
                   tries, ops, wanted>>

\* Where a command goes once its cancel is done.
AfterCancel(c) ==
    CASE op[c] = "connect" -> "dial"
      [] op[c] \in {"disconnect", "close"} ->
            IF pc[c] \in {"cancel", "ending"} THEN "take" ELSE "finish"
      [] OTHER -> "idle"

Ends_Once(c) == redial # NoLink /\ pc[c] = "cancel"

\* Whether the series the session keeps is one the command ends.  Another
\* session's login leaves a series that ended by itself.
Ends(c) == redial # NoLink /\ (op[c] = "take" => Active(redial))

CancelNone(c) ==
    /\ pc[c] \in {"cancel", "cancel2"}
    /\ ~Ends(c)
    /\ awaiting' = (awaiting /\ op[c] = "take")
    /\ Go(c, AfterCancel(c))
    /\ UNCHANGED <<slot, owner, redial, open, on, target, since, inSession,
                   page, watch, linkVars, op, hand, prev, victim, cut, live,
                   marked, tries, ops, wanted>>

\* Redial::end aborts the series, and waits for it.
CancelSeries(c) ==
    /\ pc[c] \in {"cancel", "cancel2"}
    /\ Ends(c)
    /\ victim' = [victim EXCEPT ![c] = redial]
    /\ marked' = [marked EXCEPT ![redial] = TRUE]
    /\ redial' = NoLink
    /\ Go(c, IF pc[c] = "cancel" THEN "ending" ELSE "ending2")
    /\ UNCHANGED <<slot, owner, open, on, target, since, inSession, awaiting,
                   page, watch, linkVars, op, hand, prev, cut, live, tries,
                   ops, wanted>>

SeriesEnded_KeepsRing(c) ==
    /\ pc[c] \in {"ending", "ending2"}
    /\ pc[victim[c]] \in Over
    /\ cut' = [cut EXCEPT ![c] = @ \/ pc[victim[c]] = "aborted"]
    /\ victim' = [victim EXCEPT ![c] = NoLink]
    /\ Go(c, AfterCancel(c))
    /\ UNCHANGED <<sessionVars, linkVars, op, hand, prev, live, marked, tries,
                   ops, wanted>>

SeriesEnded(c) ==
    /\ pc[c] \in {"ending", "ending2"}
    /\ pc[victim[c]] \in Over
    /\ cut' = [cut EXCEPT ![c] = @ \/ pc[victim[c]] = "aborted"]
    /\ awaiting' = (awaiting /\ op[c] = "take" /\ pc[victim[c]] = "returned")
    /\ victim' = [victim EXCEPT ![c] = NoLink]
    /\ Go(c, AfterCancel(c))
    /\ UNCHANGED <<slot, owner, redial, open, on, target, since, inSession,
                   page, watch, linkVars, op, hand, prev, live, marked, tries,
                   ops, wanted>>

\* A Disconnect holds the slot's lock while the loop it took ends.
DisconnectTake(c) ==
    /\ TakeSlot(c, "take", "takeWait", "cancel2")
    /\ live' = [live EXCEPT ![c] = slot # NoLink /\ phase[slot] # "done"]
    /\ owner' = IF slot = NoLink THEN owner ELSE c
    /\ UNCHANGED <<redial, open, on, target, since, inSession, awaiting, page,
                   watch, phase, dropped, held, opener, made, op, prev,
                   victim, cut, marked, tries, ops, wanted>>

DisconnectTaken(c) ==
    /\ LoopOver(c, "takeWait", "cancel2")
    /\ owner' = NoTask
    /\ UNCHANGED <<slot, redial, open, on, target, since, inSession, awaiting,
                   page, watch, linkVars, op, prev, victim, cut, live, marked,
                   tries, ops, wanted>>

DisconnectFinish(c) ==
    /\ pc[c] = "finish"
    /\ page' = IF cut[c] /\ ~live[c] THEN "idle" ELSE page
    /\ target' = FALSE
    /\ wanted' = FALSE
    /\ Go(c, "idle")
    /\ UNCHANGED <<slot, owner, redial, open, on, since, inSession, awaiting,
                   watch, linkVars, op, hand, prev, victim, cut, live, marked,
                   tries, ops>>

-----------------------------------------------------------------------------
(* Dialing, which a Connect and each try of a series run alike.            *)

DialTake(t) ==
    /\ TakeSlot(t, "dial", "dialWait", "clear")
    /\ UNCHANGED <<owner, redial, open, on, target, since, inSession, awaiting,
                   page, watch, phase, dropped, held, opener, made, op, prev,
                   victim, cut, live, marked, tries, ops, wanted>>

DialTaken(t) ==
    /\ LoopOver(t, "dialWait", "clear")
    /\ UNCHANGED <<sessionVars, linkVars, op, prev, victim, cut, live, marked,
                   tries, ops, wanted>>

DialClear(t) ==
    /\ pc[t] = "clear"
    /\ target' = TRUE
    /\ page' = "connecting"
    /\ Go(t, "socket")
    /\ UNCHANGED <<slot, owner, redial, open, on, since, inSession, awaiting,
                   watch, linkVars, op, hand, prev, victim, cut, live, marked,
                   tries, ops, wanted>>

\* A task that was aborted never outlasts the wait for the socket.
Marked(t) == t \in Links /\ marked[t]

\* A dial that ends in an error: a Connect returns it, a series drops the
\* ring it awaits and waits for its next try, or stops after the last one.
DialFails(t) ==
    IF t \in Commands
    THEN Go(t, "idle") /\ UNCHANGED <<awaiting, tries>>
    ELSE /\ awaiting' = FALSE
         /\ tries' = [tries EXCEPT ![t] = @ + 1]
         /\ Go(t, IF tries[t] + 1 = Tries THEN "returned" ELSE "wait")

SocketFails(t) ==
    /\ pc[t] = "socket"
    /\ ~Marked(t)
    /\ page' = "idle"
    /\ target' = FALSE
    /\ DialFails(t)
    /\ UNCHANGED <<slot, owner, redial, open, on, since, inSession, watch,
                   linkVars, op, hand, prev, victim, cut, live, marked, ops,
                   wanted>>

\* Bound on time: a connection takes a round trip to the game, which is
\* longer than a loop that was told to end needs to end.
ToldLoopsOver == \A l \in Links : told[l] => phase[l] \in {"none", "done"}

SocketOpens(t) ==
    /\ pc[t] = "socket"
    /\ ~Marked(t)
    /\ ToldLoopsOver
    /\ made < MaxLinks
    /\ made' = made + 1
    /\ hand' = [hand EXCEPT ![t] = made + 1]
    /\ since' = TRUE
    /\ page' = "connected"
    /\ Go(t, "spawn")
    /\ UNCHANGED <<slot, owner, redial, open, on, target, inSession, awaiting,
                   watch, phase, told, dropped, held, opener, op, prev,
                   victim, cut, live, marked, tries, ops, wanted>>

\* The log of the connection is open, and its loop starts.
SpawnLoop(t) ==
    /\ pc[t] = "spawn"
    /\ phase' = [phase EXCEPT ![hand[t]] = "start"]
    /\ opener' = [opener EXCEPT ![hand[t]] = t]
    /\ Go(t, "put")
    /\ UNCHANGED <<sessionVars, told, dropped, held, made, op, hand, prev,
                   victim, cut, live, marked, tries, ops, wanted>>

\* The session closed while the dial ran, so the connection ends here.
PutClosed(t) ==
    /\ pc[t] = "put"
    /\ owner = NoTask
    /\ ~open
    /\ owner' = t
    /\ Shut(hand[t])
    /\ Go(t, "putClosed")
    /\ UNCHANGED <<slot, redial, open, on, target, since, inSession, awaiting,
                   page, watch, phase, dropped, held, opener, made, op, hand,
                   prev, victim, cut, live, marked, tries, ops, wanted>>

PutClosedEnds(t) ==
    /\ pc[t] = "putClosed"
    /\ phase[hand[t]] = "done"
    /\ owner' = NoTask
    /\ hand' = [hand EXCEPT ![t] = NoLink]
    /\ DialFails(t)
    /\ UNCHANGED <<slot, redial, open, on, target, since, inSession, page,
                   watch, linkVars, op, prev, victim, cut, live, marked, ops,
                   wanted>>

PutFree_Overwrites(t) ==
    /\ pc[t] = "put"
    /\ owner = NoTask
    /\ open
    /\ slot' = hand[t]
    /\ hand' = [hand EXCEPT ![t] = NoLink]
    /\ Go(t, "tell")
    /\ UNCHANGED <<owner, redial, open, on, target, since, inSession, awaiting,
                   page, watch, linkVars, op, prev, victim, cut, live, marked,
                   tries, ops, wanted>>

PutFree_NoCloseCheck(t) ==
    /\ pc[t] = "put"
    /\ owner = NoTask
    /\ slot = NoLink
    /\ slot' = hand[t]
    /\ hand' = [hand EXCEPT ![t] = NoLink]
    /\ Go(t, "tell")
    /\ UNCHANGED <<owner, redial, open, on, target, since, inSession, awaiting,
                   page, watch, linkVars, op, prev, victim, cut, live, marked,
                   tries, ops, wanted>>

PutFree(t) ==
    /\ pc[t] = "put"
    /\ owner = NoTask
    /\ open
    /\ slot = NoLink
    /\ slot' = hand[t]
    /\ hand' = [hand EXCEPT ![t] = NoLink]
    /\ Go(t, "tell")
    /\ UNCHANGED <<owner, redial, open, on, target, since, inSession, awaiting,
                   page, watch, linkVars, op, prev, victim, cut, live, marked,
                   tries, ops, wanted>>

\* A concurrent connect came first: its link ends while the lock is held.
PutOver(t) ==
    /\ pc[t] = "put"
    /\ owner = NoTask
    /\ open
    /\ slot # NoLink
    /\ owner' = t
    /\ prev' = [prev EXCEPT ![t] = slot]
    /\ slot' = NoLink
    /\ Shut(slot)
    /\ Go(t, "putWait")
    /\ UNCHANGED <<redial, open, on, target, since, inSession, awaiting, page,
                   watch, phase, dropped, held, opener, made, op, hand,
                   victim, cut, live, marked, tries, ops, wanted>>

PutWaited(t) ==
    /\ pc[t] = "putWait"
    /\ phase[prev[t]] = "done"
    /\ owner' = NoTask
    /\ slot' = hand[t]
    /\ hand' = [hand EXCEPT ![t] = NoLink]
    /\ prev' = [prev EXCEPT ![t] = NoLink]
    /\ Go(t, "tell")
    /\ UNCHANGED <<redial, open, on, target, since, inSession, awaiting, page,
                   watch, linkVars, op, victim, cut, live, marked, tries, ops,
                   wanted>>

\* The identity went out to the windows, and the dial returns.
DialReturns(t) ==
    /\ pc[t] = "tell"
    /\ Go(t, IF t \in Commands THEN "idle" ELSE "returned")
    /\ UNCHANGED <<sessionVars, linkVars, op, hand, prev, victim, cut, live,
                   marked, tries, ops, wanted>>

-----------------------------------------------------------------------------
(* A series: the wait before each try, the look for another session that   *)
(* took the character, and its death by an abort.                          *)

\* Bound on time: the shortest wait is 3 seconds, and a command takes less
\* than that for all it does but the wait for the socket.  Reconnect now
\* ends a wait early, and is a click on what the wait put on the page.
Outwaits == \A c \in Commands : pc[c] \in {"idle", "socket"}

SeriesDials(s) ==
    /\ pc[s] = "wait"
    /\ ~marked[s]
    /\ Outwaits
    /\ awaiting' = TRUE
    /\ Go(s, "dial")
    /\ UNCHANGED <<slot, owner, redial, open, on, target, since, inSession,
                   page, watch, linkVars, op, hand, prev, victim, cut, live,
                   marked, tries, ops, wanted>>

SeriesTaken(s) ==
    /\ pc[s] = "wait"
    /\ ~marked[s]
    /\ awaiting' = FALSE
    /\ Go(s, "returned")
    /\ UNCHANGED <<slot, owner, redial, open, on, target, since, inSession,
                   page, watch, linkVars, op, hand, prev, victim, cut, live,
                   marked, tries, ops, wanted>>

\* The abort lands: what the future held drops, a handle and the lock.
SeriesDies(s) ==
    /\ marked[s]
    /\ Active(s)
    /\ Shut(IF pc[s] \in {"put", "putClosed", "putWait", "dialWait"}
            THEN hand[s] ELSE NoLink)
    /\ owner' = IF owner = s THEN NoTask ELSE owner
    /\ hand' = [hand EXCEPT ![s] = NoLink]
    /\ prev' = [prev EXCEPT ![s] = NoLink]
    /\ Go(s, "aborted")
    /\ UNCHANGED <<slot, redial, open, on, target, since, inSession, awaiting,
                   page, watch, phase, dropped, held, opener, made, op,
                   victim, cut, live, marked, tries, ops, wanted>>

-----------------------------------------------------------------------------
(* The loop of a link.                                                     *)

LoopStarts(l) ==
    /\ phase[l] = "start"
    /\ phase' = [phase EXCEPT ![l] = "run"]
    /\ inSession' = TRUE
    /\ watch' = NoWatch
    /\ UNCHANGED <<slot, owner, redial, open, on, target, since, awaiting,
                   page, told, dropped, held, opener, made, taskVars>>

\* The first text of a link a redial opened rings once.
LoopText(l) ==
    /\ phase[l] = "run"
    /\ awaiting
    /\ awaiting' = FALSE
    /\ UNCHANGED <<slot, owner, redial, open, on, target, since, inSession,
                   page, watch, linkVars, taskVars>>

\* Bound on time: a login answers prompts of the game, which takes longer
\* than a dial needs to hand over the link it spawned, and longer than a
\* command needs for its own steps.
LoginTakesTime(l) ==
    /\ pc[opener[l]] \notin {"put", "putClosed", "putWait", "tell"}
    /\ Outwaits

\* You log in, step away, quit, or read a closing line.  The loop looks at
\* its channel first, so one told to end reads no more.
LoopFollows(l) ==
    /\ phase[l] = "run"
    /\ ~told[l]
    /\ watch' \in [playing: BOOLEAN, expected: BOOLEAN]
    /\ watch'.playing => watch.playing \/ LoginTakesTime(l)
    /\ watch' # watch
    /\ UNCHANGED <<slot, owner, redial, open, on, target, since, inSession,
                   awaiting, page, linkVars, taskVars>>

\* The channel of its handle closed, which ends the loop with no reason.
LoopHearsEnd(l) ==
    /\ phase[l] = "run"
    /\ told[l]
    /\ phase' = [phase EXCEPT ![l] = "tail"]
    /\ UNCHANGED <<sessionVars, told, dropped, held, opener, made, taskVars>>

\* The game closed the link, a read failed or a write did.
LoopDrops(l) ==
    /\ phase[l] = "run"
    /\ phase' = [phase EXCEPT ![l] = "tail"]
    /\ dropped' = [dropped EXCEPT ![l] = TRUE]
    /\ UNCHANGED <<sessionVars, told, held, opener, made, taskVars>>

LoopEndsSession_KeepsMark(l) ==
    /\ phase[l] = "tail"
    /\ phase' = [phase EXCEPT ![l] = "fold"]
    /\ since' = FALSE
    /\ UNCHANGED <<slot, owner, redial, open, on, target, inSession, awaiting,
                   page, watch, told, dropped, held, opener, made, taskVars>>

LoopEndsSession_TakesSlot(l) ==
    /\ phase[l] = "tail"
    /\ owner = NoTask
    /\ phase' = [phase EXCEPT ![l] = "fold"]
    /\ inSession' = FALSE
    /\ since' = FALSE
    /\ UNCHANGED <<slot, owner, redial, open, on, target, awaiting, page,
                   watch, told, dropped, held, opener, made, taskVars>>

LoopEndsSession(l) ==
    /\ phase[l] = "tail"
    /\ phase' = [phase EXCEPT ![l] = "fold"]
    /\ inSession' = FALSE
    /\ since' = FALSE
    /\ UNCHANGED <<slot, owner, redial, open, on, target, awaiting, page,
                   watch, told, dropped, held, opener, made, taskVars>>

LoopTellsEnd(l) ==
    /\ phase[l] = "fold"
    /\ phase' = [phase EXCEPT ![l] = "after"]
    /\ held' = [held EXCEPT ![l] = watch]
    /\ watch' = NoWatch
    /\ page' = "idle"
    /\ UNCHANGED <<slot, owner, redial, open, on, target, since, inSession,
                   awaiting, told, dropped, opener, made, taskVars>>

\* Whether the drop of the link may start a series.  It may decline all
\* the same: another session may have answered Y, which the code reads
\* from that session, or no address was ever dialed.
Redials(l) == dropped[l] /\ held[l].playing /\ ~held[l].expected /\ on

AfterDropDeclines(l) ==
    /\ phase[l] = "after"
    /\ phase' = [phase EXCEPT ![l] = "done"]
    /\ UNCHANGED <<sessionVars, told, dropped, held, opener, made, taskVars>>

AfterDropRedials(l) ==
    /\ phase[l] = "after"
    /\ Redials(l)
    /\ phase' = [phase EXCEPT ![l] = "done"]
    /\ redial' = l
    /\ Go(l, "wait")
    /\ UNCHANGED <<slot, owner, open, on, target, since, inSession, awaiting,
                   page, watch, told, dropped, held, opener, made, op, hand,
                   prev, victim, cut, live, marked, tries, ops, wanted>>

-----------------------------------------------------------------------------
(* The switch in Settings, and a line sent to a link that has ended.       *)

ReconnectSet ==
    /\ on' = ~on
    /\ UNCHANGED <<slot, owner, redial, open, target, since, inSession,
                   awaiting, page, watch, linkVars, taskVars>>

\* The line finds the loop gone, and the handle leaves the slot.
SendFindsDead ==
    /\ slot # NoLink
    /\ owner = NoTask
    /\ phase[slot] = "done"
    /\ slot' = NoLink
    /\ UNCHANGED <<owner, redial, open, on, target, since, inSession, awaiting,
                   page, watch, linkVars, taskVars>>

-----------------------------------------------------------------------------

CommandStep(c) ==
    \/ ConnectDrop(c) \/ ConnectDropped(c)
    \/ CancelNone(c) \/ CancelSeries(c) \/ SeriesEnded(c)
    \/ DisconnectTake(c) \/ DisconnectTaken(c) \/ DisconnectFinish(c)

DialStep(t) ==
    \/ DialTake(t) \/ DialTaken(t) \/ DialClear(t)
    \/ SocketFails(t) \/ SocketOpens(t) \/ SpawnLoop(t)
    \/ PutClosed(t) \/ PutClosedEnds(t) \/ PutFree(t)
    \/ PutOver(t) \/ PutWaited(t) \/ DialReturns(t)

SeriesStep(s) == SeriesDials(s) \/ SeriesTaken(s) \/ SeriesDies(s)

\* The steps of a loop that need neither the game nor you.
LoopStep(l) ==
    \/ LoopStarts(l) \/ LoopHearsEnd(l) \/ LoopEndsSession(l)
    \/ LoopTellsEnd(l) \/ AfterDropDeclines(l) \/ AfterDropRedials(l)

Outside ==
    \/ \E c \in Commands, o \in Ops : Start(c, o)
    \/ \E l \in Links : LoopText(l) \/ LoopFollows(l) \/ LoopDrops(l)
    \/ ReconnectSet
    \/ SendFindsDead

Next ==
    \/ \E c \in Commands : CommandStep(c)
    \/ \E t \in Tasks : DialStep(t)
    \/ \E s \in Links : SeriesStep(s)
    \/ \E l \in Links : LoopStep(l)
    \/ Outside

\* Tokio polls every task that is ready, the timers fire, and the socket
\* answers within its ten seconds.
Fairness ==
    /\ \A c \in Commands : WF_vars(CommandStep(c))
    /\ \A t \in Tasks : WF_vars(DialStep(t))
    /\ \A s \in Links : WF_vars(SeriesStep(s))
    /\ \A l \in Links : WF_vars(LoopStep(l))

Spec == Init /\ [][Next]_vars
FairSpec == Spec /\ Fairness

-----------------------------------------------------------------------------
(* What the link must keep.                                                *)

Phases == {"none", "start", "run", "tail", "fold", "after", "done"}
Watches == [playing: BOOLEAN, expected: BOOLEAN]

SessionTypeOK ==
    /\ slot \in Links \cup {NoLink}
    /\ owner \in Tasks \cup {NoTask}
    /\ redial \in Links \cup {NoLink}
    /\ open \in BOOLEAN /\ on \in BOOLEAN
    /\ target \in BOOLEAN /\ since \in BOOLEAN
    /\ inSession \in BOOLEAN /\ awaiting \in BOOLEAN
    /\ page \in {"idle", "connecting", "connected"}
    /\ watch \in Watches

LinkTypeOK ==
    /\ phase \in [Links -> Phases]
    /\ told \in [Links -> BOOLEAN]
    /\ dropped \in [Links -> BOOLEAN]
    /\ held \in [Links -> Watches]
    /\ opener \in [Links -> Tasks \cup {NoTask}]
    /\ made \in 0 .. MaxLinks

TaskTypeOK ==
    /\ pc \in [Tasks -> Places]
    /\ op \in [Commands -> AllOps]
    /\ hand \in [Tasks -> Links \cup {NoLink}]
    /\ prev \in [Tasks -> Links \cup {NoLink}]
    /\ victim \in [Commands -> Links \cup {NoLink}]
    /\ cut \in [Commands -> BOOLEAN]
    /\ live \in [Commands -> BOOLEAN]
    /\ marked \in [Links -> BOOLEAN]
    /\ tries \in [Links -> Nat]
    /\ ops \in 0 .. MaxOps
    /\ wanted \in BOOLEAN

\* A series that goes on has a try left.
TriesOK == \A s \in Links : tries[s] <= Tries /\ (Active(s) => tries[s] < Tries)

(* The type of every variable of the session, its links and its tasks      *)
(* (Session in sessions.rs, Redial in reconnect.rs), and that a series     *)
(* never goes on past its last try (run_series).                           *)
TypeOK == SessionTypeOK /\ LinkTypeOK /\ TaskTypeOK /\ TriesOK

Running(l) == phase[l] \in {"start", "run", "tail", "fold", "after"}
Busy(c) == pc[c] # "idle"

(* Nothing is under way but a link that runs: no command, no series and no *)
(* loop that starts or ends.                                               *)
Settled ==
    /\ \A c \in Commands : ~Busy(c)
    /\ \A s \in Links : ~Active(s)
    /\ \A l \in Links : Running(l) => phase[l] = "run" /\ ~told[l]

(* A link nobody told to end has its handle in the slot or in the task     *)
(* that dialed it, so a Disconnect can always reach it: an abort of a try, *)
(* a raced connect and a close never leave one running on with nothing to  *)
(* reach it (session.rs, the comment at the close check of dial).          *)
NoStrayLink ==
    \A l \in Links : Running(l) /\ ~told[l] =>
        slot = l \/ \E t \in Tasks : hand[t] = l

(* The session keeps every series that runs and was not aborted, so a      *)
(* Cancel, a Connect, a Disconnect or a close finds it to end it.          *)
NoOrphanSeries == \A s \in Links : Active(s) /\ ~marked[s] => redial = s

(* After a Disconnect ends the session stays down until you connect:       *)
(* reconnect.rs says Vosh never dials after your Disconnect, and           *)
(* disconnect in session.rs orders its steps for it.                       *)
StaysDown ==
    (\A c \in Commands : ~Busy(c)) /\ ~wanted =>
        /\ slot = NoLink /\ redial = NoLink
        /\ \A s \in Links : ~Active(s)
        /\ \A l \in Links : Running(l) => told[l]

(* A session out of the map keeps no link once its commands are done, even *)
(* when the close ran beside a dial (the close check of dial).             *)
ClosedIsDown ==
    ~open /\ Settled => slot = NoLink /\ \A l \in Links : ~Running(l)

(* Session::connected tells whether the session's connection runs.         *)
InSessionAgrees == Settled => (inSession <=> \E l \in Links : Running(l))

(* One socket at a time: no two tasks dial at once, and none dials beside  *)
(* a link that runs (the header of reconnect.rs).                          *)
OneSocket ==
    /\ \A t, u \in Tasks :
        pc[t] \in {"socket", "spawn", "put"} /\ pc[u] \in {"socket", "spawn", "put"}
        => t = u \/ Marked(t) \/ Marked(u)
    /\ \A t \in Tasks : pc[t] \in {"socket", "spawn", "put"} =>
        slot = NoLink

(* Only the first text of a link a redial opened rings, never one you      *)
(* dialed (AwaitingPrompt in reconnect.rs).                                *)
RingsForRedial ==
    [][\A l \in Links : LoopText(l) => opener[l] \in Links]_vars

(* Every command returns: the lock a Disconnect holds while a loop ends    *)
(* never waits on itself, and an aborted series always ends.  And every    *)
(* series ends, at a try that connects, at its last or at a Cancel.        *)
WorkEnds ==
    /\ \A c \in Commands : Busy(c) ~> ~Busy(c)
    /\ \A s \in Links : Active(s) ~> pc[s] \in Over

(* The inductive invariant of the proofs (LinkProofs).                     *)

\* The lock of the slot is held by the task that waits under it.
LockOK == \A t \in Tasks : pc[t] \in Holding <=> owner = t

\* A series begins as its loop is done, and counts from none.
SeriesOrigin == \A s \in Links :
    /\ phase[s] # "done" => pc[s] = "unborn"
    /\ pc[s] = "unborn" => tries[s] = 0

\* Each handle is in one place: the slot, or one task that waits for its
\* loop or has just dialed it.  A link past the last made has no loop.
HandsOK ==
    /\ \A t \in Tasks : hand[t] # NoLink =>
          /\ pc[t] \in {"dropWait", "takeWait", "dialWait", "spawn", "put",
                        "putClosed", "putWait"}
          /\ hand[t] # slot
          /\ hand[t] <= made
          /\ \A u \in Tasks : hand[u] = hand[t] => u = t
    /\ slot <= made
    /\ \A t \in Tasks : pc[t] = "spawn" =>
          hand[t] # NoLink /\ phase[hand[t]] = "none"
    /\ \A t \in Tasks : pc[t] = "putWait" => slot = NoLink
    /\ \A l \in Links : l > made => phase[l] = "none"
=============================================================================
