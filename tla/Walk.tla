-------------------------------- MODULE Walk --------------------------------
(***************************************************************************)
(* The walker, which sends the steps of a #walk or of a click on the map   *)
(* one at a time and reads the room each leads to (session/walk.rs), with  *)
(* the loop that hands it what the game says (read.rs, gmcp.rs, conn.rs),  *)
(* and a game that answers late, in the dark, or not at all.               *)
(*                                                                         *)
(* One task runs the walker, so what it does with one message, the sends   *)
(* included, is one step.  The lines under way to the game and what the    *)
(* game says are two queues.                                               *)
(***************************************************************************)
EXTENDS Integers, Sequences, FiniteSets

CONSTANTS
    Rooms,     \* the rooms by their number
    Dirs,      \* the directions
    Exit,      \* where an exit leads, NoRoom for none
    Tiled,     \* the rooms the game sends with the tiles around them
    Plans,     \* the walks you ask for
    PaceFull,  \* the pace may keep a line of automation
    Walks,     \* bound: the walks you ask for
    Typings,   \* bound: the commands you type
    Mischiefs  \* bound: what the game does on its own

NoRoom == 0

\* start and rooms are the Route of a click on the map.  rest says the line
\* goes on after its #walk.
PlanType == [steps : Seq(Dirs), start : Rooms \cup {NoRoom}, rooms : Seq(Rooms),
             rest : BOOLEAN]

ASSUME WalkAssumption ==
    /\ Rooms \subseteq Nat \ {NoRoom} /\ Rooms # {}
    /\ Exit \in [Rooms \X Dirs -> Rooms \cup {NoRoom}]
    /\ Tiled \subseteq Rooms /\ PaceFull \in BOOLEAN
    /\ Plans \subseteq PlanType
    /\ \A plan \in Plans :
        /\ plan.steps # <<>>
        /\ IF plan.start = NoRoom THEN plan.rooms = <<>>
           ELSE Len(plan.rooms) = Len(plan.steps) /\ ~plan.rest
    /\ Walks \in Nat /\ Typings \in Nat /\ Mischiefs \in Nat

NoTiles == [d \in Dirs |-> NoRoom]
TilesOf(r) == [d \in Dirs |-> Exit[r, d]]
NoPlan == [steps |-> <<>>, start |-> NoRoom, rooms |-> <<>>, rest |-> FALSE]
NoAim == [at |-> NoRoom, left |-> <<>>]
NoWalk == [plan |-> NoPlan, done |-> 0, aim |-> NoAim]
NoFlight == [up |-> FALSE, from |-> NoRoom, expect |-> NoRoom]

VARIABLES
    walk,      \* Walker::walk, with where its steps lead as a ghost
    next,      \* Walker::next
    flight,    \* Walker::flight
    room,      \* Walker::room
    exits,     \* Walker::exits
    fresh,     \* Walker::fresh
    paced,     \* the lines a walk let go of that the pace keeps
    wire,      \* the lines under way to the game
    answers,   \* what the game said that the loop has not read
    here,      \* the game: the room you stand in
    calm,      \* ghost: nothing but the walker moved you, or said so, since
               \* nothing was under way
    walks, typings, mischiefs

walker == <<walk, next, flight, room, exits, fresh>>
counters == <<walks, typings, mischiefs>>
vars == <<walker, paced, wire, answers, here, calm, counters>>

Init ==
    /\ walk = NoWalk /\ next = NoPlan /\ flight = NoFlight
    /\ room = NoRoom /\ exits = NoTiles /\ fresh = NoTiles
    /\ paced = <<>> /\ wire = <<>> /\ answers = <<>>
    /\ here \in Rooms
    /\ calm = TRUE
    /\ walks = 0 /\ typings = 0 /\ mischiefs = 0

-----------------------------------------------------------------------------
(* The messages.                                                           *)

Sent(kind, dir, goal) == [kind |-> kind, dir |-> dir, goal |-> goal]
Says(kind, num, tiles) == [kind |-> kind, num |-> num, tiles |-> tiles]

\* A look sends Map.Tiles before Room.Info.
Look(r) ==
    IF r \in Tiled
    THEN <<Says("tiles", NoRoom, TilesOf(r)), Says("room", r, NoTiles)>>
    ELSE <<Says("room", r, NoTiles)>>

Line(kind) == <<Says(kind, NoRoom, NoTiles)>>

\* The kinds that land a step.
Landings == {"room", "failed", "unseen"}

\* The steps under way, and what may be the answer to one.
StepsOut ==
    Cardinality({i \in DOMAIN wire : wire[i].kind = "step"})
    + Cardinality({i \in DOMAIN answers : answers[i].kind \in Landings})

\* One step on towards where a walk leads: the room the steps so far lead to,
\* NoRoom past an exit that is missing, and the steps that are left.
Onward(aim) ==
    [at |-> IF aim.at = NoRoom THEN NoRoom ELSE Exit[aim.at, Head(aim.left)],
     left |-> Tail(aim.left)]

-----------------------------------------------------------------------------
(* The steps of the walk.                                                  *)

Accepts_Any(plan, at) == TRUE

\* start: a route planned from another room drops.
Accepts(plan, at) == plan.start \in {NoRoom, at}

Begun(plan) ==
    [plan |-> plan, done |-> 0, aim |-> [at |-> here, left |-> plan.steps]]

\* send_next, after the lines of before.
SendNext(going, at, seen, before) ==
    LET n == going.done + 1
        plan == going.plan
    IN  /\ walk' = [going EXCEPT !.aim = Onward(@)]
        /\ flight' = [up |-> TRUE, from |-> at,
                      expect |-> IF plan.rooms # <<>> THEN plan.rooms[n]
                                 ELSE seen[plan.steps[n]]]
        /\ wire' = Append(before, Sent("step", plan.steps[n], NoAim))

\* The walk is over, and the one that waits takes over.
HandOver(at, seen, before) ==
    /\ next' = NoPlan
    /\ \/ /\ next # NoPlan /\ Accepts(next, at)
          /\ SendNext(Begun(next), at, seen, before)
       \/ /\ next = NoPlan \/ ~Accepts(next, at)
          /\ walk' = NoWalk /\ flight' = NoFlight /\ wire' = before

LastStep_Early == walk.done + 2 >= Len(walk.plan.steps)
LastStep == walk.done + 1 = Len(walk.plan.steps)

\* What the walk held goes through the pace, before the step of the walk
\* that takes over, which goes past it (walked, write_all and write_step).
LetGo(at, seen) ==
    LET held == Sent("rest", "none", walk.aim)
    IN  \/ /\ ~walk.plan.rest
           /\ HandOver(at, seen, wire)
           /\ UNCHANGED paced
        \/ /\ walk.plan.rest /\ paced = <<>>
           /\ HandOver(at, seen, Append(wire, held))
           /\ UNCHANGED paced
        \/ /\ walk.plan.rest /\ PaceFull
           /\ HandOver(at, seen, wire)
           /\ paced' = Append(paced, held)

\* landed, in the room at with the exits seen.
Landed(arrived, at, seen) ==
    \/ /\ walk # NoWalk /\ arrived /\ LastStep
       /\ LetGo(at, seen)
    \/ /\ walk # NoWalk /\ arrived /\ ~LastStep /\ next = NoPlan
       /\ SendNext([walk EXCEPT !.done = @ + 1], at, seen, wire)
       /\ UNCHANGED <<next, paced>>
    \/ /\ (walk # NoWalk /\ arrived) => (~LastStep /\ next # NoPlan)
       /\ HandOver(at, seen, wire)
       /\ UNCHANGED paced

\* stop, which leaves the step that is in flight.
Stops == walk' = NoWalk /\ next' = NoPlan

LoseRoom_KeepsExits == room' = NoRoom /\ fresh' = NoTiles /\ UNCHANGED exits
LoseRoom == room' = NoRoom /\ exits' = NoTiles /\ fresh' = NoTiles

-----------------------------------------------------------------------------
(* What you do.                                                            *)

StartWalk_AtOnce(plan) ==
    /\ walks < Walks
    /\ walks' = walks + 1
    /\ IF Accepts(plan, room)
       THEN SendNext(Begun(plan), room, exits, wire)
       ELSE UNCHANGED <<walk, flight, wire>>
    /\ UNCHANGED <<next, room, exits, fresh, paced, answers, here, calm, typings,
                   mischiefs>>

\* command, Start: a walk waits for the step that is in flight.
StartWalk(plan) ==
    /\ walks < Walks
    /\ walks' = walks + 1
    /\ \/ flight.up /\ next' = plan /\ UNCHANGED <<walk, flight, wire>>
       \/ /\ ~flight.up /\ Accepts(plan, room)
          /\ SendNext(Begun(plan), room, exits, wire)
          /\ UNCHANGED next
       \/ ~flight.up /\ ~Accepts(plan, room) /\ UNCHANGED <<walk, next, flight, wire>>
    /\ UNCHANGED <<room, exits, fresh, paced, answers, here, calm, typings, mischiefs>>

\* command, Stop: #walk stop or Esc.
StopWalk ==
    /\ walk # NoWalk \/ next # NoPlan
    /\ Stops
    /\ UNCHANGED <<flight, room, exits, fresh, paced, wire, answers, here, calm,
                   counters>>

\* send_typed: a command you type stops the walk.
Type(kind, dir) ==
    /\ typings < Typings
    /\ typings' = typings + 1
    /\ Stops
    /\ wire' = Append(wire, Sent(kind, dir, NoAim))
    /\ calm' = FALSE
    /\ UNCHANGED <<flight, room, exits, fresh, paced, answers, here, walks, mischiefs>>

-----------------------------------------------------------------------------
(* What the loop reads.                                                    *)

Hears(kind) ==
    /\ answers # <<>> /\ Head(answers).kind = kind
    /\ answers' = Tail(answers)
    /\ UNCHANGED <<here, calm, counters>>

\* tiles
HearTiles ==
    /\ Hears("tiles")
    /\ fresh' = Head(answers).tiles
    /\ UNCHANGED <<walk, next, flight, room, exits, paced, wire>>

\* The tiles that came before a room list its exits.
TakesTiles == exits' = fresh /\ fresh' = NoTiles

\* room_info: with no step in flight, or a look at the room the step left,
\* or the room the step led to.
HearRoom ==
    LET num == Head(answers).num
    IN  /\ Hears("room")
        /\ TakesTiles
        /\ \/ /\ ~flight.up
              /\ room' = num
              /\ UNCHANGED <<walk, next, flight, paced, wire>>
           \/ /\ flight.up /\ flight.from = num
              /\ UNCHANGED <<walk, next, flight, room, paced, wire>>
           \/ /\ flight.up /\ flight.from # num
              /\ room' = num
              /\ Landed(flight.expect \in {NoRoom, num}, num, fresh)

\* line: the game says the step failed.
HearFailed ==
    /\ Hears("failed")
    /\ \/ ~flight.up /\ UNCHANGED <<walk, next, flight, paced, wire>>
       \/ flight.up /\ Landed(FALSE, room, exits)
    /\ UNCHANGED <<room, exits, fresh>>

\* line: the blind or the dark look, which counts only for a step in flight.
HearUnseen ==
    /\ Hears("unseen")
    /\ \/ ~flight.up /\ UNCHANGED <<walker, paced, wire>>
       \/ flight.up /\ LoseRoom /\ Landed(FALSE, NoRoom, NoTiles)

\* combat and state: a fight, or a position other than standing.
HearFight ==
    /\ Hears("fight")
    /\ Stops
    /\ UNCHANGED <<flight, room, exits, fresh, paced, wire>>

Expire_OfWalk ==
    /\ flight.up /\ walk # NoWalk
    /\ flight' = NoFlight
    /\ LoseRoom
    /\ Stops
    /\ calm' = (calm /\ StepsOut = 0)
    /\ UNCHANGED <<paced, wire, answers, here, counters>>

Expire_WalksOn ==
    /\ flight.up
    /\ flight' = NoFlight
    /\ LoseRoom
    /\ calm' = (calm /\ StepsOut = 0)
    /\ UNCHANGED <<walk, next, paced, wire, answers, here, counters>>

\* expire: the backstop.  An answer that comes after it is nobody's.
Expire ==
    /\ flight.up
    /\ flight' = NoFlight
    /\ LoseRoom
    /\ Stops
    /\ calm' = (calm /\ StepsOut = 0)
    /\ UNCHANGED <<paced, wire, answers, here, counters>>

\* The pace lets a line go, which follows the walk no more.
PacedGoes ==
    /\ paced # <<>>
    /\ wire' = Append(wire, Sent("late", "none", NoAim))
    /\ paced' = Tail(paced)
    /\ UNCHANGED <<walker, answers, here, calm, counters>>

\* The connection ends, and the next one has a walker of its own.
Reconnects ==
    /\ walk' = NoWalk /\ next' = NoPlan /\ flight' = NoFlight
    /\ LoseRoom
    /\ paced' = <<>> /\ wire' = <<>> /\ answers' = <<>>
    /\ calm' = TRUE
    /\ UNCHANGED <<here, counters>>

-----------------------------------------------------------------------------
(* What the game does.                                                     *)

Reads == wire # <<>> /\ wire' = Tail(wire)

GameMoves ==
    LET to == Exit[here, Head(wire).dir]
    IN  /\ Reads /\ Head(wire).kind \in {"step", "move"}
        /\ \/ /\ to # NoRoom
              /\ here' = to
              /\ answers' = answers \o Look(to) \/ answers' = answers \o Line("unseen")
           \/ answers' = answers \o Line("failed") /\ UNCHANGED here
           \/ UNCHANGED <<answers, here>>
        /\ UNCHANGED <<walker, paced, calm, counters>>

GameLooks ==
    /\ Reads /\ Head(wire).kind = "look"
    /\ answers' = answers \o Look(here) \/ answers' = answers \o Line("unseen")
    /\ UNCHANGED <<walker, paced, here, calm, counters>>

GameActs ==
    /\ Reads /\ Head(wire).kind \in {"rest", "late"}
    /\ UNCHANGED <<walker, paced, answers, here, calm, counters>>

\* You are dragged off, a line reads as if a step failed, or a fight begins.
GameMischief ==
    /\ mischiefs < Mischiefs
    /\ mischiefs' = mischiefs + 1
    /\ \/ \E r \in Rooms : here' = r /\ answers' = answers \o Look(r) /\ calm' = FALSE
       \/ answers' = answers \o Line("failed") /\ calm' = FALSE /\ UNCHANGED here
       \/ answers' = answers \o Line("fight") /\ UNCHANGED <<here, calm>>
    /\ UNCHANGED <<walker, paced, wire, walks, typings>>

\* All was said, and the walker is not wrong about the room.
Settle ==
    /\ ~calm
    /\ paced = <<>> /\ wire = <<>> /\ answers = <<>> /\ ~flight.up
    /\ room \in {NoRoom, here}
    /\ calm' = TRUE
    /\ UNCHANGED <<walker, paced, wire, answers, here, counters>>

-----------------------------------------------------------------------------

Hear == HearTiles \/ HearRoom \/ HearFailed \/ HearUnseen \/ HearFight
Game == GameMoves \/ GameLooks \/ GameActs

Next ==
    \/ \E plan \in Plans : StartWalk(plan)
    \/ StopWalk
    \/ \E d \in Dirs : Type("move", d)
    \/ Type("look", "none")
    \/ Hear \/ Expire \/ PacedGoes \/ Reconnects
    \/ Game \/ GameMischief \/ Settle

\* The timer of the step in flight fires.  The game owes nothing.
Spec == Init /\ [][Next]_vars /\ WF_vars(Expire)

-----------------------------------------------------------------------------

WalkOK ==
    \/ walk = NoWalk
    \/ /\ walk.plan \in Plans /\ walk.done \in 0 .. Len(walk.plan.steps) - 1
       /\ walk.aim.at \in Rooms \cup {NoRoom}

(* The type of every variable.  The walker knows the exits of a room only  *)
(* while it knows the room.                                                *)
TypeOK ==
    /\ WalkOK /\ next \in Plans \cup {NoPlan}
    /\ flight \in [up : BOOLEAN, from : Rooms \cup {NoRoom}, expect : Rooms \cup {NoRoom}]
    /\ room \in Rooms \cup {NoRoom}
    /\ exits \in [Dirs -> Rooms \cup {NoRoom}] /\ (room = NoRoom => exits = NoTiles)
    /\ fresh \in [Dirs -> Rooms \cup {NoRoom}]
    /\ here \in Rooms /\ calm \in BOOLEAN
    /\ walks \in 0 .. Walks /\ typings \in 0 .. Typings /\ mischiefs \in 0 .. Mischiefs

(* A walk, or one that waits to take over, always has a step in flight     *)
(* that will land or give up.                                              *)
WaitsForLanding == walk # NoWalk \/ next # NoPlan => flight.up

(* The walker knows where the game is: one step is under way at most, and  *)
(* the next one leaves once the game answered ("It sends one step at a     *)
(* time"), and the exits it checks a step against are those of its room.   *)
OneStep ==
    /\ calm => StepsOut <= IF flight.up THEN 1 ELSE 0
    /\ room # NoRoom /\ exits # NoTiles => exits = TilesOf(room)

StepLeaves == Len(wire') > Len(wire) /\ wire'[Len(wire')].kind = "step"

\* The room the walk's step starts from on its route.
Planned(going) ==
    IF going.done = 0 THEN going.plan.start ELSE going.plan.rooms[going.done]

(* Each step of a click on the map leaves while you stand in the room the  *)
(* click planned for it.                                                   *)
RouteKept ==
    [][StepLeaves /\ calm /\ calm' /\ walk'.plan.rooms # <<>>
       => here = Planned(walk')]_vars

(* What followed #walk reaches the game in the room the steps lead to,     *)
(* unless the pace keeps it.                                               *)
RestThere ==
    calm /\ wire # <<>> /\ Head(wire).kind = "rest"
    => Head(wire).goal = [at |-> here, left |-> <<>>]

(* No walk goes on for ever, whatever the game answers.                    *)
NoWalkHangs == []<>(walk = NoWalk /\ next = NoPlan)

(* What an arrived walk held goes before the first step of a walk that     *)
(* takes over from it (read.rs, walked).                                   *)
RestFirst == [][StepLeaves => paced' = paced]_vars
=============================================================================
