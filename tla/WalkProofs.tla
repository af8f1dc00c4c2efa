----------------------------- MODULE WalkProofs -----------------------------
(***************************************************************************)
(* Theorems of Walk for every set of rooms, directions, exits and plans.   *)
(*                                                                         *)
(* All of them rest on one inductive invariant, WInv.  It says what the    *)
(* walker, the two queues and the game know of each other: the step in     *)
(* flight left from the room the walker knows, its ghost aim has the steps *)
(* that are yet to send, tiles come right before their room, and, while    *)
(* nobody but the walker moves you, one step or one answer is under way    *)
(* and both lead to the room the walk aims at.                             *)
(***************************************************************************)
EXTENDS Walk, FiniteSetTheorems, TLAPS

-----------------------------------------------------------------------------
(* What is under way.                                                      *)

\* No message of c is of a kind in K; at most one is.
Free(c, K) == \A i \in 1 .. Len(c) : c[i].kind \notin K
One(c, K) == \A i, j \in 1 .. Len(c) :
    c[i].kind \in K /\ c[j].kind \in K => i = j

Places == Rooms \cup {NoRoom}
Aims == [at : Places, left : Seq(Dirs)]
Views == [Dirs -> Places]
WalkType == [plan : Plans \cup {NoPlan}, done : Nat, aim : Aims]
SentType == [kind : {"step", "rest", "late", "move", "look"},
             dir : Dirs \cup {"none"}, goal : Aims]
SaidType == [kind : Landings \cup {"tiles", "fight"}, num : Places, tiles : Views]

Types ==
    /\ TypeOK
    /\ walk \in WalkType
    /\ paced \in Seq(SentType) /\ wire \in Seq(SentType)
    /\ answers \in Seq(SaidType)
    /\ \A i \in 1 .. Len(wire) : wire[i].kind \in {"step", "move"} => wire[i].dir \in Dirs
    /\ \A i \in 1 .. Len(answers) : answers[i].kind = "room" => answers[i].num \in Rooms

\* A step in flight left from the room the walker knows, and a walk of a
\* click expects the room the click planned.
FlightKnows ==
    /\ flight.up => flight.from = room
    /\ walk # NoWalk /\ walk.plan.rooms # <<>>
           => flight.expect = walk.plan.rooms[walk.done + 1]

\* What is left of the aim is what the walk has yet to send.
AimKept == walk # NoWalk =>
    /\ Len(walk.aim.left) = Len(walk.plan.steps) - walk.done - 1
    /\ \A i \in 1 .. Len(walk.aim.left) :
        walk.aim.left[i] = walk.plan.steps[walk.done + 1 + i]

\* Tiles come right before the room they are of, and the exits are the room's.
TilesBefore ==
    /\ \A i \in 1 .. Len(answers) : answers[i].kind = "tiles" =>
        /\ i + 1 \in 1 .. Len(answers) /\ answers[i + 1].kind = "room"
        /\ answers[i].tiles = TilesOf(answers[i + 1].num)
    /\ fresh # NoTiles =>
        /\ answers # <<>> /\ Head(answers).kind = "room"
        /\ fresh = TilesOf(Head(answers).num)
    /\ room # NoRoom /\ exits # NoTiles => exits = TilesOf(room)

\* One step is under way, or its answer is.
OneOut ==
    /\ \A i \in 1 .. Len(wire) : wire[i].kind \in {"step", "rest", "late"}
    /\ One(wire, {"step"}) /\ One(answers, Landings)
    /\ Free(wire, {"step"}) \/ Free(answers, Landings)
    /\ ~flight.up => Free(wire, {"step"}) /\ Free(answers, Landings)

\* A rest is under way before the step, if there is one.
RestsHere == \A i \in 1 .. Len(wire) : wire[i].kind = "rest" =>
    /\ wire[i].goal = [at |-> here, left |-> <<>>]
    /\ \A j \in 1 .. Len(wire) : j < i => wire[j].kind # "step"

\* The room beyond an exit.
Beyond(r, d) == Exit[r, d]

\* The step leads where the walk aims, and the answer comes from there.
StepAims ==
    /\ \A i \in 1 .. Len(wire) : wire[i].kind = "step" /\ walk # NoWalk =>
        walk.aim.at = Beyond(here, wire[i].dir)
    /\ \A i \in 1 .. Len(answers) : answers[i].kind = "room" =>
        answers[i].num = here /\ (walk # NoWalk => walk.aim.at = here)

\* The walker knows the room until the game answers from another.
RoomHere == Free(answers, {"room", "unseen"}) /\ room # NoRoom => room = here

\* The inductive invariant.
WInv ==
    /\ Types /\ WaitsForLanding /\ FlightKnows /\ AimKept /\ TilesBefore
    /\ calm => OneOut /\ RestsHere /\ StepAims /\ RoomHere

LEMMA AppendKinds ==
  ASSUME NEW S, NEW c \in Seq(S), NEW m \in S, NEW K
  PROVE  /\ Append(c, m) \in Seq(S)
         /\ Free(Append(c, m), K) <=> Free(c, K) /\ m.kind \notin K
         /\ One(c, K) /\ (m.kind \notin K \/ Free(c, K)) => One(Append(c, m), K)
<1> DEFINE d == Append(c, m)
<1>1. /\ Len(c) \in Nat /\ Len(d) = Len(c) + 1 /\ d[Len(d)] = m
      /\ \A i \in 1 .. Len(c) : d[i] = c[i]
      /\ d \in Seq(S)
  OBVIOUS
<1> HIDE DEF d
<1>2. \A i \in 1 .. Len(d) : i \in 1 .. Len(c) \/ i = Len(d)
  BY <1>1
<1>3. \A i \in 1 .. Len(c) : i \in 1 .. Len(d) /\ i < Len(d)
  BY <1>1
<1>4. Len(d) \in 1 .. Len(d)
  BY <1>1
<1>5. Free(d, K) <=> Free(c, K) /\ m.kind \notin K
  BY <1>1, <1>2, <1>3, <1>4 DEF Free
<1>6. One(c, K) /\ (m.kind \notin K \/ Free(c, K)) => One(d, K)
  BY <1>1, <1>2 DEF One, Free
<1> QED
  BY <1>1, <1>5, <1>6 DEF d

LEMMA TailKinds ==
  ASSUME NEW S, NEW c \in Seq(S), c # <<>>, NEW K
  PROVE  /\ Head(c) \in S /\ Tail(c) \in Seq(S)
         /\ Free(c, K) <=> Free(Tail(c), K) /\ Head(c).kind \notin K
         /\ One(c, K) => One(Tail(c), K) /\ (Head(c).kind \in K => Free(Tail(c), K))
         /\ \A i \in 1 .. Len(Tail(c)) :
                i + 1 \in 1 .. Len(c) /\ Tail(c)[i] = c[i + 1]
         /\ Len(Tail(c)) = Len(c) - 1 /\ 1 \in 1 .. Len(c) /\ c[1] = Head(c)
<1> DEFINE d == Tail(c)
<1>1. /\ Len(c) \in Nat /\ Len(c) # 0 /\ Len(d) = Len(c) - 1 /\ c[1] = Head(c)
      /\ \A i \in 1 .. Len(d) : d[i] = c[i + 1]
      /\ Head(c) \in S /\ d \in Seq(S)
  OBVIOUS
<1> HIDE DEF d
<1>2. \A i \in 1 .. Len(c) : i = 1 \/ (i - 1 \in 1 .. Len(d) /\ d[i - 1] = c[i])
  BY <1>1
<1>3. \A i \in 1 .. Len(d) : i + 1 \in 1 .. Len(c) /\ i + 1 # 1
  BY <1>1
<1>4. 1 \in 1 .. Len(c)
  BY <1>1
<1>5. Free(c, K) <=> Free(d, K) /\ Head(c).kind \notin K
  BY <1>1, <1>2, <1>3, <1>4 DEF Free
<1>6. ASSUME One(c, K) PROVE One(d, K) /\ (Head(c).kind \in K => Free(d, K))
  <2>1. One(d, K)
    <3> SUFFICES ASSUME NEW i \in 1 .. Len(d), NEW j \in 1 .. Len(d),
                        d[i].kind \in K, d[j].kind \in K
                 PROVE  i = j
      BY DEF One
    <3>1. i + 1 = j + 1
      BY <1>1, <1>3, <1>6 DEF One
    <3> QED
      BY <3>1
  <2>2. Head(c).kind \in K => Free(d, K)
    <3> SUFFICES ASSUME Head(c).kind \in K, NEW i \in 1 .. Len(d), d[i].kind \in K
                 PROVE  FALSE
      BY DEF Free
    <3>1. i + 1 = 1
      BY <1>1, <1>3, <1>4, <1>6 DEF One
    <3> QED
      BY <1>3, <3>1
  <2> QED
    BY <2>1, <2>2
<1> QED
  BY <1>1, <1>3, <1>4, <1>5, <1>6 DEF d

\* An Append, seen one message at a time.
LEMMA AppendEach ==
  ASSUME NEW S, NEW c \in Seq(S), NEW m \in S
  PROVE  /\ Len(Append(c, m)) = Len(c) + 1 /\ Append(c, m)[Len(c) + 1] = m
         /\ \A i \in 1 .. Len(Append(c, m)) :
                \/ i \in 1 .. Len(c) /\ Append(c, m)[i] = c[i]
                \/ i = Len(c) + 1 /\ Append(c, m)[i] = m
  OBVIOUS

-----------------------------------------------------------------------------
(* What StepsOut counts.                                                   *)

LEMMA CountFree ==
  ASSUME NEW S, NEW c \in Seq(S), NEW K
  PROVE  LET D == {i \in DOMAIN c : c[i].kind \in K}
         IN  /\ Cardinality(D) \in Nat
             /\ Cardinality(D) = 0 <=> Free(c, K)
             /\ One(c, K) => Cardinality(D) <= 1
<1> DEFINE D == {i \in DOMAIN c : c[i].kind \in K}
<1>1. DOMAIN c = 1 .. Len(c) /\ Len(c) \in Nat
  OBVIOUS
<1>2. IsFiniteSet(D)
  <2>1. IsFiniteSet(1 .. Len(c))
    BY <1>1, FS_Interval
  <2> QED
    BY <1>1, <2>1, FS_Subset
<1>3. Cardinality(D) \in Nat
  BY <1>2, FS_CardinalityType
<1>4. D = {} <=> Free(c, K)
  BY <1>1 DEF Free
<1>5. Cardinality(D) = 0 <=> D = {}
  BY <1>2, FS_EmptySet
<1>6. ASSUME One(c, K) PROVE Cardinality(D) <= 1
  <2>1. CASE D = {}
    BY <1>5, <2>1
  <2>2. CASE D # {}
    <3>1. PICK i : i \in D
      BY <2>2
    <3>2. D = {i}
      BY <1>1, <1>6, <3>1 DEF One
    <3>3. Cardinality({i}) = 1
      BY FS_Singleton
    <3>4. Cardinality(D) = 1
      BY <3>2, <3>3
    <3> HIDE DEF D
    <3> QED
      BY <3>4
  <2> QED
    BY <2>1, <2>2
<1> QED
  BY <1>3, <1>4, <1>5, <1>6

LEMMA CountsOut ==
  ASSUME Types
  PROVE  /\ StepsOut = 0 <=> Free(wire, {"step"}) /\ Free(answers, Landings)
         /\ /\ One(wire, {"step"}) /\ One(answers, Landings)
            /\ Free(wire, {"step"}) \/ Free(answers, Landings)
            => StepsOut <= 1
<1> DEFINE W == {i \in DOMAIN wire : wire[i].kind \in {"step"}}
           A == {i \in DOMAIN answers : answers[i].kind \in Landings}
<1>1. wire \in Seq(SentType) /\ answers \in Seq(SaidType)
  BY DEF Types
<1>2. /\ Cardinality(W) \in Nat /\ (Cardinality(W) = 0 <=> Free(wire, {"step"}))
      /\ One(wire, {"step"}) => Cardinality(W) <= 1
  BY <1>1, CountFree
<1>3. /\ Cardinality(A) \in Nat /\ (Cardinality(A) = 0 <=> Free(answers, Landings))
      /\ One(answers, Landings) => Cardinality(A) <= 1
  BY <1>1, CountFree
<1>4. StepsOut = Cardinality(W) + Cardinality(A)
  <2>1. W = {i \in DOMAIN wire : wire[i].kind = "step"}
    OBVIOUS
  <2> QED
    BY <2>1 DEF StepsOut
<1> HIDE DEF W, A
<1> QED
  BY <1>2, <1>3, <1>4

-----------------------------------------------------------------------------
(* A step is sent.                                                         *)

\* A walk that may send a step: its aim has what it has yet to send.
Goes(going) ==
    /\ going \in WalkType /\ going.plan \in Plans
    /\ going.done + 1 \in 1 .. Len(going.plan.steps)
    /\ Len(going.aim.left) = Len(going.plan.steps) - going.done
    /\ \A i \in 1 .. Len(going.aim.left) :
        going.aim.left[i] = going.plan.steps[going.done + i]

\* Lines that go before a step: none of them is a step.
Lines(before) ==
    /\ before \in Seq(SentType)
    /\ \A i \in 1 .. Len(before) : before[i].kind \in {"step", "move"} => before[i].dir \in Dirs

Quietly(before) ==
    /\ \A i \in 1 .. Len(before) : before[i].kind \in {"rest", "late"}
    /\ \A i \in 1 .. Len(before) : before[i].kind = "rest" =>
        before[i].goal = [at |-> here, left |-> <<>>]

LEMMA PlanForm ==
  ASSUME NEW plan \in Plans
  PROVE  /\ plan.steps \in Seq(Dirs) /\ plan.steps # <<>> /\ Len(plan.steps) \in Nat \ {0}
         /\ plan.start \in Places /\ plan.rooms \in Seq(Rooms) /\ plan.rest \in BOOLEAN
         /\ plan.rooms # <<>> =>
                plan.start # NoRoom /\ Len(plan.rooms) = Len(plan.steps) /\ ~plan.rest
         /\ plan # NoPlan
<1>1. /\ plan \in PlanType /\ plan.steps # <<>>
      /\ IF plan.start = NoRoom THEN plan.rooms = <<>>
         ELSE Len(plan.rooms) = Len(plan.steps) /\ ~plan.rest
  BY WalkAssumption
<1>2. plan.steps \in Seq(Dirs) /\ plan.start \in Places /\ plan.rooms \in Seq(Rooms)
      /\ plan.rest \in BOOLEAN
  BY <1>1 DEF PlanType, Places
<1>3. Len(plan.steps) \in Nat \ {0}
  BY <1>1, <1>2
<1>4. plan # NoPlan
  BY <1>1 DEF NoPlan
<1> QED
  BY <1>1, <1>2, <1>3, <1>4

LEMMA NoAimForm == NoAim \in Aims /\ NoWalk \in WalkType
<1>1. <<>> \in Seq(Dirs) /\ NoRoom \in Places /\ 0 \in Nat
  BY DEF Places
<1>2. NoAim \in Aims
  BY <1>1 DEF NoAim, Aims
<1> QED
  BY <1>1, <1>2 DEF NoWalk, WalkType

LEMMA BegunGoes ==
  ASSUME NEW plan \in Plans, here \in Rooms
  PROVE  /\ Goes(Begun(plan)) /\ Begun(plan).plan = plan /\ Begun(plan).done = 0
         /\ Begun(plan).aim.at = here
<1>1. plan.steps \in Seq(Dirs) /\ Len(plan.steps) \in Nat \ {0}
  BY PlanForm
<1>2. Begun(plan) \in WalkType
  BY <1>1 DEF Begun, WalkType, Aims, Places
<1> QED
  BY <1>1, <1>2 DEF Begun, Goes

LEMMA SendsStep ==
  ASSUME Types, NEW going, NEW at \in Places, NEW seen \in Views, NEW before,
         Goes(going), Lines(before), SendNext(going, at, seen, before)
  PROVE  /\ walk' \in WalkType /\ WalkOK' /\ walk' # NoWalk
         /\ AimKept'
         /\ walk'.plan = going.plan /\ walk'.done = going.done
         /\ flight'.up /\ flight'.from = at
         /\ flight' \in [up : BOOLEAN, from : Places, expect : Places]
         /\ walk'.plan.rooms # <<>> => flight'.expect = walk'.plan.rooms[walk'.done + 1]
         /\ \E d \in Dirs :
                /\ wire' = Append(before, Sent("step", d, NoAim))
                /\ Sent("step", d, NoAim) \in SentType
                /\ going.aim.at \in Rooms => walk'.aim.at = Beyond(going.aim.at, d)
<1> DEFINE n == going.done + 1
           plan == going.plan
           d == plan.steps[n]
<1>1. /\ going \in WalkType /\ plan \in Plans /\ n \in 1 .. Len(plan.steps)
      /\ going.done \in Nat /\ going.aim \in Aims
      /\ going.aim.at \in Places /\ going.aim.left \in Seq(Dirs)
      /\ Len(going.aim.left) = Len(plan.steps) - going.done
      /\ \A i \in 1 .. Len(going.aim.left) : going.aim.left[i] = plan.steps[going.done + i]
  BY DEF Goes, WalkType, Aims
<1>2. /\ plan.steps \in Seq(Dirs) /\ Len(plan.steps) \in Nat \ {0}
      /\ plan.rooms \in Seq(Rooms) /\ plan # NoPlan
      /\ plan.rooms # <<>> => Len(plan.rooms) = Len(plan.steps)
  BY <1>1, PlanForm
<1>3. /\ walk' = [going EXCEPT !.aim = Onward(going.aim)]
      /\ flight' = [up |-> TRUE, from |-> at,
                    expect |-> IF plan.rooms # <<>> THEN plan.rooms[n] ELSE seen[d]]
      /\ wire' = Append(before, Sent("step", d, NoAim))
  BY <1>1 DEF SendNext, WalkType
<1>4. d \in Dirs
  BY <1>1, <1>2
<1>5. going.aim.left # <<>> /\ Head(going.aim.left) = d
  <2>1. PICK k \in Nat : k = Len(going.aim.left)
    BY <1>1
  <2>2. PICK m \in Nat : m = Len(plan.steps)
    BY <1>2
  <2>3. k = m - going.done /\ n \in 1 .. m
    BY <1>1, <2>1, <2>2
  <2>4. k >= 1
    BY <1>1, <2>3
  <2>5. going.aim.left # <<>> /\ Head(going.aim.left) = going.aim.left[1]
    BY <1>1, <2>1, <2>4
  <2>6. going.aim.left[1] = plan.steps[going.done + 1]
    BY <1>1, <2>1, <2>4
  <2> QED
    BY <2>5, <2>6
<1>6. Onward(going.aim).at =
        IF going.aim.at = NoRoom THEN NoRoom ELSE Exit[going.aim.at, d]
  BY <1>5 DEF Onward
<1>7. Onward(going.aim).left = Tail(going.aim.left)
  BY DEF Onward
<1>8. Onward(going.aim).at \in Places
  BY <1>1, <1>4, <1>6, WalkAssumption DEF Places
<1>9. Tail(going.aim.left) \in Seq(Dirs)
  BY <1>1, <1>5
<1>10. Onward(going.aim) \in Aims
  <2>1. Onward(going.aim) = [at |-> Onward(going.aim).at, left |-> Onward(going.aim).left]
    BY DEF Onward
  <2> QED
    BY <1>7, <1>8, <1>9, <2>1 DEF Aims
<1> HIDE DEF d, n, plan
<1>11. /\ walk' \in WalkType /\ walk'.plan = plan /\ walk'.done = going.done
       /\ walk'.aim = Onward(going.aim)
  <2>1. going \in [plan : Plans \cup {NoPlan}, done : Nat, aim : Aims]
    BY <1>1 DEF WalkType
  <2>2. [going EXCEPT !.aim = Onward(going.aim)] \in
            [plan : Plans \cup {NoPlan}, done : Nat, aim : Aims]
    BY <1>10, <2>1
  <2>3. /\ walk'.plan = going.plan /\ walk'.done = going.done
        /\ walk'.aim = Onward(going.aim)
    BY <1>3, <2>1
  <2> QED
    BY <1>3, <2>2, <2>3 DEF WalkType, plan
<1>12. walk' # NoWalk
  BY <1>2, <1>11 DEF NoWalk
<1>13. WalkOK'
  <2>1. walk'.done \in 0 .. Len(walk'.plan.steps) - 1
    BY <1>1, <1>2, <1>11 DEF n
  <2>2. walk'.aim.at \in Rooms \cup {NoRoom}
    BY <1>8, <1>11 DEF Places
  <2> QED
    BY <1>1, <1>11, <2>1, <2>2 DEF WalkOK
<1>14. AimKept'
  <2>1. /\ Len(Tail(going.aim.left)) = Len(plan.steps) - going.done - 1
        /\ \A i \in 1 .. Len(Tail(going.aim.left)) :
             Tail(going.aim.left)[i] = plan.steps[going.done + 1 + i]
    <3>1. /\ Len(Tail(going.aim.left)) = Len(going.aim.left) - 1
          /\ \A i \in 1 .. Len(Tail(going.aim.left)) :
               /\ i + 1 \in 1 .. Len(going.aim.left)
               /\ Tail(going.aim.left)[i] = going.aim.left[i + 1]
      BY <1>1, <1>5
    <3>2. /\ Len(going.aim.left) - 1 = Len(plan.steps) - going.done - 1
          /\ \A i \in Nat : going.done + (i + 1) = going.done + 1 + i
      <4>1. PICK m \in Nat : m = Len(plan.steps)
        BY <1>2
      <4>2. PICK g \in Nat : g = going.done
        BY <1>1
      <4>3. Len(going.aim.left) = m - g
        BY <1>1, <4>1, <4>2
      <4>4. Len(going.aim.left) - 1 = Len(plan.steps) - going.done - 1
        BY <4>1, <4>2, <4>3
      <4>5. \A i \in Nat : g + (i + 1) = g + 1 + i
        OBVIOUS
      <4> QED
        BY <4>2, <4>4, <4>5
    <3>3. \A i \in 1 .. Len(Tail(going.aim.left)) : i \in Nat
      OBVIOUS
    <3>4. \A i \in 1 .. Len(Tail(going.aim.left)) :
            Tail(going.aim.left)[i] = plan.steps[going.done + (i + 1)]
      BY <1>1, <3>1
    <3>5. \A i \in 1 .. Len(Tail(going.aim.left)) :
            Tail(going.aim.left)[i] = plan.steps[going.done + 1 + i]
      BY <3>2, <3>3, <3>4
    <3>6. Len(Tail(going.aim.left)) = Len(plan.steps) - going.done - 1
      BY <3>1, <3>2
    <3> QED
      BY <3>5, <3>6
  <2> QED
    BY <1>7, <1>11, <2>1 DEF AimKept
<1>15. /\ flight'.up /\ flight'.from = at
       /\ plan.rooms # <<>> => flight'.expect = plan.rooms[n]
       /\ flight' \in [up : BOOLEAN, from : Places, expect : Places]
  <2>1. plan.rooms # <<>> => plan.rooms[n] \in Places
    BY <1>1, <1>2 DEF Places
  <2>2. seen[d] \in Places
    BY <1>4 DEF Views
  <2> QED
    BY <1>3, <2>1, <2>2
<1>16. Sent("step", d, NoAim) \in SentType
  BY <1>4, NoAimForm DEF Sent, SentType
<1>17. going.aim.at \in Rooms => walk'.aim.at = Beyond(going.aim.at, d)
  <2>1. NoRoom \notin Rooms
    BY WalkAssumption
  <2> QED
    BY <1>6, <1>11, <2>1, Zenon DEF Beyond
<1> QED
  BY <1>3, <1>4, <1>11, <1>12, <1>13, <1>14, <1>15, <1>16, <1>17 DEF n, plan

-----------------------------------------------------------------------------
(* What a sent step leaves.                                                *)

\* What the walker and its lines are, whatever the game says.
Walker ==
    /\ WalkOK /\ walk \in WalkType /\ next \in Plans \cup {NoPlan}
    /\ flight \in [up : BOOLEAN, from : Places, expect : Places]
    /\ paced \in Seq(SentType) /\ Lines(wire)
    /\ AimKept

\* A step that left from the room at is in flight, or no walk is.
LeftFrom(w, f, at) ==
    /\ f.up => f.from = at
    /\ w # NoWalk => f.up
    /\ w # NoWalk /\ w.plan.rooms # <<>> =>
        f.expect = w.plan.rooms[w.done + 1] /\ at = Planned(w) /\ at # NoRoom

\* What is under way, while all is calm.
Calmly == OneOut /\ RestsHere /\ StepAims

LEMMA AppendLines ==
  ASSUME NEW before, Lines(before), NEW m \in SentType,
         m.kind \in {"step", "move"} => m.dir \in Dirs
  PROVE  Lines(Append(before, m))
<1>1. before \in Seq(SentType) /\ Append(before, m) \in Seq(SentType)
  BY DEF Lines
<1>2. \A i \in 1 .. Len(Append(before, m)) :
                \/ i \in 1 .. Len(before) /\ Append(before, m)[i] = before[i]
                \/ i = Len(before) + 1 /\ Append(before, m)[i] = m
  BY <1>1, AppendEach
<1> QED
  BY <1>1, <1>2 DEF Lines

LEMMA AppendQuietly ==
  ASSUME NEW before, Lines(before), Quietly(before), NEW m \in SentType,
         m.kind \in {"rest", "late"},
         m.kind = "rest" => m.goal = [at |-> here, left |-> <<>>]
  PROVE  Quietly(Append(before, m))
<1>1. before \in Seq(SentType)
  BY DEF Lines
<1>2. \A i \in 1 .. Len(Append(before, m)) :
                \/ i \in 1 .. Len(before) /\ Append(before, m)[i] = before[i]
                \/ i = Len(before) + 1 /\ Append(before, m)[i] = m
  BY <1>1, AppendEach
<1> QED
  BY <1>2 DEF Quietly

\* Only lines that are no steps are under way.
LEMMA StaysQuiet ==
  ASSUME Lines(wire'), NEW before, wire' = before, Quietly(before),
         Free(answers', Landings), here' = here
  PROVE  Calmly'
<1>1. \A i \in 1 .. Len(wire') : wire'[i].kind \in {"rest", "late"}
  BY DEF Quietly
<1>2. Free(wire', {"step"})
  BY <1>1 DEF Free
<1>3. One(wire', {"step"}) /\ One(answers', Landings)
  BY <1>2 DEF Free, One
<1>4. OneOut'
  BY <1>1, <1>2, <1>3 DEF OneOut
<1>5. RestsHere'
  BY <1>1 DEF RestsHere, Quietly
<1>6. StepAims'
  BY <1>1 DEF StepAims, Free, Landings
<1> QED
  BY <1>4, <1>5, <1>6 DEF Calmly

LEMMA StepCalmly ==
  ASSUME NEW before, Lines(before), Quietly(before), NEW d \in Dirs,
         Sent("step", d, NoAim) \in SentType,
         wire' = Append(before, Sent("step", d, NoAim)),
         walk'.aim.at = Beyond(here, d), flight'.up,
         Free(answers', Landings), here' = here
  PROVE  Calmly'
<1> DEFINE m == Sent("step", d, NoAim)
<1>1. before \in Seq(SentType) /\ m.kind = "step" /\ m.dir = d
  BY DEF Lines, Sent
<1> HIDE DEF m
<1>0. wire' = Append(before, m) /\ m \in SentType
  BY DEF m
<1>2. \A i \in 1 .. Len(wire') :
                \/ i \in 1 .. Len(before) /\ wire'[i] = before[i]
                \/ i = Len(before) + 1 /\ wire'[i] = m
  BY <1>0, <1>1, AppendEach
<1>3. Free(before, {"step"})
  BY DEF Free, Quietly
<1>4. One(before, {"step"}) /\ One(answers', Landings)
  BY <1>3 DEF Free, One
<1>5. One(wire', {"step"})
  BY <1>0, <1>1, <1>3, <1>4, AppendKinds
<1>6. OneOut'
  <2>1. \A i \in 1 .. Len(wire') : wire'[i].kind \in {"step", "rest", "late"}
    BY <1>1, <1>2 DEF Quietly
  <2> QED
    BY <1>4, <1>5, <2>1 DEF OneOut
<1>7. RestsHere'
  <2> SUFFICES ASSUME NEW i \in 1 .. Len(wire'), wire'[i].kind = "rest"
               PROVE  /\ wire'[i].goal = [at |-> here, left |-> <<>>]
                      /\ \A j \in 1 .. Len(wire') : j < i => wire'[j].kind # "step"
    BY DEF RestsHere
  <2>1. i \in 1 .. Len(before) /\ wire'[i] = before[i]
    BY <1>1, <1>2
  <2>2. \A j \in 1 .. Len(wire') : j < i => j \in 1 .. Len(before) /\ wire'[j] = before[j]
    <3>1. PICK l \in Nat : l = Len(before)
      BY <1>1
    <3>2. i \in 1 .. l
      BY <2>1, <3>1
    <3>3. \A j \in 1 .. Len(wire') : j < i => j \in 1 .. l
      BY <3>2
    <3>4. \A j \in 1 .. Len(wire') : j < i => j # l + 1
      BY <3>2
    <3> QED
      BY <1>2, <3>1, <3>3, <3>4
  <2> QED
    BY <2>1, <2>2 DEF Quietly
<1>8. StepAims'
  <2>1. \A i \in 1 .. Len(wire') : wire'[i].kind = "step" => wire'[i].dir = d
    BY <1>1, <1>2 DEF Quietly
  <2> QED
    BY <2>1 DEF StepAims, Free, Landings
<1> QED
  BY <1>6, <1>7, <1>8 DEF Calmly

LEMMA SendsCalmly ==
  ASSUME Types, NEW going, NEW at \in Places, NEW seen \in Views, NEW before,
         Goes(going), Lines(before), SendNext(going, at, seen, before),
         going.aim.at = here, Quietly(before), Free(answers', Landings), here' = here
  PROVE  Calmly'
<1>1. here \in Rooms
  BY DEF Types, TypeOK
<1>2. PICK d \in Dirs : /\ wire' = Append(before, Sent("step", d, NoAim))
                        /\ Sent("step", d, NoAim) \in SentType
                        /\ walk'.aim.at = Beyond(here, d)
  BY <1>1, SendsStep
<1>3. flight'.up
  BY SendsStep
<1> QED
  BY <1>2, <1>3, StepCalmly

LEMMA SendsWalker ==
  ASSUME Types, NEW going, NEW at \in Places, NEW seen \in Views, NEW before,
         Goes(going), Lines(before), SendNext(going, at, seen, before),
         next' \in Plans \cup {NoPlan}, paced' \in Seq(SentType),
         going.plan.rooms # <<>> => at = Planned(going) /\ at # NoRoom
  PROVE  Walker' /\ LeftFrom(walk', flight', at) /\ flight'.up
<1>1. PICK d \in Dirs : /\ wire' = Append(before, Sent("step", d, NoAim))
                        /\ Sent("step", d, NoAim) \in SentType
  BY SendsStep
<1>2. Lines(wire')
  <2>1. Sent("step", d, NoAim).dir = d
    BY DEF Sent
  <2> QED
    BY <1>1, <2>1, AppendLines
<1>3. /\ walk' \in WalkType /\ WalkOK' /\ AimKept'
      /\ walk'.plan = going.plan /\ walk'.done = going.done
      /\ flight'.up /\ flight'.from = at
      /\ flight' \in [up : BOOLEAN, from : Places, expect : Places]
      /\ walk'.plan.rooms # <<>> => flight'.expect = walk'.plan.rooms[walk'.done + 1]
  BY SendsStep
<1>4. Walker'
  BY <1>2, <1>3 DEF Walker, Lines
<1>5. LeftFrom(walk', flight', at)
  BY <1>3 DEF LeftFrom, Planned
<1> QED
  BY <1>3, <1>4, <1>5

-----------------------------------------------------------------------------
(* A step lands.                                                           *)

\* All is quiet once the answer to the step is read.
Quiet(arrived) ==
    /\ Quietly(wire) /\ Free(answers', Landings) /\ here' = here
    /\ walk # NoWalk /\ arrived => walk.aim.at = here

LEMMA NoWalkWalks ==
  ASSUME Types, walk' = NoWalk, next' \in Plans \cup {NoPlan},
         flight' \in [up : BOOLEAN, from : Places, expect : Places],
         paced' \in Seq(SentType), Lines(wire')
  PROVE  Walker'
BY NoAimForm DEF Walker, WalkOK, AimKept

LEMMA HandsOn ==
  ASSUME Types, NEW at \in Places, NEW seen \in Views, NEW before, Lines(before),
         HandOver(at, seen, before), paced' \in Seq(SentType)
  PROVE  /\ Walker' /\ LeftFrom(walk', flight', at)
         /\ Quietly(before) /\ Free(answers', Landings) /\ here' = here => Calmly'
<1>1. next' = NoPlan /\ here \in Rooms /\ next \in Plans \cup {NoPlan}
  BY DEF HandOver, Types, TypeOK
<1>2. CASE next # NoPlan /\ Accepts(next, at) /\ SendNext(Begun(next), at, seen, before)
  <2>1. PICK plan \in Plans : plan = next
    BY <1>1, <1>2
  <2>2. /\ Goes(Begun(plan)) /\ Begun(plan).plan = plan /\ Begun(plan).done = 0
        /\ Begun(plan).aim.at = here
    BY <1>1, BegunGoes
  <2>3. plan.rooms # <<>> => at = Planned(Begun(plan)) /\ at # NoRoom
    BY <1>2, <2>1, <2>2, PlanForm DEF Accepts, Planned
  <2>4. SendNext(Begun(plan), at, seen, before)
    BY <1>2, <2>1
  <2>5. Walker' /\ LeftFrom(walk', flight', at)
    BY <1>1, <2>2, <2>3, <2>4, SendsWalker
  <2>6. Quietly(before) /\ Free(answers', Landings) /\ here' = here => Calmly'
    BY <2>2, <2>4, SendsCalmly
  <2> QED
    BY <2>5, <2>6
<1>3. CASE walk' = NoWalk /\ flight' = NoFlight /\ wire' = before
  <2>1. flight' \in [up : BOOLEAN, from : Places, expect : Places] /\ ~flight'.up
    BY <1>3 DEF NoFlight, Places
  <2>2. Walker'
    BY <1>1, <1>3, <2>1, NoWalkWalks
  <2>3. LeftFrom(walk', flight', at)
    BY <1>3, <2>1 DEF LeftFrom
  <2>4. Quietly(before) /\ Free(answers', Landings) /\ here' = here => Calmly'
    BY <1>3, StaysQuiet
  <2> QED
    BY <2>2, <2>3, <2>4
<1> QED
  BY <1>2, <1>3 DEF HandOver

\* The rest of the line leaves for the room the walk led to.
LEMMA RestForm ==
  ASSUME Types, AimKept, walk # NoWalk, LastStep
  PROVE  /\ Sent("rest", "none", walk.aim) \in SentType
         /\ walk.aim.at = here => walk.aim = [at |-> here, left |-> <<>>]
<1>1. walk \in WalkType /\ walk.aim \in Aims /\ walk.plan \in Plans /\ walk.done \in Nat
  BY DEF Types, TypeOK, WalkOK, WalkType
<1>2. Sent("rest", "none", walk.aim) \in SentType
  BY <1>1 DEF Sent, SentType
<1>3. walk.aim.left = <<>>
  <2>1. PICK k \in Nat : k = walk.done
    BY <1>1
  <2>2. PICK l \in Nat : l = Len(walk.plan.steps)
    BY <1>1, PlanForm
  <2>3. Len(walk.aim.left) = l - k - 1 /\ k + 1 = l
    BY <2>1, <2>2 DEF AimKept, LastStep
  <2>4. walk.aim.left \in Seq(Dirs) /\ Len(walk.aim.left) = 0
    BY <1>1, <2>3 DEF Aims
  <2> QED
    BY <2>4
<1>4. walk.aim = [at |-> walk.aim.at, left |-> walk.aim.left]
  BY <1>1 DEF Aims
<1> QED
  BY <1>2, <1>3, <1>4

LEMMA LetsGo ==
  ASSUME Types, AimKept, walk # NoWalk, LastStep, NEW at \in Places, NEW seen \in Views,
         LetGo(at, seen)
  PROVE  /\ Walker' /\ LeftFrom(walk', flight', at)
         /\ Quiet(TRUE) => Calmly'
<1> DEFINE held == Sent("rest", "none", walk.aim)
<1>1. Lines(wire) /\ paced \in Seq(SentType)
  BY DEF Types, Lines
<1>2. held \in SentType /\ (walk.aim.at = here => walk.aim = [at |-> here, left |-> <<>>])
  BY RestForm
<1>3. held.kind = "rest" /\ held.goal = walk.aim
  BY DEF Sent
<1>4. LetGo(at, seen) =>
         \/ HandOver(at, seen, wire) /\ paced' = paced
         \/ HandOver(at, seen, Append(wire, held)) /\ paced' = paced
         \/ HandOver(at, seen, wire) /\ paced' = Append(paced, held)
  BY DEF LetGo
<1> HIDE DEF held
<1>5. Append(paced, held) \in Seq(SentType) /\ Lines(Append(wire, held))
  BY <1>1, <1>2, <1>3, AppendLines
<1>6. Quiet(TRUE) => Quietly(Append(wire, held))
  BY <1>1, <1>2, <1>3, AppendQuietly DEF Quiet
<1>7. CASE HandOver(at, seen, wire) /\ paced' \in Seq(SentType)
  BY <1>1, <1>7, HandsOn DEF Quiet
<1>8. CASE HandOver(at, seen, Append(wire, held)) /\ paced' = paced
  BY <1>1, <1>5, <1>6, <1>8, HandsOn DEF Quiet
<1> QED
  BY <1>1, <1>4, <1>5, <1>7, <1>8

\* However a step lands, what is left is a step in flight from the room at,
\* or no walk, and all is as calm as before.
LEMMA Lands ==
  ASSUME Types, AimKept, FlightKnows, flight.up, NEW arrived \in BOOLEAN,
         NEW at \in Places, arrived => flight.expect \in {NoRoom, at},
         NEW seen \in Views, Landed(arrived, at, seen)
  PROVE  /\ Walker' /\ LeftFrom(walk', flight', at)
         /\ Quiet(arrived) => Calmly'
<1>1. Lines(wire) /\ paced \in Seq(SentType)
  BY DEF Types, Lines
<1>2. CASE walk # NoWalk /\ arrived /\ LastStep /\ LetGo(at, seen)
  BY <1>2, LetsGo DEF Quiet
<1>3. CASE /\ walk # NoWalk /\ arrived /\ ~LastStep /\ next = NoPlan
           /\ SendNext([walk EXCEPT !.done = @ + 1], at, seen, wire)
           /\ UNCHANGED <<next, paced>>
  <2> DEFINE going == [walk EXCEPT !.done = @ + 1]
  <2>1. walk \in WalkType /\ walk.plan \in Plans /\ walk.aim \in Aims
        /\ walk.done \in 0 .. Len(walk.plan.steps) - 1
    BY <1>3 DEF Types, TypeOK, WalkOK, WalkType
  <2>2. going \in WalkType /\ going.plan = walk.plan /\ going.aim = walk.aim
        /\ going.done = walk.done + 1
    BY <2>1 DEF WalkType
  <2> HIDE DEF going
  <2>3. PICK k \in Nat : k = walk.done
    BY <2>1
  <2>4. PICK l \in Nat : l = Len(walk.plan.steps)
    BY <2>1, PlanForm
  <2>5. k + 1 \in 1 .. l - 1
    BY <1>3, <2>1, <2>3, <2>4 DEF LastStep
  <2>6. Goes(going)
    <3>1. going.done + 1 \in 1 .. Len(going.plan.steps)
      BY <2>2, <2>3, <2>4, <2>5
    <3>2. /\ Len(walk.aim.left) = l - k - 1
          /\ \A i \in 1 .. Len(walk.aim.left) : walk.aim.left[i] = walk.plan.steps[k + 1 + i]
      BY <1>3, <2>3, <2>4 DEF AimKept
    <3>3. l - k - 1 = l - (k + 1)
      OBVIOUS
    <3> QED
      BY <2>1, <2>2, <2>3, <2>4, <3>1, <3>2, <3>3 DEF Goes
  <2>7. going.plan.rooms # <<>> => at = Planned(going) /\ at # NoRoom
    <3> SUFFICES ASSUME walk.plan.rooms # <<>>
                 PROVE  at = Planned(going) /\ at # NoRoom
      BY <2>2
    <3>1. flight.expect = walk.plan.rooms[k + 1]
      BY <1>3, <2>3 DEF FlightKnows
    <3>2. walk.plan.rooms[k + 1] \in Rooms
      BY <2>1, <2>4, <2>5, PlanForm
    <3>3. NoRoom \notin Rooms
      BY WalkAssumption
    <3>4. at = walk.plan.rooms[k + 1] /\ at # NoRoom
      BY <1>3, <3>1, <3>2, <3>3
    <3>5. Planned(going) = walk.plan.rooms[k + 1]
      BY <2>2, <2>3 DEF Planned
    <3> QED
      BY <3>4, <3>5
  <2>8. SendNext(going, at, seen, wire)
    BY <1>3 DEF going
  <2>9. next' \in Plans \cup {NoPlan} /\ paced' \in Seq(SentType)
    BY <1>1, <1>3 DEF Types, TypeOK
  <2>10. Walker' /\ LeftFrom(walk', flight', at)
    BY <1>1, <2>6, <2>7, <2>8, <2>9, SendsWalker
  <2>11. Quiet(arrived) => Calmly'
    BY <1>1, <1>3, <2>2, <2>6, <2>8, SendsCalmly DEF Quiet
  <2> QED
    BY <2>10, <2>11
<1>4. CASE HandOver(at, seen, wire) /\ UNCHANGED paced
  BY <1>1, <1>4, HandsOn DEF Quiet
<1> QED
  BY <1>2, <1>3, <1>4 DEF Landed

-----------------------------------------------------------------------------
(* The parts of the invariant.                                             *)

Knows == WaitsForLanding /\ FlightKnows

\* What the game said, as far as it was read and further.
Heard ==
    /\ answers \in Seq(SaidType)
    /\ \A i \in 1 .. Len(answers) : answers[i].kind = "room" => answers[i].num \in Rooms
    /\ room \in Places /\ exits \in Views /\ fresh \in Views
    /\ room = NoRoom => exits = NoTiles
    /\ TilesBefore

World ==
    /\ here \in Rooms /\ calm \in BOOLEAN
    /\ walks \in 0 .. Walks /\ typings \in 0 .. Typings /\ mischiefs \in 0 .. Mischiefs

LEMMA PartsOf ==
  WInv <=> Walker /\ Knows /\ Heard /\ World /\ (calm => Calmly /\ RoomHere)
<1>1. Types /\ AimKept /\ TilesBefore <=> Walker /\ Heard /\ World
  BY DEF Types, TypeOK, Walker, Heard, World, Lines, Places, Views
<1> QED
  BY <1>1 DEF WInv, Knows, Calmly

LEMMA PartsNext ==
  WInv' <=> Walker' /\ Knows' /\ Heard' /\ World' /\ (calm' => Calmly' /\ RoomHere')
<1>1. (Types /\ AimKept /\ TilesBefore)' <=> Walker' /\ Heard' /\ World'
  BY DEF Types, TypeOK, Walker, Heard, World, Lines, Places, Views
<1> QED
  BY <1>1 DEF WInv, Knows, Calmly

-----------------------------------------------------------------------------
(* What the game says.                                                     *)

\* Tiles come right before the room they are of.
Tiling(c) == \A i \in 1 .. Len(c) : c[i].kind = "tiles" =>
    /\ i + 1 \in 1 .. Len(c) /\ c[i + 1].kind = "room"
    /\ c[i].tiles = TilesOf(c[i + 1].num)

\* The tiles that were read are of the room that is read next.
NextIs(tiles, c) == tiles # NoTiles =>
    /\ c # <<>> /\ Head(c).kind = "room" /\ tiles = TilesOf(Head(c).num)

Rightly(c) ==
    /\ c \in Seq(SaidType)
    /\ \A i \in 1 .. Len(c) : c[i].kind = "room" => c[i].num \in Rooms

LEMMA HeardForm ==
  Heard <=> /\ Rightly(answers) /\ Tiling(answers) /\ NextIs(fresh, answers)
            /\ room \in Places /\ exits \in Views /\ fresh \in Views
            /\ room = NoRoom => exits = NoTiles
            /\ room # NoRoom /\ exits # NoTiles => exits = TilesOf(room)
BY DEF Heard, TilesBefore, Rightly, Tiling, NextIs

LEMMA HeardNext ==
  Heard' <=> /\ Rightly(answers') /\ Tiling(answers') /\ NextIs(fresh', answers')
             /\ room' \in Places /\ exits' \in Views /\ fresh' \in Views
             /\ room' = NoRoom => exits' = NoTiles
             /\ room' # NoRoom /\ exits' # NoTiles => exits' = TilesOf(room')
BY DEF Heard, TilesBefore, Rightly, Tiling, NextIs

LEMMA TilesForm ==
  /\ NoTiles \in Views
  /\ \A r \in Rooms : TilesOf(r) \in Views
  /\ \A r \in Rooms, d \in Dirs : Beyond(r, d) \in Places /\ TilesOf(r)[d] = Beyond(r, d)
<1>1. NoTiles \in Views
  BY DEF NoTiles, Views, Places
<1>2. \A r \in Rooms, d \in Dirs : Exit[r, d] \in Places
  BY WalkAssumption, Zenon DEF Places
<1>3. \A r \in Rooms, d \in Dirs : Beyond(r, d) \in Places /\ TilesOf(r)[d] = Beyond(r, d)
  BY <1>2, Zenon DEF Beyond, TilesOf
<1>4. \A r \in Rooms : TilesOf(r) \in Views
  BY <1>2, Zenon DEF TilesOf, Views
<1> QED
  BY <1>1, <1>3, <1>4

LEMMA SaysForm ==
  ASSUME NEW kind \in Landings \cup {"tiles", "fight"}, NEW num \in Places,
         NEW tiles \in Views
  PROVE  /\ Says(kind, num, tiles) \in SaidType
         /\ Says(kind, num, tiles).kind = kind /\ Says(kind, num, tiles).num = num
         /\ Says(kind, num, tiles).tiles = tiles
BY DEF Says, SaidType

\* One more message, which is no tiles.
LEMMA MoreSaid ==
  ASSUME NEW c, Rightly(c), Tiling(c), NEW m \in SaidType, m.kind # "tiles",
         m.kind = "room" => m.num \in Rooms
  PROVE  /\ Rightly(Append(c, m)) /\ Tiling(Append(c, m))
         /\ \A tiles : NextIs(tiles, c) => NextIs(tiles, Append(c, m))
<1> DEFINE e == Append(c, m)
<1>1. /\ c \in Seq(SaidType) /\ e \in Seq(SaidType) /\ Len(c) \in Nat /\ Len(e) = Len(c) + 1
      /\ e[Len(c) + 1] = m /\ \A i \in 1 .. Len(c) : e[i] = c[i]
      /\ c # <<>> => e # <<>> /\ Head(e) = Head(c)
  BY DEF Rightly
<1> HIDE DEF e
<1>2. \A i \in 1 .. Len(e) : i \in 1 .. Len(c) \/ i = Len(c) + 1
  BY <1>1
<1>3. \A i \in 1 .. Len(c) : i \in 1 .. Len(e)
  BY <1>1
<1>4. Rightly(e)
  BY <1>1, <1>2 DEF Rightly
<1>5. Tiling(e)
  BY <1>1, <1>2, <1>3 DEF Tiling
<1>6. \A tiles : NextIs(tiles, c) => NextIs(tiles, e)
  BY <1>1 DEF NextIs
<1> QED
  BY <1>4, <1>5, <1>6 DEF e

\* Tiles with the room they are of.
LEMMA MoreTiles ==
  ASSUME NEW c, Rightly(c), Tiling(c), NEW t \in SaidType, t.kind = "tiles",
         NEW m \in SaidType, m.kind = "room", m.num \in Rooms, t.tiles = TilesOf(m.num)
  PROVE  /\ Rightly(Append(Append(c, t), m)) /\ Tiling(Append(Append(c, t), m))
         /\ \A tiles : NextIs(tiles, c) => NextIs(tiles, Append(Append(c, t), m))
<1> DEFINE e == Append(Append(c, t), m)
<1>0. c \in Seq(SaidType)
  BY DEF Rightly
<1>1. PICK l \in Nat : l = Len(c)
  BY <1>0
<1>2. /\ e \in Seq(SaidType) /\ Len(e) = l + 2
      /\ e[l + 1] = t /\ e[l + 2] = m /\ \A i \in 1 .. l : e[i] = c[i]
      /\ c # <<>> => e # <<>> /\ Head(e) = Head(c)
  <2> DEFINE f == Append(c, t)
  <2>1. /\ f \in Seq(SaidType) /\ Len(f) = l + 1 /\ f[l + 1] = t
        /\ \A i \in 1 .. l : f[i] = c[i]
        /\ c # <<>> => f # <<>> /\ Head(f) = Head(c)
    BY <1>0, <1>1
  <2> HIDE DEF f
  <2>2. /\ Append(f, m) \in Seq(SaidType) /\ Len(Append(f, m)) = l + 2
        /\ Append(f, m)[l + 2] = m
        /\ \A i \in 1 .. l + 1 : Append(f, m)[i] = f[i]
        /\ f # <<>> => Append(f, m) # <<>> /\ Head(Append(f, m)) = Head(f)
    BY <2>1
  <2>3. l + 1 \in 1 .. l + 1 /\ \A i \in 1 .. l : i \in 1 .. l + 1
    BY <1>1
  <2> QED
    BY <2>1, <2>2, <2>3 DEF f
<1> HIDE DEF e
<1>3. \A i \in 1 .. Len(e) : i \in 1 .. l \/ i = l + 1 \/ i = l + 2
  BY <1>2
<1>4. \A i \in 1 .. l : i \in 1 .. Len(e)
  BY <1>2
<1>5. l + 2 \in 1 .. Len(e) /\ (l + 1) + 1 = l + 2
  BY <1>2
<1>6. Rightly(e)
  BY <1>0, <1>1, <1>2, <1>3 DEF Rightly
<1>7. Tiling(e)
  <2> SUFFICES ASSUME NEW i \in 1 .. Len(e), e[i].kind = "tiles"
               PROVE  /\ i + 1 \in 1 .. Len(e) /\ e[i + 1].kind = "room"
                      /\ e[i].tiles = TilesOf(e[i + 1].num)
    BY DEF Tiling
  <2>1. CASE i \in 1 .. l
    <3>1. i + 1 \in 1 .. l /\ c[i + 1].kind = "room" /\ c[i].tiles = TilesOf(c[i + 1].num)
      BY <1>1, <1>2, <2>1 DEF Tiling
    <3> QED
      BY <1>2, <1>4, <2>1, <3>1
  <2>2. CASE i = l + 1
    BY <1>2, <1>5, <2>2
  <2> QED
    BY <1>2, <1>3, <2>1, <2>2
<1>8. \A tiles : NextIs(tiles, c) => NextIs(tiles, e)
  BY <1>2 DEF NextIs
<1> QED
  BY <1>6, <1>7, <1>8 DEF e

\* A look.
LEMMA MoreLook ==
  ASSUME NEW c, Rightly(c), Tiling(c), NEW r \in Rooms
  PROVE  /\ Rightly(c \o Look(r)) /\ Tiling(c \o Look(r))
         /\ \A tiles : NextIs(tiles, c) => NextIs(tiles, c \o Look(r))
         /\ Free(c, Landings) =>
                /\ One(c \o Look(r), Landings) /\ ~Free(c \o Look(r), {"room", "unseen"})
                /\ \A i \in 1 .. Len(c \o Look(r)) : (c \o Look(r))[i].kind = "room" =>
                        (c \o Look(r))[i].num = r
<1> DEFINE t == Says("tiles", NoRoom, TilesOf(r))
           m == Says("room", r, NoTiles)
<1>1. /\ t \in SaidType /\ t.kind = "tiles" /\ t.tiles = TilesOf(r)
      /\ m \in SaidType /\ m.kind = "room" /\ m.num = r
  BY SaysForm, TilesForm DEF Places, Landings
<1>2. Look(r) = <<t, m>> \/ Look(r) = <<m>>
  BY DEF Look
<1> HIDE DEF t, m
<1>3. c \in Seq(SaidType)
  BY DEF Rightly
<1>4. CASE Look(r) = <<m>>
  <2>1. c \o Look(r) = Append(c, m)
    BY <1>1, <1>3, <1>4
  <2>2. ASSUME Free(c, Landings)
        PROVE  /\ One(Append(c, m), Landings) /\ ~Free(Append(c, m), {"room", "unseen"})
               /\ \A i \in 1 .. Len(Append(c, m)) : Append(c, m)[i].kind = "room" =>
                        Append(c, m)[i].num = r
    <3>1. One(c, Landings)
      BY <2>2 DEF Free, One
    <3>2. One(Append(c, m), Landings) /\ ~Free(Append(c, m), {"room", "unseen"})
      BY <1>1, <1>3, <2>2, <3>1, AppendKinds
    <3>3. \A i \in 1 .. Len(Append(c, m)) :
                \/ i \in 1 .. Len(c) /\ Append(c, m)[i] = c[i]
                \/ i = Len(c) + 1 /\ Append(c, m)[i] = m
      BY <1>1, <1>3, AppendEach
    <3>4. \A i \in 1 .. Len(Append(c, m)) : Append(c, m)[i].kind = "room" =>
                        Append(c, m)[i].num = r
      BY <1>1, <2>2, <3>3 DEF Free, Landings
    <3> QED
      BY <3>2, <3>4
  <2> QED
    BY <1>1, <2>1, <2>2, MoreSaid
<1>5. CASE Look(r) = <<t, m>>
  <2> DEFINE f == Append(c, t)
             e == Append(f, m)
  <2>1. c \o Look(r) = e
    BY <1>1, <1>3, <1>5
  <2>2. f \in Seq(SaidType)
    BY <1>1, <1>3
  <2>3. ASSUME Free(c, Landings)
        PROVE  /\ One(e, Landings) /\ ~Free(e, {"room", "unseen"})
               /\ \A i \in 1 .. Len(e) : e[i].kind = "room" => e[i].num = r
    <3>1. Free(f, Landings)
      BY <1>1, <1>3, <2>3, AppendKinds DEF Landings
    <3>2. One(f, Landings)
      BY <3>1 DEF Free, One
    <3> HIDE DEF f
    <3>3. One(e, Landings) /\ ~Free(e, {"room", "unseen"})
      BY <1>1, <2>2, <3>1, <3>2, AppendKinds
    <3>4. \A i \in 1 .. Len(e) :
                \/ i \in 1 .. Len(f) /\ e[i] = f[i]
                \/ i = Len(f) + 1 /\ e[i] = m
      BY <1>1, <2>2, AppendEach
    <3> HIDE DEF e
    <3>5. \A i \in 1 .. Len(e) : e[i].kind = "room" => e[i].num = r
      BY <1>1, <3>1, <3>4 DEF Free, Landings
    <3> QED
      BY <3>3, <3>5
  <2>4. /\ Rightly(e) /\ Tiling(e)
        /\ \A tiles : NextIs(tiles, c) => NextIs(tiles, e)
    BY <1>1, MoreTiles
  <2> HIDE DEF e
  <2> QED
    BY <2>1, <2>3, <2>4
<1> QED
  BY <1>2, <1>4, <1>5

\* A line of the game that is no look.
LEMMA MoreLine ==
  ASSUME NEW c, Rightly(c), Tiling(c), NEW kind \in {"failed", "unseen", "fight"}
  PROVE  /\ Rightly(c \o Line(kind)) /\ Tiling(c \o Line(kind))
         /\ \A tiles : NextIs(tiles, c) => NextIs(tiles, c \o Line(kind))
         /\ \A K : Free(c \o Line(kind), K) <=> Free(c, K) /\ kind \notin K
         /\ One(c, Landings) /\ (kind = "fight" \/ Free(c, Landings))
                => One(c \o Line(kind), Landings)
         /\ \A i \in 1 .. Len(c \o Line(kind)) : (c \o Line(kind))[i].kind = "room" =>
                i \in 1 .. Len(c) /\ (c \o Line(kind))[i] = c[i]
<1> DEFINE m == Says(kind, NoRoom, NoTiles)
<1>1. m \in SaidType /\ m.kind = kind
  BY SaysForm, TilesForm DEF Places, Landings
<1>2. Line(kind) = <<m>>
  BY DEF Line
<1> HIDE DEF m
<1>3. c \in Seq(SaidType)
  BY DEF Rightly
<1>4. c \o Line(kind) = Append(c, m)
  BY <1>1, <1>2, <1>3
<1>5. \A K : Free(Append(c, m), K) <=> Free(c, K) /\ kind \notin K
  BY <1>1, <1>3, AppendKinds
<1>6. One(c, Landings) /\ (kind = "fight" \/ Free(c, Landings)) => One(Append(c, m), Landings)
  BY <1>1, <1>3, AppendKinds DEF Landings
<1>7. /\ Rightly(Append(c, m)) /\ Tiling(Append(c, m))
      /\ \A tiles : NextIs(tiles, c) => NextIs(tiles, Append(c, m))
  BY <1>1, MoreSaid
<1>8. \A i \in 1 .. Len(Append(c, m)) :
                \/ i \in 1 .. Len(c) /\ Append(c, m)[i] = c[i]
                \/ i = Len(c) + 1 /\ Append(c, m)[i] = m
  BY <1>1, <1>3, AppendEach
<1> QED
  BY <1>1, <1>4, <1>5, <1>6, <1>7, <1>8

\* What is read leaves the rest as it was.
LEMMA LessSaid ==
  ASSUME NEW c, c # <<>>, Rightly(c), Tiling(c)
  PROVE  /\ Rightly(Tail(c)) /\ Tiling(Tail(c))
         /\ Head(c) \in SaidType /\ (Head(c).kind = "room" => Head(c).num \in Rooms)
         /\ Head(c).kind = "tiles" => NextIs(Head(c).tiles, Tail(c))
<1> DEFINE e == Tail(c)
<1>1. /\ c \in Seq(SaidType) /\ e \in Seq(SaidType) /\ Head(c) \in SaidType
      /\ \A i \in 1 .. Len(e) : i + 1 \in 1 .. Len(c) /\ e[i] = c[i + 1]
      /\ Len(e) = Len(c) - 1 /\ 1 \in 1 .. Len(c) /\ c[1] = Head(c)
  BY TailKinds DEF Rightly
<1>3. e # <<>> => Len(e) # 0 /\ Head(e) = e[1]
  BY <1>1
<1> HIDE DEF e
<1>2. PICK l \in Nat : l = Len(c)
  <2>1. c \in Seq(SaidType)
    BY <1>1
  <2> QED
    BY <2>1
<1>4. Rightly(e) /\ (Head(c).kind = "room" => Head(c).num \in Rooms)
  BY <1>1 DEF Rightly
<1>5. Tiling(e)
  <2> SUFFICES ASSUME NEW i \in 1 .. Len(e), e[i].kind = "tiles"
               PROVE  /\ i + 1 \in 1 .. Len(e) /\ e[i + 1].kind = "room"
                      /\ e[i].tiles = TilesOf(e[i + 1].num)
    BY DEF Tiling
  <2>1. /\ i + 1 \in 1 .. Len(c) /\ e[i] = c[i + 1] /\ (i + 1) + 1 \in 1 .. Len(c)
        /\ c[(i + 1) + 1].kind = "room" /\ c[i + 1].tiles = TilesOf(c[(i + 1) + 1].num)
    BY <1>1 DEF Tiling
  <2>2. i + 1 \in 1 .. Len(e)
    BY <1>1, <1>2, <2>1
  <2> QED
    BY <1>1, <2>1, <2>2
<1>6. ASSUME Head(c).kind = "tiles"
      PROVE  NextIs(Head(c).tiles, e)
  <2>1. /\ 1 + 1 \in 1 .. Len(c) /\ c[1 + 1].kind = "room"
        /\ c[1].tiles = TilesOf(c[1 + 1].num)
    BY <1>1, <1>6 DEF Tiling
  <2>2. 1 \in 1 .. Len(e)
    BY <1>1, <1>2, <2>1
  <2>3. e # <<>> /\ Head(e) = e[1] /\ e[1] = c[1 + 1]
    BY <1>1, <2>2
  <2> QED
    BY <1>1, <2>1, <2>3 DEF NextIs
<1> QED
  BY <1>1, <1>4, <1>5, <1>6 DEF e

-----------------------------------------------------------------------------
(* Steps that leave some parts alone.                                      *)

\* The answers that are read are no landings, or the walk is over.
LEMMA CalmRead ==
  ASSUME Calmly, answers # <<>>, answers \in Seq(SaidType), answers' = Tail(answers),
         walk' \in {walk, NoWalk}, UNCHANGED <<flight, wire, here>>
  PROVE  Calmly'
<1>1. /\ \A K : Free(answers, K) => Free(answers', K)
      /\ One(answers, Landings) => One(answers', Landings)
      /\ \A i \in 1 .. Len(answers') : i + 1 \in 1 .. Len(answers) /\ answers'[i] = answers[i + 1]
  BY TailKinds
<1>2. OneOut'
  BY <1>1 DEF Calmly, OneOut
<1>3. RestsHere'
  BY DEF Calmly, RestsHere
<1>4. StepAims'
  BY <1>1 DEF Calmly, StepAims
<1> QED
  BY <1>2, <1>3, <1>4 DEF Calmly

LEMMA CalmSame ==
  ASSUME Calmly, walk' \in {walk, NoWalk}, flight'.up \/ UNCHANGED flight \/ StepsOut = 0,
         UNCHANGED <<answers, wire, here>>, Types
  PROVE  Calmly'
<1>1. OneOut'
  BY CountsOut DEF Calmly, OneOut
<1>2. RestsHere'
  BY DEF Calmly, RestsHere
<1>3. StepAims'
  BY DEF Calmly, StepAims
<1> QED
  BY <1>1, <1>2, <1>3 DEF Calmly

\* A step has landed, and all is quiet once its answer is read.
LEMMA QuietOnce ==
  ASSUME Calmly, answers # <<>>, answers \in Seq(SaidType),
         Head(answers).kind \in Landings, answers' = Tail(answers), here' = here
  PROVE  Quietly(wire) /\ Free(answers', Landings) /\ flight.up
<1>1. ~Free(answers, Landings) /\ Free(answers', Landings)
  BY TailKinds DEF Calmly, OneOut
<1>2. Free(wire, {"step"}) /\ flight.up
  BY <1>1 DEF Calmly, OneOut
<1>3. Quietly(wire)
  BY <1>2 DEF Calmly, OneOut, RestsHere, Quietly, Free
<1> QED
  BY <1>1, <1>2, <1>3

LEMMA QuietNow ==
  ASSUME Calmly, ~flight.up
  PROVE  Quietly(wire) /\ Free(answers, Landings)
BY DEF Calmly, OneOut, RestsHere, Quietly, Free

LEMMA WalkerSame ==
  ASSUME Walker, UNCHANGED <<walk, next, flight, paced, wire>>
  PROVE  Walker'
BY DEF Walker, WalkOK, AimKept, Lines

LEMMA KnowsSame ==
  ASSUME Knows, UNCHANGED <<walk, next, flight, room>>
  PROVE  Knows'
BY DEF Knows, WaitsForLanding, FlightKnows

LEMMA HeardSame ==
  ASSUME Heard, UNCHANGED <<answers, room, exits, fresh>>
  PROVE  Heard'
BY DEF Heard, TilesBefore

LEMMA WorldSame ==
  ASSUME World, UNCHANGED <<here, calm, walks, typings, mischiefs>>
  PROVE  World'
BY DEF World

\* No walk, and none that waits.
LEMMA StopsWalker ==
  ASSUME Walker, Stops, Lines(wire'), paced' \in Seq(SentType),
         flight' \in [up : BOOLEAN, from : Places, expect : Places]
  PROVE  Walker'
BY NoAimForm DEF Walker, WalkOK, AimKept, Stops

LEMMA StopsKnows ==
  ASSUME Knows, Stops, ~flight'.up \/ UNCHANGED <<flight, room>>
  PROVE  Knows'
BY DEF Knows, Stops, WaitsForLanding, FlightKnows

LEMMA NoFlightForm ==
  NoFlight \in [up : BOOLEAN, from : Places, expect : Places] /\ ~NoFlight.up
BY DEF NoFlight, Places

\* A landing, seen whole.
LEMMA LandsKnows ==
  ASSUME NEW at, LeftFrom(walk', flight', at), next' = NoPlan \/ flight'.up, room' = at
  PROVE  Knows'
BY DEF LeftFrom, Knows, WaitsForLanding, FlightKnows

LEMMA NextAfter ==
  ASSUME NEW arrived, NEW at, NEW seen, Landed(arrived, at, seen)
  PROVE  next' = NoPlan
BY DEF Landed, LetGo, HandOver

-----------------------------------------------------------------------------
(* What you do.                                                            *)

LEMMA StartWalkKeeps ==
  ASSUME WInv, NEW plan \in Plans, StartWalk(plan)
  PROVE  WInv'
<1>1. Types /\ Walker /\ Knows /\ Heard /\ World /\ (calm => Calmly /\ RoomHere)
  BY PartsOf DEF WInv
<1>2. UNCHANGED <<room, exits, fresh, paced, answers, here, calm, typings, mischiefs>>
      /\ walks < Walks /\ walks' = walks + 1
  BY DEF StartWalk
<1>3. Heard'
  BY <1>1, <1>2, HeardSame
<1>4. World'
  BY <1>1, <1>2, WalkAssumption DEF World
<1>5. CASE flight.up /\ next' = plan /\ UNCHANGED <<walk, flight, wire>>
  <2>1. Walker'
    BY <1>1, <1>2, <1>5 DEF Walker, WalkOK, AimKept, Lines
  <2>2. Knows'
    BY <1>1, <1>2, <1>5 DEF Knows, WaitsForLanding, FlightKnows
  <2>3. calm' => Calmly' /\ RoomHere'
    BY <1>1, <1>2, <1>5, CalmSame DEF RoomHere
  <2> QED
    BY <1>3, <1>4, <2>1, <2>2, <2>3, PartsNext
<1>6. CASE /\ ~flight.up /\ Accepts(plan, room)
           /\ SendNext(Begun(plan), room, exits, wire) /\ UNCHANGED next
  <2>1. /\ Goes(Begun(plan)) /\ Begun(plan).plan = plan /\ Begun(plan).done = 0
        /\ Begun(plan).aim.at = here
    BY <1>1, BegunGoes DEF World
  <2>2. plan.rooms # <<>> => room = Planned(Begun(plan)) /\ room # NoRoom
    BY <1>6, <2>1, PlanForm DEF Accepts, Planned
  <2>3. /\ room \in Places /\ exits \in Views /\ Lines(wire)
        /\ next' \in Plans \cup {NoPlan} /\ paced' \in Seq(SentType)
    BY <1>1, <1>2, <1>6 DEF Heard, Walker
  <2>4. Walker' /\ LeftFrom(walk', flight', room) /\ flight'.up
    BY <1>1, <1>6, <2>1, <2>2, <2>3, SendsWalker
  <2>5. Knows'
    BY <1>2, <2>4, LandsKnows
  <2>6. ASSUME calm' PROVE Calmly' /\ RoomHere'
    <3>1. Calmly /\ RoomHere
      BY <1>1, <1>2, <2>6
    <3>2. Quietly(wire) /\ Free(answers', Landings)
      BY <1>2, <1>6, <3>1, QuietNow
    <3>3. Calmly'
      BY <1>1, <1>2, <1>6, <2>1, <2>3, <3>2, SendsCalmly
    <3> QED
      BY <1>2, <3>1, <3>3 DEF RoomHere
  <2> QED
    BY <1>3, <1>4, <2>4, <2>5, <2>6, PartsNext
<1>7. CASE ~flight.up /\ ~Accepts(plan, room) /\ UNCHANGED <<walk, next, flight, wire>>
  <2>1. Walker'
    BY <1>1, <1>2, <1>7, WalkerSame
  <2>2. Knows'
    BY <1>1, <1>2, <1>7, KnowsSame
  <2>3. calm' => Calmly' /\ RoomHere'
    BY <1>1, <1>2, <1>7, CalmSame DEF RoomHere
  <2> QED
    BY <1>3, <1>4, <2>1, <2>2, <2>3, PartsNext
<1> QED
  BY <1>5, <1>6, <1>7 DEF StartWalk

LEMMA StopWalkKeeps ==
  ASSUME WInv, StopWalk
  PROVE  WInv'
<1>1. Types /\ Walker /\ Knows /\ Heard /\ World /\ (calm => Calmly /\ RoomHere)
  BY PartsOf DEF WInv
<1>2. /\ Stops
      /\ UNCHANGED <<flight, room, exits, fresh, paced, wire, answers, here, calm, counters>>
  BY DEF StopWalk
<1>3. Walker'
  BY <1>1, <1>2, StopsWalker DEF Walker
<1>4. Knows'
  BY <1>1, <1>2, StopsKnows
<1>5. Heard' /\ World'
  BY <1>1, <1>2, HeardSame, WorldSame DEF counters
<1>6. calm' => Calmly' /\ RoomHere'
  BY <1>1, <1>2, CalmSame DEF RoomHere, Stops
<1> QED
  BY <1>3, <1>4, <1>5, <1>6, PartsNext

LEMMA TypeKeeps ==
  ASSUME WInv, NEW kind \in {"move", "look"}, NEW dir, kind = "move" => dir \in Dirs,
         dir \in Dirs \cup {"none"}, Type(kind, dir)
  PROVE  WInv'
<1>1. Walker /\ Knows /\ Heard /\ World
  BY PartsOf
<1>2. /\ Stops /\ ~calm' /\ calm' \in BOOLEAN /\ typings < Typings /\ typings' = typings + 1
      /\ wire' = Append(wire, Sent(kind, dir, NoAim))
      /\ UNCHANGED <<flight, room, exits, fresh, paced, answers, here, walks, mischiefs>>
  BY DEF Type
<1>3. Sent(kind, dir, NoAim) \in SentType
      /\ (Sent(kind, dir, NoAim).kind \in {"step", "move"} => Sent(kind, dir, NoAim).dir \in Dirs)
  BY NoAimForm DEF Sent, SentType
<1>4. Lines(wire')
  BY <1>1, <1>2, <1>3, AppendLines DEF Walker
<1>5. Walker'
  BY <1>1, <1>2, <1>4, StopsWalker DEF Walker
<1>6. Knows'
  BY <1>1, <1>2, StopsKnows
<1>7. Heard'
  BY <1>1, <1>2, HeardSame
<1>8. World'
  BY <1>1, <1>2, WalkAssumption DEF World
<1> QED
  BY <1>2, <1>5, <1>6, <1>7, <1>8, PartsNext

-----------------------------------------------------------------------------
(* What the loop reads.                                                    *)

LEMMA HeardAnswer ==
  ASSUME WInv, NEW kind, Hears(kind)
  PROVE  /\ Types /\ Walker /\ Knows /\ Heard /\ World /\ (calm => Calmly /\ RoomHere)
         /\ answers # <<>> /\ answers' = Tail(answers) /\ Head(answers).kind = kind
         /\ answers \in Seq(SaidType)
         /\ UNCHANGED <<here, calm, walks, typings, mischiefs>> /\ World'
         /\ Rightly(answers') /\ Tiling(answers') /\ Head(answers) \in SaidType
         /\ kind = "room" => Head(answers).num \in Rooms
         /\ kind = "tiles" => NextIs(Head(answers).tiles, answers')
         /\ kind # "room" => fresh = NoTiles
<1>1. Types /\ Walker /\ Knows /\ Heard /\ World /\ (calm => Calmly /\ RoomHere)
  BY PartsOf DEF WInv
<1>2. /\ answers # <<>> /\ answers' = Tail(answers) /\ Head(answers).kind = kind
      /\ UNCHANGED <<here, calm, walks, typings, mischiefs>>
  BY DEF Hears, counters
<1>3. Rightly(answers) /\ Tiling(answers) /\ NextIs(fresh, answers)
  BY <1>1, HeardForm
<1>4. World'
  BY <1>1, <1>2, WorldSame
<1>5. answers \in Seq(SaidType)
  BY <1>1 DEF Heard
<1>6. /\ Rightly(answers') /\ Tiling(answers') /\ Head(answers) \in SaidType
      /\ kind = "room" => Head(answers).num \in Rooms
      /\ kind = "tiles" => NextIs(Head(answers).tiles, answers')
  BY <1>2, <1>3, LessSaid
<1>7. kind # "room" => fresh = NoTiles
  BY <1>2, <1>3 DEF NextIs
<1> QED
  BY <1>1, <1>2, <1>4, <1>5, <1>6, <1>7

\* The room is known until the game answers from another.
LEMMA RoomRead ==
  ASSUME RoomHere, answers # <<>>, answers \in Seq(SaidType), answers' = Tail(answers),
         Head(answers).kind \notin {"room", "unseen"}, UNCHANGED <<room, here>>
  PROVE  RoomHere'
<1>1. Free(answers, {"room", "unseen"}) <=> Free(answers', {"room", "unseen"})
  BY TailKinds
<1> QED
  BY <1>1 DEF RoomHere

LEMMA HearTilesKeeps ==
  ASSUME WInv, HearTiles
  PROVE  WInv'
<1>1. Hears("tiles") /\ fresh' = Head(answers).tiles
      /\ UNCHANGED <<walk, next, flight, room, exits, paced, wire>>
  BY DEF HearTiles
<1>2. /\ Walker /\ Knows /\ Heard /\ (calm => Calmly /\ RoomHere)
      /\ answers # <<>> /\ answers' = Tail(answers) /\ Head(answers).kind = "tiles"
      /\ answers \in Seq(SaidType) /\ UNCHANGED <<here, calm>> /\ World'
      /\ Rightly(answers') /\ Tiling(answers') /\ Head(answers) \in SaidType
      /\ NextIs(Head(answers).tiles, answers')
  BY <1>1, HeardAnswer
<1>3. Walker' /\ Knows'
  BY <1>1, <1>2, WalkerSame, KnowsSame
<1>4. Head(answers).tiles \in Views
  BY <1>2 DEF SaidType
<1>5. Heard'
  BY <1>1, <1>2, <1>4, HeardForm, HeardNext
<1>6. calm' => Calmly' /\ RoomHere'
  BY <1>1, <1>2, CalmRead, RoomRead
<1> QED
  BY <1>2, <1>3, <1>5, <1>6, PartsNext

LEMMA HearRoomKeeps ==
  ASSUME WInv, HearRoom
  PROVE  WInv'
<1>1. PICK num : num = Head(answers).num
  OBVIOUS
<1>2. /\ Hears("room") /\ exits' = fresh /\ fresh' = NoTiles
  BY DEF HearRoom, TakesTiles
<1>3. /\ Types /\ Walker /\ Knows /\ Heard /\ (calm => Calmly /\ RoomHere)
      /\ answers # <<>> /\ answers' = Tail(answers) /\ Head(answers).kind = "room"
      /\ answers \in Seq(SaidType) /\ UNCHANGED <<here, calm>> /\ World'
      /\ Rightly(answers') /\ Tiling(answers') /\ num \in Rooms
  BY <1>1, <1>2, HeardAnswer
<1>4. num \in Places /\ num # NoRoom /\ fresh \in Views
  BY <1>3, WalkAssumption DEF Places, Heard
<1>5. calm => /\ Quietly(wire) /\ Free(answers', Landings) /\ flight.up
              /\ num = here /\ (walk # NoWalk => walk.aim.at = here)
  <2> SUFFICES ASSUME calm
               PROVE  /\ Quietly(wire) /\ Free(answers', Landings) /\ flight.up
                      /\ num = here /\ (walk # NoWalk => walk.aim.at = here)
    OBVIOUS
  <2>1. Quietly(wire) /\ Free(answers', Landings) /\ flight.up
    BY <1>3, QuietOnce DEF Landings
  <2>2. 1 \in 1 .. Len(answers) /\ answers[1] = Head(answers)
    BY <1>3, TailKinds
  <2>3. num = here /\ (walk # NoWalk => walk.aim.at = here)
    BY <1>1, <1>3, <2>2 DEF Calmly, StepAims
  <2> QED
    BY <2>1, <2>3
<1>6. ASSUME room' = num
      PROVE  Heard' /\ (calm' => RoomHere')
  <2>1. fresh # NoTiles => fresh = TilesOf(num)
    BY <1>1, <1>3, HeardForm DEF NextIs
  <2>2. NextIs(fresh', answers')
    BY <1>2 DEF NextIs
  <2>3. Heard'
    BY <1>2, <1>3, <1>4, <1>6, <2>1, <2>2, HeardNext, TilesForm
  <2>4. calm' => RoomHere'
    BY <1>3, <1>5, <1>6 DEF RoomHere
  <2> QED
    BY <2>3, <2>4
<1>7. CASE ~flight.up /\ room' = num /\ UNCHANGED <<walk, next, flight, paced, wire>>
  <2>1. Walker' /\ Knows'
    BY <1>3, <1>7, WalkerSame DEF Knows, WaitsForLanding, FlightKnows
  <2>2. ~calm'
    BY <1>3, <1>5, <1>7
  <2> QED
    BY <1>3, <1>6, <1>7, <2>1, <2>2, PartsNext
<1>8. CASE flight.up /\ flight.from = num /\ UNCHANGED <<walk, next, flight, room, paced, wire>>
  <2>1. Walker' /\ Knows'
    BY <1>3, <1>8, WalkerSame, KnowsSame
  <2>2. room' = num
    BY <1>3, <1>8 DEF Knows, FlightKnows
  <2>3. calm' => Calmly'
    BY <1>3, <1>8, CalmRead
  <2> QED
    BY <1>3, <1>6, <2>1, <2>2, <2>3, PartsNext
<1>9. CASE /\ flight.up /\ flight.from # num /\ room' = num
           /\ Landed(flight.expect \in {NoRoom, num}, num, fresh)
  <2>1. \E arrived \in BOOLEAN :
            Landed(arrived, num, fresh) /\ (arrived => flight.expect \in {NoRoom, num})
    <3> DEFINE came == flight.expect \in {NoRoom, num}
    <3>1. came \in BOOLEAN
      OBVIOUS
    <3>2. Landed(came, num, fresh) /\ (came => flight.expect \in {NoRoom, num})
      BY <1>9
    <3> HIDE DEF came
    <3> QED
      BY <3>1, <3>2
  <2>2. PICK arrived \in BOOLEAN :
            Landed(arrived, num, fresh) /\ (arrived => flight.expect \in {NoRoom, num})
    BY <2>1
  <2>3. /\ Walker' /\ LeftFrom(walk', flight', num)
        /\ Quiet(arrived) => Calmly'
    BY <1>3, <1>4, <1>9, <2>2, Lands DEF Walker, Knows
  <2>4. Knows'
    BY <1>9, <2>2, <2>3, LandsKnows, NextAfter
  <2>5. calm' => Calmly'
    BY <1>3, <1>5, <2>3 DEF Quiet
  <2> QED
    BY <1>3, <1>6, <1>9, <2>3, <2>4, <2>5, PartsNext
<1> QED
  BY <1>1, <1>7, <1>8, <1>9 DEF HearRoom

LEMMA HearFailedKeeps ==
  ASSUME WInv, HearFailed
  PROVE  WInv'
<1>1. Hears("failed") /\ UNCHANGED <<room, exits, fresh>>
  BY DEF HearFailed
<1>2. /\ Types /\ Walker /\ Knows /\ Heard /\ (calm => Calmly /\ RoomHere)
      /\ answers # <<>> /\ answers' = Tail(answers) /\ Head(answers).kind = "failed"
      /\ answers \in Seq(SaidType) /\ UNCHANGED <<here, calm>> /\ World'
      /\ Rightly(answers') /\ Tiling(answers') /\ fresh = NoTiles
  BY <1>1, HeardAnswer
<1>3. Heard'
  <2>1. NextIs(fresh', answers')
    BY <1>1, <1>2 DEF NextIs
  <2> QED
    BY <1>1, <1>2, <2>1, HeardForm, HeardNext
<1>4. calm' => RoomHere'
  BY <1>1, <1>2, RoomRead
<1>5. calm => Quietly(wire) /\ Free(answers', Landings) /\ flight.up
  BY <1>2, QuietOnce DEF Landings
<1>6. CASE ~flight.up /\ UNCHANGED <<walk, next, flight, paced, wire>>
  <2>1. Walker' /\ Knows'
    BY <1>1, <1>2, <1>6, WalkerSame, KnowsSame
  <2> QED
    BY <1>2, <1>3, <1>5, <1>6, <2>1, PartsNext
<1>7. CASE flight.up /\ Landed(FALSE, room, exits)
  <2>1. room \in Places /\ exits \in Views
    BY <1>2 DEF Heard
  <2>2. /\ Walker' /\ LeftFrom(walk', flight', room)
        /\ Quiet(FALSE) => Calmly'
    BY <1>2, <1>7, <2>1, Lands DEF Walker, Knows
  <2>3. Knows'
    BY <1>1, <1>7, <2>2, LandsKnows, NextAfter
  <2>4. calm' => Calmly'
    BY <1>2, <1>5, <2>2 DEF Quiet
  <2> QED
    BY <1>2, <1>3, <1>4, <2>2, <2>3, <2>4, PartsNext
<1> QED
  BY <1>6, <1>7 DEF HearFailed

\* What is heard of no room.
LEMMA HeardNowhere ==
  ASSUME Rightly(answers'), Tiling(answers'), LoseRoom
  PROVE  Heard' /\ RoomHere'
<1>1. NoTiles \in Views /\ NoRoom \in Places
  BY TilesForm DEF Places
<1> QED
  BY <1>1, HeardNext DEF LoseRoom, NextIs, RoomHere

LEMMA HearUnseenKeeps ==
  ASSUME WInv, HearUnseen
  PROVE  WInv'
<1>1. Hears("unseen")
  BY DEF HearUnseen
<1>2. /\ Types /\ Walker /\ Knows /\ Heard /\ (calm => Calmly /\ RoomHere)
      /\ answers # <<>> /\ answers' = Tail(answers) /\ Head(answers).kind = "unseen"
      /\ answers \in Seq(SaidType) /\ UNCHANGED <<here, calm>> /\ World'
      /\ Rightly(answers') /\ Tiling(answers') /\ fresh = NoTiles
  BY <1>1, HeardAnswer
<1>3. calm => Quietly(wire) /\ Free(answers', Landings) /\ flight.up
  BY <1>2, QuietOnce DEF Landings
<1>4. CASE ~flight.up /\ UNCHANGED <<walker, paced, wire>>
  <2>1. UNCHANGED <<walk, next, flight, room, exits, fresh, paced, wire>>
    BY <1>4 DEF walker
  <2>2. Walker' /\ Knows'
    BY <1>2, <2>1, WalkerSame, KnowsSame
  <2>3. NextIs(fresh', answers')
    BY <1>2, <2>1 DEF NextIs
  <2>4. Heard'
    BY <1>2, <2>1, <2>3, HeardForm, HeardNext
  <2> QED
    BY <1>2, <1>3, <1>4, <2>2, <2>4, PartsNext
<1>5. CASE flight.up /\ LoseRoom /\ Landed(FALSE, NoRoom, NoTiles)
  <2>1. NoRoom \in Places /\ NoTiles \in Views
    BY TilesForm DEF Places
  <2>2. /\ Walker' /\ LeftFrom(walk', flight', NoRoom)
        /\ Quiet(FALSE) => Calmly'
    BY <1>2, <1>5, <2>1, Lands DEF Walker, Knows
  <2>3. Knows'
    BY <1>5, <2>2, LandsKnows, NextAfter DEF LoseRoom
  <2>4. calm' => Calmly'
    BY <1>2, <1>3, <2>2 DEF Quiet
  <2>5. Heard' /\ RoomHere'
    BY <1>2, <1>5, HeardNowhere
  <2> QED
    BY <1>2, <2>2, <2>3, <2>4, <2>5, PartsNext
<1> QED
  BY <1>4, <1>5 DEF HearUnseen

LEMMA HearFightKeeps ==
  ASSUME WInv, HearFight
  PROVE  WInv'
<1>1. Hears("fight") /\ Stops /\ UNCHANGED <<flight, room, exits, fresh, paced, wire>>
  BY DEF HearFight
<1>2. /\ Walker /\ Knows /\ Heard /\ (calm => Calmly /\ RoomHere)
      /\ answers # <<>> /\ answers' = Tail(answers) /\ Head(answers).kind = "fight"
      /\ answers \in Seq(SaidType) /\ UNCHANGED <<here, calm>> /\ World'
      /\ Rightly(answers') /\ Tiling(answers') /\ fresh = NoTiles
  BY <1>1, HeardAnswer
<1>3. Walker'
  BY <1>1, <1>2, StopsWalker DEF Walker
<1>4. Knows'
  BY <1>1, <1>2, StopsKnows
<1>5. NextIs(fresh', answers')
  BY <1>1, <1>2 DEF NextIs
<1>6. Heard'
  BY <1>1, <1>2, <1>5, HeardForm, HeardNext
<1>7. calm' => Calmly' /\ RoomHere'
  BY <1>1, <1>2, CalmRead, RoomRead DEF Stops
<1> QED
  BY <1>2, <1>3, <1>4, <1>6, <1>7, PartsNext

LEMMA ExpireKeeps ==
  ASSUME WInv, Expire
  PROVE  WInv'
<1>1. Types /\ Walker /\ Knows /\ Heard /\ World /\ (calm => Calmly /\ RoomHere)
  BY PartsOf DEF WInv
<1>2. /\ flight' = NoFlight /\ LoseRoom /\ Stops /\ calm' = (calm /\ StepsOut = 0)
      /\ UNCHANGED <<paced, wire, answers, here, walks, typings, mischiefs>>
  BY DEF Expire, counters
<1>3. Walker'
  BY <1>1, <1>2, StopsWalker, NoFlightForm DEF Walker
<1>4. Knows'
  BY <1>1, <1>2, StopsKnows, NoFlightForm
<1>5. Heard' /\ RoomHere'
  BY <1>1, <1>2, HeardForm, HeardNowhere
<1>6. calm' \in BOOLEAN
  BY <1>2
<1>7. World'
  BY <1>1, <1>2, <1>6 DEF World
<1>8. calm' => Calmly'
  <2> SUFFICES ASSUME calm' PROVE Calmly'
    OBVIOUS
  <2>1. calm /\ StepsOut = 0
    BY <1>2
  <2> QED
    BY <1>1, <1>2, <2>1, CalmSame DEF Stops
<1> QED
  BY <1>3, <1>4, <1>5, <1>7, <1>8, PartsNext

LEMMA PacedGoesKeeps ==
  ASSUME WInv, PacedGoes
  PROVE  WInv'
<1>1. Walker /\ Knows /\ Heard /\ World /\ (calm => Calmly /\ RoomHere)
  BY PartsOf
<1> DEFINE m == Sent("late", "none", NoAim)
<1>2. m \in SentType /\ m.kind = "late"
  BY NoAimForm DEF Sent, SentType
<1>3. /\ paced # <<>> /\ paced' = Tail(paced) /\ wire' = Append(wire, m)
      /\ UNCHANGED <<walk, next, flight, room, exits, fresh, answers, here, calm,
                     walks, typings, mischiefs>>
  BY DEF PacedGoes, walker, counters
<1> HIDE DEF m
<1>4. wire \in Seq(SentType) /\ Lines(wire)
  BY <1>1 DEF Walker, Lines
<1>5. Lines(wire')
  BY <1>2, <1>3, <1>4, AppendLines
<1>6. paced' \in Seq(SentType)
  BY <1>1, <1>3 DEF Walker
<1>7. Walker'
  BY <1>1, <1>3, <1>5, <1>6 DEF Walker, WalkOK, AimKept
<1>8. Knows' /\ Heard' /\ World'
  BY <1>1, <1>3, KnowsSame, HeardSame, WorldSame
<1>9. calm' => Calmly' /\ RoomHere'
  <2> SUFFICES ASSUME calm PROVE Calmly' /\ RoomHere'
    BY <1>3
  <2>1. Calmly /\ RoomHere
    BY <1>1
  <2>2. PICK l \in Nat : l = Len(wire)
    BY <1>4
  <2>3. \A i \in 1 .. Len(wire') :
            (i \in 1 .. l /\ wire'[i] = wire[i]) \/ (i = l + 1 /\ wire'[i] = m)
    BY <1>2, <1>3, <1>4, <2>2, AppendEach
  <2>4. /\ Free(wire', {"step"}) <=> Free(wire, {"step"})
        /\ One(wire, {"step"}) => One(wire', {"step"})
    BY <1>2, <1>3, <1>4, AppendKinds
  <2>5. OneOut'
    <3>1. \A i \in 1 .. Len(wire') : wire'[i].kind \in {"step", "rest", "late"}
      BY <1>2, <2>1, <2>2, <2>3 DEF Calmly, OneOut
    <3> QED
      BY <1>3, <2>1, <2>4, <3>1 DEF Calmly, OneOut
  <2>6. RestsHere'
    <3> SUFFICES ASSUME NEW i \in 1 .. Len(wire'), wire'[i].kind = "rest"
                 PROVE  /\ wire'[i].goal = [at |-> here, left |-> <<>>]
                        /\ \A j \in 1 .. Len(wire') : j < i => wire'[j].kind # "step"
      BY <1>3 DEF RestsHere
    <3>1. i \in 1 .. l /\ wire'[i] = wire[i]
      BY <1>2, <2>3
    <3>2. \A j \in 1 .. Len(wire') : j < i => j # l + 1
      BY <3>1
    <3>3. \A j \in 1 .. Len(wire') : j < i => j \in 1 .. l /\ wire'[j] = wire[j]
      BY <2>3, <3>2
    <3> QED
      BY <2>1, <2>2, <3>1, <3>3 DEF Calmly, RestsHere
  <2>7. StepAims'
    <3>1. \A i \in 1 .. Len(wire') : wire'[i].kind = "step" =>
                i \in 1 .. Len(wire) /\ wire'[i] = wire[i]
      BY <1>2, <2>2, <2>3
    <3> QED
      BY <1>3, <2>1, <3>1 DEF Calmly, StepAims
  <2>8. RoomHere'
    BY <1>3, <2>1 DEF RoomHere
  <2> QED
    BY <2>5, <2>6, <2>7, <2>8 DEF Calmly
<1> QED
  BY <1>7, <1>8, <1>9, PartsNext

\* Nothing is under way.
LEMMA NothingOut ==
  ASSUME wire' = <<>>, answers' = <<>>
  PROVE  Calmly' /\ Lines(wire') /\ Rightly(answers') /\ Tiling(answers')
<1>1. wire' \in Seq(SentType) /\ answers' \in Seq(SaidType)
  OBVIOUS
<1>2. \A i \in 1 .. Len(wire') : FALSE
  OBVIOUS
<1>3. \A i \in 1 .. Len(answers') : FALSE
  OBVIOUS
<1>4. OneOut'
  BY <1>2, <1>3 DEF OneOut, One, Free
<1>5. RestsHere' /\ StepAims'
  BY <1>2, <1>3 DEF RestsHere, StepAims
<1>6. Lines(wire') /\ Rightly(answers') /\ Tiling(answers')
  BY <1>1, <1>2, <1>3 DEF Lines, Rightly, Tiling
<1> QED
  BY <1>4, <1>5, <1>6 DEF Calmly

LEMMA ReconnectsKeeps ==
  ASSUME WInv, Reconnects
  PROVE  WInv'
<1>1. Walker /\ Knows /\ Heard /\ World
  BY PartsOf
<1>2. /\ Stops /\ flight' = NoFlight /\ LoseRoom /\ paced' = <<>>
      /\ wire' = <<>> /\ answers' = <<>> /\ calm' = TRUE
      /\ UNCHANGED <<here, walks, typings, mischiefs>>
  BY DEF Reconnects, Stops, counters
<1>3. Calmly' /\ Lines(wire') /\ Rightly(answers') /\ Tiling(answers')
  BY <1>2, NothingOut
<1>4. paced' \in Seq(SentType)
  BY <1>2
<1>5. Walker'
  BY <1>1, <1>2, <1>3, <1>4, StopsWalker, NoFlightForm
<1>6. Knows'
  BY <1>1, <1>2, StopsKnows, NoFlightForm
<1>7. Heard' /\ RoomHere'
  BY <1>2, <1>3, HeardNowhere
<1>8. World'
  BY <1>1, <1>2 DEF World
<1> QED
  BY <1>3, <1>5, <1>6, <1>7, <1>8, PartsNext

-----------------------------------------------------------------------------
(* What the game does.                                                     *)

LEMMA Read ==
  ASSUME Walker, Reads
  PROVE  /\ wire # <<>> /\ wire \in Seq(SentType) /\ wire' = Tail(wire)
         /\ Lines(wire') /\ Head(wire) \in SentType
         /\ \A K : Free(wire, K) => Free(wire', K)
         /\ One(wire, {"step"}) => /\ One(wire', {"step"})
                                   /\ Head(wire).kind = "step" => Free(wire', {"step"})
         /\ \A i \in 1 .. Len(wire') : i + 1 \in 1 .. Len(wire) /\ wire'[i] = wire[i + 1]
         /\ 1 \in 1 .. Len(wire) /\ wire[1] = Head(wire)
         /\ Head(wire).kind \in {"step", "move"} => Head(wire).dir \in Dirs
<1>1. wire # <<>> /\ wire \in Seq(SentType) /\ wire' = Tail(wire)
  BY DEF Reads, Walker, Lines
<1>2. /\ Head(wire) \in SentType /\ wire' \in Seq(SentType)
      /\ \A K : Free(wire, K) => Free(wire', K)
      /\ One(wire, {"step"}) => /\ One(wire', {"step"})
                                /\ Head(wire).kind = "step" => Free(wire', {"step"})
      /\ \A i \in 1 .. Len(wire') : i + 1 \in 1 .. Len(wire) /\ wire'[i] = wire[i + 1]
      /\ 1 \in 1 .. Len(wire) /\ wire[1] = Head(wire)
  BY <1>1, TailKinds
<1>3. Lines(wire') /\ (Head(wire).kind \in {"step", "move"} => Head(wire).dir \in Dirs)
  BY <1>2 DEF Walker, Lines
<1> QED
  BY <1>1, <1>2, <1>3

\* A line that is read leaves the lines after it as they were.
LEMMA ReadWalker ==
  ASSUME Walker, Reads, UNCHANGED <<walk, next, flight, paced>>
  PROVE  Walker'
<1>1. Lines(wire')
  BY Read
<1> QED
  BY <1>1 DEF Walker, WalkOK, AimKept

\* A rest that leaves before the step does so still.
LEMMA ReadRests ==
  ASSUME Walker, Reads, RestsHere
  PROVE  \A i \in 1 .. Len(wire') : wire'[i].kind = "rest" =>
            /\ Head(wire).kind # "step"
            /\ wire'[i].goal = [at |-> here, left |-> <<>>]
            /\ \A j \in 1 .. Len(wire') : j < i => wire'[j].kind # "step"
<1> SUFFICES ASSUME NEW i \in 1 .. Len(wire'), wire'[i].kind = "rest"
             PROVE  /\ Head(wire).kind # "step"
                    /\ wire'[i].goal = [at |-> here, left |-> <<>>]
                    /\ \A j \in 1 .. Len(wire') : j < i => wire'[j].kind # "step"
  OBVIOUS
<1>1. /\ \A k \in 1 .. Len(wire') : k + 1 \in 1 .. Len(wire) /\ wire'[k] = wire[k + 1]
      /\ 1 \in 1 .. Len(wire) /\ wire[1] = Head(wire)
  BY Read
<1>2. /\ wire[i + 1].goal = [at |-> here, left |-> <<>>]
      /\ \A j \in 1 .. Len(wire) : j < i + 1 => wire[j].kind # "step"
  BY <1>1 DEF RestsHere
<1>3. 1 < i + 1 /\ \A j \in 1 .. Len(wire') : j < i => j + 1 < i + 1
  OBVIOUS
<1> QED
  BY <1>1, <1>2, <1>3

\* The game answers a step.
LEMMA GameMovesCalmly ==
  ASSUME Walker, Heard, here \in Rooms, Calmly, RoomHere, GameMoves
  PROVE  Calmly' /\ RoomHere'
<1>1. Reads /\ Head(wire).kind \in {"step", "move"} /\ UNCHANGED <<walk, flight, room>>
  BY DEF GameMoves, walker
<1>2. /\ wire # <<>> /\ Lines(wire')
      /\ One(wire, {"step"}) => /\ One(wire', {"step"})
                                /\ Head(wire).kind = "step" => Free(wire', {"step"})
      /\ \A i \in 1 .. Len(wire') : i + 1 \in 1 .. Len(wire) /\ wire'[i] = wire[i + 1]
      /\ 1 \in 1 .. Len(wire) /\ wire[1] = Head(wire)
      /\ Head(wire).kind \in {"step", "move"} => Head(wire).dir \in Dirs
  BY <1>1, Read
<1>3. /\ \A i \in 1 .. Len(wire) : wire[i].kind \in {"step", "rest", "late"}
      /\ One(wire, {"step"}) /\ One(answers, Landings)
      /\ Free(wire, {"step"}) \/ Free(answers, Landings)
      /\ ~flight.up => Free(wire, {"step"}) /\ Free(answers, Landings)
  BY DEF Calmly, OneOut
<1>4. Head(wire).kind = "step"
  BY <1>1, <1>2, <1>3
<1>5. ~Free(wire, {"step"}) /\ Free(wire', {"step"}) /\ Free(answers, Landings) /\ flight'.up
  BY <1>1, <1>2, <1>3, <1>4 DEF Free
<1>6. \A i \in 1 .. Len(wire') : wire'[i].kind \in {"late"}
  <2> SUFFICES ASSUME NEW i \in 1 .. Len(wire') PROVE wire'[i].kind \in {"late"}
    OBVIOUS
  <2>1. wire'[i].kind \in {"step", "rest", "late"}
    BY <1>2, <1>3
  <2>2. wire'[i].kind # "step"
    BY <1>5 DEF Free
  <2>3. wire'[i].kind # "rest"
    BY <1>1, <1>4, ReadRests DEF Calmly
  <2> QED
    BY <2>1, <2>2, <2>3
<1>7. One(wire', {"step"}) /\ One(answers, Landings)
  BY <1>2, <1>3
<1>8. RestsHere'
  BY <1>6 DEF RestsHere
<1> DEFINE to == Exit[here, Head(wire).dir]
<1>9. PICK b : b = Beyond(here, Head(wire).dir)
  OBVIOUS
<1>10. to = b
  BY <1>9, Zenon DEF Beyond
<1>11. walk # NoWalk => walk.aim.at = b
  BY <1>2, <1>4, <1>9 DEF Calmly, StepAims
<1>12. b \in Places
  BY <1>2, <1>4, <1>9, TilesForm
<1> HIDE DEF to
<1>13. Rightly(answers) /\ Tiling(answers)
  BY HeardForm
<1>14. ASSUME One(answers', Landings)
       PROVE  OneOut'
  BY <1>5, <1>6, <1>7, <1>14 DEF OneOut
<1>15. CASE b # NoRoom /\ here' = b /\ answers' = answers \o Look(b)
  <2>1. b \in Rooms
    BY <1>12, <1>15 DEF Places
  <2>2. /\ One(answers', Landings) /\ ~Free(answers', {"room", "unseen"})
        /\ \A i \in 1 .. Len(answers') : answers'[i].kind = "room" => answers'[i].num = b
    BY <1>5, <1>13, <1>15, <2>1, MoreLook
  <2>3. StepAims'
    BY <1>1, <1>6, <1>11, <1>15, <2>2 DEF StepAims
  <2>4. RoomHere'
    BY <2>2 DEF RoomHere
  <2> QED
    BY <1>8, <1>14, <2>2, <2>3, <2>4 DEF Calmly
<1>16. ASSUME NEW kind \in {"failed", "unseen"}, answers' = answers \o Line(kind)
       PROVE  /\ OneOut' /\ StepAims'
              /\ \A K : Free(answers', K) <=> Free(answers, K) /\ kind \notin K
  <2>1. /\ \A K : Free(answers', K) <=> Free(answers, K) /\ kind \notin K
        /\ One(answers', Landings)
        /\ \A i \in 1 .. Len(answers') : answers'[i].kind = "room" =>
                i \in 1 .. Len(answers) /\ answers'[i] = answers[i]
    BY <1>5, <1>7, <1>13, <1>16, MoreLine
  <2>2. \A i \in 1 .. Len(answers') : answers'[i].kind # "room"
    BY <1>5, <2>1 DEF Free, Landings
  <2>3. StepAims'
    BY <1>6, <2>2 DEF StepAims
  <2> QED
    BY <1>14, <2>1, <2>3
<1>17. CASE b # NoRoom /\ here' = b /\ answers' = answers \o Line("unseen")
  <2>1. /\ OneOut' /\ StepAims'
        /\ \A K : Free(answers', K) <=> Free(answers, K) /\ "unseen" \notin K
    BY <1>16, <1>17
  <2>2. RoomHere'
    BY <2>1 DEF RoomHere
  <2> QED
    BY <1>8, <2>1, <2>2 DEF Calmly
<1>18. CASE answers' = answers \o Line("failed") /\ UNCHANGED here
  <2>1. /\ OneOut' /\ StepAims'
        /\ \A K : Free(answers', K) <=> Free(answers, K) /\ "failed" \notin K
    BY <1>16, <1>18
  <2>2. RoomHere'
    BY <1>1, <1>18, <2>1 DEF RoomHere
  <2> QED
    BY <1>8, <2>1, <2>2 DEF Calmly
<1>19. CASE UNCHANGED <<answers, here>>
  <2>1. StepAims'
    BY <1>1, <1>6, <1>19 DEF Calmly, StepAims
  <2>2. RoomHere'
    BY <1>1, <1>19 DEF RoomHere
  <2> QED
    BY <1>7, <1>8, <1>14, <1>19, <2>1, <2>2 DEF Calmly
<1>20. \/ to # NoRoom /\ here' = to /\ answers' = answers \o Look(to)
       \/ to # NoRoom /\ here' = to /\ answers' = answers \o Line("unseen")
       \/ answers' = answers \o Line("failed") /\ UNCHANGED here
       \/ UNCHANGED <<answers, here>>
  BY Zenon DEF GameMoves, to
<1> QED
  BY <1>10, <1>15, <1>17, <1>18, <1>19, <1>20

\* What the game says more is heard in its turn.
LEMMA SaysMore ==
  ASSUME Heard, UNCHANGED <<room, exits, fresh>>,
         \/ \E r \in Rooms : answers' = answers \o Look(r)
         \/ \E kind \in {"failed", "unseen", "fight"} : answers' = answers \o Line(kind)
         \/ answers' = answers
  PROVE  Heard'
<1>1. Rightly(answers) /\ Tiling(answers) /\ NextIs(fresh, answers)
  BY HeardForm
<1>2. Rightly(answers') /\ Tiling(answers') /\ NextIs(fresh, answers')
  <2>1. CASE \E r \in Rooms : answers' = answers \o Look(r)
    BY <1>1, <2>1, MoreLook
  <2>2. CASE \E kind \in {"failed", "unseen", "fight"} : answers' = answers \o Line(kind)
    BY <1>1, <2>2, MoreLine
  <2>3. CASE answers' = answers
    BY <1>1, <2>3
  <2> QED
    BY <2>1, <2>2, <2>3
<1> QED
  BY <1>2, HeardForm, HeardNext

LEMMA GameMovesKeeps ==
  ASSUME WInv, GameMoves
  PROVE  WInv'
<1>1. Walker /\ Knows /\ Heard /\ World /\ (calm => Calmly /\ RoomHere)
  BY PartsOf
<1>2. /\ Reads /\ Head(wire).kind \in {"step", "move"}
      /\ UNCHANGED <<walk, next, flight, room, exits, fresh, paced, calm, walks, typings,
                     mischiefs>>
  BY Zenon DEF GameMoves, walker, counters
<1>3. Walker'
  BY <1>1, <1>2, ReadWalker
<1>4. Knows'
  BY <1>1, <1>2, KnowsSame
<1>5. PICK b : b = Beyond(here, Head(wire).dir)
  OBVIOUS
<1>6. b \in Places
  <2>1. Head(wire).dir \in Dirs /\ here \in Rooms
    BY <1>1, <1>2, Read DEF World
  <2> QED
    BY <1>5, <2>1, TilesForm
<1>7. \/ b # NoRoom /\ here' = b /\ answers' = answers \o Look(b)
      \/ b # NoRoom /\ here' = b /\ answers' = answers \o Line("unseen")
      \/ answers' = answers \o Line("failed") /\ UNCHANGED here
      \/ UNCHANGED <<answers, here>>
  BY <1>5, Zenon DEF GameMoves, Beyond
<1>8. World'
  BY <1>1, <1>2, <1>6, <1>7 DEF World, Places
<1>9. Heard'
  BY <1>1, <1>2, <1>6, <1>7, SaysMore DEF Places
<1>10. calm' => Calmly' /\ RoomHere'
  BY <1>1, <1>2, GameMovesCalmly DEF World
<1> QED
  BY <1>3, <1>4, <1>8, <1>9, <1>10, PartsNext

LEMMA GameLooksKeeps ==
  ASSUME WInv, GameLooks
  PROVE  WInv'
<1>1. Walker /\ Knows /\ Heard /\ World /\ (calm => Calmly /\ RoomHere)
  BY PartsOf
<1>2. /\ Reads /\ Head(wire).kind = "look"
      /\ UNCHANGED <<walk, next, flight, room, exits, fresh, paced, here, calm, walks,
                     typings, mischiefs>>
      /\ answers' = answers \o Look(here) \/ answers' = answers \o Line("unseen")
  BY DEF GameLooks, walker, counters
<1>3. Walker' /\ Knows' /\ World'
  BY <1>1, <1>2, ReadWalker, KnowsSame, WorldSame
<1>4. Heard'
  BY <1>1, <1>2, SaysMore DEF World
<1>5. ~calm'
  <2>1. 1 \in 1 .. Len(wire) /\ wire[1] = Head(wire)
    BY <1>1, <1>2, Read
  <2> QED
    BY <1>1, <1>2, <2>1 DEF Calmly, OneOut
<1> QED
  BY <1>3, <1>4, <1>5, PartsNext

LEMMA GameActsKeeps ==
  ASSUME WInv, GameActs
  PROVE  WInv'
<1>1. Walker /\ Knows /\ Heard /\ World /\ (calm => Calmly /\ RoomHere)
  BY PartsOf
<1>2. /\ Reads
      /\ UNCHANGED <<walk, next, flight, room, exits, fresh, paced, answers, here, calm,
                     walks, typings, mischiefs>>
  BY DEF GameActs, walker, counters
<1>3. Walker' /\ Knows' /\ Heard' /\ World'
  BY <1>1, <1>2, ReadWalker, KnowsSame, HeardSame, WorldSame
<1>4. calm' => Calmly' /\ RoomHere'
  <2> SUFFICES ASSUME calm PROVE Calmly' /\ RoomHere'
    BY <1>2
  <2>1. Calmly /\ RoomHere
    BY <1>1
  <2>2. /\ \A K : Free(wire, K) => Free(wire', K)
        /\ One(wire, {"step"}) => One(wire', {"step"})
        /\ \A i \in 1 .. Len(wire') : i + 1 \in 1 .. Len(wire) /\ wire'[i] = wire[i + 1]
    BY <1>1, <1>2, Read
  <2>3. OneOut'
    BY <1>2, <2>1, <2>2 DEF Calmly, OneOut
  <2>4. RestsHere'
    BY <1>1, <1>2, <2>1, ReadRests DEF Calmly, RestsHere
  <2>5. StepAims' /\ RoomHere'
    BY <1>2, <2>1, <2>2 DEF Calmly, StepAims, RoomHere
  <2> QED
    BY <2>3, <2>4, <2>5 DEF Calmly
<1> QED
  BY <1>3, <1>4, PartsNext

LEMMA GameMischiefKeeps ==
  ASSUME WInv, GameMischief
  PROVE  WInv'
<1>1. Walker /\ Knows /\ Heard /\ World /\ (calm => Calmly /\ RoomHere)
  BY PartsOf
<1>2. /\ mischiefs < Mischiefs /\ mischiefs' = mischiefs + 1
      /\ UNCHANGED <<walk, next, flight, room, exits, fresh, paced, wire, walks, typings>>
      /\ \/ \E r \in Rooms : here' = r /\ answers' = answers \o Look(r) /\ calm' = FALSE
         \/ answers' = answers \o Line("failed") /\ calm' = FALSE /\ UNCHANGED here
         \/ answers' = answers \o Line("fight") /\ UNCHANGED <<here, calm>>
  BY DEF GameMischief, walker
<1>3. Walker' /\ Knows'
  BY <1>1, <1>2, WalkerSame, KnowsSame
<1>4. Heard'
  BY <1>1, <1>2, SaysMore
<1>5. here' \in Rooms /\ calm' \in BOOLEAN
  BY <1>1, <1>2 DEF World
<1>6. mischiefs' \in 0 .. Mischiefs
  BY <1>1, <1>2, WalkAssumption DEF World
<1>7. World'
  BY <1>1, <1>2, <1>5, <1>6 DEF World
<1>8. calm' => Calmly' /\ RoomHere'
  <2> SUFFICES ASSUME calm' PROVE Calmly' /\ RoomHere'
    OBVIOUS
  <2>1. answers' = answers \o Line("fight") /\ UNCHANGED <<here, calm>>
    BY <1>2
  <2>2. Calmly /\ RoomHere /\ Rightly(answers) /\ Tiling(answers)
    BY <1>1, <2>1, HeardForm
  <2>3. /\ \A K : Free(answers', K) <=> Free(answers, K) /\ "fight" \notin K
        /\ One(answers, Landings) => One(answers', Landings)
        /\ \A i \in 1 .. Len(answers') : answers'[i].kind = "room" =>
                i \in 1 .. Len(answers) /\ answers'[i] = answers[i]
    BY <2>1, <2>2, MoreLine
  <2>4. OneOut'
    BY <1>2, <2>2, <2>3 DEF Calmly, OneOut, Landings
  <2>5. RestsHere'
    BY <1>2, <2>1, <2>2 DEF Calmly, RestsHere
  <2>6. StepAims'
    BY <1>2, <2>1, <2>2, <2>3 DEF Calmly, StepAims
  <2>7. RoomHere'
    BY <1>2, <2>1, <2>2, <2>3 DEF RoomHere
  <2> QED
    BY <2>4, <2>5, <2>6, <2>7 DEF Calmly
<1> QED
  BY <1>3, <1>4, <1>7, <1>8, PartsNext

LEMMA SettleKeeps ==
  ASSUME WInv, Settle
  PROVE  WInv'
<1>1. Walker /\ Knows /\ Heard /\ World
  BY PartsOf
<1>2. /\ wire' = <<>> /\ answers' = <<>> /\ room \in {NoRoom, here} /\ calm' = TRUE
      /\ UNCHANGED <<walk, next, flight, room, exits, fresh, paced, wire, answers, here,
                     walks, typings, mischiefs>>
  BY DEF Settle, walker, counters
<1>3. Walker' /\ Knows' /\ Heard'
  BY <1>1, <1>2, WalkerSame, KnowsSame, HeardSame
<1>4. World'
  BY <1>1, <1>2 DEF World
<1>5. Calmly' /\ RoomHere'
  BY <1>2, NothingOut DEF RoomHere
<1> QED
  BY <1>3, <1>4, <1>5, PartsNext

-----------------------------------------------------------------------------
(* The theorems.                                                           *)

LEMMA WInvStarts == Init => WInv
<1> SUFFICES ASSUME Init PROVE WInv
  OBVIOUS
<1>1. /\ <<>> \in Seq(SentType) /\ <<>> \in Seq(SaidType)
      /\ \A i \in 1 .. Len(<<>>) : FALSE
  OBVIOUS
<1>2. Walker
  BY <1>1, NoAimForm, NoFlightForm DEF Init, Walker, WalkOK, AimKept, Lines
<1>3. Knows
  BY NoFlightForm DEF Init, Knows, WaitsForLanding, FlightKnows
<1>4. Heard
  BY <1>1, TilesForm, HeardForm DEF Init, Rightly, Tiling, NextIs, Places
<1>5. World
  BY WalkAssumption DEF Init, World
<1>6. Calmly /\ RoomHere
  BY <1>1 DEF Init, Calmly, OneOut, RestsHere, StepAims, RoomHere, One, Free
<1> QED
  BY <1>2, <1>3, <1>4, <1>5, <1>6, PartsOf

LEMMA WInvKept == WInv /\ [Next]_vars => WInv'
<1> SUFFICES ASSUME WInv, [Next]_vars PROVE WInv'
  OBVIOUS
<1>1. ASSUME NEW plan \in Plans, StartWalk(plan) PROVE WInv'
  BY <1>1, StartWalkKeeps
<1>2. CASE StopWalk
  BY <1>2, StopWalkKeeps
<1>3. ASSUME NEW d \in Dirs, Type("move", d) PROVE WInv'
  BY <1>3, TypeKeeps
<1>4. CASE Type("look", "none")
  BY <1>4, TypeKeeps
<1>5. CASE Hear
  BY <1>5, HearTilesKeeps, HearRoomKeeps, HearFailedKeeps, HearUnseenKeeps, HearFightKeeps
     DEF Hear
<1>6. CASE Expire \/ PacedGoes \/ Reconnects
  BY <1>6, ExpireKeeps, PacedGoesKeeps, ReconnectsKeeps
<1>7. CASE Game \/ GameMischief \/ Settle
  BY <1>7, GameMovesKeeps, GameLooksKeeps, GameActsKeeps, GameMischiefKeeps, SettleKeeps
     DEF Game
<1>8. CASE UNCHANGED vars
  <2>1. UNCHANGED <<walk, next, flight, room, exits, fresh, paced, wire, answers, here, calm,
                    walks, typings, mischiefs>>
    BY <1>8 DEF vars, walker, counters
  <2>2. Walker /\ Knows /\ Heard /\ World /\ (calm => Calmly /\ RoomHere)
    BY PartsOf
  <2>3. Walker' /\ Knows' /\ Heard' /\ World'
    BY <2>1, <2>2, WalkerSame, KnowsSame, HeardSame, WorldSame
  <2>4. calm' => Calmly' /\ RoomHere'
    BY <2>1, <2>2 DEF Calmly, OneOut, RestsHere, StepAims, RoomHere
  <2> QED
    BY <2>3, <2>4, PartsNext
<1> QED
  BY <1>1, <1>2, <1>3, <1>4, <1>5, <1>6, <1>7, <1>8 DEF Next

LEMMA WalksWell == Spec => []WInv
BY WInvStarts, WInvKept, PTL DEF Spec

(* Every variable has its type: a walk counts its steps within its plan,   *)
(* and the walker has no exits of a room it does not know.                 *)
THEOREM TypesHold == Spec => []TypeOK
<1>1. WInv => TypeOK
  BY DEF WInv, Types
<1> QED
  BY <1>1, WalksWell, PTL

(* A walk under way, or one that waits to take over, always has a step in  *)
(* flight, so it ends or goes on with what the game answers or with the    *)
(* backstop (landed, command, expire).                                     *)
THEOREM WaitsFlies == Spec => []WaitsForLanding
<1>1. WInv => WaitsForLanding
  BY DEF WInv
<1> QED
  BY <1>1, WalksWell, PTL

(* While nobody but the walker moves you, one step at most is under way,   *)
(* none with no step in flight, and the exits a step is checked against    *)
(* are those of the room the walker is in (send_next, room_info, tiles).   *)
THEOREM StepByStep == Spec => []OneStep
<1>1. WInv => OneStep
  <2> SUFFICES ASSUME WInv PROVE OneStep
    OBVIOUS
  <2>1. Types /\ TilesBefore /\ (calm => OneOut)
    BY DEF WInv
  <2>2. calm => StepsOut <= IF flight.up THEN 1 ELSE 0
    <3>1. CASE calm /\ ~flight.up
      <4>1. StepsOut = 0
        BY <2>1, <3>1, CountsOut DEF OneOut
      <4> QED
        BY <3>1, <4>1
    <3>2. CASE calm /\ flight.up
      <4>1. StepsOut <= 1
        BY <2>1, <3>2, CountsOut DEF OneOut
      <4> QED
        BY <3>2, <4>1
    <3> QED
      BY <3>1, <3>2
  <2> QED
    BY <2>1, <2>2 DEF OneStep, TilesBefore
<1> QED
  BY <1>1, WalksWell, PTL

(* What followed #walk on its line reaches the game in the room the steps  *)
(* lead to, when the pace does not keep it and nothing else moves you      *)
(* (landed, walked).                                                       *)
THEOREM RestArrives == Spec => []RestThere
<1>1. WInv => RestThere
  <2> SUFFICES ASSUME WInv, calm, wire # <<>>, Head(wire).kind = "rest"
               PROVE  Head(wire).goal = [at |-> here, left |-> <<>>]
    BY DEF RestThere
  <2>1. wire \in Seq(SentType) /\ RestsHere
    BY DEF WInv, Types
  <2>2. 1 \in 1 .. Len(wire) /\ wire[1] = Head(wire)
    BY <2>1, TailKinds
  <2> QED
    BY <2>1, <2>2 DEF RestsHere
<1> QED
  BY <1>1, WalksWell, PTL

\* What leaves with a step of a click.
LEMMA LeavesPlanned ==
  ASSUME NEW at, LeftFrom(walk', flight', at), walk'.plan.rooms # <<>>
  PROVE  at = Planned(walk') /\ at # NoRoom
<1>1. walk' # NoWalk
  BY DEF NoWalk, NoPlan
<1> QED
  BY <1>1 DEF LeftFrom

\* No step leaves with what sends no line, or one that is no step.
LEMMA NoneLeaves ==
  ASSUME WInv,
         \/ wire' = wire \/ wire' = <<>> \/ (wire # <<>> /\ wire' = Tail(wire))
         \/ \E m \in SentType : m.kind # "step" /\ wire' = Append(wire, m)
  PROVE  ~StepLeaves
<1>1. wire \in Seq(SentType)
  BY DEF WInv, Types
<1>2. PICK l \in Nat : l = Len(wire)
  BY <1>1
<1>3. CASE wire' = wire
  BY <1>2, <1>3 DEF StepLeaves
<1>4. CASE wire' = <<>>
  BY <1>2, <1>4 DEF StepLeaves
<1>5. CASE wire # <<>> /\ wire' = Tail(wire)
  <2>1. Len(wire') = l - 1
    BY <1>1, <1>2, <1>5
  <2> QED
    BY <1>2, <2>1 DEF StepLeaves
<1>6. CASE \E m \in SentType : m.kind # "step" /\ wire' = Append(wire, m)
  <2>1. PICK m \in SentType : m.kind # "step" /\ wire' = Append(wire, m)
    BY <1>6
  <2>2. Len(wire') = l + 1 /\ wire'[l + 1] = m
    BY <1>1, <1>2, <2>1
  <2> QED
    BY <2>1, <2>2 DEF StepLeaves
<1> QED
  BY <1>3, <1>4, <1>5, <1>6

LEMMA StepsAsPlanned ==
  ASSUME WInv, [Next]_vars, StepLeaves, calm, walk'.plan.rooms # <<>>
  PROVE  here = Planned(walk')
<1>1. Types /\ Walker /\ Knows /\ Heard /\ World /\ Calmly /\ RoomHere
  BY PartsOf DEF WInv
<1>2. ASSUME NEW plan \in Plans, StartWalk(plan)
      PROVE  here = Planned(walk')
  <2>1. ~flight.up /\ Accepts(plan, room) /\ SendNext(Begun(plan), room, exits, wire)
    BY <1>2, NoneLeaves DEF StartWalk
  <2>2. Goes(Begun(plan)) /\ Begun(plan).plan = plan /\ Begun(plan).done = 0
    BY <1>1, BegunGoes DEF World
  <2>3. room \in Places /\ exits \in Views /\ Lines(wire)
    BY <1>1 DEF Heard, Walker
  <2>4. walk'.plan = plan /\ walk'.done = 0
    BY <1>1, <2>1, <2>2, <2>3, SendsStep
  <2>5. plan.start = room /\ room # NoRoom /\ Planned(walk') = plan.start
    BY <2>1, <2>4, PlanForm DEF Accepts, Planned
  <2>6. Free(answers, {"room", "unseen"})
    BY <1>1, <2>1, QuietNow DEF Free, Landings
  <2> QED
    BY <1>1, <2>5, <2>6 DEF RoomHere
<1>3. CASE HearRoom
  <2>1. PICK num : num = Head(answers).num
    OBVIOUS
  <2>2. flight.up /\ Landed(flight.expect \in {NoRoom, num}, num, fresh)
    BY <1>3, <2>1, NoneLeaves DEF HearRoom
  <2>3. /\ answers # <<>> /\ answers \in Seq(SaidType) /\ Head(answers).kind = "room"
        /\ num \in Rooms
    BY <1>3, <2>1, HeardAnswer DEF HearRoom
  <2>4. 1 \in 1 .. Len(answers) /\ answers[1] = Head(answers)
    BY <2>3, TailKinds
  <2>5. num = here
    BY <1>1, <2>1, <2>3, <2>4 DEF Calmly, StepAims
  <2>6. \E arrived \in BOOLEAN :
            Landed(arrived, num, fresh) /\ (arrived => flight.expect \in {NoRoom, num})
    <3> DEFINE came == flight.expect \in {NoRoom, num}
    <3>1. came \in BOOLEAN
      OBVIOUS
    <3>2. Landed(came, num, fresh) /\ (came => flight.expect \in {NoRoom, num})
      BY <2>2
    <3> HIDE DEF came
    <3> QED
      BY <3>1, <3>2
  <2>7. num \in Places /\ fresh \in Views
    BY <1>1, <2>3 DEF Places, Heard
  <2>8. LeftFrom(walk', flight', num)
    BY <1>1, <2>2, <2>6, <2>7, Lands DEF Walker, Knows
  <2> QED
    BY <2>5, <2>8, LeavesPlanned
<1>4. CASE HearFailed
  <2>1. flight.up /\ Landed(FALSE, room, exits) /\ Hears("failed")
    BY <1>4, NoneLeaves DEF HearFailed
  <2>2. room \in Places /\ exits \in Views
    BY <1>1 DEF Heard
  <2>3. LeftFrom(walk', flight', room)
    BY <1>1, <2>1, <2>2, Lands DEF Walker, Knows
  <2>4. room = Planned(walk') /\ room # NoRoom
    BY <2>3, LeavesPlanned
  <2>5. /\ answers # <<>> /\ answers \in Seq(SaidType) /\ answers' = Tail(answers)
        /\ Head(answers).kind = "failed" /\ UNCHANGED here
    BY <2>1, HeardAnswer
  <2>6. Free(answers', Landings)
    BY <1>1, <2>5, QuietOnce DEF Landings
  <2>7. Free(answers, {"room", "unseen"})
    <3>1. Free(answers', {"room", "unseen"})
      BY <2>6 DEF Free, Landings
    <3>2. Free(answers, {"room", "unseen"}) <=>
             Free(answers', {"room", "unseen"}) /\ Head(answers).kind \notin {"room", "unseen"}
      BY <2>5, TailKinds
    <3> QED
      BY <2>5, <3>1, <3>2
  <2> QED
    BY <1>1, <2>4, <2>7 DEF RoomHere
<1>5. CASE HearUnseen
  <2>1. flight.up /\ Landed(FALSE, NoRoom, NoTiles)
    BY <1>5, NoneLeaves DEF HearUnseen
  <2>2. NoRoom \in Places /\ NoTiles \in Views
    BY TilesForm DEF Places
  <2>3. LeftFrom(walk', flight', NoRoom)
    BY <1>1, <2>1, <2>2, Lands DEF Walker, Knows
  <2> QED
    BY <2>3, LeavesPlanned
<1>6. ASSUME NEW kind \in {"move", "look"}, NEW dir \in Dirs \cup {"none"}, Type(kind, dir)
      PROVE  FALSE
  <2>1. Sent(kind, dir, NoAim) \in SentType /\ Sent(kind, dir, NoAim).kind # "step"
    BY NoAimForm DEF Sent, SentType
  <2> QED
    BY <1>6, <2>1, NoneLeaves DEF Type
<1>7. CASE PacedGoes
  <2>1. Sent("late", "none", NoAim) \in SentType /\ Sent("late", "none", NoAim).kind # "step"
    BY NoAimForm DEF Sent, SentType
  <2> QED
    BY <1>7, <2>1, NoneLeaves DEF PacedGoes
<1>8. CASE Game
  BY <1>8, NoneLeaves DEF Game, GameMoves, GameLooks, GameActs, Reads
<1>9. CASE StopWalk \/ HearTiles \/ HearFight \/ Expire \/ Reconnects \/ GameMischief \/ Settle
           \/ UNCHANGED vars
  BY <1>9, NoneLeaves DEF StopWalk, HearTiles, HearFight, Expire, Reconnects, GameMischief,
                          Settle, vars
<1> QED
  BY <1>2, <1>3, <1>4, <1>5, <1>6, <1>7, <1>8, <1>9 DEF Next, Hear

(* Each step of a click on the map leaves while you stand in the room the  *)
(* click planned for it, when nothing but the walker moves you (start,     *)
(* landed, send_next).                                                     *)
THEOREM ClicksAsPlanned == Spec => RouteKept
<1>1. WInv /\ [Next]_vars =>
        [StepLeaves /\ calm /\ calm' /\ walk'.plan.rooms # <<>> => here = Planned(walk')]_vars
  BY StepsAsPlanned
<1> QED
  BY <1>1, WalksWell, PTL DEF Spec, RouteKept
=============================================================================
