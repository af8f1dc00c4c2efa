----------------------------- MODULE LinkProofs -----------------------------
(***************************************************************************)
(* What Link keeps for any number of commands, links, tries and operations *)
(* that start.  NoStrayLink alone is not inductive: a handle in a task's   *)
(* hand ends its link only if no other task, nor the slot, holds the same  *)
(* one, which HandsOK says; the lock guards the slot, which LockOK says;   *)
(* and a series is born once, by a loop that is done, which SeriesOrigin   *)
(* says.  IInv joins them with the types, and each has a lemma for a step. *)
(*                                                                         *)
(* The last part is about a session whose calls do not overlap, which is   *)
(* what the rest of the promises of Link need: OneInv, of sixteen parts.   *)
(***************************************************************************)
EXTENDS Link, TLAPS

Types == SessionTypeOK /\ LinkTypeOK /\ TaskTypeOK

\* The types hold at the start.
LEMMA InitTypes == Init => Types
<1> SUFFICES ASSUME Init PROVE Types
  OBVIOUS
<1> USE LinkAssumption DEF Init
<1>1. SessionTypeOK
  BY DEF SessionTypeOK, NoWatch, Watches
<1>2. LinkTypeOK
  BY DEF LinkTypeOK, NoWatch, Watches, Phases
<1>3. TaskTypeOK
  <2>1. pc \in [Tasks -> Places]
    BY DEF Places
  <2>2. op \in [Commands -> AllOps]
    BY DEF AllOps
  <2>3. tries \in [Links -> Nat] /\ ops \in 0 .. MaxOps
    OBVIOUS
  <2>4. hand \in [Tasks -> Links \cup {NoLink}] /\ prev \in [Tasks -> Links \cup {NoLink}]
    OBVIOUS
  <2>5. victim \in [Commands -> Links \cup {NoLink}]
    OBVIOUS
  <2>6. /\ cut \in [Commands -> BOOLEAN] /\ live \in [Commands -> BOOLEAN]
        /\ marked \in [Links -> BOOLEAN] /\ wanted \in BOOLEAN
    OBVIOUS
  <2> QED
    BY <2>1, <2>2, <2>3, <2>4, <2>5, <2>6 DEF TaskTypeOK
<1> QED
  BY <1>1, <1>2, <1>3 DEF Types

\* A command that is cancelled goes to a place of its own.
LEMMA AfterCancelPlace == \A c : AfterCancel(c) \in Places
  BY DEF AfterCancel, Places, CommandPlaces, DialPlaces

\* A dial that fails keeps the types.
LEMMA DialFailsTypes ==
  ASSUME Types, NEW t \in Tasks, DialFails(t)
  PROVE  pc' \in [Tasks -> Places] /\ tries' \in [Links -> Nat]
         /\ awaiting' \in BOOLEAN
<1> USE LinkAssumption DEF Types, TaskTypeOK, SessionTypeOK, Go, Tasks, Links, NoLink
<1>1. {"idle", "returned", "wait"} \subseteq Places
  BY DEF Places, SeriesPlaces, Over
<1>2. CASE t \in Commands
  <2>1. pc' = [pc EXCEPT ![t] = "idle"]
    BY <1>2 DEF DialFails
  <2>2. pc' \in [Tasks -> Places]
    BY <1>1, <2>1
  <2> QED
    BY <2>2, <1>2, ZenonT(20) DEF DialFails
<1>3. CASE t \notin Commands
  <2>1. /\ awaiting' = FALSE
        /\ tries' = [tries EXCEPT ![t] = tries[t] + 1]
        /\ pc' = [pc EXCEPT ![t] = IF tries[t] + 1 = Tries
                                   THEN "returned" ELSE "wait"]
    BY <1>3 DEF DialFails
  <2>2. t \in Links /\ tries[t] + 1 \in Nat
    BY <1>3
  <2>3. tries' \in [Links -> Nat]
    BY <2>1, <2>2
  <2>4. pc' \in [Tasks -> Places]
    BY <1>1, <2>1
  <2> QED
    BY <2>1, <2>3, <2>4
<1> QED
  BY <1>2, <1>3

\* Every step keeps the types.
LEMMA NextTypes == Types /\ [Next]_vars => Types'
<1> SUFFICES ASSUME Types, [Next]_vars PROVE Types'
  OBVIOUS
<1> USE LinkAssumption DEF Types, SessionTypeOK, LinkTypeOK, TaskTypeOK,
      sessionVars, linkVars, taskVars, Go, Links, NoLink, Tasks,
      Places, CommandPlaces, CancelPlaces, SeriesPlaces, DialPlaces, Over
<1>1. ASSUME NEW c \in Commands, CommandStep(c) PROVE Types'
  <2>1. CASE ConnectDrop(c)
    BY <2>1 DEF ConnectDrop, TakeSlot, Shut
  <2>2. CASE ConnectDropped(c)
    <3>1. SessionTypeOK' /\ LinkTypeOK'
      BY <2>2 DEF ConnectDropped
    <3>2. TaskTypeOK'
      BY <2>2 DEF ConnectDropped, LoopOver
    <3> QED
      BY <3>1, <3>2
  <2>3. CASE CancelNone(c)
    <3>1. SessionTypeOK'
      <4>1. awaiting' \in BOOLEAN
        BY <2>3, ZenonT(20) DEF CancelNone
      <4> QED
        BY <2>3, <4>1 DEF CancelNone
    <3>2. LinkTypeOK'
      BY <2>3 DEF CancelNone
    <3>3. TaskTypeOK'
      BY <2>3, AfterCancelPlace DEF CancelNone
    <3> QED
      BY <3>1, <3>2, <3>3
  <2>4. CASE CancelSeries(c)
    <3>1. SessionTypeOK'
      BY <2>4 DEF CancelSeries, Ends
    <3>2. LinkTypeOK'
      BY <2>4 DEF CancelSeries
    <3>3. TaskTypeOK'
      BY <2>4 DEF CancelSeries, Ends
    <3> QED
      BY <3>1, <3>2, <3>3
  <2>5. CASE SeriesEnded(c)
    <3>1. SessionTypeOK'
      <4>1. awaiting' \in BOOLEAN
        BY <2>5, ZenonT(20) DEF SeriesEnded
      <4> QED
        BY <2>5, <4>1 DEF SeriesEnded
    <3>2. LinkTypeOK'
      BY <2>5 DEF SeriesEnded
    <3>3. TaskTypeOK'
      BY <2>5, AfterCancelPlace DEF SeriesEnded
    <3> QED
      BY <3>1, <3>2, <3>3
  <2>6. CASE DisconnectTake(c)
    <3>1. SessionTypeOK'
      BY <2>6 DEF DisconnectTake, TakeSlot
    <3>2. LinkTypeOK'
      BY <2>6 DEF DisconnectTake, TakeSlot, Shut
    <3>3. TaskTypeOK'
      BY <2>6 DEF DisconnectTake, TakeSlot
    <3> QED
      BY <3>1, <3>2, <3>3
  <2>7. CASE DisconnectTaken(c)
    <3>1. SessionTypeOK'
      BY <2>7 DEF DisconnectTaken, LoopOver
    <3>2. LinkTypeOK'
      BY <2>7 DEF DisconnectTaken, LoopOver
    <3>3. TaskTypeOK'
      BY <2>7 DEF DisconnectTaken, LoopOver
    <3> QED
      BY <3>1, <3>2, <3>3
  <2>8. CASE DisconnectFinish(c)
    <3>1. SessionTypeOK'
      BY <2>8 DEF DisconnectFinish
    <3>2. LinkTypeOK'
      BY <2>8 DEF DisconnectFinish
    <3>3. TaskTypeOK'
      BY <2>8 DEF DisconnectFinish
    <3> QED
      BY <3>1, <3>2, <3>3
  <2> QED
    BY <1>1, <2>1, <2>2, <2>3, <2>4, <2>5, <2>6, <2>7, <2>8 DEF CommandStep
<1>2. ASSUME NEW t \in Tasks, DialStep(t) PROVE Types'
  <2>1. CASE DialTake(t)
    <3>1. SessionTypeOK'
      BY <2>1 DEF DialTake, TakeSlot
    <3>2. LinkTypeOK'
      BY <2>1 DEF DialTake, TakeSlot, Shut
    <3>3. TaskTypeOK'
      BY <2>1 DEF DialTake, TakeSlot
    <3> QED
      BY <3>1, <3>2, <3>3
  <2>2. CASE DialTaken(t)
    <3>1. SessionTypeOK'
      BY <2>2, SMTT(20) DEF DialTaken, LoopOver
    <3>2. LinkTypeOK'
      BY <2>2, SMTT(20) DEF DialTaken, LoopOver
    <3>3. TaskTypeOK'
      BY <2>2, SMTT(20) DEF DialTaken, LoopOver
    <3> QED
      BY <3>1, <3>2, <3>3
  <2>3. CASE DialClear(t)
    <3>1. SessionTypeOK'
      BY <2>3 DEF DialClear
    <3>2. LinkTypeOK'
      BY <2>3 DEF DialClear
    <3>3. TaskTypeOK'
      BY <2>3 DEF DialClear
    <3> QED
      BY <3>1, <3>2, <3>3
  <2>4. CASE SocketFails(t)
    <3>1. /\ pc' \in [Tasks -> Places] /\ tries' \in [Links -> Nat]
          /\ awaiting' \in BOOLEAN
      BY <2>4, DialFailsTypes DEF SocketFails
    <3>2. SessionTypeOK'
      BY <2>4, <3>1 DEF SocketFails
    <3>3. LinkTypeOK'
      BY <2>4 DEF SocketFails
    <3>4. TaskTypeOK'
      BY <2>4, <3>1 DEF SocketFails
    <3> QED
      BY <3>2, <3>3, <3>4
  <2>5. CASE SocketOpens(t)
    <3>1. SessionTypeOK'
      BY <2>5 DEF SocketOpens
    <3>2. LinkTypeOK'
      BY <2>5 DEF SocketOpens
    <3>3. hand' \in [Tasks -> Links \cup {NoLink}]
      <4>1. made + 1 \in Links
        BY <2>5 DEF SocketOpens
      <4>2. hand' = [hand EXCEPT ![t] = made + 1]
        BY <2>5 DEF SocketOpens
      <4> QED
        BY <4>1, <4>2
    <3>4. pc' \in [Tasks -> Places]
      BY <2>5 DEF SocketOpens
    <3>5. TaskTypeOK'
      BY <2>5, <3>3, <3>4 DEF SocketOpens
    <3> QED
      BY <3>1, <3>2, <3>5
  <2>6. CASE SpawnLoop(t)
    <3>1. SessionTypeOK' /\ TaskTypeOK'
      BY <2>6 DEF SpawnLoop
    <3>2. phase' \in [Links -> Phases]
      BY <2>6 DEF SpawnLoop, Phases
    <3>3. LinkTypeOK'
      BY <2>6, <3>2 DEF SpawnLoop
    <3> QED
      BY <3>1, <3>3
  <2>7. CASE PutClosed(t)
    BY <2>7 DEF PutClosed, Shut
  <2>8. CASE PutClosedEnds(t)
    <3>1. /\ pc' \in [Tasks -> Places] /\ tries' \in [Links -> Nat]
          /\ awaiting' \in BOOLEAN
      BY <2>8, DialFailsTypes DEF PutClosedEnds
    <3>2. SessionTypeOK'
      BY <2>8, <3>1 DEF PutClosedEnds
    <3>3. LinkTypeOK'
      BY <2>8 DEF PutClosedEnds
    <3>4. TaskTypeOK'
      BY <2>8, <3>1 DEF PutClosedEnds
    <3> QED
      BY <3>2, <3>3, <3>4
  <2>9. CASE PutFree(t)
    <3>1. SessionTypeOK'
      BY <2>9 DEF PutFree
    <3>2. LinkTypeOK'
      BY <2>9 DEF PutFree
    <3>3. TaskTypeOK'
      BY <2>9 DEF PutFree
    <3> QED
      BY <3>1, <3>2, <3>3
  <2>10. CASE PutOver(t)
    <3>1. SessionTypeOK'
      BY <2>10 DEF PutOver
    <3>2. LinkTypeOK'
      BY <2>10 DEF PutOver, Shut
    <3>3. TaskTypeOK'
      BY <2>10 DEF PutOver
    <3> QED
      BY <3>1, <3>2, <3>3
  <2>11. CASE PutWaited(t)
    <3>1. SessionTypeOK'
      BY <2>11 DEF PutWaited
    <3>2. LinkTypeOK'
      BY <2>11 DEF PutWaited
    <3>3. TaskTypeOK'
      BY <2>11 DEF PutWaited
    <3> QED
      BY <3>1, <3>2, <3>3
  <2>12. CASE DialReturns(t)
    BY <2>12 DEF DialReturns
  <2> QED
    BY <1>2, <2>1, <2>2, <2>3, <2>4, <2>5, <2>6, <2>7, <2>8, <2>9, <2>10, <2>11, <2>12 DEF DialStep
<1>3. ASSUME NEW s \in Links, SeriesStep(s) PROVE Types'
  <2>1. CASE SeriesDials(s)
    <3>1. SessionTypeOK'
      BY <2>1 DEF SeriesDials
    <3>2. LinkTypeOK'
      BY <2>1 DEF SeriesDials
    <3>3. TaskTypeOK'
      BY <2>1 DEF SeriesDials
    <3> QED
      BY <3>1, <3>2, <3>3
  <2>2. CASE SeriesTaken(s)
    <3>1. SessionTypeOK'
      BY <2>2 DEF SeriesTaken
    <3>2. LinkTypeOK'
      BY <2>2 DEF SeriesTaken
    <3>3. TaskTypeOK'
      BY <2>2 DEF SeriesTaken
    <3> QED
      BY <3>1, <3>2, <3>3
  <2>3. CASE SeriesDies(s)
    <3>1. SessionTypeOK'
      BY <2>3 DEF SeriesDies
    <3>2. LinkTypeOK'
      BY <2>3 DEF SeriesDies, Shut
    <3>3. TaskTypeOK'
      BY <2>3 DEF SeriesDies
    <3> QED
      BY <3>1, <3>2, <3>3
  <2> QED
    BY <1>3, <2>1, <2>2, <2>3 DEF SeriesStep
<1>4. ASSUME NEW l \in Links, LoopStep(l) PROVE Types'
  <2>1. CASE LoopStarts(l)
    <3>1. SessionTypeOK'
      BY <2>1 DEF LoopStarts, NoWatch, Watches
    <3>2. LinkTypeOK'
      BY <2>1 DEF LoopStarts, Phases
    <3>3. TaskTypeOK'
      BY <2>1 DEF LoopStarts
    <3> QED
      BY <3>1, <3>2, <3>3
  <2>2. CASE LoopHearsEnd(l)
    <3>1. SessionTypeOK'
      BY <2>2 DEF LoopHearsEnd
    <3>2. LinkTypeOK'
      BY <2>2 DEF LoopHearsEnd, Phases
    <3>3. TaskTypeOK'
      BY <2>2 DEF LoopHearsEnd
    <3> QED
      BY <3>1, <3>2, <3>3
  <2>3. CASE LoopEndsSession(l)
    <3>1. SessionTypeOK'
      BY <2>3 DEF LoopEndsSession
    <3>2. LinkTypeOK'
      BY <2>3 DEF LoopEndsSession, Phases
    <3>3. TaskTypeOK'
      BY <2>3 DEF LoopEndsSession
    <3> QED
      BY <3>1, <3>2, <3>3
  <2>4. CASE LoopTellsEnd(l)
    <3>1. SessionTypeOK'
      BY <2>4 DEF LoopTellsEnd, NoWatch, Watches
    <3>2. LinkTypeOK'
      BY <2>4 DEF LoopTellsEnd, Phases, Watches
    <3>3. TaskTypeOK'
      BY <2>4 DEF LoopTellsEnd
    <3> QED
      BY <3>1, <3>2, <3>3
  <2>5. CASE AfterDropDeclines(l)
    <3>1. SessionTypeOK'
      BY <2>5 DEF AfterDropDeclines
    <3>2. LinkTypeOK'
      BY <2>5 DEF AfterDropDeclines, Phases
    <3>3. TaskTypeOK'
      BY <2>5 DEF AfterDropDeclines
    <3> QED
      BY <3>1, <3>2, <3>3
  <2>6. CASE AfterDropRedials(l)
    <3>1. SessionTypeOK'
      BY <2>6 DEF AfterDropRedials
    <3>2. LinkTypeOK'
      BY <2>6 DEF AfterDropRedials, Phases
    <3>3. TaskTypeOK'
      BY <2>6 DEF AfterDropRedials
    <3> QED
      BY <3>1, <3>2, <3>3
  <2> QED
    BY <1>4, <2>1, <2>2, <2>3, <2>4, <2>5, <2>6 DEF LoopStep
<1>5. ASSUME Outside PROVE Types'
  <2>1. ASSUME NEW c \in Commands, NEW o \in Ops, Start(c, o) PROVE Types'
    BY <2>1, SMTT(30) DEF Start, FirstPlace
  <2>2. ASSUME NEW l \in Links, LoopText(l) PROVE Types'
    <3>1. SessionTypeOK'
      BY <2>2 DEF LoopText
    <3>2. LinkTypeOK'
      BY <2>2 DEF LoopText
    <3>3. TaskTypeOK'
      BY <2>2 DEF LoopText
    <3> QED
      BY <3>1, <3>2, <3>3
  <2>3. ASSUME NEW l \in Links, LoopFollows(l) PROVE Types'
    <3>1. SessionTypeOK'
      BY <2>3 DEF LoopFollows, Watches
    <3>2. LinkTypeOK'
      BY <2>3 DEF LoopFollows, Watches
    <3>3. TaskTypeOK'
      BY <2>3 DEF LoopFollows
    <3> QED
      BY <3>1, <3>2, <3>3
  <2>4. ASSUME NEW l \in Links, LoopDrops(l) PROVE Types'
    <3>1. SessionTypeOK'
      BY <2>4 DEF LoopDrops
    <3>2. LinkTypeOK'
      BY <2>4 DEF LoopDrops, Phases
    <3>3. TaskTypeOK'
      BY <2>4 DEF LoopDrops
    <3> QED
      BY <3>1, <3>2, <3>3
  <2>5. CASE ReconnectSet
    BY <2>5 DEF ReconnectSet
  <2>6. CASE SendFindsDead
    <3>1. SessionTypeOK'
      BY <2>6 DEF SendFindsDead
    <3>2. LinkTypeOK'
      BY <2>6 DEF SendFindsDead
    <3>3. TaskTypeOK'
      BY <2>6 DEF SendFindsDead
    <3> QED
      BY <3>1, <3>2, <3>3
  <2> QED
    BY <1>5, <2>1, <2>2, <2>3, <2>4, <2>5, <2>6 DEF Outside
<1>6. CASE UNCHANGED vars
  BY <1>6 DEF vars
<1> QED
  BY <1>1, <1>2, <1>3, <1>4, <1>5, <1>6 DEF Next

-----------------------------------------------------------------------------
(* The inductive invariant: the types, and the parts that follow.          *)

IInv ==
    Types /\ TriesOK /\ SeriesOrigin /\ LockOK /\ HandsOK /\ NoStrayLink

\* What a dial that fails does to its task.
FailMoves(t) ==
    /\ \A u \in Tasks : u # t => pc'[u] = pc[u]
    /\ \A s \in Links : s # t => tries'[s] = tries[s]
    /\ pc'[t] \in {"idle", "returned", "wait"}
    /\ t \in Links => /\ tries[t] \in Nat
                      /\ tries'[t] = tries[t] + 1
                      /\ tries[t] + 1 = Tries => pc'[t] = "returned"

\* A dial that fails moves its own task only.
LEMMA DialFailsMoves ==
  ASSUME Types, NEW t \in Tasks, DialFails(t)
  PROVE  FailMoves(t)
<1>1. pc \in [Tasks -> Places] /\ tries \in [Links -> Nat]
  BY DEF Types, TaskTypeOK
<1>2. Commands \cap Links = {} /\ Tasks = Commands \cup Links
  BY LinkAssumption DEF Tasks
<1>3. CASE t \in Commands
  <2>1. pc' = [pc EXCEPT ![t] = "idle"] /\ tries' = tries
    BY <1>3 DEF DialFails, Go
  <2> QED
    BY <1>1, <1>2, <1>3, <2>1 DEF FailMoves
<1>4. CASE t \in Links
  <2>1. /\ tries' = [tries EXCEPT ![t] = tries[t] + 1]
        /\ pc' = [pc EXCEPT ![t] = IF tries[t] + 1 = Tries
                                   THEN "returned" ELSE "wait"]
    BY <1>2, <1>4 DEF DialFails, Go
  <2>2. tries[t] \in Nat
    BY <1>1, <1>4
  <2>3. /\ \A u \in Tasks : u # t => pc'[u] = pc[u]
        /\ \A s \in Links : s # t => tries'[s] = tries[s]
    BY <1>1, <2>1
  <2>4. /\ pc'[t] = IF tries[t] + 1 = Tries THEN "returned" ELSE "wait"
        /\ tries'[t] = tries[t] + 1
    BY <1>1, <1>4, <2>1
  <2> QED
    BY <2>2, <2>3, <2>4 DEF FailMoves
<1> QED
  BY <1>2, <1>3, <1>4

\* It leaves a try to a series that goes on.
LEMMA FailsKeepTries ==
  ASSUME Types, TriesOK, NEW t \in Tasks, FailMoves(t),
         t \in Links => tries[t] + 1 <= Tries
  PROVE  TriesOK'
<1> SUFFICES ASSUME NEW s \in Links
             PROVE  /\ tries'[s] <= Tries
                    /\ pc'[s] \in SeriesPlaces => tries'[s] < Tries
  BY DEF TriesOK, Active
<1>1. tries[s] <= Tries /\ (pc[s] \in SeriesPlaces => tries[s] < Tries)
  BY DEF TriesOK, Active
<1>2. CASE s # t
  BY <1>1, <1>2 DEF FailMoves, Tasks
<1>3. CASE s = t
  <2>1. tries[t] \in Nat /\ Tries \in Nat
    BY <1>3, LinkAssumption DEF FailMoves
  <2> QED
    BY <1>3, <2>1 DEF FailMoves, SeriesPlaces, DialPlaces
<1> QED
  BY <1>2, <1>3

\* It gives birth to no series.
LEMMA FailsKeepOrigin ==
  ASSUME SeriesOrigin, NEW t \in Tasks, FailMoves(t), pc[t] # "unborn",
         phase' = phase
  PROVE  SeriesOrigin'
<1> SUFFICES ASSUME NEW s \in Links
             PROVE  /\ phase'[s] # "done" => pc'[s] = "unborn"
                    /\ pc'[s] = "unborn" => tries'[s] = 0
  BY DEF SeriesOrigin
<1>1. CASE s # t
  BY <1>1 DEF SeriesOrigin, FailMoves, Tasks
<1>2. CASE s = t
  BY <1>2 DEF SeriesOrigin, FailMoves
<1> QED
  BY <1>1, <1>2

\* It copies no handle.
LEMMA FailsKeepHands ==
  ASSUME HandsOK, NEW t \in Tasks, FailMoves(t), slot' = slot,
         made' = made, phase' = phase,
         \/ hand[t] = NoLink /\ hand' = hand
         \/ hand[t] # NoLink /\ hand' = [hand EXCEPT ![t] = NoLink],
         hand \in [Tasks -> Links \cup {NoLink}]
  PROVE  HandsOK'
<1>1. /\ hand'[t] = NoLink
      /\ \A u \in Tasks : u # t => hand'[u] = hand[u] /\ pc'[u] = pc[u]
  BY DEF FailMoves
<1>2. pc'[t] \notin {"spawn", "putWait"}
  BY DEF FailMoves
<1> QED
  BY <1>1, <1>2 DEF HandsOK

\* A task with no handle may move to any place that needs none.
LEMMA MoveKeepsHands ==
  ASSUME HandsOK, NEW t \in Tasks, hand[t] = NoLink, hand' = hand,
         slot' = slot, made' = made, phase' = phase,
         \A u \in Tasks : u # t => pc'[u] = pc[u],
         pc'[t] \notin {"spawn", "putWait"}
  PROVE  HandsOK'
  BY DEF HandsOK

\* A series that begins holds no handle.
LEMMA BirthKeepsHands ==
  ASSUME HandsOK, NEW l \in Links, hand[l] = NoLink, phase[l] # "none",
         slot' = slot, hand' = hand, made' = made, pc'[l] = "wait",
         \A u \in Tasks : u # l => pc'[u] = pc[u],
         \A m \in Links : m # l => phase'[m] = phase[m],
         \A u \in Tasks : hand[u] \in Links \cup {NoLink}
  PROVE  HandsOK'
<1>1. \A u \in Tasks : hand[u] # NoLink => u # l
  OBVIOUS
<1>2. \A u \in Tasks : pc'[u] \in {"spawn", "putWait"} => u # l /\ pc'[u] = pc[u]
  OBVIOUS
<1>3. \A m \in Links : m > made => phase'[m] = "none"
  BY DEF HandsOK
<1>4. ASSUME NEW u \in Tasks, pc'[u] = "spawn"
      PROVE  hand'[u] # NoLink /\ phase'[hand'[u]] = "none"
  <2>1. hand[u] # NoLink /\ phase[hand[u]] = "none"
    BY <1>2, <1>4 DEF HandsOK
  <2>2. hand[u] \in Links /\ hand[u] # l
    BY <2>1
  <2> QED
    BY <2>1, <2>2
<1> QED
  BY <1>1, <1>2, <1>3, <1>4 DEF HandsOK

\* A task may let go of a handle whose link does not run on.
LEMMA LetGoKeepsStray ==
  ASSUME NoStrayLink, NEW t \in Tasks, slot' = slot,
         \A u \in Tasks : u # t => hand'[u] = hand[u],
         \A l \in Links : phase'[l] = phase[l] /\ (told[l] => told'[l]),
         hand[t] \in Links =>
            told'[hand[t]] \/ phase[hand[t]] \in {"none", "done"}
  PROVE  NoStrayLink'
<1> SUFFICES ASSUME NEW l \in Links, Running(l)', ~told'[l]
             PROVE  slot' = l \/ \E u \in Tasks : hand'[u] = l
  BY DEF NoStrayLink
<1>1. Running(l) /\ ~told[l] /\ hand[t] # l
  BY DEF Running
<1>2. slot = l \/ \E u \in Tasks : hand[u] = l
  BY <1>1 DEF NoStrayLink
<1> QED
  BY <1>1, <1>2

\* A step keeps a try left to every series that goes on.
LEMMA TriesStep == IInv /\ [Next]_vars => TriesOK'
<1> SUFFICES ASSUME IInv, [Next]_vars PROVE TriesOK'
  OBVIOUS
<1> USE LinkAssumption DEF IInv, Types, SessionTypeOK, LinkTypeOK, TaskTypeOK, sessionVars, linkVars, taskVars, Go, Links, NoLink, Tasks, TriesOK, SeriesOrigin, Active, SeriesPlaces, DialPlaces
<1>1. ASSUME NEW c \in Commands, CommandStep(c) PROVE TriesOK'
  <2>1. CASE ConnectDrop(c)
    BY <2>1 DEF ConnectDrop, TakeSlot, Shut
  <2>2. CASE ConnectDropped(c)
    BY <2>2 DEF ConnectDropped, LoopOver
  <2>3. CASE CancelNone(c)
    BY <2>3 DEF CancelNone, AfterCancel
  <2>4. CASE CancelSeries(c)
    BY <2>4 DEF CancelSeries, Ends
  <2>5. CASE SeriesEnded(c)
    BY <2>5 DEF SeriesEnded, AfterCancel
  <2>6. CASE DisconnectTake(c)
    BY <2>6 DEF DisconnectTake, TakeSlot, Shut
  <2>7. CASE DisconnectTaken(c)
    BY <2>7 DEF DisconnectTaken, LoopOver
  <2>8. CASE DisconnectFinish(c)
    BY <2>8 DEF DisconnectFinish
  <2> QED
    BY <1>1, <2>1, <2>2, <2>3, <2>4, <2>5, <2>6, <2>7, <2>8 DEF CommandStep
<1>2. ASSUME NEW t \in Tasks, DialStep(t) PROVE TriesOK'
  <2>1. CASE DialTake(t)
    BY <2>1 DEF DialTake, TakeSlot, Shut
  <2>2. CASE DialTaken(t)
    BY <2>2 DEF DialTaken, LoopOver
  <2>3. CASE DialClear(t)
    BY <2>3 DEF DialClear
  <2>4. CASE SocketFails(t)
    <3>1. FailMoves(t)
      BY <2>4, DialFailsMoves DEF SocketFails
    <3> QED
      <4>1. t \in Links => tries[t] + 1 <= Tries
        BY <2>4 DEF SocketFails
      <4> QED
        BY <3>1, <4>1, FailsKeepTries
  <2>5. CASE SocketOpens(t)
    BY <2>5 DEF SocketOpens
  <2>6. CASE SpawnLoop(t)
    BY <2>6 DEF SpawnLoop
  <2>7. CASE PutClosed(t)
    BY <2>7 DEF PutClosed, Shut
  <2>8. CASE PutClosedEnds(t)
    <3>1. FailMoves(t)
      BY <2>8, DialFailsMoves DEF PutClosedEnds
    <3> QED
      <4>1. t \in Links => tries[t] + 1 <= Tries
        BY <2>8 DEF PutClosedEnds
      <4> QED
        BY <3>1, <4>1, FailsKeepTries
  <2>9. CASE PutFree(t)
    BY <2>9 DEF PutFree
  <2>10. CASE PutOver(t)
    BY <2>10 DEF PutOver, Shut
  <2>11. CASE PutWaited(t)
    BY <2>11 DEF PutWaited
  <2>12. CASE DialReturns(t)
    BY <2>12 DEF DialReturns
  <2> QED
    BY <1>2, <2>1, <2>2, <2>3, <2>4, <2>5, <2>6, <2>7, <2>8, <2>9, <2>10, <2>11, <2>12 DEF DialStep
<1>3. ASSUME NEW s \in Links, SeriesStep(s) PROVE TriesOK'
  <2>1. CASE SeriesDials(s)
    BY <2>1 DEF SeriesDials
  <2>2. CASE SeriesTaken(s)
    BY <2>2 DEF SeriesTaken
  <2>3. CASE SeriesDies(s)
    BY <2>3 DEF SeriesDies, Shut, Active
  <2> QED
    BY <1>3, <2>1, <2>2, <2>3 DEF SeriesStep
<1>4. ASSUME NEW l \in Links, LoopStep(l) PROVE TriesOK'
  <2>1. CASE LoopStarts(l)
    BY <2>1 DEF LoopStarts
  <2>2. CASE LoopHearsEnd(l)
    BY <2>2 DEF LoopHearsEnd
  <2>3. CASE LoopEndsSession(l)
    BY <2>3 DEF LoopEndsSession
  <2>4. CASE LoopTellsEnd(l)
    BY <2>4 DEF LoopTellsEnd
  <2>5. CASE AfterDropDeclines(l)
    BY <2>5 DEF AfterDropDeclines
  <2>6. CASE AfterDropRedials(l)
    BY <2>6 DEF AfterDropRedials
  <2> QED
    BY <1>4, <2>1, <2>2, <2>3, <2>4, <2>5, <2>6 DEF LoopStep
<1>5. ASSUME Outside PROVE TriesOK'
  <2>1. ASSUME NEW c \in Commands, NEW o \in Ops, Start(c, o) PROVE TriesOK'
    BY <2>1 DEF Start, FirstPlace
  <2>2. ASSUME NEW l \in Links, LoopText(l) PROVE TriesOK'
    BY <2>2 DEF LoopText
  <2>3. ASSUME NEW l \in Links, LoopFollows(l) PROVE TriesOK'
    BY <2>3 DEF LoopFollows
  <2>4. ASSUME NEW l \in Links, LoopDrops(l) PROVE TriesOK'
    BY <2>4 DEF LoopDrops
  <2>5. CASE ReconnectSet
    BY <2>5 DEF ReconnectSet
  <2>6. CASE SendFindsDead
    BY <2>6 DEF SendFindsDead
  <2> QED
    BY <1>5, <2>1, <2>2, <2>3, <2>4, <2>5, <2>6 DEF Outside
<1>6. CASE UNCHANGED vars
  BY <1>6 DEF vars
<1> QED
  BY <1>1, <1>2, <1>3, <1>4, <1>5, <1>6 DEF Next

\* A series is born once, as its loop is done.
LEMMA OriginStep == IInv /\ [Next]_vars => SeriesOrigin'
<1> SUFFICES ASSUME IInv, [Next]_vars PROVE SeriesOrigin'
  OBVIOUS
<1> USE LinkAssumption DEF IInv, Types, SessionTypeOK, LinkTypeOK, TaskTypeOK, sessionVars, linkVars, taskVars, Go, Links, NoLink, Tasks, SeriesOrigin, HandsOK
<1>1. ASSUME NEW c \in Commands, CommandStep(c) PROVE SeriesOrigin'
  <2>1. CASE ConnectDrop(c)
    BY <2>1 DEF ConnectDrop, TakeSlot, Shut
  <2>2. CASE ConnectDropped(c)
    BY <2>2 DEF ConnectDropped, LoopOver
  <2>3. CASE CancelNone(c)
    BY <2>3 DEF CancelNone, AfterCancel
  <2>4. CASE CancelSeries(c)
    BY <2>4 DEF CancelSeries, Ends
  <2>5. CASE SeriesEnded(c)
    BY <2>5 DEF SeriesEnded, AfterCancel
  <2>6. CASE DisconnectTake(c)
    BY <2>6 DEF DisconnectTake, TakeSlot, Shut
  <2>7. CASE DisconnectTaken(c)
    BY <2>7 DEF DisconnectTaken, LoopOver
  <2>8. CASE DisconnectFinish(c)
    BY <2>8 DEF DisconnectFinish
  <2> QED
    BY <1>1, <2>1, <2>2, <2>3, <2>4, <2>5, <2>6, <2>7, <2>8 DEF CommandStep
<1>2. ASSUME NEW t \in Tasks, DialStep(t) PROVE SeriesOrigin'
  <2>1. CASE DialTake(t)
    BY <2>1 DEF DialTake, TakeSlot, Shut
  <2>2. CASE DialTaken(t)
    BY <2>2 DEF DialTaken, LoopOver
  <2>3. CASE DialClear(t)
    BY <2>3 DEF DialClear
  <2>4. CASE SocketFails(t)
    <3>1. FailMoves(t)
      BY <2>4, DialFailsMoves DEF SocketFails
    <3> QED
      <4>1. pc[t] # "unborn" /\ phase' = phase
        BY <2>4 DEF SocketFails
      <4> QED
        BY <3>1, <4>1, FailsKeepOrigin
  <2>5. CASE SocketOpens(t)
    BY <2>5 DEF SocketOpens
  <2>6. CASE SpawnLoop(t)
    BY <2>6 DEF SpawnLoop
  <2>7. CASE PutClosed(t)
    BY <2>7 DEF PutClosed, Shut
  <2>8. CASE PutClosedEnds(t)
    <3>1. FailMoves(t)
      BY <2>8, DialFailsMoves DEF PutClosedEnds
    <3> QED
      <4>1. pc[t] # "unborn" /\ phase' = phase
        BY <2>8 DEF PutClosedEnds
      <4> QED
        BY <3>1, <4>1, FailsKeepOrigin
  <2>9. CASE PutFree(t)
    BY <2>9 DEF PutFree
  <2>10. CASE PutOver(t)
    BY <2>10 DEF PutOver, Shut
  <2>11. CASE PutWaited(t)
    BY <2>11 DEF PutWaited
  <2>12. CASE DialReturns(t)
    BY <2>12 DEF DialReturns
  <2> QED
    BY <1>2, <2>1, <2>2, <2>3, <2>4, <2>5, <2>6, <2>7, <2>8, <2>9, <2>10, <2>11, <2>12 DEF DialStep
<1>3. ASSUME NEW s \in Links, SeriesStep(s) PROVE SeriesOrigin'
  <2>1. CASE SeriesDials(s)
    BY <2>1 DEF SeriesDials
  <2>2. CASE SeriesTaken(s)
    BY <2>2 DEF SeriesTaken
  <2>3. CASE SeriesDies(s)
    <3>1. pc[s] # "unborn"
      BY <2>3 DEF SeriesDies, Active, SeriesPlaces, DialPlaces
    <3> QED
      BY <2>3, <3>1 DEF SeriesDies
  <2> QED
    BY <1>3, <2>1, <2>2, <2>3 DEF SeriesStep
<1>4. ASSUME NEW l \in Links, LoopStep(l) PROVE SeriesOrigin'
  <2>1. CASE LoopStarts(l)
    BY <2>1 DEF LoopStarts
  <2>2. CASE LoopHearsEnd(l)
    BY <2>2 DEF LoopHearsEnd
  <2>3. CASE LoopEndsSession(l)
    BY <2>3 DEF LoopEndsSession
  <2>4. CASE LoopTellsEnd(l)
    BY <2>4 DEF LoopTellsEnd
  <2>5. CASE AfterDropDeclines(l)
    BY <2>5 DEF AfterDropDeclines
  <2>6. CASE AfterDropRedials(l)
    BY <2>6 DEF AfterDropRedials
  <2> QED
    BY <1>4, <2>1, <2>2, <2>3, <2>4, <2>5, <2>6 DEF LoopStep
<1>5. ASSUME Outside PROVE SeriesOrigin'
  <2>1. ASSUME NEW c \in Commands, NEW o \in Ops, Start(c, o) PROVE SeriesOrigin'
    BY <2>1 DEF Start, FirstPlace
  <2>2. ASSUME NEW l \in Links, LoopText(l) PROVE SeriesOrigin'
    BY <2>2 DEF LoopText
  <2>3. ASSUME NEW l \in Links, LoopFollows(l) PROVE SeriesOrigin'
    BY <2>3 DEF LoopFollows
  <2>4. ASSUME NEW l \in Links, LoopDrops(l) PROVE SeriesOrigin'
    BY <2>4 DEF LoopDrops
  <2>5. CASE ReconnectSet
    BY <2>5 DEF ReconnectSet
  <2>6. CASE SendFindsDead
    BY <2>6 DEF SendFindsDead
  <2> QED
    BY <1>5, <2>1, <2>2, <2>3, <2>4, <2>5, <2>6 DEF Outside
<1>6. CASE UNCHANGED vars
  BY <1>6 DEF vars
<1> QED
  BY <1>1, <1>2, <1>3, <1>4, <1>5, <1>6 DEF Next

\* A task that waits under the lock has it, and no other has it.
LEMMA LockStep == IInv /\ [Next]_vars => LockOK'
<1> SUFFICES ASSUME IInv, [Next]_vars PROVE LockOK'
  OBVIOUS
<1> USE LinkAssumption DEF IInv, Types, SessionTypeOK, LinkTypeOK, TaskTypeOK, sessionVars, linkVars, taskVars, Go, Links, NoLink, Tasks, SeriesOrigin, LockOK, Holding
<1>1. ASSUME NEW c \in Commands, CommandStep(c) PROVE LockOK'
  <2>1. CASE ConnectDrop(c)
    BY <2>1 DEF ConnectDrop, TakeSlot, Shut
  <2>2. CASE ConnectDropped(c)
    BY <2>2 DEF ConnectDropped, LoopOver
  <2>3. CASE CancelNone(c)
    BY <2>3 DEF CancelNone, AfterCancel
  <2>4. CASE CancelSeries(c)
    BY <2>4 DEF CancelSeries, Ends
  <2>5. CASE SeriesEnded(c)
    BY <2>5 DEF SeriesEnded, AfterCancel
  <2>6. CASE DisconnectTake(c)
    BY <2>6 DEF DisconnectTake, TakeSlot, Shut
  <2>7. CASE DisconnectTaken(c)
    BY <2>7 DEF DisconnectTaken, LoopOver
  <2>8. CASE DisconnectFinish(c)
    BY <2>8 DEF DisconnectFinish
  <2> QED
    BY <1>1, <2>1, <2>2, <2>3, <2>4, <2>5, <2>6, <2>7, <2>8 DEF CommandStep
<1>2. ASSUME NEW t \in Tasks, DialStep(t) PROVE LockOK'
  <2>1. CASE DialTake(t)
    BY <2>1 DEF DialTake, TakeSlot, Shut
  <2>2. CASE DialTaken(t)
    BY <2>2 DEF DialTaken, LoopOver
  <2>3. CASE DialClear(t)
    BY <2>3 DEF DialClear
  <2>4. CASE SocketFails(t)
    <3>1. FailMoves(t)
      BY <2>4, DialFailsMoves DEF SocketFails
    <3> QED
      BY <2>4, <3>1 DEF SocketFails, FailMoves
  <2>5. CASE SocketOpens(t)
    BY <2>5 DEF SocketOpens
  <2>6. CASE SpawnLoop(t)
    BY <2>6 DEF SpawnLoop
  <2>7. CASE PutClosed(t)
    BY <2>7 DEF PutClosed, Shut
  <2>8. CASE PutClosedEnds(t)
    <3>1. FailMoves(t)
      BY <2>8, DialFailsMoves DEF PutClosedEnds
    <3> QED
      BY <2>8, <3>1 DEF PutClosedEnds, FailMoves
  <2>9. CASE PutFree(t)
    BY <2>9 DEF PutFree
  <2>10. CASE PutOver(t)
    BY <2>10 DEF PutOver, Shut
  <2>11. CASE PutWaited(t)
    BY <2>11 DEF PutWaited
  <2>12. CASE DialReturns(t)
    BY <2>12 DEF DialReturns
  <2> QED
    BY <1>2, <2>1, <2>2, <2>3, <2>4, <2>5, <2>6, <2>7, <2>8, <2>9, <2>10, <2>11, <2>12 DEF DialStep
<1>3. ASSUME NEW s \in Links, SeriesStep(s) PROVE LockOK'
  <2>1. CASE SeriesDials(s)
    BY <2>1 DEF SeriesDials
  <2>2. CASE SeriesTaken(s)
    BY <2>2 DEF SeriesTaken
  <2>3. CASE SeriesDies(s)
    BY <2>3 DEF SeriesDies, Shut, Active
  <2> QED
    BY <1>3, <2>1, <2>2, <2>3 DEF SeriesStep
<1>4. ASSUME NEW l \in Links, LoopStep(l) PROVE LockOK'
  <2>1. CASE LoopStarts(l)
    BY <2>1 DEF LoopStarts
  <2>2. CASE LoopHearsEnd(l)
    BY <2>2 DEF LoopHearsEnd
  <2>3. CASE LoopEndsSession(l)
    BY <2>3 DEF LoopEndsSession
  <2>4. CASE LoopTellsEnd(l)
    BY <2>4 DEF LoopTellsEnd
  <2>5. CASE AfterDropDeclines(l)
    BY <2>5 DEF AfterDropDeclines
  <2>6. CASE AfterDropRedials(l)
    BY <2>6 DEF AfterDropRedials
  <2> QED
    BY <1>4, <2>1, <2>2, <2>3, <2>4, <2>5, <2>6 DEF LoopStep
<1>5. ASSUME Outside PROVE LockOK'
  <2>1. ASSUME NEW c \in Commands, NEW o \in Ops, Start(c, o) PROVE LockOK'
    BY <2>1 DEF Start, FirstPlace
  <2>2. ASSUME NEW l \in Links, LoopText(l) PROVE LockOK'
    BY <2>2 DEF LoopText
  <2>3. ASSUME NEW l \in Links, LoopFollows(l) PROVE LockOK'
    BY <2>3 DEF LoopFollows
  <2>4. ASSUME NEW l \in Links, LoopDrops(l) PROVE LockOK'
    BY <2>4 DEF LoopDrops
  <2>5. CASE ReconnectSet
    BY <2>5 DEF ReconnectSet
  <2>6. CASE SendFindsDead
    BY <2>6 DEF SendFindsDead
  <2> QED
    BY <1>5, <2>1, <2>2, <2>3, <2>4, <2>5, <2>6 DEF Outside
<1>6. CASE UNCHANGED vars
  BY <1>6 DEF vars
<1> QED
  BY <1>1, <1>2, <1>3, <1>4, <1>5, <1>6 DEF Next

\* No step copies a handle.
LEMMA HandsStep == IInv /\ [Next]_vars => HandsOK'
<1> SUFFICES ASSUME IInv, [Next]_vars PROVE HandsOK'
  OBVIOUS
<1> USE LinkAssumption DEF IInv, Types, SessionTypeOK, LinkTypeOK, TaskTypeOK, sessionVars, linkVars, taskVars, Go, Links, NoLink, Tasks, SeriesOrigin, LockOK, Holding, HandsOK
<1>1. ASSUME NEW c \in Commands, CommandStep(c) PROVE HandsOK'
  <2>1. CASE ConnectDrop(c)
    BY <2>1 DEF ConnectDrop, TakeSlot, Shut
  <2>2. CASE ConnectDropped(c)
    BY <2>2 DEF ConnectDropped, LoopOver
  <2>3. CASE CancelNone(c)
    BY <2>3 DEF CancelNone, AfterCancel
  <2>4. CASE CancelSeries(c)
    <3>1. /\ hand' = hand /\ slot' = slot /\ made' = made
          /\ phase' = phase /\ told' = told
          /\ \A u \in Tasks : u # c => pc'[u] = pc[u]
          /\ pc'[c] \in {"ending", "ending2"} /\ pc[c] \in {"cancel", "cancel2"}
      BY <2>4 DEF CancelSeries
    <3>2. hand[c] = NoLink /\ c \in Tasks
      BY <3>1
    <3>3. HandsOK
      OBVIOUS
    <3> HIDE DEF Types, IInv, HandsOK, LockOK, SeriesOrigin, Tasks, Links
    <3> QED
      BY <3>1, <3>2, <3>3, MoveKeepsHands
  <2>5. CASE SeriesEnded(c)
    <3>1. /\ hand' = hand /\ slot' = slot /\ made' = made /\ phase' = phase
          /\ \A u \in Tasks : u # c => pc'[u] = pc[u]
          /\ pc[c] \in {"ending", "ending2"}
      BY <2>5 DEF SeriesEnded
    <3>2. pc'[c] \in {"dial", "take", "finish", "idle"}
      BY <2>5 DEF SeriesEnded, AfterCancel
    <3>3. hand[c] = NoLink /\ c \in Tasks
      BY <3>1
    <3>4. HandsOK
      OBVIOUS
    <3> HIDE DEF Types, IInv, HandsOK, LockOK, SeriesOrigin, Tasks, Links
    <3> QED
      BY <3>1, <3>2, <3>3, <3>4, MoveKeepsHands
  <2>6. CASE DisconnectTake(c)
    BY <2>6 DEF DisconnectTake, TakeSlot, Shut
  <2>7. CASE DisconnectTaken(c)
    BY <2>7 DEF DisconnectTaken, LoopOver
  <2>8. CASE DisconnectFinish(c)
    BY <2>8 DEF DisconnectFinish
  <2> QED
    BY <1>1, <2>1, <2>2, <2>3, <2>4, <2>5, <2>6, <2>7, <2>8 DEF CommandStep
<1>2. ASSUME NEW t \in Tasks, DialStep(t) PROVE HandsOK'
  <2>1. CASE DialTake(t)
    BY <2>1 DEF DialTake, TakeSlot, Shut
  <2>2. CASE DialTaken(t)
    BY <2>2 DEF DialTaken, LoopOver
  <2>3. CASE DialClear(t)
    BY <2>3 DEF DialClear
  <2>4. CASE SocketFails(t)
    <3>1. FailMoves(t)
      BY <2>4, DialFailsMoves DEF SocketFails
    <3> QED
      <4>1. hand[t] = NoLink
        BY <2>4 DEF SocketFails
      <4>2. /\ hand' = hand /\ slot' = slot /\ made' = made /\ phase' = phase
        BY <2>4 DEF SocketFails
      <4> QED
        BY <3>1, <4>1, <4>2, FailsKeepHands
  <2>5. CASE SocketOpens(t)
    BY <2>5 DEF SocketOpens
  <2>6. CASE SpawnLoop(t)
    BY <2>6 DEF SpawnLoop
  <2>7. CASE PutClosed(t)
    BY <2>7 DEF PutClosed, Shut
  <2>8. CASE PutClosedEnds(t)
    <3>1. FailMoves(t)
      BY <2>8, DialFailsMoves DEF PutClosedEnds
    <3> QED
      <4>1. /\ slot' = slot /\ made' = made /\ phase' = phase
            /\ hand' = [hand EXCEPT ![t] = NoLink]
        BY <2>8 DEF PutClosedEnds
      <4>2. hand[t] # NoLink \/ hand' = hand
        BY <4>1
      <4> QED
        BY <3>1, <4>1, <4>2, FailsKeepHands
  <2>9. CASE PutFree(t)
    BY <2>9 DEF PutFree
  <2>10. CASE PutOver(t)
    BY <2>10 DEF PutOver, Shut
  <2>11. CASE PutWaited(t)
    BY <2>11 DEF PutWaited
  <2>12. CASE DialReturns(t)
    BY <2>12 DEF DialReturns
  <2> QED
    BY <1>2, <2>1, <2>2, <2>3, <2>4, <2>5, <2>6, <2>7, <2>8, <2>9, <2>10, <2>11, <2>12 DEF DialStep
<1>3. ASSUME NEW s \in Links, SeriesStep(s) PROVE HandsOK'
  <2>1. CASE SeriesDials(s)
    BY <2>1 DEF SeriesDials
  <2>2. CASE SeriesTaken(s)
    BY <2>2 DEF SeriesTaken
  <2>3. CASE SeriesDies(s)
    BY <2>3 DEF SeriesDies, Shut, Active
  <2> QED
    BY <1>3, <2>1, <2>2, <2>3 DEF SeriesStep
<1>4. ASSUME NEW l \in Links, LoopStep(l) PROVE HandsOK'
  <2>1. CASE LoopStarts(l)
    BY <2>1 DEF LoopStarts
  <2>2. CASE LoopHearsEnd(l)
    BY <2>2 DEF LoopHearsEnd
  <2>3. CASE LoopEndsSession(l)
    BY <2>3 DEF LoopEndsSession
  <2>4. CASE LoopTellsEnd(l)
    BY <2>4 DEF LoopTellsEnd
  <2>5. CASE AfterDropDeclines(l)
    BY <2>5 DEF AfterDropDeclines
  <2>6. CASE AfterDropRedials(l)
    <3>1. hand[l] = NoLink /\ slot' = slot /\ hand' = hand /\ made' = made
      BY <2>6 DEF AfterDropRedials
    <3>2. \A u \in Tasks : u # l => pc'[u] = pc[u]
      BY <2>6 DEF AfterDropRedials
    <3>3. pc'[l] = "wait" /\ phase[l] = "after"
      BY <2>6 DEF AfterDropRedials
    <3>4. \A m \in Links : m # l => phase'[m] = phase[m]
      BY <2>6 DEF AfterDropRedials
    <3> QED
      BY <3>1, <3>2, <3>3, <3>4, BirthKeepsHands
  <2> QED
    BY <1>4, <2>1, <2>2, <2>3, <2>4, <2>5, <2>6 DEF LoopStep
<1>5. ASSUME Outside PROVE HandsOK'
  <2>1. ASSUME NEW c \in Commands, NEW o \in Ops, Start(c, o) PROVE HandsOK'
    BY <2>1 DEF Start, FirstPlace
  <2>2. ASSUME NEW l \in Links, LoopText(l) PROVE HandsOK'
    BY <2>2 DEF LoopText
  <2>3. ASSUME NEW l \in Links, LoopFollows(l) PROVE HandsOK'
    BY <2>3 DEF LoopFollows
  <2>4. ASSUME NEW l \in Links, LoopDrops(l) PROVE HandsOK'
    BY <2>4 DEF LoopDrops
  <2>5. CASE ReconnectSet
    BY <2>5 DEF ReconnectSet
  <2>6. CASE SendFindsDead
    BY <2>6 DEF SendFindsDead
  <2> QED
    BY <1>5, <2>1, <2>2, <2>3, <2>4, <2>5, <2>6 DEF Outside
<1>6. CASE UNCHANGED vars
  BY <1>6 DEF vars
<1> QED
  BY <1>1, <1>2, <1>3, <1>4, <1>5, <1>6 DEF Next

\* No step loses the handle of a link that runs on.
LEMMA StrayStep == IInv /\ [Next]_vars => NoStrayLink'
<1> SUFFICES ASSUME IInv, [Next]_vars PROVE NoStrayLink'
  OBVIOUS
<1> USE LinkAssumption DEF IInv, Types, SessionTypeOK, LinkTypeOK, TaskTypeOK, sessionVars, linkVars, taskVars, Go, Links, NoLink, Tasks, SeriesOrigin, LockOK, Holding, HandsOK, NoStrayLink, Running
<1>1. ASSUME NEW c \in Commands, CommandStep(c) PROVE NoStrayLink'
  <2>1. CASE ConnectDrop(c)
    <3>1. hand[c] = NoLink /\ hand' = [hand EXCEPT ![c] = slot]
      BY <2>1 DEF ConnectDrop, TakeSlot
    <3>2. \A l \in Links : phase'[l] = phase[l] /\ (told[l] => told'[l])
      BY <2>1 DEF ConnectDrop, TakeSlot, Shut
    <3> QED
      BY <3>1, <3>2
  <2>2. CASE ConnectDropped(c)
    BY <2>2 DEF ConnectDropped, LoopOver
  <2>3. CASE CancelNone(c)
    BY <2>3 DEF CancelNone, AfterCancel
  <2>4. CASE CancelSeries(c)
    <3>1. /\ hand' = hand /\ slot' = slot /\ made' = made
          /\ phase' = phase /\ told' = told
          /\ \A u \in Tasks : u # c => pc'[u] = pc[u]
          /\ pc'[c] \in {"ending", "ending2"} /\ pc[c] \in {"cancel", "cancel2"}
      BY <2>4 DEF CancelSeries
    <3> QED
      BY <3>1
  <2>5. CASE SeriesEnded(c)
    <3>1. hand' = hand /\ slot' = slot /\ phase' = phase /\ told' = told
      BY <2>5 DEF SeriesEnded
    <3> QED
      BY <3>1
  <2>6. CASE DisconnectTake(c)
    <3>1. hand[c] = NoLink /\ hand' = [hand EXCEPT ![c] = slot]
      BY <2>6 DEF DisconnectTake, TakeSlot
    <3>2. \A l \in Links : phase'[l] = phase[l] /\ (told[l] => told'[l])
      BY <2>6 DEF DisconnectTake, TakeSlot, Shut
    <3> QED
      BY <3>1, <3>2
  <2>7. CASE DisconnectTaken(c)
    BY <2>7 DEF DisconnectTaken, LoopOver
  <2>8. CASE DisconnectFinish(c)
    BY <2>8 DEF DisconnectFinish
  <2> QED
    BY <1>1, <2>1, <2>2, <2>3, <2>4, <2>5, <2>6, <2>7, <2>8 DEF CommandStep
<1>2. ASSUME NEW t \in Tasks, DialStep(t) PROVE NoStrayLink'
  <2>1. CASE DialTake(t)
    <3>1. hand[t] = NoLink /\ hand' = [hand EXCEPT ![t] = slot]
      BY <2>1 DEF DialTake, TakeSlot
    <3>2. \A l \in Links : phase'[l] = phase[l] /\ (told[l] => told'[l])
      BY <2>1 DEF DialTake, TakeSlot, Shut
    <3> QED
      BY <3>1, <3>2
  <2>2. CASE DialTaken(t)
    BY <2>2 DEF DialTaken, LoopOver
  <2>3. CASE DialClear(t)
    BY <2>3 DEF DialClear
  <2>4. CASE SocketFails(t)
    <3>1. FailMoves(t)
      BY <2>4, DialFailsMoves DEF SocketFails
    <3> QED
      BY <2>4, <3>1 DEF SocketFails, FailMoves
  <2>5. CASE SocketOpens(t)
    <3>1. hand[t] = NoLink /\ hand' = [hand EXCEPT ![t] = made + 1]
      BY <2>5 DEF SocketOpens
    <3>2. phase' = phase /\ told' = told /\ slot' = slot
      BY <2>5 DEF SocketOpens
    <3> QED
      BY <3>1, <3>2
  <2>6. CASE SpawnLoop(t)
    BY <2>6 DEF SpawnLoop
  <2>7. CASE PutClosed(t)
    BY <2>7 DEF PutClosed, Shut
  <2>8. CASE PutClosedEnds(t)
    <3>1. FailMoves(t)
      BY <2>8, DialFailsMoves DEF PutClosedEnds
    <3> QED
      BY <2>8, <3>1 DEF PutClosedEnds, FailMoves
  <2>9. CASE PutFree(t)
    BY <2>9 DEF PutFree
  <2>10. CASE PutOver(t)
    BY <2>10 DEF PutOver, Shut
  <2>11. CASE PutWaited(t)
    BY <2>11 DEF PutWaited
  <2>12. CASE DialReturns(t)
    BY <2>12 DEF DialReturns
  <2> QED
    BY <1>2, <2>1, <2>2, <2>3, <2>4, <2>5, <2>6, <2>7, <2>8, <2>9, <2>10, <2>11, <2>12 DEF DialStep
<1>3. ASSUME NEW s \in Links, SeriesStep(s) PROVE NoStrayLink'
  <2>1. CASE SeriesDials(s)
    BY <2>1 DEF SeriesDials
  <2>2. CASE SeriesTaken(s)
    BY <2>2 DEF SeriesTaken
  <2>3. CASE SeriesDies(s)
    <3>1. \A l \in Links : phase'[l] = phase[l] /\ (told[l] => told'[l])
      BY <2>3 DEF SeriesDies, Shut
    <3>2. slot' = slot /\ \A u \in Tasks : u # s => hand'[u] = hand[u]
      BY <2>3 DEF SeriesDies
    <3>3. hand[s] = NoLink \/ told'[hand[s]] \/ phase[hand[s]] = "none"
      BY <2>3 DEF SeriesDies, Shut, Active, SeriesPlaces, DialPlaces
    <3>4. s \in Tasks /\ (hand[s] \in Links =>
             told'[hand[s]] \/ phase[hand[s]] \in {"none", "done"})
      BY <3>3
    <3>5. NoStrayLink
      OBVIOUS
    <3> HIDE DEF Types, IInv, HandsOK, LockOK, SeriesOrigin, NoStrayLink,
                 Running, Tasks, Links
    <3> QED
      BY <3>1, <3>2, <3>4, <3>5, LetGoKeepsStray
  <2> QED
    BY <1>3, <2>1, <2>2, <2>3 DEF SeriesStep
<1>4. ASSUME NEW l \in Links, LoopStep(l) PROVE NoStrayLink'
  <2>1. CASE LoopStarts(l)
    BY <2>1 DEF LoopStarts
  <2>2. CASE LoopHearsEnd(l)
    BY <2>2 DEF LoopHearsEnd
  <2>3. CASE LoopEndsSession(l)
    BY <2>3 DEF LoopEndsSession
  <2>4. CASE LoopTellsEnd(l)
    BY <2>4 DEF LoopTellsEnd
  <2>5. CASE AfterDropDeclines(l)
    BY <2>5 DEF AfterDropDeclines
  <2>6. CASE AfterDropRedials(l)
    BY <2>6 DEF AfterDropRedials
  <2> QED
    BY <1>4, <2>1, <2>2, <2>3, <2>4, <2>5, <2>6 DEF LoopStep
<1>5. ASSUME Outside PROVE NoStrayLink'
  <2>1. ASSUME NEW c \in Commands, NEW o \in Ops, Start(c, o) PROVE NoStrayLink'
    BY <2>1 DEF Start, FirstPlace
  <2>2. ASSUME NEW l \in Links, LoopText(l) PROVE NoStrayLink'
    BY <2>2 DEF LoopText
  <2>3. ASSUME NEW l \in Links, LoopFollows(l) PROVE NoStrayLink'
    BY <2>3 DEF LoopFollows
  <2>4. ASSUME NEW l \in Links, LoopDrops(l) PROVE NoStrayLink'
    BY <2>4 DEF LoopDrops
  <2>5. CASE ReconnectSet
    BY <2>5 DEF ReconnectSet
  <2>6. CASE SendFindsDead
    BY <2>6 DEF SendFindsDead
  <2> QED
    BY <1>5, <2>1, <2>2, <2>3, <2>4, <2>5, <2>6 DEF Outside
<1>6. CASE UNCHANGED vars
  BY <1>6 DEF vars
<1> QED
  BY <1>1, <1>2, <1>3, <1>4, <1>5, <1>6 DEF Next

-----------------------------------------------------------------------------
(* The theorems.                                                           *)

\* The invariant holds at the start.
LEMMA InitInv == Init => IInv
<1> SUFFICES ASSUME Init PROVE IInv
  OBVIOUS
<1>1. Types
  BY InitTypes
<1>2. Commands \cap Links = {} /\ NoTask \notin Tasks /\ Tries \in Nat \ {0}
  BY LinkAssumption
<1>3. TriesOK
  BY <1>2 DEF Init, TriesOK, Active, SeriesPlaces, DialPlaces, Tasks
<1>4. SeriesOrigin
  BY <1>2 DEF Init, SeriesOrigin, Tasks
<1>5. LockOK
  BY <1>2 DEF Init, LockOK, Holding
<1>6. HandsOK
  BY DEF Init, HandsOK, NoLink
<1>7. NoStrayLink
  BY DEF Init, NoStrayLink, Running
<1> QED
  BY <1>1, <1>3, <1>4, <1>5, <1>6, <1>7 DEF IInv

\* Every step keeps the invariant.
LEMMA NextInv == IInv /\ [Next]_vars => IInv'
  BY NextTypes, TriesStep, OriginStep, LockStep, HandsStep, StrayStep DEF IInv

(* The parts of the invariant hold together from the start on (session.rs, *)
(* reconnect.rs).                                                          *)
THEOREM Inductive == Spec => []IInv
  BY InitInv, NextInv, PTL DEF Spec

(* Every variable keeps its type, and a series never goes on past its last *)
(* try (run_series in reconnect.rs), for any number of commands and links. *)
THEOREM TypeCorrect == Spec => []TypeOK
<1>1. IInv => TypeOK
  BY DEF IInv, Types, TypeOK
<1> QED
  BY Inductive, <1>1, PTL

(* No link runs on with nothing that can end it: a handle is in the slot   *)
(* or in the task that dialed it, through raced connects, closes and the   *)
(* abort of a try (dial and disconnect in session.rs).                     *)
THEOREM NoLinkStrays == Spec => []NoStrayLink
<1>1. IInv => NoStrayLink
  BY DEF IInv
<1> QED
  BY Inductive, <1>1, PTL

-----------------------------------------------------------------------------
(* A close.                                                                *)

\* A close that has yet to take the slot.
Closing(c) == op[c] = "close" /\ pc[c] \in {"cancel", "ending", "take"}

\* A session out of the map has a link in the slot, or one that comes to it,
\* only while the close has yet to take it.
CloseComes ==
    ~open /\ (slot # NoLink \/ \E t \in Tasks : pc[t] = "putWait") =>
        \E c \in Commands : Closing(c)

\* A task moves that neither closes nor puts a link into the slot.
LEMMA CloseKept ==
  ASSUME IInv, CloseComes, NEW t \in Tasks, open' = open, op' = op,
         slot' \in {slot, NoLink}, \A u \in Tasks \ {t} : pc'[u] = pc[u],
         pc'[t] # "putWait", t \in Commands /\ Closing(t) => Closing(t)'
  PROVE  CloseComes'
<1> SUFFICES ASSUME ~open', slot' # NoLink \/ \E u \in Tasks : pc'[u] = "putWait"
             PROVE  \E c \in Commands : Closing(c)'
  BY DEF CloseComes
<1>1. PICK c \in Commands : Closing(c)
  BY DEF CloseComes
<1>2. CASE c = t
  BY <1>1, <1>2
<1>3. CASE c # t
  BY <1>1, <1>3 DEF Closing, Tasks
<1> QED
  BY <1>2, <1>3

LEMMA CloseStep == IInv /\ CloseComes /\ [Next]_vars => CloseComes'
<1> SUFFICES ASSUME IInv, CloseComes, [Next]_vars PROVE CloseComes'
  OBVIOUS
<1> USE LinkAssumption DEF IInv, Types, SessionTypeOK, LinkTypeOK, TaskTypeOK, sessionVars, linkVars,
      taskVars, Go, Links, NoLink, Tasks
<1>1. ASSUME NEW c \in Commands, CommandStep(c) PROVE CloseComes'
  <2>1. CASE ConnectDrop(c)
    BY <2>1, CloseKept DEF ConnectDrop, TakeSlot, Closing
  <2>2. CASE ConnectDropped(c)
    BY <2>2, CloseKept DEF ConnectDropped, LoopOver, Closing
  <2>3. CASE CancelNone(c)
    BY <2>3, CloseKept DEF CancelNone, AfterCancel, Closing
  <2>4. CASE CancelSeries(c)
    BY <2>4, CloseKept DEF CancelSeries, Closing
  <2>5. CASE SeriesEnded(c)
    BY <2>5, CloseKept DEF SeriesEnded, AfterCancel, Closing
  <2>6. CASE DisconnectTake(c)
    <3>1. slot' = NoLink /\ pc'[c] \in {"takeWait", "cancel2"}
      BY <2>6 DEF DisconnectTake, TakeSlot
    <3>2. \A t \in Tasks : pc[t] # "putWait"
      BY <2>6 DEF DisconnectTake, TakeSlot, LockOK, Holding
    <3> QED
      BY <2>6, <3>1, <3>2 DEF DisconnectTake, TakeSlot, CloseComes
  <2>7. CASE DisconnectTaken(c)
    BY <2>7, CloseKept DEF DisconnectTaken, LoopOver, Closing
  <2>8. CASE DisconnectFinish(c)
    BY <2>8, CloseKept DEF DisconnectFinish, Closing
  <2> QED
    BY <1>1, <2>1, <2>2, <2>3, <2>4, <2>5, <2>6, <2>7, <2>8 DEF CommandStep
<1>2. ASSUME NEW t \in Tasks, DialStep(t) PROVE CloseComes'
  <2>1. CASE DialTake(t)
    BY <2>1, CloseKept DEF DialTake, TakeSlot, Closing
  <2>2. CASE DialTaken(t)
    BY <2>2, CloseKept DEF DialTaken, LoopOver, Closing
  <2>3. CASE DialClear(t)
    BY <2>3, CloseKept DEF DialClear, Closing
  <2>4. CASE SocketFails(t)
    <3>1. FailMoves(t)
      BY <2>4, DialFailsMoves DEF SocketFails
    <3> QED
      BY <2>4, <3>1, CloseKept DEF SocketFails, FailMoves, Closing
  <2>5. CASE SocketOpens(t)
    BY <2>5, CloseKept DEF SocketOpens, Closing
  <2>6. CASE SpawnLoop(t)
    BY <2>6, CloseKept DEF SpawnLoop, Closing
  <2>7. CASE PutClosed(t)
    BY <2>7, CloseKept DEF PutClosed, Closing
  <2>8. CASE PutClosedEnds(t)
    <3>1. FailMoves(t)
      BY <2>8, DialFailsMoves DEF PutClosedEnds
    <3> QED
      BY <2>8, <3>1, CloseKept DEF PutClosedEnds, FailMoves, Closing
  <2>9. CASE PutFree(t) \/ PutOver(t)
    BY <2>9 DEF PutFree, PutOver, CloseComes
  <2>10. CASE PutWaited(t)
    <3>1. open' = open /\ op' = op /\ pc[t] = "putWait"
          /\ \A u \in Tasks \ {t} : pc'[u] = pc[u]
      BY <2>10 DEF PutWaited
    <3>2. CASE ~open
      <4>1. PICK c \in Commands : Closing(c)
        BY <3>1, <3>2 DEF CloseComes
      <4> QED
        BY <3>1, <4>1 DEF CloseComes, Closing
    <3> QED
      BY <3>1, <3>2 DEF CloseComes
  <2>11. CASE DialReturns(t)
    BY <2>11, CloseKept DEF DialReturns, Closing
  <2> QED
    BY <1>2, <2>1, <2>2, <2>3, <2>4, <2>5, <2>6, <2>7, <2>8, <2>9, <2>10, <2>11 DEF DialStep
<1>3. ASSUME NEW s \in Links, SeriesStep(s) PROVE CloseComes'
  <2>1. s \notin Commands
    OBVIOUS
  <2> QED
    BY <1>3, <2>1, CloseKept, ZenonT(60) DEF SeriesStep, SeriesDials, SeriesTaken, SeriesDies
<1>4. ASSUME NEW l \in Links, LoopStep(l) PROVE CloseComes'
  <2>1. CASE AfterDropRedials(l)
    <3>1. l \notin Commands
      OBVIOUS
    <3> QED
      BY <2>1, <3>1, CloseKept DEF AfterDropRedials
  <2>2. CASE ~AfterDropRedials(l)
    <3>1. UNCHANGED <<open, slot, pc, op>>
      BY <1>4, <2>2 DEF LoopStep, LoopStarts, LoopHearsEnd, LoopEndsSession, LoopTellsEnd, AfterDropDeclines
    <3> QED
      BY <3>1 DEF CloseComes, Closing
  <2> QED
    BY <2>1, <2>2
<1>5. ASSUME Outside PROVE CloseComes'
  <2>1. ASSUME NEW c \in Commands, NEW o \in Ops, Start(c, o) PROVE CloseComes'
    <3>1. CASE o = "close"
      BY <2>1, <3>1 DEF Start, FirstPlace, CloseComes, Closing
    <3>2. CASE o # "close"
      <4>1. /\ open' = open /\ slot' = slot
            /\ pc'[c] # "putWait" /\ \A t \in Tasks \ {c} : pc'[t] = pc[t]
            /\ \A d \in Commands \ {c} : op'[d] = op[d]
            /\ ~Closing(c)
        BY <2>1, <3>2 DEF Start, FirstPlace, Closing
      <4> QED
        BY <4>1 DEF CloseComes, Closing
    <3> QED
      BY <3>1, <3>2
  <2>2. CASE SendFindsDead
    BY <2>2 DEF SendFindsDead, CloseComes, Closing
  <2>3. ASSUME ReconnectSet \/ \E l \in Links : LoopText(l) \/ LoopFollows(l) \/ LoopDrops(l)
        PROVE  CloseComes'
    <3>1. UNCHANGED <<open, slot, pc, op>>
      BY <2>3 DEF ReconnectSet, LoopText, LoopFollows, LoopDrops
    <3> QED
      BY <3>1 DEF CloseComes, Closing
  <2> QED
    BY <1>5, <2>1, <2>2, <2>3 DEF Outside
<1>6. CASE UNCHANGED vars
  BY <1>6 DEF vars, CloseComes, Closing
<1> QED
  BY <1>1, <1>2, <1>3, <1>4, <1>5, <1>6 DEF Next

\* A series waits for no loop but the one its own dial took out.
SeriesWaits == \A s \in Links : pc[s] \notin {"dropWait", "takeWait"}

LEMMA SeriesWaitsStep == IInv /\ SeriesWaits /\ [Next]_vars => SeriesWaits'
<1> SUFFICES ASSUME IInv, SeriesWaits, [Next]_vars PROVE SeriesWaits'
  OBVIOUS
<1> USE LinkAssumption DEF IInv, Types, TaskTypeOK, sessionVars, linkVars, taskVars, Go, Links,
      NoLink, Tasks
<1>1. ASSUME NEW t \in Tasks, \A u \in Tasks \ {t} : pc'[u] = pc[u],
             t \in Commands \/ pc'[t] \notin {"dropWait", "takeWait"}
      PROVE  SeriesWaits'
  BY <1>1 DEF SeriesWaits
<1>2. ASSUME NEW c \in Commands, CommandStep(c) PROVE SeriesWaits'
  <2>1. \A u \in Tasks \ {c} : pc'[u] = pc[u]
    BY <1>2 DEF CommandStep, ConnectDrop, ConnectDropped, CancelNone, CancelSeries, SeriesEnded,
       DisconnectTake, DisconnectTaken, DisconnectFinish, TakeSlot, LoopOver
  <2> QED
    BY <1>1, <2>1
<1>3. ASSUME NEW t \in Tasks, DialStep(t) PROVE SeriesWaits'
  <2>1. CASE SocketFails(t) \/ PutClosedEnds(t)
    <3>1. FailMoves(t)
      BY <2>1, DialFailsMoves DEF SocketFails, PutClosedEnds
    <3> QED
      BY <1>1, <3>1 DEF FailMoves
  <2>2. CASE ~(SocketFails(t) \/ PutClosedEnds(t))
    <3>1. /\ \A u \in Tasks \ {t} : pc'[u] = pc[u]
          /\ pc'[t] \notin {"dropWait", "takeWait"}
      BY <1>3, <2>2 DEF DialStep, DialTake, DialTaken, DialClear, SocketOpens, SpawnLoop, PutClosed,
         PutFree, PutOver, PutWaited, DialReturns, TakeSlot, LoopOver
    <3> QED
      BY <1>1, <3>1
  <2> QED
    BY <2>1, <2>2
<1>4. ASSUME NEW s \in Links, SeriesStep(s) PROVE SeriesWaits'
  BY <1>4 DEF SeriesStep, SeriesDials, SeriesTaken, SeriesDies, SeriesWaits
<1>5. ASSUME NEW l \in Links, LoopStep(l) PROVE SeriesWaits'
  BY <1>5 DEF LoopStep, LoopStarts, LoopHearsEnd, LoopEndsSession, LoopTellsEnd, AfterDropDeclines,
     AfterDropRedials, SeriesWaits
<1>6. ASSUME Outside PROVE SeriesWaits'
  <2>1. ASSUME NEW c \in Commands, NEW o \in Ops, Start(c, o) PROVE SeriesWaits'
    BY <1>1, <2>1 DEF Start
  <2> QED
    BY <1>6, <2>1 DEF Outside, LoopText, LoopFollows, LoopDrops, ReconnectSet, SendFindsDead, SeriesWaits
<1>7. CASE UNCHANGED vars
  BY <1>7 DEF vars, SeriesWaits
<1> QED
  BY <1>2, <1>3, <1>4, <1>5, <1>6, <1>7 DEF Next

(* A session that left the list keeps no link once its commands are done,  *)
(* however many dials and closes ran beside one another (the close check   *)
(* of dial in session.rs).                                                 *)
THEOREM ClosedStaysDown == Spec => []ClosedIsDown
<1>1. Init => CloseComes /\ SeriesWaits
  BY LinkAssumption DEF Init, CloseComes, SeriesWaits, Tasks
<1>2. IInv /\ CloseComes /\ SeriesWaits => ClosedIsDown
  <2> SUFFICES ASSUME IInv, CloseComes, SeriesWaits, ~open, Settled
               PROVE  slot = NoLink /\ \A l \in Links : ~Running(l)
    BY DEF ClosedIsDown
  <2>1. \A c \in Commands : pc[c] = "idle"
    BY DEF Settled, Busy
  <2>2. slot = NoLink
    BY <2>1 DEF CloseComes, Closing
  <2>3. \A t \in Tasks : hand[t] = NoLink
    BY <2>1 DEF IInv, HandsOK, Settled, Active, SeriesPlaces, DialPlaces, Tasks, SeriesWaits
  <2>4. \A l \in Links : l # NoLink
    BY LinkAssumption DEF Links, NoLink
  <2> QED
    BY <2>2, <2>3, <2>4 DEF IInv, NoStrayLink, Settled
<1> QED
  BY <1>1, <1>2, CloseStep, SeriesWaitsStep, Inductive, PTL DEF Spec

-----------------------------------------------------------------------------
(* One command at a time.                                                  *)

\* What StaysDown, NoOrphanSeries, InSessionAgrees, OneSocket and
\* RingsForRedial are promised for: the calls of the page do not overlap.
OneCommand == \A c, d \in Commands : c = d

Dialing(t) == pc[t] \in DialPlaces

\* The watch that the drop of a link will read says you play.
Playing(l) ==
    \/ phase[l] \in {"run", "tail", "fold"} /\ watch.playing
    \/ phase[l] = "after" /\ held[l].playing

\* Only a Connect dials, and only a Disconnect or a close ends the slot's link.
Calls == \A c \in Commands :
    /\ Dialing(c) \/ pc[c] \in {"drop", "dropWait"} => op[c] = "connect"
    /\ pc[c] \in {"take", "takeWait", "cancel2", "ending2", "finish"}
        => op[c] \in {"disconnect", "close"}

\* One link runs at most, the last made, and it is the one a dial hands over.
SoleLink ==
    /\ \A l \in Links : Running(l) => l = made
    /\ \A t \in Tasks :
        /\ pc[t] \in {"spawn", "put", "putClosed", "putWait"} => hand[t] = made
        /\ pc[t] \in {"put", "putClosed", "putWait"} => opener[hand[t]] = t

\* One series goes on at most, and none beside a Connect that dials.
SoleDialer ==
    /\ \A s, r \in Links : Active(s) /\ Active(r) => s = r
    /\ \A c \in Commands : Dialing(c) => \A s \in Links : ~Active(s)

\* The command that aborted a series that still goes on waits for its end.
Enders == \A s \in Links : marked[s] /\ Active(s) =>
    \E c \in Commands : pc[c] \in {"ending", "ending2"} /\ victim[c] = s

\* No series comes after the one a Connect or the end of a Disconnect aborts.
EndingLast == \A c \in Commands :
    pc[c] = "ending2" \/ (pc[c] = "ending" /\ op[c] = "connect") => redial = NoLink

Born == \A s \in Links : marked[s] \/ redial = s => pc[s] # "unborn"

\* While a series goes on no link runs but the one it hands over, and as a
\* Connect dials only one that was told to end.
Quiet ==
    /\ \A s, l \in Links : Active(s) /\ Running(l) =>
          opener[l] = s /\ pc[s] \in {"put", "putClosed", "tell"}
    /\ \A c \in Commands : pc[c] \in {"clear", "socket"} =>
          \A l \in Links : Running(l) => told[l]

\* A link on which you play is in the slot, or the command that took it
\* waits for its loop.
PlayingHeld ==
    \A l \in Links : Playing(l) =>
        /\ \/ slot = l
           \/ \E c \in Commands : pc[c] \in {"dropWait", "takeWait"} /\ hand[c] = l
        /\ \A c \in Commands : pc[c] \in {"dropWait", "takeWait"} => hand[c] = l

\* While you play no series goes on, and no Connect is past the link's end.
PlayingAlone ==
    (\E l \in Links : Playing(l)) =>
        /\ \A s \in Links : ~Active(s)
        /\ \A c \in Commands : op[c] = "connect" => pc[c] \in {"idle", "drop", "dropWait"}

\* The slot is empty from the place where a dial took its handle on.
SlotEmpty == \A t \in Tasks :
    pc[t] \in {"dialWait", "clear", "socket", "spawn", "put", "putClosed", "putWait"}
        => slot = NoLink

NoPutWait == \A t \in Tasks : pc[t] # "putWait"

\* Where no Connect came since the last Disconnect, all is down.
Down == ~wanted =>
    /\ slot = NoLink /\ redial = NoLink
    /\ \A s \in Links : ~Active(s)
    /\ \A l \in Links : Running(l) => told[l]
    /\ \A c \in Commands : pc[c] # "takeWait" /\ (op[c] = "connect" => ~Busy(c))

\* A Disconnect past the take leaves nothing that could put a link back.
Leaving ==
    \A c \in Commands :
        /\ pc[c] \in {"takeWait", "cancel2", "ending2", "finish"} => slot = NoLink
        /\ pc[c] = "finish" => redial = NoLink /\ \A s \in Links : ~Active(s)
        /\ pc[c] \in {"take", "takeWait", "cancel2", "ending2"} =>
            \A s \in Links : Active(s) => pc[s] = "wait"
        /\ pc[c] = "ending" =>
            \A s \in Links : Active(s) /\ ~marked[s] => pc[s] = "wait"

Mark == inSession <=> \E l \in Links : phase[l] \in {"run", "tail"}

\* What awaits the first text of a link awaits it of one a series opens.
Rings ==
    /\ awaiting => \A l \in Links : phase[l] \in {"start", "run"} => opener[l] \in Links
    /\ \A c \in Commands : Dialing(c) => ~awaiting

OneInv ==
    /\ Calls /\ SoleLink /\ SoleDialer /\ Enders /\ EndingLast /\ Born /\ Quiet
    /\ PlayingHeld /\ PlayingAlone /\ SlotEmpty /\ NoPutWait /\ Down
    /\ Leaving /\ Mark /\ Rings /\ NoOrphanSeries

\* No series is a command.
LEMMA SeriesApart == \A s \in Links : s \notin Commands
  BY LinkAssumption

\* Once a command has no series to wait for and the session keeps none, none
\* goes on.
LEMMA NoneGoesOn ==
  ASSUME OneInv, OneCommand, NEW c \in Commands, redial = NoLink,
         pc[c] \in {"ending", "ending2"} => pc[victim[c]] \in Over
  PROVE  \A s \in Links : ~Active(s)
<1> SUFFICES ASSUME NEW s \in Links, Active(s) PROVE FALSE
  OBVIOUS
<1>1. marked[s]
  BY LinkAssumption DEF OneInv, NoOrphanSeries, Links, NoLink
<1>2. pc[c] \in {"ending", "ending2"} /\ victim[c] = s
  BY <1>1 DEF OneInv, Enders, OneCommand
<1> QED
  BY <1>2 DEF Over, Active, SeriesPlaces, DialPlaces

\* With an empty slot and no series, a link that runs was told to end unless
\* the command has it.
LEMMA NoneUntold ==
  ASSUME IInv, SeriesWaits, OneCommand, NEW c \in Commands, slot = NoLink,
         \A s \in Links : ~Active(s), hand[c] # NoLink => ~Running(hand[c])
  PROVE  \A l \in Links : Running(l) => told[l]
<1> SUFFICES ASSUME NEW l \in Links, Running(l), ~told[l] PROVE FALSE
  OBVIOUS
<1>1. l # NoLink /\ slot # l
  BY LinkAssumption DEF Links, NoLink
<1>2. PICK t \in Tasks : hand[t] = l
  BY <1>1 DEF IInv, NoStrayLink
<1>3. t \in Links
  BY <1>1, <1>2 DEF Tasks, OneCommand
<1>4. pc[t] \in {"dialWait", "spawn", "put", "putClosed", "putWait"}
  BY <1>1, <1>2, <1>3 DEF IInv, HandsOK, SeriesWaits
<1> QED
  BY <1>3, <1>4 DEF Active, SeriesPlaces, DialPlaces

\* A move outside the waits for a link keeps what you play on held.
LEMMA MoveKeepsPlaying ==
  ASSUME PlayingHeld,
         \A c \in Commands : {pc[c], pc'[c]} \cap {"dropWait", "takeWait"} # {}
            => pc'[c] = pc[c],
         UNCHANGED <<slot, hand, phase, watch, held>>
  PROVE  PlayingHeld'
  BY DEF PlayingHeld, Playing

\* A move that starts no series keeps each wait for the end of one.
LEMMA MoveKeepsEnders ==
  ASSUME Enders,
         \A s \in Links : pc'[s] \in SeriesPlaces => pc[s] \in SeriesPlaces,
         \A c \in Commands : pc[c] \in {"ending", "ending2"} => pc'[c] = pc[c],
         UNCHANGED <<marked, victim>>
  PROVE  Enders'
  BY DEF Enders, Active

\* A dial that fails stops a task or leaves a series to wait.
LEMMA FailsStop ==
  ASSUME Types, NEW t \in Tasks, DialFails(t), pc[t] \in {"socket", "putClosed"}
  PROVE  /\ \A u \in Tasks : u # t => pc'[u] = pc[u]
         /\ pc'[t] \in {"idle", "returned", "wait"}
         /\ \A s \in Links : Active(s)' => Active(s)
         /\ \A c \in Commands : Dialing(c)' => Dialing(c)
         /\ awaiting' => awaiting
<1>1. FailMoves(t)
  BY DialFailsMoves
<1>2. awaiting' => awaiting
  BY DEF DialFails
<1> QED
  BY <1>1, <1>2 DEF FailMoves, Active, Dialing, SeriesPlaces, DialPlaces,
      Tasks

\* Each step of a command keeps what one command at a time gives.  The wait
\* for the series it aborted is what lets a Connect dial alone.
LEMMA OneCommandStep ==
  ASSUME IInv, SeriesWaits, OneInv, OneCommand, NEW c \in Commands,
      CommandStep(c)
  PROVE  OneInv'
<1> USE LinkAssumption, SeriesApart DEF IInv, Types, SessionTypeOK,
    LinkTypeOK, TaskTypeOK, Links, NoLink, Tasks, OneCommand, OneInv,
    sessionVars, linkVars, taskVars
<1>1. CASE ConnectDrop(c)
  <2>1. Calls' /\ SoleLink' /\ SoleDialer'
    BY <1>1 DEF ConnectDrop, TakeSlot, Shut, Go, Calls, SoleLink, SoleDialer,
        Dialing, DialPlaces, Running, Active, SeriesPlaces
  <2>2. Enders' /\ EndingLast' /\ Born'
    BY <1>1 DEF ConnectDrop, TakeSlot, Shut, Go, Enders, EndingLast, Born,
        Active, SeriesPlaces, DialPlaces
  <2>3. Quiet' /\ SlotEmpty' /\ NoPutWait'
    BY <1>1 DEF ConnectDrop, TakeSlot, Shut, Go, Quiet, SlotEmpty, NoPutWait,
        Active, Running, SeriesPlaces, DialPlaces
  <2>4. Down' /\ Leaving' /\ Mark'
    BY <1>1 DEF ConnectDrop, TakeSlot, Shut, Go, Down, Leaving, Mark, Active,
        Running, Busy, SeriesPlaces, DialPlaces
  <2>5. Rings' /\ NoOrphanSeries'
    BY <1>1 DEF ConnectDrop, TakeSlot, Shut, Go, Rings, NoOrphanSeries,
        Dialing, DialPlaces, Active, SeriesPlaces
  <2>6. PlayingHeld'
    <3>1. /\ pc[c] = "drop" /\ slot' = NoLink /\ hand' = [hand EXCEPT ![c] = slot]
          /\ pc' = [pc EXCEPT ![c] = IF slot = NoLink THEN "cancel" ELSE "dropWait"]
          /\ UNCHANGED <<phase, watch, held>>
      BY <1>1 DEF ConnectDrop, TakeSlot, Go
    <3>2. \A l \in Links : Playing(l) => slot = l
      BY <3>1 DEF PlayingHeld
    <3> QED
      BY <3>1, <3>2 DEF PlayingHeld, Playing
  <2>7. PlayingAlone'
    BY <1>1 DEF ConnectDrop, TakeSlot, Shut, Go, PlayingAlone, EndingLast,
        Born, NoOrphanSeries, PlayingHeld, Calls, Enders, SeriesOrigin,
        SlotEmpty, Active, Playing, SeriesPlaces, DialPlaces, Dialing
  <2> QED BY ONLY <2>1, <2>2, <2>3, <2>4, <2>5, <2>6, <2>7 DEF OneInv
<1>2. CASE ConnectDropped(c)
  <2>1. Calls' /\ SoleLink' /\ SoleDialer'
    BY <1>2 DEF ConnectDropped, LoopOver, Go, Calls, SoleLink, SoleDialer,
        Dialing, DialPlaces, Running, Active, SeriesPlaces
  <2>2. Enders' /\ EndingLast' /\ Born'
    BY <1>2 DEF ConnectDropped, LoopOver, Go, Enders, EndingLast, Born,
        Active, SeriesPlaces, DialPlaces
  <2>3. Quiet' /\ SlotEmpty' /\ NoPutWait'
    BY <1>2 DEF ConnectDropped, LoopOver, Go, Quiet, SlotEmpty, NoPutWait,
        Active, Running, SeriesPlaces, DialPlaces
  <2>4. Down' /\ Leaving' /\ Mark'
    BY <1>2 DEF ConnectDropped, LoopOver, Go, Down, Leaving, Mark, Active,
        Running, Busy, SeriesPlaces, DialPlaces
  <2>5. Rings' /\ NoOrphanSeries'
    BY <1>2 DEF ConnectDropped, LoopOver, Go, Rings, NoOrphanSeries, Dialing,
        DialPlaces, Active, SeriesPlaces
  <2>6. PlayingHeld'
    <3>1. /\ pc[c] = "dropWait" /\ slot' = slot /\ hand' = [hand EXCEPT ![c] = NoLink]
          /\ pc' = [pc EXCEPT ![c] = "cancel"] /\ phase[hand[c]] = "done"
          /\ UNCHANGED <<phase, watch, held>>
      BY <1>2 DEF ConnectDropped, LoopOver, Go
    <3> QED
      BY <3>1 DEF PlayingHeld, Playing
  <2>7. PlayingAlone'
    BY <1>2 DEF ConnectDropped, LoopOver, Go, PlayingAlone, PlayingHeld,
        SoleLink, Quiet, HandsOK, Active, Playing, SeriesPlaces, DialPlaces,
        Running
  <2> QED BY ONLY <2>1, <2>2, <2>3, <2>4, <2>5, <2>6, <2>7 DEF OneInv
<1>3. CASE CancelNone(c)
  <2>1. Calls' /\ SoleLink' /\ EndingLast'
    BY <1>3 DEF CancelNone, AfterCancel, Ends, Go, Active, SeriesPlaces,
        DialPlaces, Calls, SoleLink, EndingLast, Dialing, Running
  <2>2. Born'
    BY <1>3 DEF CancelNone, AfterCancel, Ends, Go, Active, SeriesPlaces,
        DialPlaces, Born
  <2>3. Quiet'
    BY <1>3 DEF CancelNone, AfterCancel, Ends, Go, Active, SeriesPlaces,
        DialPlaces, Quiet, Running
  <2>4. PlayingAlone'
    BY <1>3 DEF CancelNone, AfterCancel, Ends, Go, Active, SeriesPlaces,
        DialPlaces, PlayingAlone, Playing
  <2>5. SlotEmpty' /\ NoPutWait' /\ Down'
    BY <1>3 DEF CancelNone, AfterCancel, Ends, Go, Active, SeriesPlaces,
        DialPlaces, SlotEmpty, NoPutWait, Down, Running, Busy
  <2>6. Mark'
    BY <1>3 DEF CancelNone, AfterCancel, Ends, Go, Active, SeriesPlaces,
        DialPlaces, Mark
  <2>7. Rings'
    BY <1>3 DEF CancelNone, AfterCancel, Ends, Go, Active, SeriesPlaces,
        DialPlaces, Rings, Dialing
  <2>8. NoOrphanSeries'
    BY <1>3 DEF CancelNone, AfterCancel, Ends, Go, Active, SeriesPlaces,
        DialPlaces, NoOrphanSeries
  <2>9. SoleDialer'
    <3>1. op[c] = "connect" => \A s \in Links : ~Active(s)
      BY <1>3, NoneGoesOn DEF CancelNone, Ends
    <3> QED
      BY <1>3, <3>1 DEF CancelNone, Go, AfterCancel, SoleDialer, Dialing,
          Active, SeriesPlaces, DialPlaces, Calls
  <2>10. Enders'
    <3>1. pc[c] \in {"cancel", "cancel2"} /\ \A s \in Links : pc'[s] = pc[s]
      BY <1>3 DEF CancelNone, Go
    <3>2. \A s \in Links : ~(marked[s] /\ Active(s))
      BY ONLY <3>1, OneInv, OneCommand DEF OneInv, OneCommand, Enders
    <3>3. marked' = marked
      BY <1>3 DEF CancelNone
    <3> QED
      BY <3>1, <3>2, <3>3 DEF Enders, Active
  <2>11. PlayingHeld'
    <3>1. /\ pc[c] \in {"cancel", "cancel2"}
          /\ pc'[c] \in {"dial", "take", "finish", "idle"}
          /\ UNCHANGED <<slot, hand, phase, watch, held>>
      BY <1>3 DEF CancelNone, Go, AfterCancel
    <3> QED
      BY <3>1, MoveKeepsPlaying
  <2>12. Leaving'
    <3>1. op[c] # "take" => redial = NoLink /\ \A s \in Links : ~Active(s)
      BY <1>3, NoneGoesOn DEF CancelNone, Ends
    <3>2. /\ pc[c] \in {"cancel", "cancel2"} /\ UNCHANGED <<slot, redial, marked>>
          /\ pc' = [pc EXCEPT ![c] = AfterCancel(c)]
      BY <1>3 DEF CancelNone, Go
    <3>3. /\ AfterCancel(c) \in {"dial", "take", "finish", "idle"}
          /\ AfterCancel(c) = "take" => op[c] # "take"
          /\ AfterCancel(c) = "finish" => op[c] # "take" /\ pc[c] = "cancel2"
      BY <3>2 DEF AfterCancel
    <3> QED
      BY <3>1, <3>2, <3>3 DEF Leaving, Active
  <2> QED BY ONLY <2>1, <2>2, <2>3, <2>4, <2>5, <2>6, <2>7, <2>8, <2>9, <2>10,
      <2>11, <2>12 DEF OneInv
<1>4. CASE CancelSeries(c)
  <2>1. Calls' /\ SoleLink' /\ SoleDialer'
    BY <1>4 DEF CancelSeries, Ends, Go, Active, SeriesPlaces, DialPlaces,
        Calls, SoleLink, SoleDialer, Dialing, Running
  <2>2. EndingLast' /\ Born' /\ Quiet'
    BY <1>4 DEF CancelSeries, Ends, Go, Active, SeriesPlaces, DialPlaces,
        EndingLast, Born, Quiet, Running
  <2>3. PlayingAlone' /\ SlotEmpty' /\ NoPutWait'
    BY <1>4 DEF CancelSeries, Ends, Go, Active, SeriesPlaces, DialPlaces,
        PlayingAlone, SlotEmpty, NoPutWait, Playing
  <2>4. Down'
    BY <1>4 DEF CancelSeries, Ends, Go, Active, SeriesPlaces, DialPlaces,
        Down, Running, Busy
  <2>5. Mark'
    BY <1>4 DEF CancelSeries, Ends, Go, Active, SeriesPlaces, DialPlaces, Mark
  <2>6. Rings'
    BY <1>4 DEF CancelSeries, Ends, Go, Active, SeriesPlaces, DialPlaces,
        Rings, Dialing
  <2>7. NoOrphanSeries'
    BY <1>4 DEF CancelSeries, Ends, Go, Active, SeriesPlaces, DialPlaces,
        NoOrphanSeries
  <2>8. Enders'
    <3>0. pc[c] \in {"cancel", "cancel2"}
      BY <1>4 DEF CancelSeries
    <3>1. /\ \A s \in Links : pc'[s] = pc[s]
          /\ pc'[c] \in {"ending", "ending2"} /\ victim'[c] = redial
          /\ marked' = [marked EXCEPT ![redial] = TRUE]
      BY <1>4 DEF CancelSeries, Ends, Go
    <3>2. \A s \in Links : ~(marked[s] /\ Active(s))
      BY ONLY <3>0, OneInv, OneCommand DEF OneInv, OneCommand, Enders
    <3>3. \A s \in Links : marked'[s] /\ (Active(s))' => s = redial
      BY <3>1, <3>2 DEF Active
    <3> QED
      BY <3>1, <3>3 DEF Enders
  <2>9. PlayingHeld'
    <3>1. /\ pc[c] \in {"cancel", "cancel2"}
          /\ pc'[c] \in {"ending", "ending2"}
          /\ UNCHANGED <<slot, hand, phase, watch, held>>
      BY <1>4 DEF CancelSeries, Go
    <3> QED
      BY <3>1, MoveKeepsPlaying
  <2>10. Leaving'
    <3>1. /\ pc[c] \in {"cancel", "cancel2"} /\ slot' = slot
          /\ pc' = [pc EXCEPT ![c] = IF pc[c] = "cancel" THEN "ending" ELSE "ending2"]
      BY <1>4 DEF CancelSeries, Go
    <3>2. redial \in Links /\ marked' = [marked EXCEPT ![redial] = TRUE]
      BY <1>4 DEF CancelSeries, Ends
    <3>3. \A s \in Links : pc'[s] = pc[s]
      BY <3>1
    <3>4. \A s \in Links : Active(s) => marked'[s]
      BY <3>2 DEF NoOrphanSeries
    <3> QED
      BY <3>1, <3>3, <3>4 DEF Leaving, Active
  <2> QED BY ONLY <2>1, <2>2, <2>3, <2>4, <2>5, <2>6, <2>7, <2>8, <2>9, <2>10
      DEF OneInv
<1>5. CASE SeriesEnded(c)
  <2>1. Calls' /\ SoleLink' /\ EndingLast'
    BY <1>5 DEF SeriesEnded, AfterCancel, Go, Over, Calls, SoleLink,
        EndingLast, Dialing, DialPlaces, Running
  <2>2. Born'
    BY <1>5 DEF SeriesEnded, AfterCancel, Go, Over, Born
  <2>3. SlotEmpty'
    BY <1>5 DEF SeriesEnded, AfterCancel, Go, Over, SlotEmpty
  <2>4. NoPutWait'
    BY <1>5 DEF SeriesEnded, AfterCancel, Go, Over, NoPutWait
  <2>5. Down'
    BY <1>5 DEF SeriesEnded, AfterCancel, Go, Over, Down, Active, Running,
        Busy, SeriesPlaces, DialPlaces
  <2>6. Mark'
    BY <1>5 DEF SeriesEnded, AfterCancel, Go, Over, Mark
  <2>7. Rings'
    BY <1>5 DEF SeriesEnded, AfterCancel, Go, Over, Rings, Dialing, DialPlaces
  <2>8. NoOrphanSeries'
    BY <1>5 DEF SeriesEnded, AfterCancel, Go, Over, NoOrphanSeries, Active,
        SeriesPlaces, DialPlaces
  <2>9. SoleDialer'
    <3>1. op[c] = "connect" => \A s \in Links : ~Active(s)
      BY <1>5, NoneGoesOn DEF SeriesEnded, EndingLast, Calls
    <3> QED
      BY <1>5, <3>1 DEF SeriesEnded, Go, AfterCancel, SoleDialer, Dialing,
          Active, SeriesPlaces, DialPlaces, Calls
  <2>10. Enders'
    <3>1. /\ pc[victim[c]] \in Over /\ \A s \in Links : pc'[s] = pc[s]
          /\ marked' = marked
      BY <1>5 DEF SeriesEnded, Go
    <3>2. \A s \in Links : ~(marked[s] /\ Active(s))
      BY <3>1 DEF Enders, Active, Over, SeriesPlaces, DialPlaces
    <3> QED
      BY <3>1, <3>2 DEF Enders, Active
  <2>11. Quiet'
    <3>1. /\ pc[c] \in {"ending", "ending2"}
          /\ pc'[c] \in {"dial", "take", "finish", "idle"}
          /\ \A s \in Links : pc'[s] = pc[s]
          /\ UNCHANGED <<phase, told, held, opener, watch, op>>
      BY <1>5 DEF SeriesEnded, Go, AfterCancel
    <3> QED
      BY <3>1 DEF Quiet, Active, Running
  <2>12. PlayingHeld'
    <3>1. /\ pc[c] \in {"ending", "ending2"}
          /\ pc'[c] \in {"dial", "take", "finish", "idle"}
          /\ UNCHANGED <<slot, hand, phase, watch, held>>
      BY <1>5 DEF SeriesEnded, Go, AfterCancel
    <3> QED
      BY <3>1, MoveKeepsPlaying
  <2>13. PlayingAlone'
    <3>1. /\ pc[c] \in {"ending", "ending2"}
          /\ pc'[c] \in {"dial", "take", "finish", "idle"}
          /\ \A s \in Links : pc'[s] = pc[s]
          /\ UNCHANGED <<phase, told, held, opener, watch, op>>
      BY <1>5 DEF SeriesEnded, Go, AfterCancel
    <3> QED
      BY <3>1 DEF PlayingAlone, Playing, Active
  <2>14. Leaving'
    <3>1. pc[c] = "ending2" => redial = NoLink /\ \A s \in Links : ~Active(s)
      BY <1>5, NoneGoesOn DEF SeriesEnded, EndingLast
    <3>2. \A s \in Links : ~(marked[s] /\ Active(s))
      BY <1>5 DEF SeriesEnded, Enders, Active, Over, SeriesPlaces, DialPlaces
    <3>3. /\ pc[c] \in {"ending", "ending2"} /\ UNCHANGED <<slot, redial, marked>>
          /\ pc' = [pc EXCEPT ![c] = AfterCancel(c)]
      BY <1>5 DEF SeriesEnded, Go
    <3>4. /\ AfterCancel(c) \in {"dial", "take", "finish", "idle"}
          /\ AfterCancel(c) = "take" => pc[c] = "ending"
          /\ AfterCancel(c) = "finish" => pc[c] = "ending2"
      BY <3>3 DEF AfterCancel
    <3> QED
      BY <3>1, <3>2, <3>3, <3>4 DEF Leaving, Active
  <2> QED BY ONLY <2>1, <2>2, <2>3, <2>4, <2>5, <2>6, <2>7, <2>8, <2>9, <2>10,
      <2>11, <2>12, <2>13, <2>14 DEF OneInv
<1>6. CASE DisconnectTake(c)
  <2>1. Calls' /\ SoleLink' /\ SoleDialer'
    BY <1>6 DEF DisconnectTake, TakeSlot, Shut, Go, Calls, SoleLink,
        SoleDialer, Dialing, DialPlaces, Running, Active, SeriesPlaces
  <2>2. EndingLast' /\ Born' /\ Quiet'
    BY <1>6 DEF DisconnectTake, TakeSlot, Shut, Go, EndingLast, Born, Quiet,
        Active, Running, SeriesPlaces, DialPlaces
  <2>3. PlayingAlone' /\ SlotEmpty' /\ NoPutWait'
    BY <1>6 DEF DisconnectTake, TakeSlot, Shut, Go, PlayingAlone, SlotEmpty,
        NoPutWait, Active, Playing, SeriesPlaces, DialPlaces
  <2>4. Down' /\ Leaving' /\ Mark'
    BY <1>6 DEF DisconnectTake, TakeSlot, Shut, Go, Down, Leaving, Mark,
        Active, Running, Busy, SeriesPlaces, DialPlaces
  <2>5. Rings' /\ NoOrphanSeries'
    BY <1>6 DEF DisconnectTake, TakeSlot, Shut, Go, Rings, NoOrphanSeries,
        Dialing, DialPlaces, Active, SeriesPlaces
  <2>6. Enders'
    <3>1. /\ pc[c] \notin {"ending", "ending2"} /\ UNCHANGED <<marked, victim>>
          /\ \A u \in Tasks : u # c => pc'[u] = pc[u]
          /\ c \in Links /\ pc'[c] \in SeriesPlaces => pc[c] \in SeriesPlaces
      BY <1>6 DEF DisconnectTake, Go, TakeSlot, SeriesPlaces, DialPlaces
    <3> QED
      BY ONLY <3>1, MoveKeepsEnders, SeriesApart, OneInv DEF OneInv, Tasks
  <2>7. PlayingHeld'
    <3>1. /\ pc[c] = "take" /\ slot' = NoLink /\ hand' = [hand EXCEPT ![c] = slot]
          /\ pc' = [pc EXCEPT ![c] = IF slot = NoLink THEN "cancel2" ELSE "takeWait"]
          /\ UNCHANGED <<phase, watch, held>>
      BY <1>6 DEF DisconnectTake, TakeSlot, Go
    <3>2. \A l \in Links : Playing(l) => slot = l
      BY <3>1 DEF PlayingHeld
    <3> QED
      BY <3>1, <3>2 DEF PlayingHeld, Playing
  <2> QED BY ONLY <2>1, <2>2, <2>3, <2>4, <2>5, <2>6, <2>7 DEF OneInv
<1>7. CASE DisconnectTaken(c)
  <2>1. Calls' /\ SoleLink' /\ SoleDialer'
    BY <1>7 DEF DisconnectTaken, LoopOver, Go, Calls, SoleLink, SoleDialer,
        Dialing, DialPlaces, Running, Active, SeriesPlaces
  <2>2. EndingLast' /\ Born' /\ Quiet'
    BY <1>7 DEF DisconnectTaken, LoopOver, Go, EndingLast, Born, Quiet,
        Active, Running, SeriesPlaces, DialPlaces
  <2>3. PlayingHeld' /\ PlayingAlone' /\ SlotEmpty'
    BY <1>7 DEF DisconnectTaken, LoopOver, Go, PlayingHeld, PlayingAlone,
        SlotEmpty, Playing, Active, SeriesPlaces, DialPlaces
  <2>4. NoPutWait' /\ Down' /\ Leaving'
    BY <1>7 DEF DisconnectTaken, LoopOver, Go, NoPutWait, Down, Leaving,
        Active, Running, Busy, SeriesPlaces, DialPlaces
  <2>5. Mark' /\ Rings' /\ NoOrphanSeries'
    BY <1>7 DEF DisconnectTaken, LoopOver, Go, Mark, Rings, NoOrphanSeries,
        Dialing, DialPlaces, Active, SeriesPlaces
  <2>6. Enders'
    <3>1. /\ pc[c] \notin {"ending", "ending2"} /\ UNCHANGED <<marked, victim>>
          /\ \A u \in Tasks : u # c => pc'[u] = pc[u]
          /\ c \in Links /\ pc'[c] \in SeriesPlaces => pc[c] \in SeriesPlaces
      BY <1>7 DEF DisconnectTaken, Go, LoopOver, SeriesPlaces, DialPlaces
    <3> QED
      BY ONLY <3>1, MoveKeepsEnders, SeriesApart, OneInv DEF OneInv, Tasks
  <2> QED BY ONLY <2>1, <2>2, <2>3, <2>4, <2>5, <2>6 DEF OneInv
<1>8. CASE DisconnectFinish(c)
  <2>1. Calls' /\ SoleLink' /\ SoleDialer'
    BY <1>8 DEF DisconnectFinish, Go, Calls, SoleLink, SoleDialer, Dialing,
        DialPlaces, Running, Active, SeriesPlaces
  <2>2. EndingLast' /\ Born'
    BY <1>8 DEF DisconnectFinish, Go, EndingLast, Born
  <2>3. Quiet'
    BY <1>8 DEF DisconnectFinish, Go, Quiet, Active, Running, SeriesPlaces,
        DialPlaces
  <2>4. PlayingAlone'
    BY <1>8 DEF DisconnectFinish, Go, PlayingAlone, Active, Playing,
        SeriesPlaces, DialPlaces
  <2>5. SlotEmpty'
    BY <1>8 DEF DisconnectFinish, Go, SlotEmpty
  <2>6. NoPutWait'
    BY <1>8 DEF DisconnectFinish, Go, NoPutWait
  <2>7. Leaving'
    BY <1>8 DEF DisconnectFinish, Go, Leaving, Active, SeriesPlaces,
        DialPlaces
  <2>8. Mark' /\ Rings' /\ NoOrphanSeries'
    BY <1>8 DEF DisconnectFinish, Go, Mark, Rings, NoOrphanSeries, Dialing,
        DialPlaces, Active, SeriesPlaces
  <2>9. Enders'
    <3>1. /\ pc[c] \notin {"ending", "ending2"} /\ UNCHANGED <<marked, victim>>
          /\ \A u \in Tasks : u # c => pc'[u] = pc[u]
          /\ c \in Links /\ pc'[c] \in SeriesPlaces => pc[c] \in SeriesPlaces
      BY <1>8 DEF DisconnectFinish, Go, SeriesPlaces, DialPlaces
    <3> QED
      BY ONLY <3>1, MoveKeepsEnders, SeriesApart, OneInv DEF OneInv, Tasks
  <2>10. PlayingHeld'
    <3>1. UNCHANGED <<slot, hand, phase, watch, held>>
      BY <1>8 DEF DisconnectFinish, Go
    <3>2. /\ \A u \in Tasks : u # c => pc'[u] = pc[u]
          /\ {pc[c], pc'[c]} \cap {"dropWait", "takeWait"} = {}
      BY <1>8 DEF DisconnectFinish, Go
    <3> QED
      BY <3>1, <3>2, MoveKeepsPlaying
  <2>11. Down'
    <3>1. /\ pc[c] = "finish" /\ pc' = [pc EXCEPT ![c] = "idle"]
          /\ UNCHANGED <<slot, redial, phase, told>>
      BY <1>8 DEF DisconnectFinish, Go
    <3>2. slot = NoLink /\ redial = NoLink /\ \A s \in Links : ~Active(s)
      BY <3>1 DEF Leaving
    <3>3. \A l \in Links : Running(l) => told[l]
      BY <3>1, <3>2, NoneUntold DEF HandsOK
    <3> QED
      BY <3>1, <3>2, <3>3 DEF Down, Active, Running, Busy
  <2> QED BY ONLY <2>1, <2>2, <2>3, <2>4, <2>5, <2>6, <2>7, <2>8, <2>9, <2>10,
      <2>11 DEF OneInv
<1> QED BY ONLY CommandStep(c), <1>1, <1>2, <1>3, <1>4, <1>5, <1>6, <1>7, <1>8
    DEF CommandStep

\* So does each step of a dial.  It finds the slot empty and no link that
\* runs from its socket on, so two of the cases cannot happen.
LEMMA OneDialStep ==
  ASSUME IInv, SeriesWaits, OneInv, OneCommand, NEW t \in Tasks, DialStep(t)
  PROVE  OneInv'
<1> USE LinkAssumption, SeriesApart DEF IInv, Types, SessionTypeOK,
    LinkTypeOK, TaskTypeOK, Links, NoLink, Tasks, OneCommand, OneInv,
    sessionVars, linkVars, taskVars
<1>1. CASE DialTake(t)
  <2>1. Calls' /\ SoleLink' /\ SoleDialer'
    BY <1>1 DEF DialTake, TakeSlot, Shut, Go, Calls, SoleLink, SoleDialer,
        Dialing, DialPlaces, Running, Active, SeriesPlaces
  <2>2. EndingLast' /\ Born' /\ PlayingAlone'
    BY <1>1 DEF DialTake, TakeSlot, Shut, Go, EndingLast, Born, PlayingAlone,
        Active, Playing, SeriesPlaces, DialPlaces
  <2>3. SlotEmpty' /\ NoPutWait' /\ Down'
    BY <1>1 DEF DialTake, TakeSlot, Shut, Go, SlotEmpty, NoPutWait, Down,
        Active, Running, Busy, SeriesPlaces, DialPlaces
  <2>4. Leaving' /\ Mark' /\ Rings'
    BY <1>1 DEF DialTake, TakeSlot, Shut, Go, Leaving, Mark, Rings, Active,
        SeriesPlaces, DialPlaces, Dialing
  <2>5. NoOrphanSeries'
    BY <1>1 DEF DialTake, TakeSlot, Shut, Go, NoOrphanSeries, Active,
        SeriesPlaces, DialPlaces
  <2>6. Enders'
    <3>1. /\ pc[t] \notin {"ending", "ending2"} /\ UNCHANGED <<marked, victim>>
          /\ \A u \in Tasks : u # t => pc'[u] = pc[u]
          /\ t \in Links /\ pc'[t] \in SeriesPlaces => pc[t] \in SeriesPlaces
      BY <1>1 DEF DialTake, Go, TakeSlot, SeriesPlaces, DialPlaces
    <3> QED
      BY ONLY <3>1, MoveKeepsEnders, SeriesApart, OneInv DEF OneInv, Tasks
  <2>7. Quiet'
    <3>1. /\ pc[t] = "dial" /\ UNCHANGED <<phase, opener>>
          /\ pc' = [pc EXCEPT ![t] = IF slot = NoLink THEN "clear" ELSE "dialWait"]
          /\ slot = NoLink => told' = told
      BY <1>1 DEF DialTake, TakeSlot, Shut, Go
    <3>2. \A s \in Links : (Active(s))' => Active(s)
      BY <3>1 DEF Active, SeriesPlaces, DialPlaces
    <3>3. ASSUME t \in Links, NEW l \in Links PROVE ~Running(l)
      BY <3>1, <3>3 DEF Quiet, Active, SeriesPlaces, DialPlaces
    <3>4. ASSUME t \in Commands, slot = NoLink, NEW l \in Links, Running(l)
          PROVE  told[l]
      <4>1. hand[t] = NoLink
        BY <3>1 DEF HandsOK
      <4>2. \A s \in Links : ~Active(s)
        BY <3>1, <3>4 DEF SoleDialer, Dialing, DialPlaces
      <4> QED
        BY <3>4, <4>1, <4>2, NoneUntold
    <3> QED
      BY <3>1, <3>2, <3>3, <3>4 DEF Quiet, Running
  <2>8. PlayingHeld'
    <3>1. pc[t] = "dial" /\ UNCHANGED <<phase, watch, held>>
      BY <1>1 DEF DialTake, TakeSlot
    <3>2. \A l \in Links : ~Playing(l)
      BY <3>1 DEF PlayingAlone, Calls, Dialing, Active, SeriesPlaces,
          DialPlaces
    <3> QED
      BY <3>1, <3>2 DEF PlayingHeld, Playing
  <2> QED BY ONLY <2>1, <2>2, <2>3, <2>4, <2>5, <2>6, <2>7, <2>8 DEF OneInv
<1>2. CASE DialTaken(t)
  <2>1. Calls' /\ SoleLink' /\ SoleDialer'
    BY <1>2 DEF DialTaken, LoopOver, Go, Calls, SoleLink, SoleDialer, Dialing,
        DialPlaces, Running, Active, SeriesPlaces
  <2>2. EndingLast' /\ Born' /\ PlayingHeld'
    BY <1>2 DEF DialTaken, LoopOver, Go, EndingLast, Born, PlayingHeld,
        Playing
  <2>3. PlayingAlone' /\ NoPutWait' /\ Down'
    BY <1>2 DEF DialTaken, LoopOver, Go, PlayingAlone, NoPutWait, Down,
        Active, Playing, SeriesPlaces, DialPlaces, Running, Busy
  <2>4. Leaving' /\ Mark' /\ Rings'
    BY <1>2 DEF DialTaken, LoopOver, Go, Leaving, Mark, Rings, Active,
        SeriesPlaces, DialPlaces, Dialing
  <2>5. NoOrphanSeries'
    BY <1>2 DEF DialTaken, LoopOver, Go, NoOrphanSeries, Active, SeriesPlaces,
        DialPlaces
  <2>6. Enders'
    BY <1>2 DEF DialTaken, LoopOver, Go, Enders, SoleDialer, NoOrphanSeries,
        Active, SeriesPlaces, DialPlaces, Dialing
  <2>7. Quiet'
    <3>1. /\ pc[t] = "dialWait" /\ UNCHANGED <<phase, opener, told>>
          /\ pc' = [pc EXCEPT ![t] = "clear"] /\ phase[hand[t]] = "done"
      BY <1>2 DEF DialTaken, LoopOver, Go
    <3>2. \A s \in Links : (Active(s))' => Active(s)
      BY <3>1 DEF Active, SeriesPlaces, DialPlaces
    <3>3. ASSUME t \in Links, NEW l \in Links PROVE ~Running(l)
      BY <3>1, <3>3 DEF Quiet, Active, SeriesPlaces, DialPlaces
    <3>4. ASSUME t \in Commands, NEW l \in Links, Running(l) PROVE told[l]
      <4>1. ~Running(hand[t]) /\ slot = NoLink
        BY <3>1 DEF Running, SlotEmpty
      <4>2. \A s \in Links : ~Active(s)
        BY <3>1, <3>4 DEF SoleDialer, Dialing, DialPlaces
      <4> QED
        BY <3>4, <4>1, <4>2, NoneUntold
    <3> QED
      BY <3>1, <3>2, <3>3, <3>4 DEF Quiet, Running
  <2>8. SlotEmpty'
    <3>1. pc[t] = "dialWait" /\ slot' = slot
      BY <1>2 DEF DialTaken, LoopOver
    <3> QED
      BY <3>1 DEF SlotEmpty
  <2> QED BY ONLY <2>1, <2>2, <2>3, <2>4, <2>5, <2>6, <2>7, <2>8 DEF OneInv
<1>3. CASE DialClear(t)
  <2>1. Calls' /\ SoleLink' /\ SoleDialer'
    BY <1>3 DEF DialClear, Go, Calls, SoleLink, SoleDialer, Dialing,
        DialPlaces, Running, Active, SeriesPlaces
  <2>2. EndingLast' /\ Born'
    BY <1>3 DEF DialClear, Go, EndingLast, Born
  <2>3. Quiet'
    BY <1>3 DEF DialClear, Go, Quiet, Active, Running, SeriesPlaces,
        DialPlaces
  <2>4. PlayingAlone'
    BY <1>3 DEF DialClear, Go, PlayingAlone, Active, Playing, SeriesPlaces,
        DialPlaces
  <2>5. SlotEmpty'
    BY <1>3 DEF DialClear, Go, SlotEmpty
  <2>6. NoPutWait'
    BY <1>3 DEF DialClear, Go, NoPutWait
  <2>7. Down'
    BY <1>3 DEF DialClear, Go, Down, Active, Running, Busy, SeriesPlaces,
        DialPlaces
  <2>8. Leaving' /\ Mark' /\ Rings'
    BY <1>3 DEF DialClear, Go, Leaving, Mark, Rings, Active, SeriesPlaces,
        DialPlaces, Dialing
  <2>9. NoOrphanSeries'
    BY <1>3 DEF DialClear, Go, NoOrphanSeries, Active, SeriesPlaces,
        DialPlaces
  <2>10. Enders'
    <3>1. /\ pc[t] \notin {"ending", "ending2"} /\ UNCHANGED <<marked, victim>>
          /\ \A u \in Tasks : u # t => pc'[u] = pc[u]
          /\ t \in Links /\ pc'[t] \in SeriesPlaces => pc[t] \in SeriesPlaces
      BY <1>3 DEF DialClear, Go, SeriesPlaces, DialPlaces
    <3> QED
      BY ONLY <3>1, MoveKeepsEnders, SeriesApart, OneInv DEF OneInv, Tasks
  <2>11. PlayingHeld'
    <3>1. UNCHANGED <<slot, hand, phase, watch, held>>
      BY <1>3 DEF DialClear, Go
    <3>2. /\ \A u \in Tasks : u # t => pc'[u] = pc[u]
          /\ {pc[t], pc'[t]} \cap {"dropWait", "takeWait"} = {}
      BY <1>3 DEF DialClear, Go
    <3> QED
      BY <3>1, <3>2, MoveKeepsPlaying
  <2> QED BY ONLY <2>1, <2>2, <2>3, <2>4, <2>5, <2>6, <2>7, <2>8, <2>9, <2>10,
      <2>11 DEF OneInv
<1>4. CASE SocketFails(t)
  <2>0. /\ pc[t] = "socket" /\ \A u \in Tasks : u # t => pc'[u] = pc[u]
        /\ pc'[t] \in {"idle", "returned", "wait"}
        /\ \A s \in Links : (Active(s))' => Active(s)
        /\ \A c \in Commands : (Dialing(c))' => Dialing(c)
        /\ awaiting' => awaiting
        /\ UNCHANGED <<slot, redial, inSession, watch, linkVars, op, hand,
                       victim, marked, wanted>>
    BY <1>4, FailsStop DEF SocketFails
  <2>1. Calls'
    BY <2>0 DEF Calls, Dialing, DialPlaces
  <2>2. SoleLink'
    BY <2>0 DEF SoleLink, Running
  <2>3. EndingLast'
    BY <2>0 DEF EndingLast
  <2>4. SlotEmpty'
    BY <2>0 DEF SlotEmpty
  <2>5. NoPutWait'
    BY <2>0 DEF NoPutWait
  <2>6. Mark'
    BY <2>0 DEF Mark
  <2>7. Rings'
    BY <2>0 DEF Rings, Dialing, DialPlaces
  <2>8. SoleDialer'
    BY <2>0 DEF SoleDialer, PlayingHeld, PlayingAlone, SoleLink, Quiet,
        SlotEmpty, HandsOK, NoStrayLink, Active, Dialing, DialPlaces,
        SeriesPlaces, Playing, Running
  <2>9. Enders'
    BY <2>0 DEF Enders, Active, SeriesPlaces
  <2>10. Born'
    BY <2>0 DEF Born
  <2>11. Quiet'
    <3>1. \A s \in Links : (Active(s))' => Active(s) /\ (s = t \/ pc'[s] = pc[s])
      BY <2>0
    <3>2. \A l \in Links : ((Running(l))' => Running(l)) /\ told' = told /\ opener' = opener
      BY <2>0 DEF Running
    <3>3. \A s, l \in Links : Active(s) /\ Running(l) =>
             s # t /\ opener[l] = s /\ pc[s] \in {"put", "putClosed", "tell"}
      BY <2>0 DEF Quiet
    <3>4. \A c \in Commands : pc'[c] \in {"clear", "socket"} => pc[c] = pc'[c]
      BY <2>0
    <3> QED
      BY <3>1, <3>2, <3>3, <3>4, SMTT(20) DEF Quiet
  <2>12. PlayingHeld'
    <3>1. UNCHANGED <<slot, hand, phase, watch, held>>
      BY <2>0 DEF linkVars
    <3>2. /\ \A u \in Tasks : u # t => pc'[u] = pc[u]
          /\ {pc[t], pc'[t]} \cap {"dropWait", "takeWait"} = {}
      BY <2>0 DEF linkVars
    <3> QED
      BY <3>1, <3>2, MoveKeepsPlaying
  <2>13. PlayingAlone'
    BY <2>0 DEF PlayingAlone, Playing
  <2>14. Down'
    BY <2>0 DEF Down, Calls, SoleDialer, HandsOK, Active, Running, Busy,
        SeriesPlaces, DialPlaces, Dialing
  <2>15. Leaving'
    <3>1. \A s \in Links : (Active(s))' => Active(s) /\ pc'[s] \in {pc[s], "wait"}
      BY <2>0 DEF Active, SeriesPlaces, DialPlaces
    <3>2. \A c \in Commands : \/ pc'[c] = pc[c]
                              \/ pc'[c] \in {"idle", "returned", "wait"}
      BY <2>0
    <3>3. UNCHANGED <<slot, redial, marked>>
      BY <2>0
    <3> QED
      BY <3>1, <3>2, <3>3 DEF Leaving
  <2>16. NoOrphanSeries'
    BY <2>0 DEF NoOrphanSeries, PlayingHeld, PlayingAlone, SoleLink, Quiet,
        SoleDialer, SlotEmpty, HandsOK, NoStrayLink, Active, SeriesPlaces,
        DialPlaces, Playing, Running, Dialing
  <2> QED BY ONLY <2>1, <2>2, <2>3, <2>4, <2>5, <2>6, <2>7, <2>8, <2>9, <2>10,
      <2>11, <2>12, <2>13, <2>14, <2>15, <2>16 DEF OneInv
<1>5. CASE SocketOpens(t)
  <2>1. Calls' /\ SoleDialer' /\ EndingLast'
    BY <1>5 DEF SocketOpens, Marked, ToldLoopsOver, Go, Calls, SoleDialer,
        EndingLast, Dialing, DialPlaces, Active, SeriesPlaces
  <2>2. Born'
    BY <1>5 DEF SocketOpens, Marked, ToldLoopsOver, Go, Born
  <2>3. Quiet'
    BY <1>5 DEF SocketOpens, Marked, ToldLoopsOver, Go, Quiet, Active,
        Running, SeriesPlaces, DialPlaces
  <2>4. PlayingAlone' /\ SlotEmpty' /\ NoPutWait'
    BY <1>5 DEF SocketOpens, Marked, ToldLoopsOver, Go, PlayingAlone,
        SlotEmpty, NoPutWait, Active, Playing, SeriesPlaces, DialPlaces
  <2>5. Down' /\ Leaving' /\ Mark'
    BY <1>5 DEF SocketOpens, Marked, ToldLoopsOver, Go, Down, Leaving, Mark,
        Active, Running, Busy, SeriesPlaces, DialPlaces
  <2>6. Rings' /\ NoOrphanSeries'
    BY <1>5 DEF SocketOpens, Marked, ToldLoopsOver, Go, Rings, NoOrphanSeries,
        Dialing, DialPlaces, Active, SeriesPlaces
  <2>7. SoleLink'
    <3>1. /\ pc[t] = "socket" /\ made' = made + 1 /\ hand' = [hand EXCEPT ![t] = made + 1]
          /\ pc' = [pc EXCEPT ![t] = "spawn"] /\ UNCHANGED <<phase, opener>>
          /\ ToldLoopsOver
      BY <1>5 DEF SocketOpens, Go
    <3>2. \A l \in Links : ~Running(l)
      <4>1. CASE t \in Commands
        BY <3>1, <4>1 DEF Quiet, ToldLoopsOver, Running
      <4>2. CASE t \in Links
        BY <3>1, <4>2 DEF Quiet, Active, SeriesPlaces, DialPlaces
      <4> QED
        BY <4>1, <4>2
    <3>3. \A u \in Tasks : u # t => pc[u] \notin {"spawn", "put", "putClosed", "putWait"}
      BY <3>1 DEF SoleDialer, Dialing, Active, SeriesPlaces, DialPlaces
    <3> QED
      BY <3>1, <3>2, <3>3 DEF SoleLink, Running
  <2>8. Enders'
    BY <1>5 DEF SocketOpens, Marked, ToldLoopsOver, Go, Enders, SoleDialer,
        NoOrphanSeries, Active, SeriesPlaces, DialPlaces, Dialing
  <2>9. PlayingHeld'
    BY <1>5 DEF SocketOpens, Marked, ToldLoopsOver, Go, PlayingHeld, HandsOK,
        NoStrayLink, SoleLink, SlotEmpty, Quiet, Playing, Running, Active,
        SeriesPlaces, DialPlaces
  <2> QED BY ONLY <2>1, <2>2, <2>3, <2>4, <2>5, <2>6, <2>7, <2>8, <2>9 DEF
      OneInv
<1>6. CASE SpawnLoop(t)
  <2>1. Calls' /\ SoleDialer' /\ Enders'
    BY <1>6 DEF SpawnLoop, Go, Calls, SoleDialer, Enders, Dialing, DialPlaces,
        Active, SeriesPlaces
  <2>2. EndingLast' /\ Born' /\ PlayingHeld'
    BY <1>6 DEF SpawnLoop, Go, EndingLast, Born, PlayingHeld, Playing
  <2>3. PlayingAlone' /\ SlotEmpty' /\ NoPutWait'
    BY <1>6 DEF SpawnLoop, Go, PlayingAlone, SlotEmpty, NoPutWait, Active,
        Playing, SeriesPlaces, DialPlaces
  <2>4. Leaving' /\ Rings' /\ NoOrphanSeries'
    BY <1>6 DEF SpawnLoop, Go, Leaving, Rings, NoOrphanSeries, Active,
        SeriesPlaces, DialPlaces, Dialing
  <2>5. SoleLink'
    BY <1>6 DEF SpawnLoop, Go, SoleLink, HandsOK, NoStrayLink, SlotEmpty,
        Quiet, Running, Active, SeriesPlaces, DialPlaces
  <2>6. Quiet'
    BY <1>6 DEF SpawnLoop, Go, Quiet, SoleDialer, Enders, NoOrphanSeries,
        Active, Running, SeriesPlaces, DialPlaces, Dialing
  <2>7. Down'
    BY <1>6 DEF SpawnLoop, Go, Down, Calls, SoleDialer, HandsOK, Active,
        Running, Busy, SeriesPlaces, DialPlaces, Dialing
  <2>8. Mark'
    BY <1>6 DEF SpawnLoop, Go, Mark, HandsOK, NoStrayLink, SoleLink,
        SlotEmpty, Quiet, Running, Active, SeriesPlaces, DialPlaces
  <2> QED BY ONLY <2>1, <2>2, <2>3, <2>4, <2>5, <2>6, <2>7, <2>8 DEF OneInv
<1>7. CASE PutClosed(t)
  <2>1. Calls' /\ SoleLink' /\ SoleDialer'
    BY <1>7 DEF PutClosed, Shut, Go, Calls, SoleLink, SoleDialer, Dialing,
        DialPlaces, Running, Active, SeriesPlaces
  <2>2. EndingLast' /\ Born'
    BY <1>7 DEF PutClosed, Shut, Go, EndingLast, Born
  <2>3. Quiet'
    BY <1>7 DEF PutClosed, Shut, Go, Quiet, Active, Running, SeriesPlaces,
        DialPlaces
  <2>4. PlayingAlone'
    BY <1>7 DEF PutClosed, Shut, Go, PlayingAlone, Active, Playing,
        SeriesPlaces, DialPlaces
  <2>5. SlotEmpty' /\ NoPutWait' /\ Down'
    BY <1>7 DEF PutClosed, Shut, Go, SlotEmpty, NoPutWait, Down, Active,
        Running, Busy, SeriesPlaces, DialPlaces
  <2>6. Leaving' /\ Mark' /\ Rings'
    BY <1>7 DEF PutClosed, Shut, Go, Leaving, Mark, Rings, Active,
        SeriesPlaces, DialPlaces, Dialing
  <2>7. NoOrphanSeries'
    BY <1>7 DEF PutClosed, Shut, Go, NoOrphanSeries, Active, SeriesPlaces,
        DialPlaces
  <2>8. Enders'
    <3>1. /\ pc[t] \notin {"ending", "ending2"} /\ UNCHANGED <<marked, victim>>
          /\ \A u \in Tasks : u # t => pc'[u] = pc[u]
          /\ t \in Links /\ pc'[t] \in SeriesPlaces => pc[t] \in SeriesPlaces
      BY <1>7 DEF PutClosed, Go, SeriesPlaces, DialPlaces
    <3> QED
      BY ONLY <3>1, MoveKeepsEnders, SeriesApart, OneInv DEF OneInv, Tasks
  <2>9. PlayingHeld'
    <3>1. UNCHANGED <<slot, hand, phase, watch, held>>
      BY <1>7 DEF PutClosed, Go
    <3>2. /\ \A u \in Tasks : u # t => pc'[u] = pc[u]
          /\ {pc[t], pc'[t]} \cap {"dropWait", "takeWait"} = {}
      BY <1>7 DEF PutClosed, Go
    <3> QED
      BY <3>1, <3>2, MoveKeepsPlaying
  <2> QED BY ONLY <2>1, <2>2, <2>3, <2>4, <2>5, <2>6, <2>7, <2>8, <2>9 DEF
      OneInv
<1>8. CASE PutClosedEnds(t)
  <2>0. /\ pc[t] = "putClosed" /\ phase[hand[t]] = "done"
        /\ \A u \in Tasks : u # t => pc'[u] = pc[u]
        /\ pc'[t] \in {"idle", "returned", "wait"}
        /\ \A s \in Links : (Active(s))' => Active(s)
        /\ \A c \in Commands : (Dialing(c))' => Dialing(c)
        /\ awaiting' => awaiting
        /\ hand' = [hand EXCEPT ![t] = NoLink]
        /\ UNCHANGED <<slot, redial, inSession, watch, linkVars, op,
                       victim, marked, wanted>>
    BY <1>8, FailsStop DEF PutClosedEnds
  <2>1. Calls'
    BY <2>0 DEF Calls, Dialing, DialPlaces
  <2>2. SoleLink'
    BY <2>0 DEF SoleLink, Running
  <2>3. EndingLast'
    BY <2>0 DEF EndingLast
  <2>4. SlotEmpty'
    BY <2>0 DEF SlotEmpty
  <2>5. NoPutWait'
    BY <2>0 DEF NoPutWait
  <2>6. Mark'
    BY <2>0 DEF Mark
  <2>7. Rings'
    BY <2>0 DEF Rings, Dialing, DialPlaces
  <2>8. SoleDialer'
    BY <2>0 DEF SoleDialer, PlayingHeld, PlayingAlone, SoleLink, Quiet,
        SlotEmpty, HandsOK, NoStrayLink, Active, Dialing, DialPlaces,
        SeriesPlaces, Playing, Running
  <2>9. Enders'
    <3>1. \A c \in Commands : pc[c] \in {"ending", "ending2"} => c # t
      BY <2>0
    <3> QED
      BY <2>0, <3>1 DEF Enders
  <2>10. Born'
    <3>1. pc[t] # "unborn" /\ pc'[t] # "unborn"
      BY <2>0
    <3>2. /\ \A s \in Links : pc[s] # "unborn" => pc'[s] # "unborn"
          /\ marked' = marked /\ redial' = redial
      BY <2>0, <3>1
    <3> QED
      BY <3>2 DEF Born
  <2>11. Quiet'
    BY <2>0 DEF Quiet, HandsOK, NoStrayLink, SoleLink, SlotEmpty, Active,
        Running, SeriesPlaces, DialPlaces
  <2>12. PlayingHeld'
    BY <2>0 DEF PlayingHeld, HandsOK, NoStrayLink, SoleLink, SlotEmpty, Quiet,
        Playing, Running, Active, SeriesPlaces, DialPlaces
  <2>13. PlayingAlone'
    BY <2>0 DEF PlayingAlone, Playing
  <2>14. Down'
    BY <2>0 DEF Down, Calls, SoleDialer, HandsOK, Active, Running, Busy,
        SeriesPlaces, DialPlaces, Dialing
  <2>15. Leaving'
    <3>1. \A s \in Links : (Active(s))' => Active(s) /\ pc'[s] \in {pc[s], "wait"}
      BY <2>0 DEF Active, SeriesPlaces, DialPlaces
    <3>2. \A c \in Commands : \/ pc'[c] = pc[c]
                              \/ pc'[c] \in {"idle", "returned", "wait"}
      BY <2>0
    <3>3. UNCHANGED <<slot, redial, marked>>
      BY <2>0
    <3> QED
      BY <3>1, <3>2, <3>3 DEF Leaving
  <2>16. NoOrphanSeries'
    BY <2>0 DEF NoOrphanSeries, PlayingHeld, PlayingAlone, SoleLink, Quiet,
        SoleDialer, SlotEmpty, HandsOK, NoStrayLink, Active, SeriesPlaces,
        DialPlaces, Playing, Running, Dialing
  <2> QED BY ONLY <2>1, <2>2, <2>3, <2>4, <2>5, <2>6, <2>7, <2>8, <2>9, <2>10,
      <2>11, <2>12, <2>13, <2>14, <2>15, <2>16 DEF OneInv
<1>9. CASE PutFree(t)
  <2>1. Calls' /\ SoleLink' /\ SoleDialer'
    BY <1>9 DEF PutFree, Go, Calls, SoleLink, SoleDialer, Dialing, DialPlaces,
        Running, Active, SeriesPlaces
  <2>2. EndingLast' /\ Born' /\ Quiet'
    BY <1>9 DEF PutFree, Go, EndingLast, Born, Quiet, Active, Running,
        SeriesPlaces, DialPlaces
  <2>3. PlayingHeld' /\ PlayingAlone' /\ NoPutWait'
    BY <1>9 DEF PutFree, Go, PlayingHeld, PlayingAlone, NoPutWait, Playing,
        Active, SeriesPlaces, DialPlaces
  <2>4. Leaving' /\ Mark' /\ Rings'
    BY <1>9 DEF PutFree, Go, Leaving, Mark, Rings, Active, SeriesPlaces,
        DialPlaces, Dialing
  <2>5. NoOrphanSeries'
    BY <1>9 DEF PutFree, Go, NoOrphanSeries, Active, SeriesPlaces, DialPlaces
  <2>6. Enders'
    <3>1. /\ pc[t] \notin {"ending", "ending2"} /\ UNCHANGED <<marked, victim>>
          /\ \A u \in Tasks : u # t => pc'[u] = pc[u]
          /\ t \in Links /\ pc'[t] \in SeriesPlaces => pc[t] \in SeriesPlaces
      BY <1>9 DEF PutFree, Go, SeriesPlaces, DialPlaces
    <3> QED
      BY ONLY <3>1, MoveKeepsEnders, SeriesApart, OneInv DEF OneInv, Tasks
  <2>7. SlotEmpty'
    BY <1>9 DEF PutFree, Go, SlotEmpty, Calls, Down, NoOrphanSeries, Enders,
        SoleDialer, HandsOK, Dialing, DialPlaces, Active, Running, Busy,
        SeriesPlaces
  <2>8. Down'
    BY <1>9 DEF PutFree, Go, Down, Calls, SoleDialer, HandsOK, Active,
        Running, Busy, SeriesPlaces, DialPlaces, Dialing
  <2> QED BY ONLY <2>1, <2>2, <2>3, <2>4, <2>5, <2>6, <2>7, <2>8 DEF OneInv
<1>10. CASE PutOver(t)
    BY <1>10 DEF PutOver, SlotEmpty
<1>11. CASE PutWaited(t)
    BY <1>11 DEF PutWaited, NoPutWait
<1>12. CASE DialReturns(t)
  <2>1. Calls' /\ SoleLink' /\ SoleDialer'
    BY <1>12 DEF DialReturns, Go, Calls, SoleLink, SoleDialer, Dialing,
        DialPlaces, Running, Active, SeriesPlaces
  <2>2. EndingLast' /\ Born'
    BY <1>12 DEF DialReturns, Go, EndingLast, Born
  <2>3. Quiet'
    BY <1>12 DEF DialReturns, Go, Quiet, Active, Running, SeriesPlaces,
        DialPlaces
  <2>4. PlayingAlone'
    BY <1>12 DEF DialReturns, Go, PlayingAlone, Active, Playing, SeriesPlaces,
        DialPlaces
  <2>5. SlotEmpty'
    BY <1>12 DEF DialReturns, Go, SlotEmpty
  <2>6. NoPutWait'
    BY <1>12 DEF DialReturns, Go, NoPutWait
  <2>7. Down'
    BY <1>12 DEF DialReturns, Go, Down, Active, Running, Busy, SeriesPlaces,
        DialPlaces
  <2>8. Leaving' /\ Mark' /\ Rings'
    BY <1>12 DEF DialReturns, Go, Leaving, Mark, Rings, Active, SeriesPlaces,
        DialPlaces, Dialing
  <2>9. NoOrphanSeries'
    BY <1>12 DEF DialReturns, Go, NoOrphanSeries, Active, SeriesPlaces,
        DialPlaces
  <2>10. Enders'
    <3>1. /\ pc[t] \notin {"ending", "ending2"} /\ UNCHANGED <<marked, victim>>
          /\ \A u \in Tasks : u # t => pc'[u] = pc[u]
          /\ t \in Links /\ pc'[t] \in SeriesPlaces => pc[t] \in SeriesPlaces
      BY <1>12 DEF DialReturns, Go, SeriesPlaces, DialPlaces
    <3> QED
      BY ONLY <3>1, MoveKeepsEnders, SeriesApart, OneInv DEF OneInv, Tasks
  <2>11. PlayingHeld'
    <3>1. UNCHANGED <<slot, hand, phase, watch, held>>
      BY <1>12 DEF DialReturns, Go
    <3>2. /\ \A u \in Tasks : u # t => pc'[u] = pc[u]
          /\ {pc[t], pc'[t]} \cap {"dropWait", "takeWait"} = {}
      BY <1>12 DEF DialReturns, Go
    <3> QED
      BY <3>1, <3>2, MoveKeepsPlaying
  <2> QED BY ONLY <2>1, <2>2, <2>3, <2>4, <2>5, <2>6, <2>7, <2>8, <2>9, <2>10,
      <2>11 DEF OneInv
<1> QED BY ONLY DialStep(t), <1>1, <1>2, <1>3, <1>4, <1>5, <1>6, <1>7, <1>8,
    <1>9, <1>10, <1>11, <1>12 DEF DialStep

\* So does each step of a series.
LEMMA OneSeriesStep ==
  ASSUME IInv, SeriesWaits, OneInv, OneCommand, NEW s \in Links, SeriesStep(s)
  PROVE  OneInv'
<1> USE LinkAssumption, SeriesApart DEF IInv, Types, SessionTypeOK,
    LinkTypeOK, TaskTypeOK, Links, NoLink, Tasks, OneCommand, OneInv,
    sessionVars, linkVars, taskVars
<1>1. CASE SeriesDials(s)
  <2>1. Calls' /\ SoleLink' /\ SoleDialer'
    BY <1>1 DEF SeriesDials, Outwaits, Go, Calls, SoleLink, SoleDialer,
        Dialing, DialPlaces, Running, Active, SeriesPlaces
  <2>2. Enders' /\ EndingLast' /\ Born'
    BY <1>1 DEF SeriesDials, Outwaits, Go, Enders, EndingLast, Born, Active,
        SeriesPlaces, DialPlaces
  <2>3. Quiet' /\ PlayingHeld' /\ PlayingAlone'
    BY <1>1 DEF SeriesDials, Outwaits, Go, Quiet, PlayingHeld, PlayingAlone,
        Active, Running, SeriesPlaces, DialPlaces, Playing
  <2>4. SlotEmpty' /\ NoPutWait' /\ Down'
    BY <1>1 DEF SeriesDials, Outwaits, Go, SlotEmpty, NoPutWait, Down, Active,
        Running, Busy, SeriesPlaces, DialPlaces
  <2>5. Mark' /\ NoOrphanSeries'
    BY <1>1 DEF SeriesDials, Outwaits, Go, Mark, NoOrphanSeries, Active,
        SeriesPlaces, DialPlaces
  <2>6. Leaving'
    <3>1. \A c \in Commands : pc[c] \in {"idle", "socket"} /\ pc'[c] = pc[c]
      BY <1>1 DEF SeriesDials, Outwaits, Go
    <3> QED
      BY <3>1 DEF Leaving
  <2>7. Rings'
    BY <1>1 DEF SeriesDials, Outwaits, Go, Rings, PlayingHeld, PlayingAlone,
        SoleLink, Quiet, SoleDialer, SlotEmpty, HandsOK, NoStrayLink, Dialing,
        DialPlaces, Playing, Active, SeriesPlaces, Running
  <2> QED BY ONLY <2>1, <2>2, <2>3, <2>4, <2>5, <2>6, <2>7 DEF OneInv
<1>2. CASE SeriesTaken(s)
  <2>1. Calls' /\ SoleLink' /\ SoleDialer'
    BY <1>2 DEF SeriesTaken, Go, Calls, SoleLink, SoleDialer, Dialing,
        DialPlaces, Running, Active, SeriesPlaces
  <2>2. Enders' /\ EndingLast' /\ Born'
    BY <1>2 DEF SeriesTaken, Go, Enders, EndingLast, Born, Active,
        SeriesPlaces, DialPlaces
  <2>3. Quiet' /\ PlayingHeld' /\ PlayingAlone'
    BY <1>2 DEF SeriesTaken, Go, Quiet, PlayingHeld, PlayingAlone, Active,
        Running, SeriesPlaces, DialPlaces, Playing
  <2>4. SlotEmpty' /\ NoPutWait' /\ Down'
    BY <1>2 DEF SeriesTaken, Go, SlotEmpty, NoPutWait, Down, Active, Running,
        Busy, SeriesPlaces, DialPlaces
  <2>5. Leaving' /\ Mark' /\ Rings'
    BY <1>2 DEF SeriesTaken, Go, Leaving, Mark, Rings, Active, SeriesPlaces,
        DialPlaces, Dialing
  <2>6. NoOrphanSeries'
    BY <1>2 DEF SeriesTaken, Go, NoOrphanSeries, Active, SeriesPlaces,
        DialPlaces
  <2> QED BY ONLY <2>1, <2>2, <2>3, <2>4, <2>5, <2>6 DEF OneInv
<1>3. CASE SeriesDies(s)
  <2>1. Calls' /\ SoleLink' /\ SoleDialer'
    BY <1>3 DEF SeriesDies, Shut, Go, Active, SeriesPlaces, DialPlaces, Calls,
        SoleLink, SoleDialer, Dialing, Running
  <2>2. Enders' /\ EndingLast' /\ Born'
    BY <1>3 DEF SeriesDies, Shut, Go, Active, SeriesPlaces, DialPlaces,
        Enders, EndingLast, Born
  <2>3. Quiet' /\ PlayingHeld' /\ PlayingAlone'
    BY <1>3 DEF SeriesDies, Shut, Go, Active, SeriesPlaces, DialPlaces, Quiet,
        PlayingHeld, PlayingAlone, Running, Playing
  <2>4. SlotEmpty' /\ NoPutWait' /\ Down'
    BY <1>3 DEF SeriesDies, Shut, Go, Active, SeriesPlaces, DialPlaces,
        SlotEmpty, NoPutWait, Down, Running, Busy
  <2>5. Leaving' /\ Mark' /\ Rings'
    BY <1>3 DEF SeriesDies, Shut, Go, Active, SeriesPlaces, DialPlaces,
        Leaving, Mark, Rings, Dialing
  <2>6. NoOrphanSeries'
    BY <1>3 DEF SeriesDies, Shut, Go, Active, SeriesPlaces, DialPlaces,
        NoOrphanSeries
  <2> QED BY ONLY <2>1, <2>2, <2>3, <2>4, <2>5, <2>6 DEF OneInv
<1> QED BY ONLY SeriesStep(s), <1>1, <1>2, <1>3 DEF SeriesStep

\* So does each step of a loop.  The series it starts is the only one, since
\* you play on its link alone.
LEMMA OneLoopStep ==
  ASSUME IInv, SeriesWaits, OneInv, OneCommand, NEW l \in Links, LoopStep(l)
  PROVE  OneInv'
<1> USE LinkAssumption, SeriesApart DEF IInv, Types, SessionTypeOK,
    LinkTypeOK, TaskTypeOK, Links, NoLink, Tasks, OneCommand, OneInv,
    sessionVars, linkVars, taskVars
<1>1. CASE LoopStarts(l)
  <2>1. Calls' /\ SoleLink' /\ SoleDialer'
    BY <1>1 DEF LoopStarts, NoWatch, Calls, SoleLink, SoleDialer, Dialing,
        DialPlaces, Running, Active, SeriesPlaces
  <2>2. Enders' /\ EndingLast' /\ Born'
    BY <1>1 DEF LoopStarts, NoWatch, Enders, EndingLast, Born, Active,
        SeriesPlaces, DialPlaces
  <2>3. Quiet' /\ PlayingHeld' /\ PlayingAlone'
    BY <1>1 DEF LoopStarts, NoWatch, Quiet, PlayingHeld, PlayingAlone, Active,
        Running, SeriesPlaces, DialPlaces, Playing
  <2>4. SlotEmpty' /\ NoPutWait' /\ Down'
    BY <1>1 DEF LoopStarts, NoWatch, SlotEmpty, NoPutWait, Down, Active,
        Running, Busy, SeriesPlaces, DialPlaces
  <2>5. Leaving' /\ Mark' /\ Rings'
    BY <1>1 DEF LoopStarts, NoWatch, Leaving, Mark, Rings, Active,
        SeriesPlaces, DialPlaces, Dialing
  <2>6. NoOrphanSeries'
    BY <1>1 DEF LoopStarts, NoWatch, NoOrphanSeries, Active, SeriesPlaces,
        DialPlaces
  <2> QED BY ONLY <2>1, <2>2, <2>3, <2>4, <2>5, <2>6 DEF OneInv
<1>2. CASE LoopHearsEnd(l)
  <2>1. Calls' /\ SoleLink' /\ SoleDialer'
    BY <1>2 DEF LoopHearsEnd, Calls, SoleLink, SoleDialer, Dialing,
        DialPlaces, Running, Active, SeriesPlaces
  <2>2. Enders' /\ EndingLast' /\ Born'
    BY <1>2 DEF LoopHearsEnd, Enders, EndingLast, Born, Active, SeriesPlaces,
        DialPlaces
  <2>3. Quiet' /\ PlayingHeld' /\ PlayingAlone'
    BY <1>2 DEF LoopHearsEnd, Quiet, PlayingHeld, PlayingAlone, Active,
        Running, SeriesPlaces, DialPlaces, Playing
  <2>4. SlotEmpty' /\ NoPutWait' /\ Down'
    BY <1>2 DEF LoopHearsEnd, SlotEmpty, NoPutWait, Down, Active, Running,
        Busy, SeriesPlaces, DialPlaces
  <2>5. Leaving' /\ Mark' /\ Rings'
    BY <1>2 DEF LoopHearsEnd, Leaving, Mark, Rings, Active, SeriesPlaces,
        DialPlaces, Dialing
  <2>6. NoOrphanSeries'
    BY <1>2 DEF LoopHearsEnd, NoOrphanSeries, Active, SeriesPlaces, DialPlaces
  <2> QED BY ONLY <2>1, <2>2, <2>3, <2>4, <2>5, <2>6 DEF OneInv
<1>3. CASE LoopEndsSession(l)
  <2>1. Calls' /\ SoleLink' /\ SoleDialer'
    BY <1>3 DEF LoopEndsSession, Calls, SoleLink, SoleDialer, Dialing,
        DialPlaces, Running, Active, SeriesPlaces
  <2>2. Enders' /\ EndingLast' /\ Born'
    BY <1>3 DEF LoopEndsSession, Enders, EndingLast, Born, Active,
        SeriesPlaces, DialPlaces
  <2>3. Quiet' /\ PlayingHeld' /\ PlayingAlone'
    BY <1>3 DEF LoopEndsSession, Quiet, PlayingHeld, PlayingAlone, Active,
        Running, SeriesPlaces, DialPlaces, Playing
  <2>4. SlotEmpty' /\ NoPutWait' /\ Down'
    BY <1>3 DEF LoopEndsSession, SlotEmpty, NoPutWait, Down, Active, Running,
        Busy, SeriesPlaces, DialPlaces
  <2>5. Leaving' /\ Rings' /\ NoOrphanSeries'
    BY <1>3 DEF LoopEndsSession, Leaving, Rings, NoOrphanSeries, Active,
        SeriesPlaces, DialPlaces, Dialing
  <2>6. Mark'
    BY <1>3 DEF LoopEndsSession, Mark, HandsOK, NoStrayLink, SoleLink,
        SlotEmpty, Quiet, Running, Active, SeriesPlaces, DialPlaces
  <2> QED BY ONLY <2>1, <2>2, <2>3, <2>4, <2>5, <2>6 DEF OneInv
<1>4. CASE LoopTellsEnd(l)
  <2>1. Calls' /\ SoleLink' /\ SoleDialer'
    BY <1>4 DEF LoopTellsEnd, NoWatch, Calls, SoleLink, SoleDialer, Dialing,
        DialPlaces, Running, Active, SeriesPlaces
  <2>2. Enders' /\ EndingLast' /\ Born'
    BY <1>4 DEF LoopTellsEnd, NoWatch, Enders, EndingLast, Born, Active,
        SeriesPlaces, DialPlaces
  <2>3. Quiet' /\ PlayingHeld' /\ PlayingAlone'
    BY <1>4 DEF LoopTellsEnd, NoWatch, Quiet, PlayingHeld, PlayingAlone,
        Active, Running, SeriesPlaces, DialPlaces, Playing
  <2>4. SlotEmpty' /\ NoPutWait' /\ Down'
    BY <1>4 DEF LoopTellsEnd, NoWatch, SlotEmpty, NoPutWait, Down, Active,
        Running, Busy, SeriesPlaces, DialPlaces
  <2>5. Leaving' /\ Mark' /\ Rings'
    BY <1>4 DEF LoopTellsEnd, NoWatch, Leaving, Mark, Rings, Active,
        SeriesPlaces, DialPlaces, Dialing
  <2>6. NoOrphanSeries'
    BY <1>4 DEF LoopTellsEnd, NoWatch, NoOrphanSeries, Active, SeriesPlaces,
        DialPlaces
  <2> QED BY ONLY <2>1, <2>2, <2>3, <2>4, <2>5, <2>6 DEF OneInv
<1>5. CASE AfterDropDeclines(l)
  <2>1. Calls' /\ SoleLink' /\ SoleDialer'
    BY <1>5 DEF AfterDropDeclines, Calls, SoleLink, SoleDialer, Dialing,
        DialPlaces, Running, Active, SeriesPlaces
  <2>2. Enders' /\ EndingLast' /\ Born'
    BY <1>5 DEF AfterDropDeclines, Enders, EndingLast, Born, Active,
        SeriesPlaces, DialPlaces
  <2>3. Quiet' /\ PlayingHeld' /\ PlayingAlone'
    BY <1>5 DEF AfterDropDeclines, Quiet, PlayingHeld, PlayingAlone, Active,
        Running, SeriesPlaces, DialPlaces, Playing
  <2>4. SlotEmpty' /\ NoPutWait' /\ Down'
    BY <1>5 DEF AfterDropDeclines, SlotEmpty, NoPutWait, Down, Active,
        Running, Busy, SeriesPlaces, DialPlaces
  <2>5. Leaving' /\ Mark' /\ Rings'
    BY <1>5 DEF AfterDropDeclines, Leaving, Mark, Rings, Active, SeriesPlaces,
        DialPlaces, Dialing
  <2>6. NoOrphanSeries'
    BY <1>5 DEF AfterDropDeclines, NoOrphanSeries, Active, SeriesPlaces,
        DialPlaces
  <2> QED BY ONLY <2>1, <2>2, <2>3, <2>4, <2>5, <2>6 DEF OneInv
<1>6. CASE AfterDropRedials(l)
  <2>0. /\ phase[l] = "after" /\ Playing(l) /\ pc' = [pc EXCEPT ![l] = "wait"]
        /\ phase' = [phase EXCEPT ![l] = "done"] /\ redial' = l
        /\ UNCHANGED <<slot, inSession, awaiting, watch, told, held, opener,
                       made, op, hand, victim, marked, wanted>>
    BY <1>6 DEF AfterDropRedials, Redials, Go, Playing
  <2>1. Calls' /\ SoleLink' /\ Born'
    BY <2>0 DEF Calls, SoleLink, Born, Dialing, DialPlaces, Running
  <2>2. PlayingHeld' /\ SlotEmpty' /\ NoPutWait'
    BY <2>0 DEF PlayingHeld, SlotEmpty, NoPutWait, Playing
  <2>3. Mark'
    BY <2>0 DEF Mark
  <2>4. Rings'
    BY <2>0 DEF Rings, Dialing, DialPlaces
  <2>5. SoleDialer'
    <3>1. /\ \A s \in Links : ~Active(s)
          /\ \A c \in Commands : ~Dialing(c)
      BY <2>0 DEF PlayingAlone, Calls, Dialing, DialPlaces
    <3> QED
      BY <2>0, <3>1 DEF SoleDialer, Active, Dialing
  <2>6. Enders'
    <3>1. ~marked[l]
      BY <2>0 DEF Born, SeriesOrigin
    <3> QED
      BY <2>0, <3>1 DEF Enders, Active
  <2>7. EndingLast'
    <3>1. \A d \in Commands : pc[d] # "ending2"
      <4> SUFFICES ASSUME NEW d \in Commands, pc[d] = "ending2" PROVE FALSE
        OBVIOUS
      <4>1. slot = NoLink
        BY DEF Leaving
      <4>2. slot = l
        <5>1. pc[d] \notin {"dropWait", "takeWait"}
          OBVIOUS
        <5> QED
          BY ONLY <2>0, <5>1, OneInv, OneCommand DEF OneInv, OneCommand,
              PlayingHeld
      <4> QED
        BY <4>1, <4>2
    <3>3. \A d \in Commands : pc[d] = "ending" => op[d] # "connect"
      BY <2>0 DEF PlayingAlone
    <3>2. \A d \in Commands : pc'[d] = pc[d] /\ op' = op
      BY <2>0
    <3> QED
      BY <3>1, <3>2, <3>3 DEF EndingLast
  <2>8. Quiet'
    BY <2>0 DEF Quiet, HandsOK, NoStrayLink, SoleLink, SlotEmpty, Active,
        Running, SeriesPlaces, DialPlaces
  <2>9. PlayingAlone'
    BY <2>0 DEF PlayingAlone, HandsOK, NoStrayLink, SoleLink, SlotEmpty,
        Quiet, Active, Playing, SeriesPlaces, DialPlaces, Running
  <2>10. Down'
    <3>1. wanted
      BY <2>0 DEF PlayingHeld, Down, Calls, Busy
    <3> QED
      BY <2>0, <3>1 DEF Down
  <2>11. Leaving'
    BY <2>0 DEF Leaving, PlayingHeld, PlayingAlone, SoleLink, Quiet, HandsOK,
        Active, SeriesPlaces, DialPlaces, Playing, Running
  <2>12. NoOrphanSeries'
    BY <2>0 DEF NoOrphanSeries, PlayingHeld, PlayingAlone, SoleLink, Quiet,
        SoleDialer, SlotEmpty, HandsOK, NoStrayLink, Active, SeriesPlaces,
        DialPlaces, Playing, Running, Dialing
  <2> QED BY ONLY <2>1, <2>2, <2>3, <2>4, <2>5, <2>6, <2>7, <2>8, <2>9, <2>10,
      <2>11, <2>12 DEF OneInv
<1> QED BY ONLY LoopStep(l), <1>1, <1>2, <1>3, <1>4, <1>5, <1>6 DEF LoopStep

\* So do your own steps and those of the game.
LEMMA OneOutside ==
  ASSUME IInv, SeriesWaits, OneInv, OneCommand, Outside
  PROVE  OneInv'
<1> USE LinkAssumption, SeriesApart DEF IInv, Types, SessionTypeOK,
    LinkTypeOK, TaskTypeOK, Links, NoLink, Tasks, OneCommand, OneInv,
    sessionVars, linkVars, taskVars
<1>1. ASSUME NEW l \in Links, LoopText(l) PROVE OneInv'
  <2>1. Calls' /\ SoleLink' /\ SoleDialer'
    BY <1>1 DEF LoopText, Calls, SoleLink, SoleDialer, Dialing, DialPlaces,
        Running, Active, SeriesPlaces
  <2>2. Enders' /\ EndingLast' /\ Born'
    BY <1>1 DEF LoopText, Enders, EndingLast, Born, Active, SeriesPlaces,
        DialPlaces
  <2>3. Quiet' /\ PlayingHeld' /\ PlayingAlone'
    BY <1>1 DEF LoopText, Quiet, PlayingHeld, PlayingAlone, Active, Running,
        SeriesPlaces, DialPlaces, Playing
  <2>4. SlotEmpty' /\ NoPutWait' /\ Down'
    BY <1>1 DEF LoopText, SlotEmpty, NoPutWait, Down, Active, Running, Busy,
        SeriesPlaces, DialPlaces
  <2>5. Leaving' /\ Mark' /\ Rings'
    BY <1>1 DEF LoopText, Leaving, Mark, Rings, Active, SeriesPlaces,
        DialPlaces, Dialing
  <2>6. NoOrphanSeries'
    BY <1>1 DEF LoopText, NoOrphanSeries, Active, SeriesPlaces, DialPlaces
  <2> QED BY ONLY <2>1, <2>2, <2>3, <2>4, <2>5, <2>6 DEF OneInv
<1>2. ASSUME NEW l \in Links, LoopFollows(l) PROVE OneInv'
  <2>1. Calls' /\ SoleLink' /\ SoleDialer'
    BY <1>2 DEF LoopFollows, LoginTakesTime, Outwaits, Calls, SoleLink,
        SoleDialer, Dialing, DialPlaces, Running, Active, SeriesPlaces
  <2>2. Enders' /\ EndingLast' /\ Born'
    BY <1>2 DEF LoopFollows, LoginTakesTime, Outwaits, Enders, EndingLast,
        Born, Active, SeriesPlaces, DialPlaces
  <2>3. Quiet' /\ SlotEmpty' /\ NoPutWait'
    BY <1>2 DEF LoopFollows, LoginTakesTime, Outwaits, Quiet, SlotEmpty,
        NoPutWait, Active, Running, SeriesPlaces, DialPlaces
  <2>4. Down' /\ Leaving' /\ Mark'
    BY <1>2 DEF LoopFollows, LoginTakesTime, Outwaits, Down, Leaving, Mark,
        Active, Running, Busy, SeriesPlaces, DialPlaces
  <2>5. Rings' /\ NoOrphanSeries'
    BY <1>2 DEF LoopFollows, LoginTakesTime, Outwaits, Rings, NoOrphanSeries,
        Dialing, DialPlaces, Active, SeriesPlaces
  <2>6. PlayingHeld'
    <3>1. /\ phase[l] = "run" /\ ~told[l] /\ UNCHANGED <<slot, phase, held, hand, pc>>
          /\ watch'.playing => watch.playing \/ LoginTakesTime(l)
      BY <1>2 DEF LoopFollows
    <3>2. ASSUME NEW k \in Links, (Playing(k))', ~Playing(k)
          PROVE  slot = k /\ Outwaits
      <4>1. k = l
        BY <3>1, <3>2 DEF Playing, SoleLink, Running
      <4>2. Outwaits /\ pc[opener[l]] \notin {"put", "putClosed", "putWait", "tell"}
        BY <3>1, <3>2, <4>1 DEF Playing, LoginTakesTime
      <4>3. ASSUME NEW t \in Tasks, hand[t] = l PROVE FALSE
        <5>1. pc[t] \in {"dropWait", "takeWait", "dialWait", "spawn", "put",
                         "putClosed", "putWait"}
          BY <4>3 DEF HandsOK
        <5>2. t \in Links
          BY <4>2, <5>1 DEF Outwaits
        <5>3. Active(t)
          BY <5>1, <5>2 DEF SeriesWaits, Active, SeriesPlaces, DialPlaces
        <5> QED
          BY <3>1, <4>2, <5>2, <5>3 DEF Quiet, Running
      <4> QED
        BY <3>1, <4>1, <4>2, <4>3 DEF NoStrayLink, Running
    <3> QED
      BY <3>1, <3>2 DEF PlayingHeld, Outwaits
  <2>7. PlayingAlone'
    BY <1>2 DEF LoopFollows, LoginTakesTime, Outwaits, PlayingAlone, HandsOK,
        NoStrayLink, SoleLink, SlotEmpty, Quiet, Active, Playing,
        SeriesPlaces, DialPlaces, Running
  <2> QED BY ONLY <2>1, <2>2, <2>3, <2>4, <2>5, <2>6, <2>7 DEF OneInv
<1>3. ASSUME NEW l \in Links, LoopDrops(l) PROVE OneInv'
  <2>1. Calls' /\ SoleLink' /\ SoleDialer'
    BY <1>3 DEF LoopDrops, Calls, SoleLink, SoleDialer, Dialing, DialPlaces,
        Running, Active, SeriesPlaces
  <2>2. Enders' /\ EndingLast' /\ Born'
    BY <1>3 DEF LoopDrops, Enders, EndingLast, Born, Active, SeriesPlaces,
        DialPlaces
  <2>3. Quiet' /\ PlayingHeld' /\ PlayingAlone'
    BY <1>3 DEF LoopDrops, Quiet, PlayingHeld, PlayingAlone, Active, Running,
        SeriesPlaces, DialPlaces, Playing
  <2>4. SlotEmpty' /\ NoPutWait' /\ Down'
    BY <1>3 DEF LoopDrops, SlotEmpty, NoPutWait, Down, Active, Running, Busy,
        SeriesPlaces, DialPlaces
  <2>5. Leaving' /\ Mark' /\ Rings'
    BY <1>3 DEF LoopDrops, Leaving, Mark, Rings, Active, SeriesPlaces,
        DialPlaces, Dialing
  <2>6. NoOrphanSeries'
    BY <1>3 DEF LoopDrops, NoOrphanSeries, Active, SeriesPlaces, DialPlaces
  <2> QED BY ONLY <2>1, <2>2, <2>3, <2>4, <2>5, <2>6 DEF OneInv
<1>4. ASSUME ReconnectSet PROVE OneInv'
  <2>1. Calls' /\ SoleLink' /\ SoleDialer'
    BY <1>4 DEF ReconnectSet, Calls, SoleLink, SoleDialer, Dialing,
        DialPlaces, Running, Active, SeriesPlaces
  <2>2. Enders' /\ EndingLast' /\ Born'
    BY <1>4 DEF ReconnectSet, Enders, EndingLast, Born, Active, SeriesPlaces,
        DialPlaces
  <2>3. Quiet' /\ PlayingHeld' /\ PlayingAlone'
    BY <1>4 DEF ReconnectSet, Quiet, PlayingHeld, PlayingAlone, Active,
        Running, SeriesPlaces, DialPlaces, Playing
  <2>4. SlotEmpty' /\ NoPutWait' /\ Down'
    BY <1>4 DEF ReconnectSet, SlotEmpty, NoPutWait, Down, Active, Running,
        Busy, SeriesPlaces, DialPlaces
  <2>5. Leaving' /\ Mark' /\ Rings'
    BY <1>4 DEF ReconnectSet, Leaving, Mark, Rings, Active, SeriesPlaces,
        DialPlaces, Dialing
  <2>6. NoOrphanSeries'
    BY <1>4 DEF ReconnectSet, NoOrphanSeries, Active, SeriesPlaces, DialPlaces
  <2> QED BY ONLY <2>1, <2>2, <2>3, <2>4, <2>5, <2>6 DEF OneInv
<1>5. ASSUME SendFindsDead PROVE OneInv'
  <2>1. Calls' /\ SoleLink' /\ SoleDialer'
    BY <1>5 DEF SendFindsDead, Calls, SoleLink, SoleDialer, Dialing,
        DialPlaces, Running, Active, SeriesPlaces
  <2>2. Enders' /\ EndingLast' /\ Born'
    BY <1>5 DEF SendFindsDead, Enders, EndingLast, Born, Active, SeriesPlaces,
        DialPlaces
  <2>3. Quiet' /\ PlayingHeld' /\ PlayingAlone'
    BY <1>5 DEF SendFindsDead, Quiet, PlayingHeld, PlayingAlone, Active,
        Running, SeriesPlaces, DialPlaces, Playing
  <2>4. SlotEmpty' /\ NoPutWait' /\ Down'
    BY <1>5 DEF SendFindsDead, SlotEmpty, NoPutWait, Down, Active, Running,
        Busy, SeriesPlaces, DialPlaces
  <2>5. Leaving' /\ Mark' /\ Rings'
    BY <1>5 DEF SendFindsDead, Leaving, Mark, Rings, Active, SeriesPlaces,
        DialPlaces, Dialing
  <2>6. NoOrphanSeries'
    BY <1>5 DEF SendFindsDead, NoOrphanSeries, Active, SeriesPlaces,
        DialPlaces
  <2> QED BY ONLY <2>1, <2>2, <2>3, <2>4, <2>5, <2>6 DEF OneInv
<1>6. ASSUME NEW c \in Commands, NEW o \in Ops, Start(c, o) PROVE OneInv'
  <2>1. Calls' /\ SoleLink' /\ SoleDialer'
    BY <1>6 DEF Start, FirstPlace, Go, Calls, SoleLink, SoleDialer, Dialing,
        DialPlaces, Running, Active, SeriesPlaces
  <2>2. EndingLast' /\ Born'
    BY <1>6 DEF Start, FirstPlace, Go, EndingLast, Born
  <2>3. Quiet'
    BY <1>6 DEF Start, FirstPlace, Go, Quiet, Active, Running, SeriesPlaces,
        DialPlaces
  <2>4. PlayingAlone'
    BY <1>6 DEF Start, FirstPlace, Go, PlayingAlone, Active, Playing,
        SeriesPlaces, DialPlaces
  <2>5. SlotEmpty'
    BY <1>6 DEF Start, FirstPlace, Go, SlotEmpty
  <2>6. NoPutWait'
    BY <1>6 DEF Start, FirstPlace, Go, NoPutWait
  <2>7. Down'
    BY <1>6 DEF Start, FirstPlace, Go, Down, Active, Running, Busy,
        SeriesPlaces, DialPlaces
  <2>8. Leaving' /\ Mark' /\ Rings'
    BY <1>6 DEF Start, FirstPlace, Go, Leaving, Mark, Rings, Active,
        SeriesPlaces, DialPlaces, Dialing
  <2>9. NoOrphanSeries'
    BY <1>6 DEF Start, FirstPlace, Go, NoOrphanSeries, Active, SeriesPlaces,
        DialPlaces
  <2>10. Enders'
    <3>1. /\ pc[c] \notin {"ending", "ending2"} /\ UNCHANGED <<marked, victim>>
          /\ \A u \in Tasks : u # c => pc'[u] = pc[u]
          /\ c \in Links /\ pc'[c] \in SeriesPlaces => pc[c] \in SeriesPlaces
      BY <1>6 DEF Start, Go, FirstPlace, SeriesPlaces, DialPlaces
    <3> QED
      BY ONLY <3>1, MoveKeepsEnders, SeriesApart, OneInv DEF OneInv, Tasks
  <2>11. PlayingHeld'
    <3>1. UNCHANGED <<slot, hand, phase, watch, held>>
      BY <1>6 DEF Start
    <3>2. /\ \A u \in Tasks : u # c => pc'[u] = pc[u]
          /\ {pc[c], pc'[c]} \cap {"dropWait", "takeWait"} = {}
      BY <1>6 DEF Start, Go, FirstPlace
    <3> QED
      BY <3>1, <3>2, MoveKeepsPlaying
  <2> QED BY ONLY <2>1, <2>2, <2>3, <2>4, <2>5, <2>6, <2>7, <2>8, <2>9, <2>10,
      <2>11 DEF OneInv
<1> QED BY ONLY Outside, <1>1, <1>2, <1>3, <1>4, <1>5, <1>6 DEF Outside
\* What one command at a time gives holds at the start.
LEMMA OneInit == Init => OneInv /\ SeriesWaits
<1> SUFFICES ASSUME Init PROVE OneInv /\ SeriesWaits
  OBVIOUS
<1>1. /\ \A c \in Commands : pc[c] = "idle" /\ op[c] = "cancel"
      /\ \A s \in Links : pc[s] = "unborn" /\ ~marked[s] /\ phase[s] = "none"
  BY SeriesApart DEF Init, Tasks
<1>2. \A t \in Tasks : pc[t] \in {"idle", "unborn"}
  BY DEF Init
<1>3. slot = NoLink /\ redial = NoLink /\ ~inSession /\ ~awaiting /\ ~wanted
  BY DEF Init
<1>4. NoLink \notin Links
  BY LinkAssumption DEF Links, NoLink
<1>5. /\ \A s \in Links : ~Active(s) /\ ~Running(s) /\ ~Playing(s)
      /\ \A c \in Commands : ~Dialing(c) /\ ~Busy(c)
  BY <1>1 DEF Active, Running, Playing, Dialing, Busy, SeriesPlaces,
      DialPlaces
<1>6. Calls /\ SoleLink /\ SoleDialer /\ Enders /\ EndingLast
  BY <1>1, <1>2, <1>5 DEF Calls, SoleLink, SoleDialer, Enders, EndingLast
<1>7. Born /\ Quiet /\ PlayingHeld /\ PlayingAlone /\ SlotEmpty /\ NoPutWait
  BY <1>1, <1>2, <1>3, <1>4, <1>5
     DEF Born, Quiet, PlayingHeld, PlayingAlone, SlotEmpty, NoPutWait
<1>8. Down /\ Leaving /\ Mark /\ Rings /\ NoOrphanSeries /\ SeriesWaits
  BY <1>1, <1>3, <1>5
     DEF Down, Leaving, Mark, Rings, NoOrphanSeries, SeriesWaits
<1> QED
  BY <1>6, <1>7, <1>8 DEF OneInv

\* Every step keeps it.
LEMMA OneNext ==
  ASSUME OneCommand
  PROVE  IInv /\ SeriesWaits /\ OneInv /\ [Next]_vars => OneInv'
<1> SUFFICES ASSUME IInv, SeriesWaits, OneInv, [Next]_vars PROVE OneInv'
  OBVIOUS
<1>1. CASE Next
  BY <1>1, OneCommandStep, OneDialStep, OneSeriesStep, OneLoopStep, OneOutside
     DEF Next
<1>2. CASE UNCHANGED vars
  BY <1>2 DEF vars, sessionVars, linkVars, taskVars, OneInv, Calls, SoleLink,
      SoleDialer, Enders, EndingLast, Born, Quiet, PlayingHeld, PlayingAlone,
      SlotEmpty, NoPutWait, Down, Leaving, Mark, Rings, NoOrphanSeries,
      Dialing, Playing, Active, Running, Busy
<1> QED
  BY <1>1, <1>2

\* Where the calls of the page do not overlap, all parts of OneInv hold in
\* every state the session reaches.
THEOREM OneAtATime == ASSUME OneCommand PROVE Spec => []OneInv
<1>1. Init => IInv /\ SeriesWaits /\ OneInv
  BY InitInv, OneInit
<1>2. IInv /\ SeriesWaits /\ OneInv /\ [Next]_vars
        => (IInv /\ SeriesWaits /\ OneInv)'
  BY NextInv, SeriesWaitsStep, OneNext
<1> QED
  BY <1>1, <1>2, PTL DEF Spec

\* The session keeps every series that runs and was not aborted, so the next
\* Cancel, Connect, Disconnect or close finds it (Redial in reconnect.rs).
THEOREM SeriesAreKept == ASSUME OneCommand PROVE Spec => []NoOrphanSeries
<1>1. OneInv => NoOrphanSeries
  BY DEF OneInv
<1> QED
  BY <1>1, OneAtATime, PTL

\* After a Disconnect ends nothing runs, dials or waits to redial until you
\* connect: disconnect in session.rs ends the link, then the series its drop
\* may have started.
THEOREM DisconnectIsFinal == ASSUME OneCommand PROVE Spec => []StaysDown
<1>1. OneInv => StaysDown
  BY DEF OneInv, Down, StaysDown
<1> QED
  BY <1>1, OneAtATime, PTL

\* At rest the mark that Session::connected reads tells whether a link runs.
THEOREM MarkIsTrue == ASSUME OneCommand PROVE Spec => []InSessionAgrees
<1>1. OneInv => InSessionAgrees
  BY DEF OneInv, Mark, InSessionAgrees, Settled, Running
<1> QED
  BY <1>1, OneAtATime, PTL

\* No two tasks dial at once, and none dials while the slot holds a link
\* (the header of reconnect.rs).
THEOREM OneSocketAtATime == ASSUME OneCommand PROVE Spec => []OneSocket
<1>1. ASSUME OneInv PROVE OneSocket
  <2>1. ASSUME NEW t \in Tasks, NEW u \in Tasks,
               pc[t] \in {"socket", "spawn", "put"},
               pc[u] \in {"socket", "spawn", "put"}
        PROVE  t = u
    <3>1. \A c \in Commands : c \in {t, u} => Dialing(c)
      BY <2>1 DEF Dialing, DialPlaces
    <3>2. \A s \in Links : s \in {t, u} => Active(s)
      BY <2>1 DEF Active, SeriesPlaces, DialPlaces
    <3>3. SoleDialer
      BY <1>1 DEF OneInv
    <3> QED
      BY <2>1, <3>1, <3>2, <3>3 DEF SoleDialer, Tasks, OneCommand
  <2>2. \A t \in Tasks : pc[t] \in {"socket", "spawn", "put"} => slot = NoLink
    BY <1>1 DEF OneInv, SlotEmpty
  <2> QED
    BY <2>1, <2>2 DEF OneSocket
<1> QED
  BY <1>1, OneAtATime, PTL

\* Only the first text of a link that a series opened rings: a Connect, a
\* Cancel and the end of a try clear what awaits it (AwaitingPrompt in
\* reconnect.rs).
THEOREM RingsAreForRedials == ASSUME OneCommand PROVE Spec => RingsForRedial
<1>1. OneInv => [\A l \in Links : LoopText(l) => opener[l] \in Links]_vars
  BY DEF OneInv, Rings, LoopText
<1> QED
  BY <1>1, OneAtATime, PTL DEF RingsForRedial
=============================================================================
