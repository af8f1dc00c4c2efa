------------------------------- MODULE Saves -------------------------------
(***************************************************************************)
(* The sessions, the profiles they play and the saves of both: disk/       *)
(* save.rs, profile/open.rs, profile/switch.rs and the session map of      *)
(* sessions.rs, with the commands that open, close and move a session.     *)
(* Loadout mode, whose saves write the catalog too, is left out.           *)
(*                                                                         *)
(* Every step under a profile's lock alone is one action.  PERSIST_LOCK is *)
(* held across many, and job is what holds it.                             *)
(***************************************************************************)
EXTENDS Integers, Sequences, FiniteSets

CONSTANTS
    Sessions,
    Names,      \* the profiles the set lists
    NoName,
    MaxOpens,   \* bound: the profiles opened, each time one opens
    MaxChanges  \* bound: the lines and the Settings commands

ASSUME SavesAssumption == MaxOpens \in Nat \ {0} /\ MaxChanges \in Nat

VARIABLES
    opens,     \* the profiles that opened, in that order
    open,      \* profiles of Sessions: the ones open, by their place
    plays,     \* what each session plays, 0 while it waits for its first selection
    map,       \* the session list
    closing,   \* the sessions a close took out of it and has yet to save
    edits,     \* edit_hold, 0 for none
    disk,      \* what each profile file holds
    global,    \* the shared settings global.toml holds
    job,       \* what holds PERSIST_LOCK
    queue,     \* the open profiles a save waits for the lock for
    timers,    \* the open profiles whose last mark's debounce sleeps
    aims,      \* the profile a step of a session waits for, and its layer
    settling,  \* what a line asked, before settle_line_effects
    change     \* the number of changes so far

vars == <<opens, open, plays, map, closing, edits, disk, global, job, queue,
          timers, aims, settling, change>>
sessionVars == <<plays, map, closing, edits>>
files == <<disk, global>>
steps == <<aims, settling>>

Ids == 1 .. MaxOpens
Changes == 0 .. MaxChanges

\* A profile's own settings and the ones every profile shares, each by its
\* last change.
Profile == [name : Names, own : Changes, shared : Changes,
            over : BOOLEAN,   \* shared is a layer #profile laid
            held : BOOLEAN]
NoLayer == -1
NoAim == [o |-> 0, layer |-> NoLayer]
NoLine == [o |-> 0, replaced |-> FALSE]
Free ==
    [kind |-> "free", o |-> 0, by |-> {}, to |-> NoName, stage |-> "end",
     own |-> 0, shared |-> 0, rest |-> {}]

TypeOK ==
    /\ opens \in Seq(Profile) /\ Len(opens) <= MaxOpens
    /\ open \subseteq 1 .. Len(opens)
    /\ plays \in [Sessions -> 0 .. Len(opens)]
    /\ map \subseteq Sessions /\ closing \subseteq Sessions \ map
    /\ edits \in 0 .. Len(opens)
    /\ disk \in [Names -> Changes] /\ global \in Changes
    /\ job \in [kind : {"free", "save", "switch", "close", "letgo"},
                o : 0 .. Len(opens), by : SUBSET Sessions, to : Names \cup {NoName},
                stage : {"snap", "write", "lay", "end"},
                own : Changes, shared : Changes, rest : SUBSET Ids]
    /\ queue \subseteq 1 .. Len(opens)
    /\ timers \subseteq 1 .. Len(opens)
    /\ aims \in [Sessions -> [o : 0 .. Len(opens), layer : {NoLayer} \cup Changes]]
    /\ settling \in [Sessions -> [o : 0 .. Len(opens), replaced : BOOLEAN]]
    /\ change \in Changes

-----------------------------------------------------------------------------
(* The session map                                                         *)

Players(o) == {s \in map : plays[s] = o}
Named(name) == {o \in open : opens[o].name = name}

\* A profile as its files read.
FromFiles(name) ==
    [name |-> name, own |-> disk[name], shared |-> global, over |-> FALSE,
     held |-> FALSE]

\* Mutant: the profile is opened from its files though it is open.
Joins_Opens(o, name) ==
    /\ Len(opens) < MaxOpens
    /\ opens' = Append(opens, FromFiles(name)) /\ o = Len(opens) + 1

\* A session that plays `name` finds it open, or opens it from its files.
Joins(o, name) ==
    \/ o \in Named(name) /\ opens' = opens
    \/ /\ Named(name) = {} /\ Len(opens) < MaxOpens
       /\ opens' = Append(opens, FromFiles(name)) /\ o = Len(opens) + 1

\* The profiles open once o closed, when no session plays it and Settings
\* holds no edits on it.
Unless(among, o) ==
    IF o # edits' /\ \A s \in map' : plays'[s] # o THEN among \ {o} ELSE among

\* One session on an open profile, the others waiting as launch left them.
Init ==
    /\ \E first \in Sessions, name \in Names, waiting \in SUBSET Sessions :
        /\ opens = <<[name |-> name, own |-> 0, shared |-> 0, over |-> FALSE,
                      held |-> FALSE]>>
        /\ map = {first} \cup waiting
        /\ plays = [s \in Sessions |-> IF s = first THEN 1 ELSE 0]
    /\ open = {1} /\ closing = {} /\ edits = 0
    /\ disk = [n \in Names |-> 0] /\ global = 0
    /\ job = Free /\ queue = {} /\ timers = {}
    /\ aims = [s \in Sessions |-> NoAim] /\ settling = [s \in Sessions |-> NoLine]
    /\ change = 0

\* A new session plays a profile by name, or the one another session plays.
SessionOpen(s) ==
    /\ job = Free /\ s \notin map \cup closing
    /\ \E o \in 0 .. MaxOpens :
        /\ \/ \E name \in Names : Joins(o, name)
           \/ o \in {plays[t] : t \in map} /\ opens' = opens
        /\ plays' = [plays EXCEPT ![s] = o]
        /\ open' = open \cup ({o} \ {0})
    /\ map' = map \cup {s}
    /\ UNCHANGED <<closing, edits, files, job, queue, timers, steps, change>>

\* The first selection of a session launch restored.
OpenRestored(s) ==
    /\ job = Free /\ s \in map /\ plays[s] = 0
    /\ \E o \in Ids, name \in Names :
        /\ Joins(o, name)
        /\ plays' = [plays EXCEPT ![s] = o] /\ open' = open \cup {o}
    /\ UNCHANGED <<map, closing, edits, files, job, queue, timers, steps, change>>

-----------------------------------------------------------------------------
(* Lines and Settings                                                      *)

Changed == change < MaxChanges /\ change' = change + 1

\* A step looks up the profile its session plays, and waits for its lock.
\* For #profile reset or load it reads global.toml first.
Aim(s) ==
    /\ s \in map /\ plays[s] # 0 /\ aims[s] = NoAim /\ settling[s] = NoLine
    /\ \/ aims' = [aims EXCEPT ![s] = [o |-> plays[s], layer |-> NoLayer]]
       \/ job = Free /\ aims' = [aims EXCEPT ![s] = [o |-> plays[s], layer |-> global]]
    /\ change < MaxChanges
    /\ UNCHANGED <<opens, open, sessionVars, files, job, queue, timers, settling, change>>

\* It got a lock, but the session plays another profile by now.
AimAgain(s) ==
    /\ aims[s] # NoAim /\ aims[s].o # plays[s]
    /\ aims' = [aims EXCEPT ![s].o = plays[s]]
    /\ UNCHANGED <<opens, open, sessionVars, files, job, queue, timers, settling, change>>

\* Mutant: the step does not look again once it has the lock.
Locked_Once(s) == aims[s] # NoAim

\* The step has the lock of the profile its session plays.
Locked(s) == aims[s] # NoAim /\ aims[s].o = plays[s]

Asks(s, replaced) ==
    /\ aims' = [aims EXCEPT ![s] = NoAim]
    /\ settling' = [settling EXCEPT ![s] = [o |-> aims[s].o, replaced |-> replaced]]
    /\ UNCHANGED <<open, sessionVars, global, job, queue, timers>>

\* A slash command that changes what is saved.
Line(s) ==
    /\ Locked(s) /\ aims[s].layer = NoLayer
    /\ Changed
    /\ opens' = [opens EXCEPT ![aims[s].o].own = change']
    /\ Asks(s, FALSE)
    /\ UNCHANGED disk

\* #profile save.  While another save runs it says to try again, and
\* counts as a change all the same.
ProfileSave(s) ==
    /\ Locked(s) /\ aims[s].layer = NoLayer
    /\ Changed
    /\ disk' = IF job = Free
               THEN [disk EXCEPT ![opens[aims[s].o].name] = opens[aims[s].o].own]
               ELSE disk
    /\ Asks(s, FALSE)
    /\ UNCHANGED opens

\* #profile reset or load lays the defaults or the file over the profile,
\* and the layer over both.
Replace(s) ==
    /\ Locked(s) /\ aims[s].layer # NoLayer
    /\ Changed
    /\ \E own \in {change', disk[opens[aims[s].o].name]} :
        opens' = [opens EXCEPT ![aims[s].o].own = own,
                               ![aims[s].o].shared = aims[s].layer,
                               ![aims[s].o].over = TRUE]
    /\ Asks(s, TRUE)
    /\ UNCHANGED disk

\* The line let go of its locks.
Settle(s) ==
    /\ settling[s] # NoLine
    /\ opens' = [opens EXCEPT ![settling[s].o].held = settling[s].replaced]
    /\ timers' = IF settling[s].replaced THEN timers ELSE timers \cup {settling[s].o}
    /\ settling' = [settling EXCEPT ![s] = NoLine]
    /\ UNCHANGED <<open, sessionVars, files, job, queue, aims, change>>

\* A pane you drag: SoonUnlessHeld.
Drag(o) ==
    /\ Changed
    /\ opens' = [opens EXCEPT ![o].own = change'] /\ timers' = timers \cup {o}
    /\ UNCHANGED <<open, sessionVars, files, job, queue, steps>>

\* A Settings command changes a setting of the profile, or one every
\* profile shares, and saves at once, or by NowUnlessHeld.
Setting(o) ==
    /\ Changed
    /\ \/ opens' = [opens EXCEPT ![o].own = change'] /\ queue' = queue \cup {o}
       \/ opens' = [opens EXCEPT ![o].own = change'] /\ opens[o].held /\ queue' = queue
       \/ /\ opens' = [opens EXCEPT ![o].shared = change', ![o].over = FALSE]
          /\ queue' = queue \cup {o}
    /\ UNCHANGED <<open, sessionVars, files, job, timers, steps>>

\* Mutant: a debounce that ends while a save runs counts as saved.
Due_Idle(o) == ~opens[o].held /\ job = Free

\* A profile #profile holds is left as it is.
Due(o) == ~opens[o].held

\* Two seconds passed with no newer mark.
Fires(o) ==
    /\ timers' = timers \ {o}
    /\ queue' = IF Due(o) THEN queue \cup {o} ELSE queue
    /\ UNCHANGED <<opens, open, sessionVars, files, job, steps, change>>

-----------------------------------------------------------------------------
(* Under PERSIST_LOCK                                                      *)

\* Mutant: a save that waited does not ask whether its profile closed.
Takes_Any(kind, o, by, to, saves) ==
    job' = [Free EXCEPT !.kind = kind, !.o = o, !.by = by, !.to = to,
                        !.stage = IF saves THEN "snap" ELSE "end"]

\* The lock is taken for kind, which saves o first when it asks to.
Takes(kind, o, by, to, saves) ==
    job' = [Free EXCEPT !.kind = kind, !.o = o, !.by = by, !.to = to,
                        !.stage = IF saves /\ o \in open THEN "snap" ELSE "end"]

TakeSave(o) ==
    /\ job = Free
    /\ queue' = queue \ {o}
    /\ Takes("save", o, {}, NoName, TRUE)
    /\ UNCHANGED <<opens, open, sessionVars, files, timers, steps, change>>

\* The last session on a profile saves it as it leaves, unless it is held.
TakeSwitch(s, name) ==
    /\ job = Free /\ s \in map
    /\ Takes("switch", plays[s], {s}, name,
             plays[s] # 0 /\ Players(plays[s]) = {s} /\ ~opens[plays[s]].held)
    /\ UNCHANGED <<opens, open, sessionVars, files, queue, timers, steps, change>>

\* A close takes the session out of the list, lets go while it
\* disconnects, and takes the lock again.  Its steps have ended.
SessionClose(s) ==
    /\ job = Free /\ s \in map /\ map # {s}
    /\ aims[s] = NoAim /\ settling[s] = NoLine
    /\ map' = map \ {s} /\ closing' = closing \cup {s}
    /\ UNCHANGED <<opens, open, plays, edits, files, job, queue, timers, steps,
                   change>>

TakeClose(s) ==
    /\ job = Free /\ s \in closing
    /\ Takes("close", plays[s], {s}, NoName, plays[s] # 0 /\ ~opens[plays[s]].held)
    /\ UNCHANGED <<opens, open, sessionVars, files, queue, timers, steps, change>>

\* Settings holds edits on another open profile from here, or on none.
TakeLetGo(name) ==
    /\ job = Free
    /\ Takes("letgo", edits, {}, name,
             /\ edits # 0 /\ Players(edits) = {}
             /\ opens[edits].name # name /\ ~opens[edits].held)
    /\ UNCHANGED <<opens, open, sessionVars, files, queue, timers, steps, change>>

\* persist_state: the snapshot under the profile's lock, the files, then
\* what is shared over each other open profile, one lock at a time.
Snapshot ==
    /\ job.stage = "snap"
    /\ job' = [job EXCEPT !.stage = "write", !.own = opens[job.o].own,
                          !.shared = opens[job.o].shared]
    /\ opens' = [opens EXCEPT ![job.o].over = FALSE]
    /\ UNCHANGED <<open, sessionVars, files, queue, timers, steps, change>>

\* Mutant: what is shared is laid over no other profile.
Others_None == {}

\* The other open profiles.
Others == open \ {job.o}

WriteFiles ==
    /\ job.stage = "write"
    /\ disk' = [disk EXCEPT ![opens[job.o].name] = job.own]
    /\ global' = job.shared
    /\ job' = [job EXCEPT !.stage = "lay", !.own = 0,
                          !.rest = Others]
    /\ UNCHANGED <<opens, open, sessionVars, queue, timers, steps, change>>

LayOver ==
    /\ job.stage = "lay"
    /\ IF job.rest = {}
       THEN job' = [job EXCEPT !.stage = "end", !.shared = 0] /\ opens' = opens
       ELSE \E o \in job.rest :
            /\ opens' = [opens EXCEPT ![o].shared = job.shared, ![o].over = FALSE]
            /\ job' = [job EXCEPT !.rest = @ \ {o}]
    /\ UNCHANGED <<open, sessionVars, files, queue, timers, steps, change>>

SaveEnds ==
    /\ job.kind = "save" /\ job.stage = "end"
    /\ job' = Free
    /\ UNCHANGED <<opens, open, sessionVars, files, queue, timers, steps, change>>

\* The session moves with both profiles locked, or stays where a file does
\* not read, or where it is.
Move ==
    /\ job.kind = "switch" /\ job.stage = "end"
    /\ UNCHANGED <<map, closing, edits, files, queue, timers, steps, change>>
    /\ \/ /\ \E o \in Ids, s \in job.by :
                /\ Joins(o, job.to)
                /\ plays' = [plays EXCEPT ![s] = o]
                /\ open' = Unless(open \cup {o}, job.o)
       \/ UNCHANGED <<opens, plays, open>>
    /\ job' = Free

CloseEnds ==
    /\ job.kind = "close" /\ job.stage = "end"
    /\ closing' = closing \ job.by
    /\ UNCHANGED <<opens, plays, map, edits, files, queue, timers, steps, change>>
    /\ open' = Unless(open, job.o)
    /\ job' = Free

LetGoEnds ==
    /\ job.kind = "letgo" /\ job.stage = "end"
    /\ edits' \in (IF Named(job.to) = {} THEN {0} ELSE Named(job.to))
    /\ UNCHANGED <<opens, plays, map, closing, files, queue, timers, steps, change>>
    /\ open' = Unless(open, job.o)
    /\ job' = Free

Works == Snapshot \/ WriteFiles \/ LayOver \/ SaveEnds \/ Move \/ CloseEnds \/ LetGoEnds

Next ==
    \/ \E s \in Sessions :
        \/ SessionOpen(s) \/ OpenRestored(s) \/ SessionClose(s) \/ TakeClose(s)
        \/ Aim(s) \/ AimAgain(s) \/ Line(s) \/ ProfileSave(s) \/ Replace(s) \/ Settle(s)
        \/ \E name \in Names : TakeSwitch(s, name)
    \/ \E o \in open : Drag(o) \/ Setting(o)
    \/ \E o \in timers : Fires(o)
    \/ \E o \in queue : TakeSave(o)
    \/ \E name \in Names \cup {NoName} : TakeLetGo(name)
    \/ Works

Spec == Init /\ [][Next]_vars

-----------------------------------------------------------------------------
(* Properties                                                              *)

\* Each profile is in memory once, whoever opens, joins, leaves or closes
\* it, and a session in the list plays an open one, or waits for one.
OnePerName ==
    /\ \A a, b \in open : opens[a].name = opens[b].name => a = b
    /\ \A s \in map : plays[s] \in open \cup {0}

\* No line changes a profile that has closed, though a switch moved its
\* session while it waited for the lock.
LandsOpen ==
    \A o \in 1 .. Len(opens) : opens'[o].own # opens[o].own => o \in open
LinesLandOpen == [][LandsOpen]_vars

\* With the lock free and no save waiting every open profile holds the
\* shared settings global.toml holds, but for one under a layer.
SharedAgrees ==
    job = Free /\ queue = {} =>
        \A o \in open : opens[o].shared = global \/ opens[o].over

\* Nothing writes the files of a profile that has closed, which may be open
\* anew from them by now: a save asked for before finds it gone, and none
\* closes it while its save is under way.
NoSaveOfClosed == job.stage # "end" => job.o \in open

\* A change of an open profile that is not on disk has a save to come, which
\* will find it: no switch, close or other save takes the one that would
\* have saved it away.  #profile reset and load hold it on purpose.
EditsCovered ==
    \A o \in open : opens[o].own # disk[opens[o].name] =>
        \/ opens[o].held \/ o \in timers \cup queue
        \/ \E s \in Sessions : settling[s].o = o
        \/ job.o = o /\ \/ job.stage = "snap"
                        \/ job.stage = "write" /\ job.own = opens[o].own

\* switch.rs: your changes since the last save are not lost when it closes.
ClosesSaved ==
    [][\A o \in open \ open' : opens[o].held \/ opens[o].own = disk'[opens[o].name]]_vars
=============================================================================
