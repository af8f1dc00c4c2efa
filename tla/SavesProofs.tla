---------------------------- MODULE SavesProofs ----------------------------
(***************************************************************************)
(* Theorems of Saves for every set of sessions and of profiles, and any    *)
(* number of opens and changes.                                            *)
(***************************************************************************)
EXTENDS Saves, SequenceTheorems, TLAPS

-----------------------------------------------------------------------------
(* The types, part by part                                                 *)

OpensOK == opens \in Seq(Profile) /\ Len(opens) <= MaxOpens
ListOK ==
    /\ open \subseteq 1 .. Len(opens)
    /\ plays \in [Sessions -> 0 .. Len(opens)]
    /\ map \subseteq Sessions /\ closing \subseteq Sessions \ map
    /\ edits \in 0 .. Len(opens)
FilesOK == disk \in [Names -> Changes] /\ global \in Changes /\ change \in Changes
JobOK ==
    job \in [kind : {"free", "save", "switch", "close", "letgo"},
             o : 0 .. Len(opens), by : SUBSET Sessions, to : Names \cup {NoName},
             stage : {"snap", "write", "lay", "end"},
             own : Changes, shared : Changes, rest : SUBSET Ids]
DueOK == queue \subseteq 1 .. Len(opens) /\ timers \subseteq 1 .. Len(opens)
AimsOK == aims \in [Sessions -> [o : 0 .. Len(opens), layer : {NoLayer} \cup Changes]]
SettlingOK == settling \in [Sessions -> [o : 0 .. Len(opens), replaced : BOOLEAN]]

Parts == OpensOK /\ ListOK /\ FilesOK /\ JobOK /\ DueOK /\ AimsOK /\ SettlingOK

LEMMA TypeParts == TypeOK <=> Parts
BY DEF TypeOK, Parts, OpensOK, ListOK, FilesOK, JobOK, DueOK, AimsOK, SettlingOK

LEMMA ZeroChange == 0 \in Changes /\ \A c \in Changes : c < MaxChanges => c + 1 \in Changes
BY SavesAssumption DEF Changes

-----------------------------------------------------------------------------
(* The inductive invariant                                                 *)

\* A step of a session is one of a session in the list that plays, and the
\* next waits until what the last one asked is settled.
StepsPlay ==
    /\ \A s \in Sessions : aims[s] # NoAim => s \in map /\ plays[s] # 0
    /\ \A s \in Sessions : settling[s] # NoLine => settling[s].o # 0 /\ aims[s] = NoAim

\* What holds the lock moves to a profile of the set, or lays what is
\* shared over other open profiles.
JobSound ==
    /\ job.kind = "switch" => job.to \in Names
    /\ job.stage = "lay" => job.rest \subseteq open \ {job.o}

Inv == Parts /\ OnePerName /\ NoSaveOfClosed /\ StepsPlay /\ JobSound

-----------------------------------------------------------------------------
(* The profiles                                                            *)

\* No profile comes, goes, or changes its name.
SameProfiles ==
    /\ opens' \in Seq(Profile) /\ Len(opens') = Len(opens)
    /\ \A o \in 1 .. Len(opens) : opens'[o].name = opens[o].name

\* One more opens, at most, after the ones there were.
MoreProfiles ==
    /\ opens' \in Seq(Profile)
    /\ Len(opens') \in Len(opens) .. MaxOpens
    /\ \A o \in 1 .. Len(opens) : opens'[o] = opens[o]

\* A profile's fields change, one place in opens at a time.
LEMMA Update ==
    ASSUME Parts, NEW o \in 1 .. Len(opens), NEW p \in Profile,
           p.name = opens[o].name, opens' = [opens EXCEPT ![o] = p]
    PROVE  /\ SameProfiles
           /\ opens'[o] = p
           /\ \A i \in 1 .. Len(opens) \ {o} : opens'[i] = opens[i]
BY ExceptSeq DEF Parts, OpensOK, SameProfiles

LEMMA SameTypes ==
    ASSUME Parts, opens' = opens
    PROVE  SameProfiles
BY DEF Parts, OpensOK, SameProfiles

\* A session joins a profile by name.
LEMMA JoinMore ==
    ASSUME Parts, NEW o, NEW name \in Names, Joins(o, name)
    PROVE  /\ MoreProfiles
           /\ o \in 1 .. Len(opens')
           /\ opens'[o].name = name
           /\ o \in open \/ (o = Len(opens) + 1 /\ Named(name) = {}
                             /\ opens'[o] = FromFiles(name))
<1>1. CASE o \in Named(name) /\ opens' = opens
    BY <1>1 DEF Parts, OpensOK, ListOK, MoreProfiles, Named
<1>2. CASE Len(opens) < MaxOpens /\ opens' = Append(opens, FromFiles(name))
           /\ o = Len(opens) + 1 /\ Named(name) = {}
    <2>1. FromFiles(name) \in Profile
        BY ZeroChange DEF Parts, FilesOK, FromFiles, Profile
    <2>2. /\ opens' \in Seq(Profile) /\ Len(opens') = Len(opens) + 1
          /\ opens'[o] = FromFiles(name)
          /\ \A i \in 1 .. Len(opens) : opens'[i] = opens[i]
        BY <1>2, <2>1, AppendProperties DEF Parts, OpensOK
    <2>3. Len(opens) \in Nat /\ MaxOpens \in Nat
        BY SavesAssumption, LenProperties DEF Parts, OpensOK
    <2> QED BY <1>2, <2>2, <2>3 DEF MoreProfiles, FromFiles
<1> QED BY <1>1, <1>2 DEF Joins


-----------------------------------------------------------------------------
(* Steps that change no profile                                            *)

\* The lock is taken.
LEMMA TakesKeeps ==
    ASSUME Inv, NEW kind \in {"save", "switch", "close", "letgo"}, NEW o \in 0 .. Len(opens),
           NEW by \in SUBSET Sessions, NEW to \in Names \cup {NoName}, NEW saves,
           Takes(kind, o, by, to, saves), UNCHANGED <<opens, open, sessionVars, files, timers, steps, change>>,
           queue' \subseteq queue, kind = "switch" => to \in Names
    PROVE  Inv'
<1>1. job' = [Free EXCEPT !.kind = kind, !.o = o, !.by = by, !.to = to,
                          !.stage = IF saves /\ o \in open THEN "snap" ELSE "end"]
    BY DEF Takes
<1>2. /\ job'.kind = kind /\ job'.o = o /\ job'.to = to
      /\ job'.stage # "end" => o \in open
      /\ job'.stage # "lay"
    BY <1>1 DEF Free
<1>3. JobOK'
    BY <1>1, ZeroChange DEF JobOK, Free
<1>4. Parts'
    BY <1>3 DEF Inv, Parts, OpensOK, ListOK, FilesOK, DueOK, AimsOK, SettlingOK, sessionVars, files, steps
<1> QED BY <1>2, <1>4 DEF Inv, OnePerName, NoSaveOfClosed, StepsPlay, JobSound, sessionVars, steps

LEMMA TakeSaveKeeps == ASSUME Inv, NEW o \in queue, TakeSave(o) PROVE Inv'
<1>1. o \in 0 .. Len(opens) /\ {} \in SUBSET Sessions /\ queue \ {o} \subseteq queue
    BY DEF Inv, Parts, DueOK
<1>2. /\ Takes("save", o, {}, NoName, TRUE) /\ queue' = queue \ {o}
      /\ UNCHANGED <<opens, open, sessionVars, files, timers, steps, change>>
    BY DEF TakeSave
<1> QED BY <1>1, <1>2, TakesKeeps

LEMMA TakeSwitchKeeps ==
    ASSUME Inv, NEW s \in Sessions, NEW name \in Names, TakeSwitch(s, name) PROVE Inv'
BY TakesKeeps DEF TakeSwitch, Inv, Parts, ListOK

LEMMA TakeCloseKeeps == ASSUME Inv, NEW s \in Sessions, TakeClose(s) PROVE Inv'
BY TakesKeeps DEF TakeClose, Inv, Parts, ListOK

LEMMA TakeLetGoKeeps ==
    ASSUME Inv, NEW name \in Names \cup {NoName}, TakeLetGo(name) PROVE Inv'
<1>1. edits \in 0 .. Len(opens) /\ {} \in SUBSET Sessions
    BY DEF Inv, Parts, ListOK
<1>2. /\ \E saves : Takes("letgo", edits, {}, name, saves)
      /\ UNCHANGED <<opens, open, sessionVars, files, queue, timers, steps, change>>
    BY DEF TakeLetGo
<1> QED BY <1>1, <1>2, TakesKeeps

LEMMA AimKeeps == ASSUME Inv, NEW s \in Sessions, Aim(s) PROVE Inv'
<1>1. PICK layer \in {NoLayer} \cup Changes :
        aims' = [aims EXCEPT ![s] = [o |-> plays[s], layer |-> layer]]
    BY DEF Inv, Parts, FilesOK, Aim
<1>3. AimsOK'
    BY <1>1 DEF Inv, Parts, ListOK, OpensOK, AimsOK, Aim
<1>2. Parts'
    BY <1>3 DEF Inv, Parts, OpensOK, ListOK, FilesOK, JobOK, DueOK, SettlingOK, Aim, sessionVars, files
<1> QED BY <1>2 DEF Inv, OnePerName, NoSaveOfClosed, StepsPlay, JobSound, Aim, sessionVars, Parts, AimsOK

LEMMA AimAgainKeeps == ASSUME Inv, NEW s \in Sessions, AimAgain(s) PROVE Inv'
<1>1. AimsOK'
    BY DEF Inv, Parts, ListOK, AimsOK, AimAgain
<1>2. Parts'
    BY <1>1 DEF Inv, Parts, OpensOK, ListOK, FilesOK, JobOK, DueOK, SettlingOK, AimAgain, sessionVars, files
<1> QED BY <1>2 DEF Inv, OnePerName, NoSaveOfClosed, StepsPlay, JobSound, AimAgain, sessionVars, Parts, AimsOK

LEMMA SessionCloseKeeps == ASSUME Inv, NEW s \in Sessions, SessionClose(s) PROVE Inv'
<1>1. Parts'
    BY DEF Inv, Parts, OpensOK, ListOK, FilesOK, JobOK, DueOK, AimsOK, SettlingOK, SessionClose, files, steps
<1> QED BY <1>1 DEF Inv, OnePerName, NoSaveOfClosed, StepsPlay, JobSound, SessionClose, steps

LEMMA FiresKeeps == ASSUME Inv, NEW o \in timers, Fires(o) PROVE Inv'
<1>1. Parts'
    BY DEF Inv, Parts, OpensOK, ListOK, FilesOK, JobOK, DueOK, AimsOK, SettlingOK, Fires, sessionVars, files, steps
<1> QED BY <1>1 DEF Inv, OnePerName, NoSaveOfClosed, StepsPlay, JobSound, Fires, sessionVars, steps

LEMMA SaveEndsKeeps == ASSUME Inv, SaveEnds PROVE Inv'
<1>1. JobOK'
    BY ZeroChange DEF JobOK, Free, SaveEnds, Inv, Parts, OpensOK
<1>2. Parts'
    BY <1>1 DEF Inv, Parts, OpensOK, ListOK, FilesOK, DueOK, AimsOK, SettlingOK, SaveEnds, sessionVars, files, steps
<1> QED BY <1>2 DEF Inv, OnePerName, NoSaveOfClosed, StepsPlay, JobSound, SaveEnds, Free, sessionVars, steps

-----------------------------------------------------------------------------
(* Steps that change a profile                                             *)

\* The profiles open stay the same ones.
LEMMA SameList ==
    ASSUME Inv, SameProfiles, UNCHANGED <<open, sessionVars>>
    PROVE  OpensOK' /\ ListOK' /\ OnePerName' /\ Len(opens') = Len(opens)
<1>1. OpensOK' /\ ListOK' /\ Len(opens') = Len(opens)
    BY DEF Inv, Parts, OpensOK, ListOK, SameProfiles, sessionVars
<1>2. \A o \in open : opens'[o].name = opens[o].name
    BY DEF Inv, Parts, ListOK, SameProfiles
<1>3. OnePerName'
    BY <1>2 DEF Inv, OnePerName, sessionVars
<1> QED BY <1>1, <1>3

LEMMA OwnUpdate ==
    ASSUME Parts, NEW o \in 1 .. Len(opens), NEW c \in Changes,
           opens' = [opens EXCEPT ![o].own = c]
    PROVE  /\ SameProfiles
           /\ opens'[o] = [opens[o] EXCEPT !.own = c]
           /\ \A i \in 1 .. Len(opens) \ {o} : opens'[i] = opens[i]
<1>1. opens[o] \in Profile
    BY ElementOfSeq DEF Parts, OpensOK
<1>2. [opens[o] EXCEPT !.own = c] \in Profile /\ [opens[o] EXCEPT !.own = c].name = opens[o].name
    BY <1>1 DEF Profile
<1> QED BY <1>2, Update

\* The profile a step of a session has the lock of is open.
LEMMA LockedOpen ==
    ASSUME Inv, NEW s \in Sessions, Locked(s)
    PROVE  aims[s].o \in open /\ aims[s].o \in 1 .. Len(opens)
BY DEF Inv, Parts, ListOK, StepsPlay, OnePerName, Locked

LEMMA ChangedTypes == ASSUME Parts, Changed PROVE change' \in Changes
BY ZeroChange DEF Changed, Parts, FilesOK

\* A line leaves its settling behind.
LEMMA AsksKeeps ==
    ASSUME Inv, SameProfiles, NEW s \in Sessions, NEW replaced \in BOOLEAN, Locked(s),
           Asks(s, replaced), change' \in Changes, disk' \in [Names -> Changes]
    PROVE  Inv'
<1>1. /\ AimsOK' /\ SettlingOK'
    BY SameList, LockedOpen, ZeroChange DEF Inv, Parts, AimsOK, SettlingOK, Asks, NoAim
<1>2. Parts'
    BY <1>1, SameList DEF Inv, Parts, FilesOK, JobOK, DueOK, Asks
<1>3. StepsPlay'
    BY LockedOpen DEF Inv, Parts, StepsPlay, AimsOK, SettlingOK, Asks, sessionVars, NoAim
<1>4. NoSaveOfClosed' /\ JobSound'
    BY DEF Inv, NoSaveOfClosed, JobSound, Asks
<1>5. OnePerName'
    BY SameList DEF Asks
<1> QED BY <1>2, <1>3, <1>4, <1>5 DEF Inv

LEMMA LineKeeps == ASSUME Inv, NEW s \in Sessions, Line(s) PROVE Inv'
<1>1. change' \in Changes
    BY ChangedTypes DEF Line, Inv
<1>2. SameProfiles
    BY <1>1, OwnUpdate, LockedOpen DEF Line, Inv
<1> QED BY <1>1, <1>2, AsksKeeps DEF Line, Inv, Parts, FilesOK

LEMMA ProfileSaveKeeps == ASSUME Inv, NEW s \in Sessions, ProfileSave(s) PROVE Inv'
<1>1. change' \in Changes
    BY ChangedTypes DEF ProfileSave, Inv
<1>2. SameProfiles
    BY SameTypes DEF ProfileSave, Inv
<1>3. opens[aims[s].o] \in Profile
    BY LockedOpen, ElementOfSeq DEF ProfileSave, Inv, Parts, OpensOK
<1>4. disk' \in [Names -> Changes]
    BY <1>3 DEF ProfileSave, Inv, Parts, FilesOK, Profile
<1> QED BY <1>1, <1>2, <1>4, AsksKeeps DEF ProfileSave

LEMMA ReplaceUpdate ==
    ASSUME Inv, NEW s \in Sessions, Replace(s)
    PROVE  /\ SameProfiles /\ change' \in Changes
           /\ opens'[aims[s].o].over
           /\ \A i \in 1 .. Len(opens) \ {aims[s].o} : opens'[i] = opens[i]
<1> DEFINE o == aims[s].o
<1>1. change' \in Changes
    BY ChangedTypes DEF Replace, Inv
<1>2. o \in 1 .. Len(opens)
    BY LockedOpen DEF Replace
<1>3. opens[o] \in Profile
    BY <1>2, ElementOfSeq DEF Inv, Parts, OpensOK
<1>4. aims[s].layer \in Changes
    BY DEF Replace, Inv, Parts, AimsOK
<1>5. disk[opens[o].name] \in Changes
    BY <1>3 DEF Inv, Parts, FilesOK, Profile
<1>6. PICK own \in Changes :
        opens' = [opens EXCEPT ![o].own = own, ![o].shared = aims[s].layer, ![o].over = TRUE]
    BY <1>1, <1>5 DEF Replace
<1> DEFINE p == [opens[o] EXCEPT !.own = own, !.shared = aims[s].layer, !.over = TRUE]
<1>7. opens' = [opens EXCEPT ![o] = p]
    BY <1>2, <1>3, <1>6 DEF Inv, Parts, OpensOK
<1>8. p \in Profile /\ p.name = opens[o].name /\ p.over
    BY <1>3, <1>4 DEF Profile
<1> QED BY <1>1, <1>2, <1>7, <1>8, Update DEF Inv

LEMMA ReplaceKeeps == ASSUME Inv, NEW s \in Sessions, Replace(s) PROVE Inv'
BY ReplaceUpdate, AsksKeeps DEF Replace, Inv, Parts, FilesOK

LEMMA SettleUpdate ==
    ASSUME Inv, NEW s \in Sessions, Settle(s)
    PROVE  /\ SameProfiles
           /\ settling[s].o \in 1 .. Len(opens)
           /\ opens'[settling[s].o] = [opens[settling[s].o] EXCEPT !.held = settling[s].replaced]
           /\ \A i \in 1 .. Len(opens) \ {settling[s].o} : opens'[i] = opens[i]
<1> DEFINE o == settling[s].o
<1> DEFINE p == [opens[o] EXCEPT !.held = settling[s].replaced]
<1>1. o \in 1 .. Len(opens) /\ settling[s].replaced \in BOOLEAN
    BY DEF Settle, Inv, Parts, SettlingOK, StepsPlay
<1>2. opens[o] \in Profile
    BY <1>1, ElementOfSeq DEF Inv, Parts, OpensOK
<1>3. p \in Profile /\ p.name = opens[o].name
    BY <1>1, <1>2 DEF Profile
<1>4. opens' = [opens EXCEPT ![o] = p]
    BY DEF Settle
<1> QED BY <1>1, <1>3, <1>4, Update DEF Inv

LEMMA SettleKeeps == ASSUME Inv, NEW s \in Sessions, Settle(s) PROVE Inv'
<1>1. SameProfiles /\ settling[s].o \in 1 .. Len(opens)
    BY SettleUpdate
<1>2. OpensOK' /\ ListOK' /\ OnePerName' /\ Len(opens') = Len(opens)
    BY <1>1, SameList DEF Settle
<1>3. SettlingOK' /\ DueOK'
    BY <1>1, <1>2 DEF Settle, Inv, Parts, SettlingOK, DueOK, NoLine
<1>4. Parts'
    BY <1>2, <1>3 DEF Settle, Inv, Parts, FilesOK, JobOK, AimsOK, files
<1>5. StepsPlay'
    BY DEF Settle, Inv, Parts, SettlingOK, StepsPlay, sessionVars
<1> QED BY <1>2, <1>4, <1>5 DEF Settle, Inv, NoSaveOfClosed, JobSound

LEMMA DragKeeps == ASSUME Inv, NEW o \in open, Drag(o) PROVE Inv'
<1>1. o \in 1 .. Len(opens) /\ change' \in Changes
    BY ChangedTypes DEF Drag, Inv, Parts, ListOK
<1>2. SameProfiles
    BY <1>1, OwnUpdate DEF Drag, Inv
<1>3. OpensOK' /\ ListOK' /\ OnePerName' /\ Len(opens') = Len(opens)
    BY <1>2, SameList DEF Drag
<1>4. Parts'
    BY <1>1, <1>3 DEF Drag, Inv, Parts, FilesOK, JobOK, DueOK, AimsOK, SettlingOK, files, steps
<1> QED BY <1>3, <1>4 DEF Drag, Inv, NoSaveOfClosed, JobSound, StepsPlay, sessionVars, steps

\* What is shared changes, with or without a layer over it.
LEMMA SharedUpdate ==
    ASSUME Parts, NEW o \in 1 .. Len(opens), NEW c \in Changes,
           opens' = [opens EXCEPT ![o].shared = c, ![o].over = FALSE]
    PROVE  /\ SameProfiles
           /\ opens'[o] = [opens[o] EXCEPT !.shared = c, !.over = FALSE]
           /\ \A i \in 1 .. Len(opens) \ {o} : opens'[i] = opens[i]
<1> DEFINE p == [opens[o] EXCEPT !.shared = c, !.over = FALSE]
<1>1. opens[o] \in Profile
    BY ElementOfSeq DEF Parts, OpensOK
<1>2. p \in Profile /\ p.name = opens[o].name
    BY <1>1 DEF Profile
<1>3. opens' = [opens EXCEPT ![o] = p]
    BY <1>1 DEF Parts, OpensOK
<1> QED BY <1>2, <1>3, Update

LEMMA SettingKeeps == ASSUME Inv, NEW o \in open, Setting(o) PROVE Inv'
<1>1. o \in 1 .. Len(opens) /\ change' \in Changes
    BY ChangedTypes DEF Setting, Inv, Parts, ListOK
<1>2. SameProfiles
    BY <1>1, OwnUpdate, SharedUpdate DEF Setting, Inv
<1>3. OpensOK' /\ ListOK' /\ OnePerName' /\ Len(opens') = Len(opens)
    BY <1>2, SameList DEF Setting
<1>4. DueOK'
    BY <1>1, <1>3 DEF Setting, Inv, Parts, DueOK
<1>5. Parts'
    BY <1>1, <1>3, <1>4 DEF Setting, Inv, Parts, FilesOK, JobOK, AimsOK, SettlingOK, files, steps
<1> QED BY <1>3, <1>5 DEF Setting, Inv, NoSaveOfClosed, JobSound, StepsPlay, sessionVars, steps

-----------------------------------------------------------------------------
(* A save                                                                  *)

LEMMA SavedOpen ==
    ASSUME Inv, job.stage # "end"
    PROVE  job.o \in open /\ job.o \in 1 .. Len(opens) /\ opens[job.o] \in Profile
<1>1. job.o \in open /\ job.o \in 1 .. Len(opens)
    BY DEF Inv, Parts, ListOK, NoSaveOfClosed
<1> QED BY <1>1, ElementOfSeq DEF Inv, Parts, OpensOK

\* The lock goes on with its save.
LEMMA GoesOn ==
    ASSUME Inv, job.stage # "end", SameProfiles, JobOK', job'.o = job.o, job'.kind = job.kind,
           job'.to = job.to, FilesOK',
           job'.stage = "lay" => job'.rest \subseteq open \ {job.o},
           UNCHANGED <<open, sessionVars, queue, timers, steps>>
    PROVE  Inv'
<1>1. OpensOK' /\ ListOK' /\ OnePerName' /\ Len(opens') = Len(opens)
    BY SameList
<1>2. Parts'
    BY <1>1 DEF Inv, Parts, DueOK, AimsOK, SettlingOK, steps
<1> QED BY <1>1, <1>2, SavedOpen DEF Inv, NoSaveOfClosed, JobSound, StepsPlay, sessionVars, steps

LEMMA SnapshotUpdate ==
    ASSUME Inv, Snapshot
    PROVE  /\ SameProfiles
           /\ job' = [job EXCEPT !.stage = "write", !.own = opens[job.o].own,
                                 !.shared = opens[job.o].shared]
           /\ opens'[job.o] = [opens[job.o] EXCEPT !.over = FALSE]
           /\ \A i \in 1 .. Len(opens) \ {job.o} : opens'[i] = opens[i]
<1>1. job.stage # "end"
    BY DEF Snapshot
<1>2. job.o \in 1 .. Len(opens) /\ opens[job.o] \in Profile
    BY <1>1, SavedOpen
<1>3. [opens[job.o] EXCEPT !.over = FALSE] \in Profile
      /\ [opens[job.o] EXCEPT !.over = FALSE].name = opens[job.o].name
    BY <1>2 DEF Profile
<1> QED BY <1>2, <1>3, Update DEF Snapshot, Inv

LEMMA SnapshotKeeps == ASSUME Inv, Snapshot PROVE Inv'
<1>1. job.stage # "end"
    BY DEF Snapshot
<1>2. opens[job.o].own \in Changes /\ opens[job.o].shared \in Changes /\ Len(opens') = Len(opens)
    BY <1>1, SavedOpen, SnapshotUpdate DEF Profile, SameProfiles
<1>3. JobOK' /\ job'.o = job.o /\ job'.kind = job.kind /\ job'.to = job.to
      /\ job'.stage = "write"
    BY <1>2, SnapshotUpdate DEF Inv, Parts, JobOK
<1> QED BY <1>1, <1>3, GoesOn, SnapshotUpdate DEF Snapshot, Inv, Parts, FilesOK, files

LEMMA WriteFilesKeeps == ASSUME Inv, WriteFiles PROVE Inv'
<1>1. job.stage # "end"
    BY DEF WriteFiles
<1>2. SameProfiles
    BY SameTypes DEF WriteFiles, Inv
<1>3. Others \subseteq Ids
    <2>1. Len(opens) \in Nat /\ Len(opens) <= MaxOpens /\ open \subseteq 1 .. Len(opens)
        BY LenProperties DEF Inv, Parts, ListOK, OpensOK
    <2>2. 1 .. Len(opens) \subseteq Ids
        BY <2>1, SavesAssumption DEF Ids
    <2> QED BY <2>1, <2>2 DEF Others
<1>4. JobOK' /\ job'.o = job.o /\ job'.kind = job.kind /\ job'.to = job.to
      /\ job'.rest \subseteq open \ {job.o}
    BY <1>3, ZeroChange DEF WriteFiles, Inv, Parts, JobOK, Others
<1>5. FilesOK'
    BY <1>1, SavedOpen DEF WriteFiles, Inv, Parts, FilesOK, JobOK, Profile
<1> QED BY <1>1, <1>2, <1>4, <1>5, GoesOn DEF WriteFiles

LEMMA LayOverUpdate ==
    ASSUME Inv, LayOver, job.rest # {}
    PROVE  \E o \in job.rest :
            /\ o \in 1 .. Len(opens)
            /\ SameProfiles
            /\ opens'[o] = [opens[o] EXCEPT !.shared = job.shared, !.over = FALSE]
            /\ \A i \in 1 .. Len(opens) \ {o} : opens'[i] = opens[i]
            /\ job' = [job EXCEPT !.rest = @ \ {o}]
<1>1. PICK o \in job.rest :
        /\ opens' = [opens EXCEPT ![o].shared = job.shared, ![o].over = FALSE]
        /\ job' = [job EXCEPT !.rest = @ \ {o}]
    BY DEF LayOver
<1>2. o \in 1 .. Len(opens) /\ job.shared \in Changes
    BY DEF LayOver, Inv, Parts, ListOK, JobOK, JobSound
<1> QED BY <1>1, <1>2, SharedUpdate DEF Inv

LEMMA LayOverKeeps == ASSUME Inv, LayOver PROVE Inv'
<1>1. job.stage # "end" /\ job.stage = "lay"
    BY DEF LayOver
<1>2. CASE job.rest = {}
    <2>1. SameProfiles
        BY <1>2, SameTypes DEF LayOver, Inv
    <2>2. JobOK' /\ job'.o = job.o /\ job'.kind = job.kind /\ job'.to = job.to /\ job'.stage = "end"
        BY <1>2, ZeroChange DEF LayOver, Inv, Parts, JobOK
    <2> QED BY <1>1, <2>1, <2>2, GoesOn DEF LayOver, Inv, Parts, FilesOK, files
<1>3. CASE job.rest # {}
    <2>1. PICK o \in job.rest : SameProfiles /\ job' = [job EXCEPT !.rest = @ \ {o}]
        BY <1>3, LayOverUpdate
    <2>2. Len(opens') = Len(opens)
        BY <2>1 DEF SameProfiles
    <2>3. JobOK' /\ job'.o = job.o /\ job'.kind = job.kind /\ job'.to = job.to
          /\ job'.rest \subseteq open \ {job.o}
        BY <1>1, <2>1, <2>2 DEF Inv, Parts, JobOK, JobSound
    <2> QED BY <1>1, <2>1, <2>3, GoesOn DEF LayOver, Inv, Parts, FilesOK, files
<1> QED BY <1>2, <1>3

-----------------------------------------------------------------------------
(* Sessions come, move and go                                              *)

\* A profile that opens has a name no open one has.
LEMMA JoinsApart ==
    ASSUME Inv, NEW o, NEW name \in Names, Joins(o, name)
    PROVE  \A a, b \in open \cup {o} : opens'[a].name = opens'[b].name => a = b
<1>1. \A a \in open : a \in 1 .. Len(opens) /\ opens'[a].name = opens[a].name
    BY JoinMore DEF Inv, Parts, ListOK, MoreProfiles
<1>2. opens'[o].name = name
    BY JoinMore DEF Inv
<1>3. o \in open \/ \A a \in open : opens[a].name # name
    BY JoinMore DEF Inv, Named
<1> QED BY <1>1, <1>2, <1>3 DEF Inv, OnePerName

\* With the list of profiles longer each type that bounds by it still holds.
LEMMA MoreTypes ==
    ASSUME Inv, MoreProfiles
    PROVE  /\ OpensOK'
           /\ 1 .. Len(opens) \subseteq 1 .. Len(opens')
           /\ 0 .. Len(opens) \subseteq 0 .. Len(opens')
           /\ UNCHANGED <<queue, timers>> => DueOK'
           /\ UNCHANGED steps => AimsOK' /\ SettlingOK'
           /\ job' \in {job, Free} => JobOK'
<1>1. OpensOK' /\ Len(opens) \in Nat /\ Len(opens') \in Nat /\ Len(opens) <= Len(opens')
    BY SavesAssumption, LenProperties DEF Inv, Parts, OpensOK, MoreProfiles
<1>2. 1 .. Len(opens) \subseteq 1 .. Len(opens') /\ 0 .. Len(opens) \subseteq 0 .. Len(opens')
    BY <1>1
<1>3. UNCHANGED <<queue, timers>> => DueOK'
    BY <1>2 DEF Inv, Parts, DueOK
<1>4. UNCHANGED steps => AimsOK' /\ SettlingOK'
    BY <1>2 DEF Inv, Parts, AimsOK, SettlingOK, steps
<1>5. job' = job => JobOK'
    BY <1>2 DEF Inv, Parts, JobOK
<1>6. job' = Free => JobOK'
    BY <1>1, ZeroChange DEF JobOK, Free
<1> QED BY <1>1, <1>2, <1>3, <1>4, <1>5, <1>6

LEMMA SessionOpenKeeps == ASSUME Inv, NEW s \in Sessions, SessionOpen(s) PROVE Inv'
<1>1. PICK o \in 0 .. MaxOpens :
        /\ \/ \E name \in Names : Joins(o, name)
           \/ o \in {plays[t] : t \in map} /\ opens' = opens
        /\ plays' = [plays EXCEPT ![s] = o] /\ open' = open \cup ({o} \ {0})
    BY DEF SessionOpen
<1>2. MoreProfiles /\ o \in 0 .. Len(opens')
      /\ \A a, b \in open' : opens'[a].name = opens'[b].name => a = b
    <2>1. CASE \E name \in Names : Joins(o, name)
        BY <1>1, <2>1, JoinMore, JoinsApart DEF Inv
    <2>2. CASE o \in {plays[t] : t \in map} /\ opens' = opens
        <3>1. o \in open \cup {0} /\ o \in 0 .. Len(opens)
            BY <2>2 DEF Inv, OnePerName, Parts, ListOK
        <3>2. Len(opens) \in Nat
            BY LenProperties DEF Inv, Parts, OpensOK
        <3> QED BY <1>1, <2>2, <3>1, <3>2 DEF Inv, Parts, OpensOK, MoreProfiles, OnePerName
    <2> QED BY <1>1, <2>1, <2>2
<1>3. ListOK'
    <2>1. /\ 1 .. Len(opens) \subseteq 1 .. Len(opens') /\ 0 .. Len(opens) \subseteq 0 .. Len(opens')
          /\ o # 0 => o \in 1 .. Len(opens')
        BY <1>2, MoreTypes
    <2>2. open' \subseteq 1 .. Len(opens')
        BY <1>1, <2>1 DEF Inv, Parts, ListOK
    <2>3. plays' \in [Sessions -> 0 .. Len(opens')]
        BY <1>1, <1>2, <2>1 DEF Inv, Parts, ListOK
    <2> QED BY <2>1, <2>2, <2>3 DEF SessionOpen, Inv, Parts, ListOK
<1>4. Parts'
    BY <1>2, <1>3, MoreTypes DEF SessionOpen, Inv, Parts, FilesOK, files, steps
<1>5. OnePerName'
    BY <1>1, <1>2 DEF SessionOpen, Inv, Parts, ListOK, OnePerName
<1>6. StepsPlay'
    BY <1>1 DEF SessionOpen, Inv, Parts, ListOK, StepsPlay, steps
<1> QED BY <1>1, <1>4, <1>5, <1>6 DEF SessionOpen, Inv, NoSaveOfClosed, JobSound

LEMMA OpenRestoredKeeps == ASSUME Inv, NEW s \in Sessions, OpenRestored(s) PROVE Inv'
<1>1. PICK o \in Ids, name \in Names :
        /\ Joins(o, name)
        /\ plays' = [plays EXCEPT ![s] = o] /\ open' = open \cup {o}
    BY DEF OpenRestored
<1>2. MoreProfiles /\ o \in 1 .. Len(opens')
      /\ \A a, b \in open' : opens'[a].name = opens'[b].name => a = b
    BY <1>1, JoinMore, JoinsApart DEF Inv
<1>3. ListOK'
    BY <1>1, <1>2, MoreTypes DEF OpenRestored, Inv, Parts, ListOK
<1>4. Parts'
    BY <1>2, <1>3, MoreTypes DEF OpenRestored, Inv, Parts, FilesOK, files, steps
<1>5. OnePerName'
    BY <1>1, <1>2 DEF OpenRestored, Inv, Parts, ListOK, OnePerName
<1>6. StepsPlay'
    BY <1>1 DEF OpenRestored, Inv, Parts, ListOK, StepsPlay, steps, Ids
<1> QED BY <1>1, <1>4, <1>5, <1>6 DEF OpenRestored, Inv, NoSaveOfClosed, JobSound

\* A lock let go of may close the profile it was taken for, which no session
\* plays.
LEMMA LetsGo ==
    ASSUME Inv, MoreProfiles, NEW among, open' = Unless(among, job.o), job' = Free, ListOK',
           \A a, b \in among : opens'[a].name = opens'[b].name => a = b,
           \A s \in map' : plays'[s] \in among \cup {0},
           StepsPlay', UNCHANGED <<files, queue, timers, steps, change>>
    PROVE  Inv'
<1>1. open' \subseteq among
    BY DEF Unless
<1>2. OnePerName'
    BY <1>1 DEF Unless, OnePerName
<1>3. Parts'
    BY MoreTypes DEF Inv, Parts, FilesOK, files
<1> QED BY <1>2, <1>3 DEF Inv, NoSaveOfClosed, JobSound, Free

LEMMA SameMore == ASSUME Inv, opens' = opens PROVE MoreProfiles
<1>1. Len(opens) \in Nat
    BY LenProperties DEF Inv, Parts, OpensOK
<1> QED BY <1>1, SavesAssumption DEF Inv, Parts, OpensOK, MoreProfiles

LEMMA MoveKeeps == ASSUME Inv, Move PROVE Inv'
<1>1. CASE UNCHANGED <<opens, plays, open>>
    <2>1. MoreProfiles /\ OnePerName' /\ StepsPlay'
        BY <1>1, SameMore DEF Move, Inv, OnePerName, StepsPlay, steps
    <2>2. Parts'
        BY <1>1, <2>1, MoreTypes DEF Move, Inv, Parts, ListOK, FilesOK, files
    <2> QED BY <1>1, <2>1, <2>2 DEF Move, Inv, NoSaveOfClosed, JobSound, Free
<1>2. CASE ~ UNCHANGED <<opens, plays, open>>
    <2>1. PICK o \in Ids, s \in job.by :
            /\ Joins(o, job.to) /\ plays' = [plays EXCEPT ![s] = o]
            /\ open' = Unless(open \cup {o}, job.o)
        BY <1>2 DEF Move
    <2>2. job.to \in Names /\ s \in Sessions
        BY DEF Move, Inv, JobSound, Parts, JobOK
    <2>3. MoreProfiles /\ o \in 1 .. Len(opens')
          /\ \A a, b \in open \cup {o} : opens'[a].name = opens'[b].name => a = b
        BY <2>1, <2>2, JoinMore, JoinsApart DEF Inv
    <2>4. open' \subseteq open \cup {o}
        BY <2>1 DEF Unless
    <2>5. ListOK'
        <3>1. /\ 1 .. Len(opens) \subseteq 1 .. Len(opens') /\ 0 .. Len(opens) \subseteq 0 .. Len(opens')
              /\ o \in 0 .. Len(opens')
            BY <2>3, MoreTypes
        <3>2. open' \subseteq 1 .. Len(opens')
            BY <2>3, <2>4, <3>1 DEF Inv, Parts, ListOK
        <3>3. plays' \in [Sessions -> 0 .. Len(opens')]
            BY <2>1, <3>1 DEF Inv, Parts, ListOK
        <3> QED BY <3>1, <3>2, <3>3 DEF Move, Inv, Parts, ListOK
    <2>6. StepsPlay'
        BY <2>1, <2>2, <2>3 DEF Move, Inv, Parts, ListOK, StepsPlay, steps
    <2>7. \A t \in map' : plays'[t] \in open \cup {o} \cup {0}
        BY <2>1, <2>2 DEF Move, Inv, Parts, ListOK, OnePerName
    <2> QED BY <2>1, <2>3, <2>5, <2>6, <2>7, LetsGo DEF Move
<1> QED BY <1>1, <1>2

LEMMA CloseEndsKeeps == ASSUME Inv, CloseEnds PROVE Inv'
<1>1. open' \subseteq open
    BY DEF CloseEnds, Unless
<1>2. ListOK' /\ StepsPlay'
    BY <1>1 DEF CloseEnds, Inv, Parts, ListOK, StepsPlay, steps
<1> QED BY <1>2, LetsGo, SameMore DEF CloseEnds, Inv, OnePerName

LEMMA LetGoEndsKeeps == ASSUME Inv, LetGoEnds PROVE Inv'
<1>1. open' \subseteq open
    BY DEF LetGoEnds, Unless
<1>2. edits' \in 0 .. Len(opens)
    BY DEF LetGoEnds, Named, Inv, Parts, ListOK, OpensOK
<1>3. ListOK' /\ StepsPlay'
    BY <1>1, <1>2 DEF LetGoEnds, Inv, Parts, ListOK, StepsPlay, steps
<1> QED BY <1>3, LetsGo, SameMore DEF LetGoEnds, Inv, OnePerName

-----------------------------------------------------------------------------
(* The invariant, and what follows from it                                 *)

LEMMA InitKeeps == Init => Inv
<1> SUFFICES ASSUME Init PROVE Inv
    OBVIOUS
<1>1. PICK first \in Sessions, name \in Names, waiting \in SUBSET Sessions :
        /\ opens = <<[name |-> name, own |-> 0, shared |-> 0, over |-> FALSE,
                      held |-> FALSE]>>
        /\ map = {first} \cup waiting
        /\ plays = [s \in Sessions |-> IF s = first THEN 1 ELSE 0]
    BY DEF Init
<1>2. opens \in Seq(Profile) /\ Len(opens) = 1
    BY <1>1, ZeroChange DEF Profile
<1>3. OpensOK
    BY <1>2, SavesAssumption DEF OpensOK
<1>4. ListOK
    BY <1>1, <1>2 DEF Init, ListOK
<1>5. FilesOK /\ DueOK
    BY ZeroChange DEF Init, FilesOK, DueOK
<1>6. JobOK
    BY <1>2, ZeroChange DEF Init, JobOK, Free
<1>7. AimsOK /\ SettlingOK
    BY <1>2 DEF Init, AimsOK, SettlingOK, NoAim, NoLine
<1>8. StepsPlay /\ NoSaveOfClosed /\ JobSound
    BY DEF Init, StepsPlay, NoSaveOfClosed, JobSound, Free
<1>9. OnePerName
    BY <1>1 DEF Init, OnePerName
<1> QED BY <1>3, <1>4, <1>5, <1>6, <1>7, <1>8, <1>9 DEF Inv, Parts

LEMMA StutterKeeps == ASSUME Inv, UNCHANGED vars PROVE Inv'
BY DEF Inv, Parts, OpensOK, ListOK, FilesOK, JobOK, DueOK, AimsOK, SettlingOK, OnePerName,
       NoSaveOfClosed, StepsPlay, JobSound, Named, vars, sessionVars, files, steps

LEMMA NextKeeps == Inv /\ [Next]_vars => Inv'
<1> SUFFICES ASSUME Inv, [Next]_vars PROVE Inv'
    OBVIOUS
<1>1. ASSUME NEW s \in Sessions,
             SessionOpen(s) \/ OpenRestored(s) \/ SessionClose(s) \/ TakeClose(s)
      PROVE  Inv'
    BY <1>1, SessionOpenKeeps, OpenRestoredKeeps, SessionCloseKeeps, TakeCloseKeeps
<1>2. ASSUME NEW s \in Sessions,
             Aim(s) \/ AimAgain(s) \/ Line(s) \/ ProfileSave(s) \/ Replace(s) \/ Settle(s)
      PROVE  Inv'
    BY <1>2, AimKeeps, AimAgainKeeps, LineKeeps, ProfileSaveKeeps, ReplaceKeeps, SettleKeeps
<1>3. ASSUME NEW s \in Sessions, NEW name \in Names, TakeSwitch(s, name) PROVE Inv'
    BY <1>3, TakeSwitchKeeps
<1>4. ASSUME NEW o \in open, Drag(o) \/ Setting(o) PROVE Inv'
    BY <1>4, DragKeeps, SettingKeeps
<1>5. ASSUME NEW o \in timers, Fires(o) PROVE Inv'
    BY <1>5, FiresKeeps
<1>6. ASSUME NEW o \in queue, TakeSave(o) PROVE Inv'
    BY <1>6, TakeSaveKeeps
<1>7. ASSUME NEW name \in Names \cup {NoName}, TakeLetGo(name) PROVE Inv'
    BY <1>7, TakeLetGoKeeps
<1>8. ASSUME Works PROVE Inv'
    BY <1>8, SnapshotKeeps, WriteFilesKeeps, LayOverKeeps, SaveEndsKeeps, MoveKeeps, CloseEndsKeeps,
       LetGoEndsKeeps DEF Works
<1>9. CASE UNCHANGED vars
    BY <1>9, StutterKeeps
<1> QED BY <1>1, <1>2, <1>3, <1>4, <1>5, <1>6, <1>7, <1>8, <1>9 DEF Next

LEMMA Invariant == Spec => []Inv
<1>1. Init => Inv
    BY InitKeeps
<1>2. Inv /\ [Next]_vars => Inv'
    BY NextKeeps
<1> QED BY <1>1, <1>2, PTL DEF Spec

\* Each variable keeps its type, for every set of sessions and profiles.
THEOREM SavesTypes == Spec => []TypeOK
<1>1. Inv => TypeOK
    BY TypeParts DEF Inv
<1> QED BY <1>1, Invariant, PTL

\* However many sessions open, join, switch and close profiles at once, each
\* is in memory once and every session plays an open one or waits.
THEOREM InMemoryOnce == Spec => []OnePerName
<1>1. Inv => OnePerName
    BY DEF Inv
<1> QED BY <1>1, Invariant, PTL

\* No save writes the files of a profile that closed before or meanwhile.
THEOREM ClosedStaysSaved == Spec => []NoSaveOfClosed
<1>1. Inv => NoSaveOfClosed
    BY DEF Inv
<1> QED BY <1>1, Invariant, PTL

-----------------------------------------------------------------------------
(* Where a step may change a profile                                       *)

\* The profiles a step changes a setting of are open, the others keep theirs.
LEMMA OwnOpen ==
    ASSUME Inv, NEW o \in open, NEW c \in Changes, opens' = [opens EXCEPT ![o].own = c]
    PROVE  LandsOpen
<1>1. o \in 1 .. Len(opens)
    BY DEF Inv, Parts, ListOK
<1> QED BY <1>1, OwnUpdate DEF Inv, LandsOpen

LEMMA SteadyOpen ==
    ASSUME \A o \in 1 .. Len(opens) : opens'[o].own = opens[o].own
    PROVE  LandsOpen
BY DEF LandsOpen

LEMMA JoinsOpen == ASSUME Inv, NEW o, NEW name \in Names, Joins(o, name) PROVE LandsOpen
BY JoinMore, SteadyOpen DEF Inv, MoreProfiles

LEMMA StepLands == ASSUME Inv, Next PROVE LandsOpen \/ UNCHANGED opens
<1>1. ASSUME NEW s \in Sessions, Line(s) \/ Replace(s) \/ Settle(s) PROVE LandsOpen
    <2>1. CASE Line(s)
        BY <2>1, OwnOpen, LockedOpen, ChangedTypes DEF Line, Inv
    <2>2. CASE Replace(s)
        <3>1. aims[s].o \in open
            BY <2>2, LockedOpen DEF Replace
        <3> QED BY <2>2, <3>1, ReplaceUpdate DEF LandsOpen
    <2>3. CASE Settle(s)
        <3>1. \A o \in 1 .. Len(opens) : opens'[o].own = opens[o].own
            <4>1. settling[s].o \in 1 .. Len(opens)
                BY <2>3, SettleUpdate
            <4>2. opens[settling[s].o] \in Profile
                BY <4>1, ElementOfSeq DEF Inv, Parts, OpensOK
            <4>3. /\ opens'[settling[s].o] = [opens[settling[s].o] EXCEPT !.held = settling[s].replaced]
                  /\ \A i \in 1 .. Len(opens) \ {settling[s].o} : opens'[i] = opens[i]
                BY <2>3, SettleUpdate
            <4> QED BY <4>2, <4>3 DEF Profile
        <3> QED BY <3>1, SteadyOpen
    <2> QED BY <1>1, <2>1, <2>2, <2>3
<1>2. ASSUME NEW o \in open, Drag(o) \/ Setting(o) PROVE LandsOpen
    <2>1. o \in 1 .. Len(opens) /\ change' \in Changes
        BY <1>2, ChangedTypes DEF Drag, Setting, Inv, Parts, ListOK
    <2>2. CASE opens' = [opens EXCEPT ![o].own = change']
        BY <2>1, <2>2, OwnOpen
    <2>3. CASE opens' = [opens EXCEPT ![o].shared = change', ![o].over = FALSE]
        BY <2>1, <2>3, SharedUpdate DEF Inv, LandsOpen
    <2> QED BY <1>2, <2>2, <2>3 DEF Drag, Setting
<1>3. ASSUME NEW s \in Sessions, SessionOpen(s) \/ OpenRestored(s)
      PROVE  LandsOpen \/ UNCHANGED opens
    BY <1>3, JoinsOpen DEF SessionOpen, OpenRestored
<1>4. ASSUME Works PROVE LandsOpen \/ UNCHANGED opens
    <2>1. CASE Snapshot
        <3>1. opens[job.o] \in Profile
            BY <2>1, SavedOpen DEF Snapshot
        <3> QED BY <2>1, <3>1, SnapshotUpdate, SteadyOpen DEF Profile
    <2>2. CASE LayOver /\ job.rest # {}
        <3>1. PICK o \in job.rest :
                /\ o \in 1 .. Len(opens)
                /\ opens'[o] = [opens[o] EXCEPT !.shared = job.shared, !.over = FALSE]
                /\ \A i \in 1 .. Len(opens) \ {o} : opens'[i] = opens[i]
            BY <2>2, LayOverUpdate
        <3>2. opens[o] \in Profile
            BY <3>1, ElementOfSeq DEF Inv, Parts, OpensOK
        <3> QED BY <3>1, <3>2, SteadyOpen DEF Profile
    <2>3. CASE Move
        BY <2>3, JoinsOpen DEF Move, Inv, JobSound
    <2>4. CASE WriteFiles \/ SaveEnds \/ CloseEnds \/ LetGoEnds \/ (LayOver /\ job.rest = {})
        BY <2>4 DEF WriteFiles, SaveEnds, CloseEnds, LetGoEnds, LayOver
    <2> QED BY <1>4, <2>1, <2>2, <2>3, <2>4 DEF Works
<1>5. ASSUME NEW s \in Sessions,
             \/ SessionClose(s) \/ TakeClose(s) \/ Aim(s) \/ AimAgain(s) \/ ProfileSave(s)
             \/ \E name \in Names : TakeSwitch(s, name)
      PROVE  UNCHANGED opens
    BY <1>5 DEF SessionClose, TakeClose, Aim, AimAgain, ProfileSave, TakeSwitch
<1>6. ASSUME \/ \E o \in timers : Fires(o)
             \/ \E o \in queue : TakeSave(o)
             \/ \E name \in Names \cup {NoName} : TakeLetGo(name)
      PROVE  UNCHANGED opens
    BY <1>6 DEF Fires, TakeSave, TakeLetGo
<1> QED BY <1>1, <1>2, <1>3, <1>4, <1>5, <1>6 DEF Next

\* Whoever switches or closes while a line waits for its lock, the profile it
\* changes is open.
THEOREM LinesFindOpen == Spec => LinesLandOpen
<1>1. Inv /\ [Next]_vars => [LandsOpen]_vars
    <2> SUFFICES ASSUME Inv, [Next]_vars, ~UNCHANGED vars PROVE LandsOpen
        OBVIOUS
    <2>1. CASE UNCHANGED opens
        BY <2>1 DEF LandsOpen
    <2> QED BY <2>1, StepLands
<1> QED BY <1>1, Invariant, PTL DEF Spec, LinesLandOpen

-----------------------------------------------------------------------------
(* What is shared                                                          *)

\* A profile holds the shared settings of global.toml, or they are under a
\* layer, or a save will bring the two together.
Agrees(o) ==
    \/ opens[o].shared = global \/ opens[o].over
    \/ o \in queue
    \/ job.o = o /\ job.stage \in {"snap", "write"}
    \/ job.stage = "lay" /\ o \in job.rest

\* What a save snapped is what its profile holds, or another save is to come.
Snapped ==
    /\ job.stage \in {"write", "lay"} =>
        opens[job.o].shared = job.shared \/ opens[job.o].over \/ job.o \in queue
    /\ job.stage = "lay" => job.shared = global

SharedInv == (\A o \in open : Agrees(o)) /\ Snapped

\* A step that leaves what is shared alone, and takes no save away.
LEMMA SharedSteady ==
    ASSUME Inv, SharedInv, open' \subseteq open, job' = job, global' = global,
           queue \subseteq queue',
           \A i \in 1 .. Len(opens) :
               opens'[i].shared = opens[i].shared /\ opens'[i].over = opens[i].over
    PROVE  SharedInv'
<1>1. open \subseteq 1 .. Len(opens) /\ (job.stage # "end" => job.o \in open)
    BY DEF Inv, Parts, ListOK, NoSaveOfClosed
<1>2. \A o \in open' : Agrees(o)'
    BY <1>1 DEF SharedInv, Agrees
<1>3. Snapped'
    BY <1>1 DEF SharedInv, Snapped
<1> QED BY <1>2, <1>3 DEF SharedInv

\* One profile is laid over, or changes and waits for a save of its own.
LEMMA SharedOne ==
    ASSUME Inv, SharedInv, open' = open, job' = job, global' = global,
           queue \subseteq queue',
           NEW o \in open, opens'[o].over \/ o \in queue',
           \A i \in 1 .. Len(opens) \ {o} : opens'[i] = opens[i]
    PROVE  SharedInv'
<1>1. open \subseteq 1 .. Len(opens) /\ (job.stage # "end" => job.o \in open)
    BY DEF Inv, Parts, ListOK, NoSaveOfClosed
<1>2. \A i \in open' : Agrees(i)'
    <2>1. Agrees(o)'
        BY DEF Agrees
    <2>2. \A i \in open \ {o} : Agrees(i)'
        BY <1>1 DEF SharedInv, Agrees
    <2> QED BY <2>1, <2>2
<1>3. Snapped'
    BY <1>1 DEF SharedInv, Snapped
<1> QED BY <1>2, <1>3 DEF SharedInv

\* With no save under way a profile that opens reads what global.toml holds.
LEMMA SharedMore ==
    ASSUME Inv, SharedInv, job.stage = "end", job'.stage = "end", UNCHANGED <<global, queue>>,
           \A o \in open' :
              \/ o \in open /\ opens'[o] = opens[o]
              \/ opens'[o].shared = global
    PROVE  SharedInv'
BY DEF SharedInv, Agrees, Snapped

\* The lock is taken: a save that leaves the queue is under way.
LEMMA SharedTakes ==
    ASSUME Inv, SharedInv, job = Free, NEW kind, NEW o, NEW by, NEW to, NEW saves,
           Takes(kind, o, by, to, saves), UNCHANGED <<opens, open, global>>,
           queue' = queue \/ (queue' = queue \ {o} /\ saves)
    PROVE  SharedInv'
<1>1. /\ job'.o = o /\ job'.stage \in {"snap", "end"}
      /\ job'.stage = "snap" <=> saves /\ o \in open
    BY DEF Takes, Free
<1> QED BY <1>1 DEF SharedInv, Agrees, Snapped, Free

LEMMA LineFields ==
    ASSUME Inv, NEW o \in 1 .. Len(opens), NEW c \in Changes, opens' = [opens EXCEPT ![o].own = c]
    PROVE  \A i \in 1 .. Len(opens) :
               /\ opens'[i].shared = opens[i].shared /\ opens'[i].over = opens[i].over
               /\ opens'[i].held = opens[i].held /\ opens'[i].name = opens[i].name
               /\ opens'[i].own = IF i = o THEN c ELSE opens[i].own
<1>1. opens[o] \in Profile
    BY ElementOfSeq DEF Inv, Parts, OpensOK
<1> QED BY <1>1, OwnUpdate DEF Inv, Profile

LEMMA SettleFields ==
    ASSUME Inv, NEW s \in Sessions, Settle(s)
    PROVE  \A i \in 1 .. Len(opens) :
               /\ opens'[i].shared = opens[i].shared /\ opens'[i].over = opens[i].over
               /\ opens'[i].own = opens[i].own /\ opens'[i].name = opens[i].name
               /\ opens'[i].held = IF i = settling[s].o THEN settling[s].replaced
                                                        ELSE opens[i].held
<1>1. settling[s].o \in 1 .. Len(opens)
    BY SettleUpdate
<1>2. opens[settling[s].o] \in Profile
    BY <1>1, ElementOfSeq DEF Inv, Parts, OpensOK
<1>3. /\ opens'[settling[s].o] = [opens[settling[s].o] EXCEPT !.held = settling[s].replaced]
      /\ \A i \in 1 .. Len(opens) \ {settling[s].o} : opens'[i] = opens[i]
    BY SettleUpdate
<1> QED BY <1>2, <1>3 DEF Profile

LEMMA SharedInit == Init => SharedInv
<1> SUFFICES ASSUME Init PROVE SharedInv
    OBVIOUS
<1>1. opens[1].shared = 0 /\ open = {1} /\ global = 0 /\ job = Free
    BY DEF Init
<1> QED BY <1>1 DEF SharedInv, Agrees, Snapped, Free

LEMMA SharedNext == Inv /\ SharedInv /\ [Next]_vars => SharedInv'
<1> SUFFICES ASSUME Inv, SharedInv, [Next]_vars PROVE SharedInv'
    OBVIOUS
<1>1. ASSUME NEW s \in Sessions, SessionOpen(s) \/ OpenRestored(s) PROVE SharedInv'
    <2>1. /\ job.stage = "end" /\ job'.stage = "end" /\ UNCHANGED <<global, queue>>
        BY <1>1 DEF SessionOpen, OpenRestored, files, Free
    <2>2. \A o \in open' :
            (o \in open /\ opens'[o] = opens[o]) \/ opens'[o].shared = global
        <3>1. ASSUME NEW o, NEW name \in Names, Joins(o, name), open' \subseteq open \cup {o}
              PROVE  \A i \in open' :
                         (i \in open /\ opens'[i] = opens[i]) \/ opens'[i].shared = global
            <4>1. \A i \in open : opens'[i] = opens[i]
                BY <3>1, JoinMore DEF Inv, Parts, ListOK, MoreProfiles
            <4>2. o \in open \/ opens'[o] = FromFiles(name)
                BY <3>1, JoinMore DEF Inv
            <4> QED BY <3>1, <4>1, <4>2 DEF FromFiles
        <3>2. CASE \E o : o \in {plays[t] : t \in map} /\ opens' = opens /\ open' = open \cup ({o} \ {0})
            BY <3>2 DEF Inv, OnePerName
        <3> QED BY <1>1, <3>1, <3>2 DEF SessionOpen, OpenRestored
    <2> QED BY <2>1, <2>2, SharedMore
<1>2. ASSUME NEW s \in Sessions,
             SessionClose(s) \/ Aim(s) \/ AimAgain(s) \/ ProfileSave(s)
      PROVE  SharedInv'
    BY <1>2, SharedSteady DEF SessionClose, Aim, AimAgain, ProfileSave, Asks, sessionVars, files
<1>3. ASSUME NEW s \in Sessions, Line(s) PROVE SharedInv'
    BY <1>3, SharedSteady, LineFields, LockedOpen, ChangedTypes DEF Line, Asks, Inv
<1>4. ASSUME NEW s \in Sessions, Replace(s) PROVE SharedInv'
    BY <1>4, SharedOne, ReplaceUpdate, LockedOpen DEF Replace, Asks
<1>5. ASSUME NEW s \in Sessions, Settle(s) PROVE SharedInv'
    BY <1>5, SharedSteady, SettleFields DEF Settle, files
<1>6. ASSUME NEW o \in open, Drag(o) \/ Setting(o) PROVE SharedInv'
    <2>1. o \in 1 .. Len(opens) /\ change' \in Changes
        BY <1>6, ChangedTypes DEF Drag, Setting, Inv, Parts, ListOK
    <2>2. CASE opens' = [opens EXCEPT ![o].own = change']
        BY <1>6, <2>1, <2>2, SharedSteady, LineFields DEF Drag, Setting, files
    <2>3. CASE Setting(o) /\ opens' = [opens EXCEPT ![o].shared = change', ![o].over = FALSE]
               /\ queue' = queue \cup {o}
        BY <2>1, <2>3, SharedOne, SharedUpdate DEF Setting, files, Inv
    <2> QED BY <1>6, <2>2, <2>3 DEF Drag, Setting
<1>7. ASSUME NEW o \in queue, TakeSave(o) PROVE SharedInv'
    BY <1>7, SharedTakes DEF TakeSave, files
<1>8. ASSUME \/ \E s \in Sessions, name \in Names : TakeSwitch(s, name)
             \/ \E s \in Sessions : TakeClose(s)
             \/ \E name \in Names \cup {NoName} : TakeLetGo(name)
      PROVE  SharedInv'
    BY <1>8, SharedTakes DEF TakeSwitch, TakeClose, TakeLetGo, files
<1>9. CASE Snapshot
    <2>1. job.o \in open /\ open \subseteq 1 .. Len(opens) /\ opens[job.o] \in Profile
        BY <1>9, SavedOpen DEF Snapshot, Inv, Parts, ListOK
    <2>2. /\ job'.stage = "write" /\ job'.o = job.o /\ job'.shared = opens[job.o].shared
          /\ opens'[job.o].shared = opens[job.o].shared
        BY <1>9, <2>1, SnapshotUpdate DEF Profile, Inv, Parts, JobOK
    <2>3. \A i \in open \ {job.o} : opens'[i] = opens[i]
        BY <1>9, <2>1, SnapshotUpdate
    <2>4. UNCHANGED <<open, queue, global>> /\ job.stage = "snap"
        BY <1>9 DEF Snapshot, files
    <2> QED BY <2>1, <2>2, <2>3, <2>4 DEF SharedInv, Agrees, Snapped
<1>10. CASE WriteFiles
    <2>1. /\ job'.stage = "lay" /\ job'.o = job.o /\ job'.shared = job.shared
          /\ job'.rest = open \ {job.o} /\ job.stage = "write"
        BY <1>10 DEF WriteFiles, Others, Inv, Parts, JobOK
    <2>2. global' = job.shared /\ UNCHANGED <<opens, open, queue>>
        BY <1>10 DEF WriteFiles
    <2> QED BY <2>1, <2>2 DEF SharedInv, Agrees, Snapped
<1>11. CASE LayOver /\ job.rest = {}
    <2>1. /\ job.stage = "lay" /\ job'.stage = "end" /\ UNCHANGED <<opens, open, queue, global>>
        BY <1>11 DEF LayOver, Inv, Parts, JobOK, files
    <2> QED BY <1>11, <2>1 DEF SharedInv, Agrees, Snapped
<1>12. CASE LayOver /\ job.rest # {}
    <2>1. PICK o \in job.rest :
            /\ o \in 1 .. Len(opens)
            /\ opens'[o] = [opens[o] EXCEPT !.shared = job.shared, !.over = FALSE]
            /\ \A i \in 1 .. Len(opens) \ {o} : opens'[i] = opens[i]
            /\ job' = [job EXCEPT !.rest = @ \ {o}]
        BY <1>12, LayOverUpdate
    <2>2. opens[o] \in Profile
        BY <2>1, ElementOfSeq DEF Inv, Parts, OpensOK
    <2>3. /\ job.stage = "lay" /\ job'.stage = "lay" /\ job'.o = job.o /\ job'.shared = job.shared
          /\ job'.rest = job.rest \ {o} /\ opens'[o].shared = job.shared
        BY <1>12, <2>1, <2>2 DEF LayOver, Inv, Parts, JobOK, Profile
    <2>4. /\ UNCHANGED <<open, queue, global>> /\ open \subseteq 1 .. Len(opens)
          /\ job.o \in open /\ o # job.o
        BY <1>12, <2>3 DEF LayOver, files, Inv, Parts, ListOK, NoSaveOfClosed, JobSound
    <2>5. \A i \in open : Agrees(i)'
        BY <2>1, <2>3, <2>4 DEF SharedInv, Agrees, Snapped
    <2>6. Snapped'
        BY <2>1, <2>3, <2>4 DEF SharedInv, Snapped
    <2> QED BY <2>4, <2>5, <2>6 DEF SharedInv
<1>13. CASE SaveEnds \/ CloseEnds \/ LetGoEnds
    <2>1. /\ job.stage = "end" /\ job'.stage = "end" /\ UNCHANGED <<opens, global, queue>>
          /\ open' \subseteq open
        BY <1>13 DEF SaveEnds, CloseEnds, LetGoEnds, Unless, files, Free
    <2> QED BY <2>1, SharedMore
<1>14. CASE Move
    <2>1. /\ job.stage = "end" /\ job'.stage = "end" /\ UNCHANGED <<global, queue>>
        BY <1>14 DEF Move, files, Free
    <2>2. CASE UNCHANGED <<opens, plays, open>>
        BY <2>1, <2>2, SharedMore
    <2>3. ASSUME NEW o, Joins(o, job.to), open' = Unless(open \cup {o}, job.o) PROVE SharedInv'
        <3>1. open' \subseteq open \cup {o} /\ job.to \in Names
            BY <1>14, <2>3 DEF Unless, Move, Inv, JobSound
        <3>2. \A i \in open : opens'[i] = opens[i]
            BY <2>3, <3>1, JoinMore DEF Inv, Parts, ListOK, MoreProfiles
        <3>3. o \in open \/ opens'[o] = FromFiles(job.to)
            BY <2>3, <3>1, JoinMore DEF Inv
        <3>4. \A i \in open' : (i \in open /\ opens'[i] = opens[i]) \/ opens'[i].shared = global
            BY <3>1, <3>2, <3>3 DEF FromFiles
        <3> QED BY <2>1, <3>4, SharedMore
    <2> QED BY <1>14, <2>2, <2>3 DEF Move
<1>15. ASSUME NEW o \in timers, Fires(o) PROVE SharedInv'
    BY <1>15, SharedSteady DEF Fires, sessionVars, files
<1>16. CASE UNCHANGED vars
    BY <1>16 DEF vars, sessionVars, files, SharedInv, Agrees, Snapped
<1> QED BY <1>1, <1>2, <1>3, <1>4, <1>5, <1>6, <1>7, <1>8, <1>9, <1>10, <1>11, <1>12, <1>13,
       <1>14, <1>15, <1>16 DEF Next, Works

\* Whatever saves, changes and switches cross, with none left every open
\* profile holds the shared settings that are on disk.
THEOREM SharedOnDisk == Spec => []SharedAgrees
<1>1. Init => Inv /\ SharedInv
    BY InitKeeps, SharedInit
<1>2. Inv /\ SharedInv /\ [Next]_vars => Inv' /\ SharedInv'
    BY NextKeeps, SharedNext
<1>3. SharedInv => SharedAgrees
    BY DEF SharedInv, Agrees, SharedAgrees, Free
<1> QED BY <1>1, <1>2, <1>3, PTL DEF Spec

-----------------------------------------------------------------------------
(* Changes and the saves they wait for                                     *)

\* A save of o is to come, or #profile holds it.
Awaits(o) ==
    \/ opens[o].held \/ o \in timers \cup queue
    \/ \E s \in Sessions : settling[s].o = o

Kept(o) ==
    opens[o].own # disk[opens[o].name] =>
        \/ Awaits(o)
        \/ job.o = o /\ (job.stage = "snap" \/ (job.stage = "write" /\ job.own = opens[o].own))

\* A change the save under way has missed has another to come.
Missed == job.stage = "write" => opens[job.o].own = job.own \/ Awaits(job.o)

EditsInv == (\A o \in open : Kept(o)) /\ Missed

\* A step that changes no profile and no file, and takes no save away.
LEMMA EditsSteady ==
    ASSUME Inv, EditsInv, open' \subseteq open, job' = job, disk' = disk,
           \A i \in open : opens'[i].own = opens[i].own /\ opens'[i].name = opens[i].name,
           \A i \in open : Awaits(i) => Awaits(i)'
    PROVE  EditsInv'
<1>1. job.stage # "end" => job.o \in open
    BY DEF Inv, NoSaveOfClosed
<1>2. \A i \in open' : Kept(i)'
    BY DEF EditsInv, Kept
<1>3. Missed'
    BY <1>1 DEF EditsInv, Missed
<1> QED BY <1>2, <1>3 DEF EditsInv

\* One profile changes, and waits for a save.
LEMMA EditsOne ==
    ASSUME Inv, EditsInv, open' = open, job' = job, disk' = disk,
           NEW o \in open, Awaits(o)',
           \A i \in open \ {o} : opens'[i].own = opens[i].own /\ opens'[i].name = opens[i].name,
           \A i \in open \ {o} : Awaits(i) => Awaits(i)'
    PROVE  EditsInv'
<1>1. job.stage # "end" => job.o \in open
    BY DEF Inv, NoSaveOfClosed
<1>2. \A i \in open' : Kept(i)'
    BY DEF EditsInv, Kept
<1>3. Missed'
    BY <1>1 DEF EditsInv, Missed
<1> QED BY <1>2, <1>3 DEF EditsInv

\* A line that leaves its settling behind waits for it.
LEMMA AsksAwaits ==
    ASSUME Inv, NEW s \in Sessions, NEW replaced \in BOOLEAN, Locked(s), Asks(s, replaced),
           NEW o \in open, o = aims[s].o,
           \A i \in open \ {o} : opens'[i].held = opens[i].held
    PROVE  Awaits(o)' /\ \A i \in open \ {o} : Awaits(i) => Awaits(i)'
<1>1. settling'[s].o = o /\ \A t \in Sessions \ {s} : settling'[t] = settling[t]
    BY DEF Asks, Inv, Parts, SettlingOK
<1>2. settling[s] = NoLine
    BY DEF Inv, StepsPlay, Locked
<1>3. \A i \in open : i # 0 /\ settling[s].o # i
    BY <1>2 DEF Inv, Parts, ListOK, NoLine
<1>4. UNCHANGED <<timers, queue>>
    BY DEF Asks
<1>5. Awaits(o)'
    BY <1>1 DEF Awaits
<1>6. ASSUME NEW i \in open \ {o}, Awaits(i) PROVE Awaits(i)'
    BY <1>1, <1>3, <1>4, <1>6 DEF Awaits
<1> QED BY <1>5, <1>6

\* With no save under way a profile that opens is what its file reads.
LEMMA EditsMore ==
    ASSUME Inv, EditsInv, job.stage = "end", job'.stage = "end",
           UNCHANGED <<disk, queue, timers, settling>>,
           \A o \in open' :
              \/ o \in open /\ opens'[o] = opens[o]
              \/ opens'[o].own = disk[opens'[o].name]
    PROVE  EditsInv'
BY DEF EditsInv, Kept, Missed, Awaits

LEMMA EditsTakes ==
    ASSUME Inv, EditsInv, job = Free, NEW kind, NEW o, NEW by, NEW to, NEW saves,
           Takes(kind, o, by, to, saves), UNCHANGED <<opens, open, disk, timers, settling>>,
           queue' = queue \/ (queue' = queue \ {o} /\ saves)
    PROVE  EditsInv'
<1>1. /\ job'.o = o /\ job'.stage \in {"snap", "end"}
      /\ job'.stage = "snap" <=> saves /\ o \in open
    BY DEF Takes, Free
<1> QED BY <1>1 DEF EditsInv, Kept, Missed, Awaits, Free

\* No other open profile has the file of this one.
LEMMA OwnFile ==
    ASSUME Inv, NEW o \in open, NEW c, disk' = [disk EXCEPT ![opens[o].name] = c]
    PROVE  /\ disk'[opens[o].name] = c
           /\ \A i \in open \ {o} : disk'[opens[i].name] = disk[opens[i].name]
<1>1. \A i \in open : i \in 1 .. Len(opens)
    BY DEF Inv, Parts, ListOK
<1>2. \A i \in open : opens[i] \in Profile
    BY <1>1, ElementOfSeq DEF Inv, Parts, OpensOK
<1>3. \A i \in open : opens[i].name \in Names
    BY <1>2 DEF Profile
<1> QED BY <1>3 DEF Inv, OnePerName, Parts, FilesOK

LEMMA EditsInit == Init => EditsInv
<1> SUFFICES ASSUME Init PROVE EditsInv
    OBVIOUS
<1>1. opens[1].own = 0 /\ opens[1].name \in Names /\ open = {1} /\ job = Free
      /\ disk = [n \in Names |-> 0]
    BY DEF Init
<1> QED BY <1>1 DEF EditsInv, Kept, Missed, Free

\* What a step of the lock leaves alone.
LEMMA EditsWorks == ASSUME Inv, EditsInv, Works PROVE EditsInv'
<1>1. CASE Snapshot
    <2>1. job.o \in open /\ open \subseteq 1 .. Len(opens) /\ opens[job.o] \in Profile
        BY <1>1, SavedOpen DEF Snapshot, Inv, Parts, ListOK
    <2>2. /\ job'.stage = "write" /\ job'.o = job.o /\ job'.own = opens[job.o].own
          /\ opens'[job.o] = [opens[job.o] EXCEPT !.over = FALSE]
          /\ \A i \in open \ {job.o} : opens'[i] = opens[i]
        BY <1>1, <2>1, SnapshotUpdate DEF Inv, Parts, JobOK
    <2>3. \A i \in open : /\ opens'[i].own = opens[i].own /\ opens'[i].name = opens[i].name
                           /\ opens'[i].held = opens[i].held
        BY <2>1, <2>2 DEF Profile
    <2>4. UNCHANGED <<open, disk, queue, timers, settling>>
        BY <1>1 DEF Snapshot, files, steps
    <2>5. \A i \in open : Kept(i)'
        BY <2>2, <2>3, <2>4 DEF EditsInv, Kept, Awaits
    <2>6. Missed'
        BY <2>1, <2>2, <2>3 DEF Missed
    <2> QED BY <2>4, <2>5, <2>6 DEF EditsInv
<1>2. CASE WriteFiles
    <2>1. job.o \in open /\ job.stage = "write" /\ job'.stage = "lay"
        BY <1>2 DEF WriteFiles, Inv, Parts, JobOK, NoSaveOfClosed
    <2>2. UNCHANGED <<opens, open, queue, timers, settling>>
        BY <1>2 DEF WriteFiles, steps
    <2>3. /\ disk'[opens[job.o].name] = job.own
          /\ \A i \in open \ {job.o} : disk'[opens[i].name] = disk[opens[i].name]
        BY <1>2, <2>1, OwnFile DEF WriteFiles
    <2> QED BY <2>1, <2>2, <2>3 DEF EditsInv, Kept, Missed, Awaits
<1>3. CASE LayOver /\ job.rest = {}
    <2>1. /\ job.stage = "lay" /\ job'.stage = "end"
          /\ UNCHANGED <<opens, open, queue, timers, settling, disk>>
        BY <1>3 DEF LayOver, Inv, Parts, JobOK, files, steps
    <2> QED BY <2>1 DEF EditsInv, Kept, Missed, Awaits
<1>4. CASE LayOver /\ job.rest # {}
    <2>1. PICK o \in job.rest :
            /\ o \in 1 .. Len(opens)
            /\ opens'[o] = [opens[o] EXCEPT !.shared = job.shared, !.over = FALSE]
            /\ \A i \in 1 .. Len(opens) \ {o} : opens'[i] = opens[i]
            /\ job' = [job EXCEPT !.rest = @ \ {o}]
        BY <1>4, LayOverUpdate
    <2>2. opens[o] \in Profile /\ open \subseteq 1 .. Len(opens)
        BY <2>1, ElementOfSeq DEF Inv, Parts, OpensOK, ListOK
    <2>3. \A i \in open : /\ opens'[i].own = opens[i].own /\ opens'[i].name = opens[i].name
                           /\ opens'[i].held = opens[i].held
        <3>1. /\ opens'[o].own = opens[o].own /\ opens'[o].name = opens[o].name
              /\ opens'[o].held = opens[o].held
            BY <2>1, <2>2 DEF Profile
        <3>2. \A i \in open \ {o} : opens'[i] = opens[i]
            BY <2>1, <2>2
        <3> QED BY <3>1, <3>2
    <2>4. /\ job.stage = "lay" /\ job'.stage = "lay"
          /\ UNCHANGED <<open, queue, timers, settling, disk>>
        BY <1>4, <2>1 DEF LayOver, Inv, Parts, JobOK, files, steps
    <2> QED BY <2>3, <2>4 DEF EditsInv, Kept, Missed, Awaits
<1>5. CASE SaveEnds \/ CloseEnds \/ LetGoEnds
    <2>1. /\ job.stage = "end" /\ job'.stage = "end"
          /\ UNCHANGED <<opens, disk, queue, timers, settling>> /\ open' \subseteq open
        BY <1>5 DEF SaveEnds, CloseEnds, LetGoEnds, Unless, files, steps, Free
    <2> QED BY <2>1, EditsMore
<1>6. CASE Move
    <2>1. /\ job.stage = "end" /\ job'.stage = "end"
          /\ UNCHANGED <<disk, queue, timers, settling>>
        BY <1>6 DEF Move, files, steps, Free
    <2>2. CASE UNCHANGED <<opens, plays, open>>
        BY <2>1, <2>2, EditsMore
    <2>3. ASSUME NEW o, Joins(o, job.to), open' = Unless(open \cup {o}, job.o) PROVE EditsInv'
        <3>1. open' \subseteq open \cup {o} /\ job.to \in Names
            BY <1>6, <2>3 DEF Unless, Move, Inv, JobSound
        <3>2. \A i \in open : opens'[i] = opens[i]
            BY <2>3, <3>1, JoinMore DEF Inv, Parts, ListOK, MoreProfiles
        <3>3. o \in open \/ opens'[o] = FromFiles(job.to)
            BY <2>3, <3>1, JoinMore DEF Inv
        <3>4. \A i \in open' :
                 \/ i \in open /\ opens'[i] = opens[i]
                 \/ opens'[i].own = disk[opens'[i].name]
            BY <3>1, <3>2, <3>3 DEF FromFiles
        <3> QED BY <2>1, <3>4, EditsMore
    <2> QED BY <1>6, <2>2, <2>3 DEF Move
<1> QED BY <1>1, <1>2, <1>3, <1>4, <1>5, <1>6 DEF Works

LEMMA EditsNext == Inv /\ EditsInv /\ [Next]_vars => EditsInv'
<1> SUFFICES ASSUME Inv, EditsInv, [Next]_vars PROVE EditsInv'
    OBVIOUS
<1> open \subseteq 1 .. Len(opens)
    BY DEF Inv, Parts, ListOK
<1>1. ASSUME NEW s \in Sessions, SessionOpen(s) \/ OpenRestored(s) PROVE EditsInv'
    <2>1. /\ job.stage = "end" /\ job'.stage = "end" /\ UNCHANGED <<disk, queue, timers, settling>>
        BY <1>1 DEF SessionOpen, OpenRestored, files, steps, Free
    <2>2. \A i \in open' : \/ i \in open /\ opens'[i] = opens[i]
                           \/ opens'[i].own = disk[opens'[i].name]
        <3>1. ASSUME NEW o, NEW name \in Names, Joins(o, name), open' \subseteq open \cup {o}
              PROVE  \A i \in open' : \/ i \in open /\ opens'[i] = opens[i]
                                      \/ opens'[i].own = disk[opens'[i].name]
            <4>1. \A i \in open : opens'[i] = opens[i]
                BY <3>1, JoinMore DEF Inv, MoreProfiles
            <4>2. o \in open \/ opens'[o] = FromFiles(name)
                BY <3>1, JoinMore DEF Inv
            <4> QED BY <3>1, <4>1, <4>2 DEF FromFiles
        <3>2. CASE \E o : o \in {plays[t] : t \in map} /\ opens' = opens /\ open' = open \cup ({o} \ {0})
            BY <3>2 DEF Inv, OnePerName
        <3> QED BY <1>1, <3>1, <3>2 DEF SessionOpen, OpenRestored
    <2> QED BY <2>1, <2>2, EditsMore
<1>2. ASSUME NEW s \in Sessions, SessionClose(s) \/ Aim(s) \/ AimAgain(s) PROVE EditsInv'
    <2>1. UNCHANGED <<opens, open, job, disk, queue, timers, settling>>
        BY <1>2 DEF SessionClose, Aim, AimAgain, sessionVars, files, steps
    <2>2. \A i \in open : Awaits(i) => Awaits(i)'
        BY <2>1 DEF Awaits
    <2> QED BY <2>1, <2>2, EditsSteady
<1>3. ASSUME NEW s \in Sessions, Locked(s) PROVE \E o \in open : o = aims[s].o
    BY <1>3, LockedOpen
<1>4. ASSUME NEW s \in Sessions, Line(s) PROVE EditsInv'
    <2>1. PICK o \in open : o = aims[s].o
        BY <1>3, <1>4 DEF Line
    <2>2. change' \in Changes
        BY <1>4, ChangedTypes DEF Line, Inv
    <2>3. \A i \in open \ {o} : /\ opens'[i].own = opens[i].own
                                 /\ opens'[i].name = opens[i].name
                                 /\ opens'[i].held = opens[i].held
        BY <1>4, <2>1, <2>2, LineFields DEF Line
    <2>4. Awaits(o)' /\ \A i \in open \ {o} : Awaits(i) => Awaits(i)'
        BY <1>4, <2>1, <2>3, AsksAwaits DEF Line
    <2> QED BY <1>4, <2>1, <2>3, <2>4, EditsOne DEF Line, Asks
<1>5. ASSUME NEW s \in Sessions, Replace(s) PROVE EditsInv'
    <2>1. PICK o \in open : o = aims[s].o
        BY <1>3, <1>5 DEF Replace
    <2>2. \A i \in open \ {o} : opens'[i] = opens[i]
        BY <1>5, <2>1, ReplaceUpdate
    <2>3. Awaits(o)' /\ \A i \in open \ {o} : Awaits(i) => Awaits(i)'
        BY <1>5, <2>1, <2>2, AsksAwaits DEF Replace
    <2> QED BY <1>5, <2>1, <2>2, <2>3, EditsOne DEF Replace, Asks
<1>6. ASSUME NEW s \in Sessions, ProfileSave(s) PROVE EditsInv'
    <2>1. PICK o \in open : o = aims[s].o
        BY <1>3, <1>6 DEF ProfileSave
    <2>2. UNCHANGED <<opens, open, job>>
        BY <1>6 DEF ProfileSave, Asks
    <2>3. Awaits(o)' /\ \A i \in open \ {o} : Awaits(i) => Awaits(i)'
        BY <1>6, <2>1, <2>2, AsksAwaits DEF ProfileSave
    <2>4. \A i \in open \ {o} : disk'[opens[i].name] = disk[opens[i].name]
        BY <1>6, <2>1, OwnFile DEF ProfileSave
    <2>5. job.stage # "end" => job.o \in open
        BY DEF Inv, NoSaveOfClosed
    <2>6. \A i \in open : Kept(i)'
        BY <2>1, <2>2, <2>3, <2>4 DEF EditsInv, Kept
    <2>7. Missed'
        BY <2>1, <2>2, <2>3, <2>5 DEF EditsInv, Missed
    <2> QED BY <2>2, <2>6, <2>7 DEF EditsInv
<1>7. ASSUME NEW s \in Sessions, Settle(s) PROVE EditsInv'
    <2>1. UNCHANGED <<open, job, disk, queue>>
        BY <1>7 DEF Settle, files
    <2>2. \A t \in Sessions \ {s} : settling'[t] = settling[t]
        BY <1>7 DEF Settle, Inv, Parts, SettlingOK
    <2>3. \A i \in open : Awaits(i) => Awaits(i)'
        BY <1>7, <2>1, <2>2, SettleFields DEF Settle, Awaits, Inv, Parts, SettlingOK
    <2> QED BY <1>7, <2>1, <2>3, SettleFields, EditsSteady
<1>8. ASSUME NEW o \in open, Drag(o) \/ Setting(o) PROVE EditsInv'
    <2>1. o \in 1 .. Len(opens) /\ change' \in Changes
          /\ UNCHANGED <<open, job, disk, settling>>
        BY <1>8, ChangedTypes DEF Drag, Setting, Inv, files, steps
    <2>2. /\ \A i \in open \ {o} : opens'[i] = opens[i]
          /\ opens'[o].held = opens[o].held
        <3>1. CASE opens' = [opens EXCEPT ![o].own = change']
            BY <2>1, <3>1, OwnUpdate, LineFields DEF Inv
        <3>2. CASE opens' = [opens EXCEPT ![o].shared = change', ![o].over = FALSE]
            <4>1. opens[o] \in Profile
                BY <2>1, ElementOfSeq DEF Inv, Parts, OpensOK
            <4>2. /\ opens'[o] = [opens[o] EXCEPT !.shared = change', !.over = FALSE]
                  /\ \A i \in 1 .. Len(opens) \ {o} : opens'[i] = opens[i]
                BY <2>1, <3>2, SharedUpdate DEF Inv
            <4> QED BY <4>1, <4>2 DEF Profile
        <3> QED BY <1>8, <3>1, <3>2 DEF Drag, Setting
    <2>3. Awaits(o)'
        BY <1>8, <2>2 DEF Drag, Setting, Awaits
    <2>4. \A i \in open \ {o} : Awaits(i) => Awaits(i)'
        BY <1>8, <2>1, <2>2 DEF Drag, Setting, Awaits
    <2> QED BY <2>1, <2>2, <2>3, <2>4, EditsOne
<1>9. ASSUME NEW o \in timers, Fires(o) PROVE EditsInv'
    <2>1. UNCHANGED <<opens, open, job, disk, settling>>
        BY <1>9 DEF Fires, sessionVars, files, steps
    <2>2. \A i \in open : Awaits(i) => Awaits(i)'
        BY <1>9, <2>1 DEF Fires, Due, Awaits
    <2> QED BY <2>1, <2>2, EditsSteady
<1>10. ASSUME NEW o \in queue, TakeSave(o) PROVE EditsInv'
    BY <1>10, EditsTakes DEF TakeSave, files, steps
<1>11. ASSUME \/ \E s \in Sessions, name \in Names : TakeSwitch(s, name)
              \/ \E s \in Sessions : TakeClose(s)
              \/ \E name \in Names \cup {NoName} : TakeLetGo(name)
       PROVE  EditsInv'
    BY <1>11, EditsTakes DEF TakeSwitch, TakeClose, TakeLetGo, files, steps
<1>12. CASE UNCHANGED vars
    BY <1>12 DEF vars, files, steps, EditsInv, Kept, Missed, Awaits
<1> QED BY <1>1, <1>2, <1>4, <1>5, <1>6, <1>7, <1>8, <1>9, <1>10, <1>11, <1>12, EditsWorks DEF Next

\* Every change of an open profile that is not on disk has a save to come
\* that will find it, but what #profile holds.
THEOREM EditsReachDisk == Spec => []EditsCovered
<1>1. Init => Inv /\ EditsInv
    BY InitKeeps, EditsInit
<1>2. Inv /\ EditsInv /\ [Next]_vars => Inv' /\ EditsInv'
    BY NextKeeps, EditsNext
<1>3. EditsInv => EditsCovered
    BY DEF EditsInv, Kept, Awaits, EditsCovered
<1> QED BY <1>1, <1>2, <1>3, PTL DEF Spec

=============================================================================
