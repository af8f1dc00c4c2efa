------------------------------ MODULE Journal ------------------------------
(***************************************************************************)
(* The shared catalog wizard, its journal and the launch that finishes a   *)
(* run that stopped: src-tauri/src/loadouts/wizard/apply.rs, journal.rs,   *)
(* app/launch.rs, and the saves of disk/save.rs beside them.  Any write or *)
(* removal may fail, and Vosh may end between any two of them.  A write    *)
(* swaps the text in whole or leaves the file as it was.                   *)
(*                                                                         *)
(* PERSIST_LOCK is phase: it is free while phase is idle, so a save, a run *)
(* and a launch keep one another out.  A #profile save looks at the flags  *)
(* before it tries the lock, with the lock of its profile held.  The order *)
(* of the profiles among themselves is left open.                          *)
(***************************************************************************)
EXTENDS Integers

CONSTANTS
    Profiles,    \* the profile files
    Catalog,     \* catalog.toml
    Loadouts,    \* loadouts.toml
    NoFile,      \* what a file that is not there holds
    NoMove,      \* what undo is between two runs
    MaxChanges,  \* bound: the changes you make to one file's live text
    MaxFaults,   \* bound: the reads, writes and removals that fail
    MaxCrashes   \* bound: the times Vosh ends where it stands

Files == Profiles \cup {Catalog, Loadouts}

\* The changes a text holds, and where the items it had before the move are:
\* its own, moved to the catalog, or back in it, where a #profile save wrote
\* them over the move.  The catalog has the items added to some profiles in a
\* session that ran without it, or the files of those profiles have them.
Texts == [items : {"own", "moved", "back"}, added : SUBSET Profiles, v : Nat]
New(items) == [items |-> items, added |-> {}, v |-> 0]

ASSUME FilesApart ==
    /\ Catalog # Loadouts /\ {Catalog, Loadouts} \cap Profiles = {}
    /\ NoFile \notin Texts /\ NoMove \notin [Files -> Texts \cup {NoFile}]
ASSUME BoundsAreNumbers ==
    MaxChanges \in Nat /\ MaxFaults \in Nat /\ MaxCrashes \in Nat

VARIABLES
    disk,      \* what each file holds
    journal,   \* the text catalog.journal.toml has for each file it names
    copies,    \* the copy of each profile file in profiles/legacy
    live,      \* the text a save would write, read from each file at launch
    loadout,   \* global_catalog holds a catalog
    pending,   \* relaunch_pending
    phase,     \* what holds PERSIST_LOCK, or idle, or off
    todo,      \* the files a phase has left
    sources,   \* what a run read of each file
    asked,     \* the profiles whose #profile save looked, and has yet to write
    faults, crashes

diskVars == <<disk, journal, copies>>
jvars == <<disk, journal, copies, live, loadout, pending, phase, todo, sources,
           asked, faults, crashes>>

MaybeText == Texts \cup {NoFile}
NoJournal == [f \in Files |-> NoFile]
Named == {f \in Files : journal[f] # NoFile}
Copied == {p \in Profiles : copies[p] # NoFile}
Saved == {p \in Profiles : sources[p] # NoFile}
Phases == {"off", "launch", "idle", "save", "flush", "copy", "write", "undo",
           "uncopy"}

TypeOK ==
    /\ disk \in [Files -> MaybeText] /\ journal \in [Files -> MaybeText]
    /\ copies \in [Profiles -> MaybeText] /\ live \in [Files -> Texts]
    /\ sources \in [Files -> MaybeText]
    /\ loadout \in BOOLEAN /\ pending \in BOOLEAN
    /\ phase \in Phases /\ todo \in SUBSET Files /\ asked \in SUBSET Profiles
    /\ faults \in Nat /\ crashes \in Nat

\* Launch reads each file.  A profile without one starts fresh, and its
\* items go where those of the others are.
Loaded ==
    [f \in Files |->
        IF disk[f] # NoFile THEN disk[f]
        ELSE IF disk[Catalog] # NoFile THEN New("moved") ELSE New("own")]

\* Vosh is closed, with profile files and no loadouts yet.
JInit ==
    /\ disk \in {d \in [Files -> {NoFile, New("own")}] :
                    d[Catalog] = NoFile /\ d[Loadouts] = NoFile}
    /\ journal = NoJournal /\ copies = [p \in Profiles |-> NoFile]
    /\ live = Loaded /\ sources = NoJournal
    /\ loadout = FALSE /\ pending = FALSE
    /\ phase = "off" /\ todo = {} /\ asked = {}
    /\ faults = 0 /\ crashes = 0

-----------------------------------------------------------------------------
(* Files                                                                   *)

Fault == faults < MaxFaults /\ faults' = faults + 1

\* The files of a run go catalog.toml, loadouts.toml, then the profiles,
\* and a run that failed takes them back the other way round.
First(S) ==
    IF Catalog \in S THEN {Catalog}
    ELSE IF Loadouts \in S THEN {Loadouts} ELSE S
Last(S) ==
    IF S \cap Profiles # {} THEN S \cap Profiles
    ELSE IF Loadouts \in S THEN {Loadouts} ELSE S

\* A file that holds its text already is left alone.
Write(f, text) == disk' = [disk EXCEPT ![f] = text] /\ faults' = faults
WriteFails(f, text) == disk[f] # text /\ Fault /\ disk' = disk
Tried(f, text) == Write(f, text) \/ WriteFails(f, text)

\* The phase goes on with S, or is over.
GoOn(S, here) == todo' = S /\ phase' = IF S = {} THEN "idle" ELSE here

-----------------------------------------------------------------------------
(* Saves                                                                   *)

\* You change a profile, or the catalog and the loadouts it plays with.  An
\* item you add where no catalog runs is one of the profile.
Edit(f) ==
    /\ phase \notin {"off", "launch"} /\ f \notin asked
    /\ f \in Profiles \/ loadout
    /\ live[f].v < MaxChanges
    /\ \E items \in SUBSET ({f} \cap Profiles) :
        /\ items # {} => ~loadout /\ live[f].items = "moved"
        /\ live' = [live EXCEPT ![f].v = @ + 1, ![f].added = @ \cup items]
    /\ UNCHANGED <<diskVars, loadout, pending, phase, todo, sources, asked, faults,
                   crashes>>

\* Mutant: a save does not ask for the relaunch flag.
SaveStarts_Pending(p) ==
    /\ phase = "idle" /\ phase' = "save"
    /\ todo' = {p} \cup (IF loadout THEN {Catalog, Loadouts} ELSE {})
    /\ UNCHANGED <<diskVars, live, loadout, pending, sources, asked, faults, crashes>>

\* A save of an open profile takes the lock, then asks for the flags.  In
\* loadout mode the shared files go first.  Outside it nothing is saved until
\* the relaunch, and over a catalog that did not read each profile is.
SaveStarts(p) ==
    /\ phase = "idle" /\ (loadout \/ ~pending)
    /\ phase' = "save"
    /\ todo' = {p} \cup (IF loadout THEN {Catalog, Loadouts} ELSE {})
    /\ UNCHANGED <<diskVars, live, loadout, pending, sources, asked, faults, crashes>>

\* Mutant: the catalog is saved as it was loaded.
Text_Loaded(f) ==
    IF ~loadout \/ f = Catalog THEN live[f]
    ELSE [live[f] EXCEPT !.items = "moved", !.added = {}]

\* What a save writes.  In loadout mode the items the file of its profile
\* still held, which run over the catalog's, are the catalog's from here on,
\* and the file goes without items.
Text(f) ==
    IF ~loadout THEN live[f]
    ELSE IF f = Catalog
         THEN [live[f] EXCEPT !.added =
                  @ \cup UNION {live[p].added : p \in todo \cap Profiles}]
         ELSE [live[f] EXCEPT !.items = "moved", !.added = {}]

\* A file that does not save is only logged, and the others are saved.
SaveWrites ==
    /\ phase = "save"
    /\ \E f \in First(todo) \ asked :
        /\ Tried(f, Text(f)) /\ GoOn(todo \ {f}, "save")
        /\ live' = IF f = Catalog THEN [live EXCEPT ![f] = Text(f)] ELSE live
    /\ UNCHANGED <<journal, copies, loadout, pending, sources, asked, crashes>>

\* #profile save, under the lock of its profile: it looks at the flags.
CommandLooks(p) ==
    /\ phase \notin {"off", "launch"} /\ p \notin asked
    /\ ~pending /\ ~loadout
    /\ asked' = asked \cup {p}
    /\ UNCHANGED <<diskVars, live, loadout, pending, phase, todo, sources, faults,
                   crashes>>

\* Then it tries the lock, and writes, or says that a save is under way.  A
\* text with its own items is back where the move is over by now.
Over == journal # NoJournal \/ disk[Catalog] # NoFile
Typed(p) == IF Over /\ live[p].items = "own" THEN [live[p] EXCEPT !.items = "back"]
            ELSE live[p]

CommandWrites(p) ==
    /\ p \in asked /\ asked' = asked \ {p}
    /\ IF phase = "idle" THEN Tried(p, Typed(p)) ELSE UNCHANGED <<disk, faults>>
    /\ UNCHANGED <<journal, copies, live, loadout, pending, phase, todo, sources,
                   crashes>>

-----------------------------------------------------------------------------
(* The wizard                                                              *)

\* It refuses while a run is unfinished, and where it would write over a
\* catalog, loadouts or copies.  Then it saves each open profile first,
\* but one #profile reset or load holds.
Apply ==
    /\ phase = "idle" /\ ~loadout
    /\ journal = NoJournal
    /\ disk[Catalog] = NoFile /\ disk[Loadouts] = NoFile
    /\ Copied = {}
    /\ phase' = "flush" /\ todo' \in SUBSET Profiles
    /\ UNCHANGED <<diskVars, live, loadout, pending, sources, asked, faults, crashes>>

Flush ==
    /\ phase = "flush"
    /\ \E p \in todo \ asked : Tried(p, live[p]) /\ todo' = todo \ {p}
    /\ UNCHANGED <<journal, copies, live, loadout, pending, phase, sources,
                   asked, crashes>>

\* A file that does not read stops the run.  One that reads all then takes
\* the lock of the profile the selected session plays, for its presets.
Read ==
    /\ phase = "flush" /\ todo = {}
    /\ \/ /\ asked # Profiles
          /\ sources' = disk /\ faults' = faults
          /\ phase' = "copy" /\ todo' = {p \in Profiles : disk[p] # NoFile}
       \/ /\ Fault /\ phase' = "idle" /\ UNCHANGED <<sources, todo>>
    /\ UNCHANGED <<diskVars, live, loadout, pending, asked, crashes>>

\* The run gives up before it changed a file, and takes out the copies.
GiveUp == sources' = NoJournal /\ GoOn(Copied, "uncopy")

Copy ==
    /\ phase = "copy"
    /\ \E p \in todo :
        \/ /\ copies' = [copies EXCEPT ![p] = sources[p]]
           /\ todo' = todo \ {p} /\ UNCHANGED <<phase, sources, faults>>
        \/ /\ Fault /\ GiveUp /\ UNCHANGED copies
    /\ UNCHANGED <<disk, journal, live, loadout, pending, asked, crashes>>

\* Mutant: the journal does not wait for the last copy.
Waits_NotLast == \A p, q \in todo : p = q

\* Every file has its copy before the journal is saved.
Waits == todo = {}

\* Every file with its new text.  A profile that never saved a file gets
\* one when the move gives it a list to keep.
Plan(listed) ==
    [f \in Files |->
        IF f \in Saved THEN [New("moved") EXCEPT !.v = sources[f].v]
        ELSE IF f \in listed \cup {Catalog, Loadouts} THEN New("moved") ELSE NoFile]

SaveJournal ==
    /\ phase = "copy" /\ Waits
    /\ \/ /\ \E listed \in SUBSET (Profiles \ Saved) : journal' = Plan(listed)
          /\ phase' = "write" /\ todo' = {f \in Files : journal'[f] # NoFile}
          /\ UNCHANGED <<sources, faults>>
       \/ /\ Fault /\ GiveUp /\ UNCHANGED journal
    /\ UNCHANGED <<disk, copies, live, loadout, pending, asked, crashes>>

\* A write that fails turns the run back, from that file on.
WriteShared ==
    /\ phase = "write"
    /\ \E f \in First(todo) :
        \/ /\ Write(f, journal[f])
           /\ todo' = todo \ {f} /\ UNCHANGED phase
        \/ /\ WriteFails(f, journal[f])
           /\ phase' = "undo" /\ todo' = (Named \ todo) \cup {f}
    /\ UNCHANGED <<journal, copies, live, loadout, pending, sources, asked, crashes>>

\* Mutant: the state does not hold for the relaunch.
HoldForRelaunch_Not ==
    pending' = pending /\ sources' = NoJournal /\ phase' = "idle"

\* The run is over, and no save comes before the relaunch.
HoldForRelaunch ==
    pending' = TRUE /\ sources' = NoJournal /\ phase' = "idle"

\* Every file is written.  The journal goes, or stays and does no harm.
Done ==
    /\ phase = "write" /\ todo = {}
    /\ \/ journal' = NoJournal /\ faults' = faults
       \/ Fault /\ UNCHANGED journal
    /\ HoldForRelaunch
    /\ UNCHANGED <<disk, copies, live, loadout, todo, asked, crashes>>

PutBack ==
    /\ phase = "undo"
    /\ \E f \in Last(todo) : Tried(f, sources[f]) /\ todo' = todo \ {f}
    /\ UNCHANGED <<journal, copies, live, loadout, pending, phase, sources,
                   asked, crashes>>

Restored == \A f \in Named : disk[f] = sources[f]

\* With every file back the journal and the copies go.  Otherwise the
\* journal is for the next launch, and nothing is saved before it.
EndUndo ==
    /\ phase = "undo" /\ todo = {}
    /\ \/ /\ Restored
          /\ journal' = NoJournal /\ GiveUp /\ UNCHANGED <<pending, faults>>
       \/ /\ IF Restored THEN Fault ELSE faults' = faults
          /\ HoldForRelaunch /\ UNCHANGED <<journal, todo>>
    /\ UNCHANGED <<disk, copies, live, loadout, asked, crashes>>

\* A copy that would not go refuses the next run.
TakeOut ==
    /\ phase = "uncopy"
    /\ \E p \in todo :
        /\ \/ copies' = [copies EXCEPT ![p] = NoFile] /\ faults' = faults
           \/ Fault /\ UNCHANGED copies
        /\ GoOn(todo \ {p}, "uncopy")
    /\ UNCHANGED <<disk, journal, live, loadout, pending, sources, asked, crashes>>

-----------------------------------------------------------------------------
(* Launch and the end                                                      *)

\* The session starts.  Over a run it could not finish it saves nothing,
\* and loads no catalog.  Over a catalog that does not read it loads none
\* either, and saves each profile as before the move.
Opens(settled) ==
    /\ phase' = "idle" /\ todo' = {} /\ live' = Loaded
    /\ pending' = ~settled
    /\ \/ loadout' = (settled /\ disk[Catalog] # NoFile) /\ faults' = faults
       \/ disk[Catalog] # NoFile /\ settled /\ loadout' = FALSE /\ Fault

\* A journal that does not read is for the next launch.
Launch ==
    /\ phase = "off"
    /\ \/ /\ journal = NoJournal /\ Opens(TRUE)
       \/ /\ journal # NoJournal
          /\ phase' = "launch" /\ todo' = Named
          /\ UNCHANGED <<live, loadout, pending, faults>>
       \/ /\ journal # NoJournal /\ Fault
          /\ phase' = "idle" /\ live' = Loaded /\ pending' = TRUE
          /\ UNCHANGED <<todo, loadout>>
    /\ UNCHANGED <<diskVars, sources, asked, crashes>>

\* One that does not save leaves the others to be written.
Finish ==
    /\ phase = "launch"
    /\ \E f \in First(todo) : Tried(f, journal[f]) /\ todo' = todo \ {f}
    /\ UNCHANGED <<journal, copies, live, loadout, pending, phase, sources,
                   asked, crashes>>

\* Mutant: a file that did not save is let pass.
Finished_Tried == \A f \in {Catalog, Loadouts} : disk[f] = journal[f]

\* Every file the journal names holds its text.
Finished == \A f \in Named : disk[f] = journal[f]

FinishEnds ==
    /\ phase = "launch" /\ todo = {}
    /\ \/ /\ Finished /\ journal' = NoJournal /\ Opens(TRUE)
       \/ /\ IF Finished THEN Fault ELSE faults' = faults
          /\ phase' = "idle" /\ live' = Loaded /\ pending' = TRUE
          /\ UNCHANGED <<journal, todo, loadout>>
    /\ UNCHANGED <<disk, copies, sources, asked, crashes>>

\* Nothing in memory is left.
Ends ==
    /\ phase' = "off" /\ todo' = {} /\ sources' = NoJournal /\ asked' = {}
    /\ loadout' = FALSE /\ pending' = FALSE /\ live' = Loaded
    /\ UNCHANGED <<diskVars, faults>>

Crash ==
    /\ phase # "off" /\ crashes < MaxCrashes /\ crashes' = crashes + 1
    /\ Ends

Quit == phase = "idle" /\ Ends /\ UNCHANGED crashes

\* You move profiles/legacy out, as the refusal says, which comes after the
\* one over an unfinished run.
MoveCopies ==
    /\ phase = "off" /\ Copied # {} /\ journal = NoJournal
    /\ copies' = [p \in Profiles |-> NoFile]
    /\ UNCHANGED <<disk, journal, live, loadout, pending, phase, todo, sources,
                   asked, faults, crashes>>

Works ==
    SaveWrites \/ Flush \/ Read \/ Copy \/ SaveJournal \/ WriteShared \/ Done
        \/ PutBack \/ EndUndo \/ TakeOut \/ Finish \/ FinishEnds

JNext ==
    \/ \E f \in Files : Edit(f)
    \/ \E p \in Profiles : SaveStarts(p) \/ CommandLooks(p) \/ CommandWrites(p)
    \/ Works \/ Apply \/ Launch \/ Crash \/ Quit \/ MoveCopies

JSpec == JInit /\ [][JNext]_jvars

\* What the tasks began they go on with, and you quit and open Vosh again
\* when a run asks for it.
Fair ==
    /\ WF_jvars(Works) /\ WF_jvars(Launch) /\ WF_jvars(pending /\ Quit)
    /\ \A p \in Profiles : WF_jvars(CommandWrites(p))

FairSpec == JSpec /\ Fair

-----------------------------------------------------------------------------
(* Properties                                                              *)

\* Across crashes, failed writes and relaunches the files move to loadouts
\* together or not at all, a run that failed gives back each text it had,
\* and no save loses a change a file already held.  None writes the items a
\* profile had back over the move but a #profile save that looked before the
\* move was over: the wizard, the saves and the launch implement Move.  The
\* journal's texts stand for the writes it promises.
Promised ==
    INSTANCE Move WITH
        content <- [f \in Files |->
                        IF journal[f] # NoFile THEN journal[f] ELSE disk[f]],
        undo <- IF phase \in {"write", "undo"} THEN sources ELSE NoMove,
        late <- {p \in asked : live[p].items = "own"}

Implements == Promised!Spec

\* A profile file loses the items it had before the move only to a text
\* whose full copy waits in profiles/legacy, whoever writes it: the run, or a
\* launch after a crash.
CopyFirst ==
    \A p \in Profiles :
        /\ disk[p] # NoFile /\ disk[p].items = "own"
        /\ disk'[p] # NoFile /\ disk'[p].items = "moved"
        => copies[p] = disk[p]
CopiesComeFirst == [][CopyFirst]_jvars

\* No session runs on the catalog while a profile file the move has yet to
\* write still holds its items, or a journal is left that would write over
\* what it saves.  The items a file got after the move, in a session without
\* the catalog or by a late #profile save, run over the catalog's.
LoadoutModeWhole ==
    loadout =>
        /\ journal = NoJournal /\ disk[Catalog] # NoFile
        /\ \A p \in Profiles : disk[p] # NoFile => disk[p].items # "own"

\* Items you added in a session without the catalog leave a profile file only
\* in one that runs on the catalog, once that catalog has taken them: a save
\* merges what the profile holds before it writes the file without items.
\* Whether the catalog is on disk by then is left open, as a write that fails
\* is only logged.
Taken ==
    \A p \in Profiles :
        /\ disk[p] # NoFile /\ p \in disk[p].added
        /\ disk'[p] = NoFile \/ p \notin disk'[p].added
        => loadout /\ p \in live[Catalog].added
AddedTaken == [][Taken]_jvars

\* A run that stopped is finished or undone in the end.
Finishes == journal # NoJournal ~> journal = NoJournal
=============================================================================
