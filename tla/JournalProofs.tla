---------------------------- MODULE JournalProofs ----------------------------
(***************************************************************************)
(* Theorems of Journal for every set of profiles and every number of       *)
(* changes, failures and crashes.                                          *)
(***************************************************************************)
EXTENDS Journal, TLAPS

-----------------------------------------------------------------------------
(* The inductive invariant                                                 *)

Working == phase \in {"write", "undo"}

\* The phases in which saves may land, or a run has changed no file yet.
Steady ==
    phase \in {"save", "flush", "copy", "uncopy"} \/ (phase = "idle" /\ ~pending)

\* What each file held before the run under way.
Before == IF Working THEN sources ELSE disk

\* Where the items of a profile are before the move, and after it.
Side(files) == IF files[Catalog] # NoFile THEN "moved" ELSE "own"

\* What the phase says of the journal and of the flags.
Flags ==
    /\ Steady => journal = NoJournal
    /\ phase \in {"write", "undo", "launch"} => journal # NoJournal
    /\ pending =>
        /\ phase = "idle" /\ ~loadout
        /\ journal # NoJournal \/ disk[Catalog] # NoFile
    /\ loadout =>
        phase \in {"idle", "save"} /\ ~pending /\ disk[Catalog] # NoFile

\* With no journal left every file is on one side of the move, but for the
\* profiles a late command wrote back over it.
Sides ==
    journal = NoJournal =>
        /\ disk[Catalog] = NoFile <=> disk[Loadouts] = NoFile
        /\ \A f \in Files :
            disk[f] # NoFile =>
                \/ disk[f].items = Side(disk)
                \/ /\ f \in Profiles /\ disk[Catalog] # NoFile
                   /\ disk[f].items = "back"

\* What a save would write is on that side too, or back where the file is,
\* and as new as the file.
Lives ==
    Steady \/ Working =>
        /\ \A f \in Files :
            /\ \/ live[f].items = Side(Before)
               \/ /\ f \in Profiles /\ Before[Catalog] # NoFile
                  /\ live[f].items = "back"
                  /\ loadout \/ (disk[f] # NoFile /\ disk[f].items = "back")
            /\ Before[f] # NoFile => Before[f].v <= live[f].v
        /\ Before[Catalog] # NoFile =>
            Before[Catalog].added \subseteq live[Catalog].added

\* A journal names both shared files and each profile file there is, and
\* a file it has yet to move has its copy, or a late command wrote it.
Promise ==
    journal # NoJournal =>
        /\ {Catalog, Loadouts} \subseteq Named
        /\ \A f \in Named : journal[f].items = "moved"
        /\ \A p \in Profiles :
            disk[p] # NoFile =>
                \/ disk[p].items = "back"
                \/ p \in Named /\ (disk[p].items = "moved" \/ copies[p] = disk[p])

\* How far a run has come.
Progress ==
    /\ phase \in {"flush", "copy", "uncopy"} =>
        /\ disk[Catalog] = NoFile /\ disk[Loadouts] = NoFile
        /\ todo \subseteq Profiles
    /\ phase = "copy" =>
        /\ sources = disk
        /\ \A p \in Saved \ todo : copies[p] = sources[p]
    /\ Working =>
        /\ sources[Catalog] = NoFile /\ sources[Loadouts] = NoFile
        /\ \A p \in Saved :
            /\ sources[p].items = "own" /\ copies[p] = sources[p]
            /\ p \in Named /\ journal[p].v = sources[p].v
        /\ \A f \in Named \ Saved : journal[f].v = 0
        /\ \A f \in Files :
            disk[f] = sources[f] \/ (f \in Named /\ disk[f] = journal[f])
        /\ todo \subseteq Named
    /\ phase = "write" => \A f \in Named \ todo : disk[f] = journal[f]
    /\ phase = "save" => (Catalog \in todo \/ Loadouts \in todo => loadout)
    /\ phase = "launch" => todo \subseteq Named

\* What a command that looked may still write.  Once a run is over it is a
\* text with its own items, no older than the file or the journal's text.
Asked ==
    /\ asked # {} => phase \notin {"off", "launch"} /\ ~loadout
    /\ pending =>
        \A p \in asked :
            /\ live[p].items = "own"
            /\ journal[p] # NoFile => journal[p].v <= live[p].v
            /\ journal[p] = NoFile /\ disk[p] # NoFile => disk[p].v <= live[p].v

Inv == TypeOK /\ Flags /\ Sides /\ Lives /\ Promise /\ Progress /\ Asked

-----------------------------------------------------------------------------
(* The types of what is built                                              *)

\* A fresh text is one.
LEMMA NewTypes ==
    ASSUME NEW items \in {"own", "moved", "back"}
    PROVE  /\ New(items) \in Texts
           /\ New(items).items = items /\ New(items).added = {} /\ New(items).v = 0
BY DEF New, Texts

\* What launch loads is a text for each file.
LEMMA LoadedTypes ==
    ASSUME TypeOK
    PROVE  Loaded \in [Files -> Texts]
<1>1. New("moved") \in Texts /\ New("own") \in Texts
    BY NewTypes
<1>2. \A f \in Files : disk[f] # NoFile => disk[f] \in Texts
    BY DEF TypeOK, MaybeText
<1>3. \A f \in Files : Loaded[f] \in Texts
    BY <1>1, <1>2 DEF Loaded
<1> QED
    BY <1>3 DEF Loaded

\* A run gives every file that is there, and both shared files, a moved text
\* with the changes it held.
LEMMA PlanTypes ==
    ASSUME TypeOK, NEW listed \in SUBSET Profiles
    PROVE  /\ Plan(listed) \in [Files -> MaybeText]
           /\ \A f \in Files :
                /\ Plan(listed)[f] # NoFile
                       <=> f \in Saved \cup listed \cup {Catalog, Loadouts}
                /\ Plan(listed)[f] # NoFile => Plan(listed)[f].items = "moved"
                /\ Plan(listed)[f] # NoFile =>
                    Plan(listed)[f].v = IF f \in Saved THEN sources[f].v ELSE 0
<1>1. \A f \in Saved : sources[f].v \in Nat
    BY DEF TypeOK, Saved, MaybeText, Texts, Files
<1>2. ASSUME NEW f \in Files
      PROVE  /\ Plan(listed)[f] \in MaybeText
             /\ Plan(listed)[f] # NoFile
                    <=> f \in Saved \cup listed \cup {Catalog, Loadouts}
             /\ Plan(listed)[f] # NoFile => Plan(listed)[f].items = "moved"
             /\ Plan(listed)[f] # NoFile =>
                 Plan(listed)[f].v = IF f \in Saved THEN sources[f].v ELSE 0
    <2>1. CASE f \in Saved
        <3>1. Plan(listed)[f] = [items |-> "moved", added |-> {}, v |-> sources[f].v]
            BY <2>1 DEF Plan, New
        <3>2. Plan(listed)[f] \in Texts /\ Plan(listed)[f].items = "moved"
            BY <1>1, <2>1, <3>1 DEF Texts
        <3> QED
            BY <2>1, <3>1, <3>2, FilesApart DEF MaybeText
    <2>2. CASE f \notin Saved /\ f \in listed \cup {Catalog, Loadouts}
        <3>1. Plan(listed)[f] = New("moved")
            BY <2>2 DEF Plan
        <3> QED
            BY <2>2, <3>1, NewTypes, FilesApart DEF MaybeText
    <2>3. CASE f \notin Saved \cup listed \cup {Catalog, Loadouts}
        BY <2>3 DEF Plan, MaybeText
    <2> QED
        BY <2>1, <2>2, <2>3
<1> QED
    BY <1>2 DEF Plan

\* A save writes a text, and in loadout mode one of the side of the catalog.
LEMMA TextTypes ==
    ASSUME TypeOK, NEW f \in Files
    PROVE  /\ Text(f) \in Texts /\ Text(f).v = live[f].v
           /\ ~loadout \/ f = Catalog => Text(f).items = live[f].items
           /\ loadout /\ f # Catalog => Text(f).items = "moved"
           /\ f = Catalog => live[f].added \subseteq Text(f).added
<1>1. live[f] \in Texts
    BY DEF TypeOK
<1>2. UNION {live[p].added : p \in todo \cap Profiles} \subseteq Profiles
    BY DEF TypeOK, Texts, Files
<1>3. CASE ~loadout
    BY <1>1, <1>3 DEF Text
<1>4. CASE loadout /\ f = Catalog
    <2>1. Text(f) = [items |-> live[f].items,
                     added |-> live[f].added \cup UNION {live[p].added : p \in todo \cap Profiles},
                     v |-> live[f].v]
        BY <1>1, <1>4 DEF Text, Texts
    <2>2. live[f].added \subseteq Profiles /\ live[f].v \in Nat
          /\ live[f].items \in {"own", "moved", "back"}
        BY <1>1 DEF Texts
    <2> QED
        BY <1>2, <1>4, <2>1, <2>2 DEF Texts
<1>5. CASE loadout /\ f # Catalog
    <2>1. Text(f) = [items |-> "moved", added |-> {}, v |-> live[f].v]
        BY <1>1, <1>5 DEF Text, Texts
    <2>2. live[f].v \in Nat
        BY <1>1 DEF Texts
    <2> QED
        BY <1>5, <2>1, <2>2 DEF Texts
<1> QED
    BY <1>3, <1>4, <1>5

\* What a command writes is its live text, but for where its items are.
LEMMA TypedTypes ==
    ASSUME TypeOK, NEW p \in Profiles
    PROVE  /\ Typed(p) \in Texts /\ Typed(p).v = live[p].v
           /\ Typed(p).items =
                  IF Over /\ live[p].items = "own" THEN "back" ELSE live[p].items
<1>1. live[p] \in Texts
    BY DEF TypeOK, Files
<1> QED
    BY <1>1 DEF Typed, Texts

\* A run that gives up takes types as they are.
LEMMA GiveUpTypes ==
    ASSUME TypeOK, GiveUp
    PROVE  /\ sources' \in [Files -> MaybeText]
           /\ phase' \in Phases /\ todo' \in SUBSET Files
BY DEF TypeOK, GiveUp, GoOn, Copied, NoJournal, MaybeText, Phases, Files

-----------------------------------------------------------------------------
(* Each action keeps the invariant                                         *)

\* A change in memory leaves every file as it is.
LEMMA EditKeeps ==
    ASSUME Inv, NEW f \in Files, Edit(f)
    PROVE  Inv'
<1> USE FilesApart, BoundsAreNumbers DEF Inv
<1>1. PICK items \in SUBSET ({f} \cap Profiles) :
        /\ items # {} => ~loadout /\ live[f].items = "moved"
        /\ live' = [live EXCEPT ![f].v = @ + 1, ![f].added = @ \cup items]
    BY DEF Edit
<1>2. live \in [Files -> Texts]
    BY DEF TypeOK
<1>3. live'[f] = [items |-> live[f].items, added |-> live[f].added \cup items,
                  v |-> live[f].v + 1]
    BY <1>1, <1>2 DEF Texts
<1>4. /\ live' \in [Files -> Texts]
      /\ \A g \in Files : live'[g].items = live[g].items
      /\ \A g \in Files : g # f => live'[g] = live[g]
      /\ live[f].v \in Nat /\ live'[f].v = live[f].v + 1
      /\ live[Catalog].added \subseteq live'[Catalog].added
    <2>1. live'[f] \in Texts
        BY <1>2, <1>3 DEF Texts
    <2> QED
        BY <1>1, <1>2, <1>3, <2>1 DEF Texts, Files
<1>5. TypeOK'
    BY <1>4 DEF TypeOK, Edit, diskVars
<1>6. Flags'
    BY DEF Flags, Steady, Edit, diskVars
<1>7. Sides'
    BY DEF Sides, Side, Edit, diskVars
<1>8. Lives'
    <2>1. \A g \in Files : Before[g] # NoFile => Before[g].v \in Nat
        BY DEF TypeOK, Before, MaybeText, Texts
    <2>2. UNCHANGED <<Steady, Working, Before, disk, loadout>>
        BY DEF Steady, Working, Before, Edit, diskVars
    <2> QED
        BY <1>4, <2>1, <2>2 DEF Lives, Side, Files
<1>9. Promise'
    BY DEF Promise, Named, Edit, diskVars
<1>10. Progress'
    BY DEF Working, Progress, Named, Saved, Edit, diskVars
<1>11. Asked'
    BY <1>4 DEF TypeOK, Asked, Edit, diskVars, Files
<1> QED
    BY <1>5, <1>6, <1>7, <1>8, <1>9, <1>10, <1>11

\* A save that takes the lock has changed nothing yet.
LEMMA SaveStartsKeeps ==
    ASSUME Inv, NEW p \in Profiles, SaveStarts(p)
    PROVE  Inv'
<1> USE FilesApart, BoundsAreNumbers DEF Inv
<1>1. TypeOK'
    BY DEF TypeOK, Files, Phases, SaveStarts, diskVars
<1>2. Flags'
    BY DEF Flags, Steady, SaveStarts, diskVars
<1>3. Sides'
    BY DEF Sides, SaveStarts, diskVars
<1>4. Lives'
    BY DEF Flags, Lives, Steady, Working, Before, SaveStarts, diskVars
<1>5. Promise'
    BY DEF Promise, Named, SaveStarts, diskVars
<1>6. Progress'
    BY DEF Working, Progress, SaveStarts
<1>7. Asked'
    BY DEF Asked, SaveStarts, diskVars
<1> QED
    BY <1>1, <1>2, <1>3, <1>4, <1>5, <1>6, <1>7

\* A save writes texts of the side the files are on.
LEMMA SaveWritesKeeps ==
    ASSUME Inv, SaveWrites
    PROVE  Inv'
<1> USE FilesApart, BoundsAreNumbers DEF Inv
<1>1. PICK f \in First(todo) \ asked :
        /\ Tried(f, Text(f)) /\ GoOn(todo \ {f}, "save")
        /\ live' = IF f = Catalog THEN [live EXCEPT ![f] = Text(f)] ELSE live
    BY DEF SaveWrites
<1>2. f \in Files /\ (f \in Profiles \/ loadout) /\ todo' = todo \ {f}
    BY <1>1 DEF SaveWrites, First, TypeOK, Progress, Files, GoOn
<1>3. /\ Text(f) \in Texts /\ Text(f).v = live[f].v
      /\ ~loadout \/ f = Catalog => Text(f).items = live[f].items
      /\ loadout /\ f # Catalog => Text(f).items = "moved"
      /\ f = Catalog => live[f].added \subseteq Text(f).added
    BY <1>2, TextTypes
<1>4. /\ phase = "save" /\ journal = NoJournal /\ Steady /\ ~Working /\ ~pending
      /\ phase' \in {"save", "idle"}
      /\ UNCHANGED <<journal, copies, loadout, pending, sources, asked, crashes>>
    BY <1>1 DEF SaveWrites, Flags, Steady, Working, GoOn
<1>5. disk' = disk \/ disk' = [disk EXCEPT ![f] = Text(f)]
    BY <1>1 DEF Tried, Write, WriteFails
<1>6. /\ disk \in [Files -> MaybeText] /\ live \in [Files -> Texts]
      /\ Text(f) # NoFile
    BY <1>3 DEF TypeOK
<1>7. /\ live' \in [Files -> Texts]
      /\ \A g \in Files : live'[g].items = live[g].items /\ live'[g].v = live[g].v
      /\ live[Catalog].added \subseteq live'[Catalog].added
    <2>1. CASE f = Catalog
        BY <1>1, <1>2, <1>3, <1>6, <2>1
    <2>2. CASE f # Catalog
        BY <1>1, <1>6, <2>2
    <2> QED
        BY <2>1, <2>2
<1>8. TypeOK'
    <2>1. disk' \in [Files -> MaybeText]
        BY <1>3, <1>5, <1>6 DEF MaybeText
    <2>2. faults' \in Nat
        BY <1>1 DEF TypeOK, Tried, Write, WriteFails, Fault
    <2> QED
        BY <1>2, <1>4, <1>7, <2>1, <2>2 DEF TypeOK, Phases
<1>9. /\ disk'[Catalog] = NoFile <=> disk[Catalog] = NoFile
      /\ disk'[Loadouts] = NoFile <=> disk[Loadouts] = NoFile
    <2>1. loadout => disk[Catalog] # NoFile /\ disk[Loadouts] # NoFile
        BY <1>4 DEF Flags, Sides
    <2> QED
        BY <1>2, <1>5, <1>6, <2>1 DEF Files
<1>10. Flags'
    BY <1>4, <1>9 DEF Flags, Steady
<1>11. loadout => disk[Catalog] # NoFile
    BY DEF Flags
<1>12. /\ \/ live[f].items = Side(disk)
          \/ /\ f \in Profiles /\ disk[Catalog] # NoFile /\ live[f].items = "back"
             /\ loadout \/ (disk[f] # NoFile /\ disk[f].items = "back")
       /\ disk[f] # NoFile => disk[f].v <= live[f].v
    BY <1>2, <1>4 DEF Lives, Before
<1>13. \/ Text(f).items = Side(disk)
       \/ /\ f \in Profiles /\ disk[Catalog] # NoFile /\ Text(f).items = "back"
          /\ ~loadout /\ disk[f] # NoFile /\ disk[f].items = "back"
    BY <1>2, <1>3, <1>11, <1>12 DEF Side
<1>14. Sides'
    <2>1. disk'[Catalog] = NoFile <=> disk'[Loadouts] = NoFile
        BY <1>4, <1>9 DEF Sides
    <2>2. ASSUME NEW g \in Files, disk'[g] # NoFile
          PROVE  \/ disk'[g].items = Side(disk)
                 \/ /\ g \in Profiles /\ disk[Catalog] # NoFile
                    /\ disk'[g].items = "back"
        <3>1. CASE disk'[g] = disk[g]
            BY <1>4, <2>2, <3>1 DEF Sides
        <3>2. CASE g = f /\ disk'[g] = Text(f)
            BY <1>13, <3>2
        <3> QED
            BY <1>5, <1>6, <3>1, <3>2
    <2> QED
        BY <1>9, <2>1, <2>2 DEF Sides, Side
<1>15. Lives'
    <2>1. ASSUME NEW g \in Files
          PROVE  /\ \/ live'[g].items = Side(disk)
                    \/ /\ g \in Profiles /\ disk[Catalog] # NoFile
                       /\ live'[g].items = "back"
                       /\ loadout \/ (disk'[g] # NoFile /\ disk'[g].items = "back")
                 /\ disk'[g] # NoFile => disk'[g].v <= live'[g].v
        <3>1. /\ \/ live[g].items = Side(disk)
                 \/ /\ g \in Profiles /\ disk[Catalog] # NoFile
                    /\ live[g].items = "back"
                    /\ loadout \/ (disk[g] # NoFile /\ disk[g].items = "back")
              /\ disk[g] # NoFile => disk[g].v <= live[g].v
            BY <1>4 DEF Lives, Before
        <3>2. CASE disk'[g] = disk[g]
            BY <1>7, <3>1, <3>2
        <3>3. CASE g = f /\ disk'[g] = Text(f)
            <4>1. live[g].v \in Nat
                BY <1>6 DEF Texts
            <4> QED
                BY <1>3, <1>6, <1>7, <3>1, <3>3, <4>1
        <3> QED
            BY <1>5, <1>6, <3>2, <3>3
    <2>2. disk'[Catalog] # NoFile => disk'[Catalog].added \subseteq live'[Catalog].added
        <3>1. disk[Catalog] # NoFile => disk[Catalog].added \subseteq live[Catalog].added
            BY <1>4 DEF Lives, Before
        <3>2. CASE disk'[Catalog] = disk[Catalog]
            BY <1>7, <3>1, <3>2
        <3>3. CASE f = Catalog /\ disk'[Catalog] = Text(f)
            BY <1>1, <1>2, <1>6, <3>3
        <3> QED
            BY <1>5, <1>6, <3>2, <3>3 DEF Files
    <2>3. Before' = disk'
        BY <1>4 DEF Before, Working
    <2> QED
        BY <1>4, <1>9, <2>1, <2>2, <2>3 DEF Lives, Side
<1>16. Promise'
    BY <1>4 DEF Promise
<1>17. Progress'
    BY <1>2, <1>4 DEF Working, Progress
<1>18. Asked'
    BY <1>4 DEF Asked
<1> QED
    BY <1>8, <1>10, <1>14, <1>15, <1>16, <1>17, <1>18

\* A command that looks saw neither flag.
LEMMA CommandLooksKeeps ==
    ASSUME Inv, NEW p \in Profiles, CommandLooks(p)
    PROVE  Inv'
<1> USE FilesApart, BoundsAreNumbers DEF Inv
<1>1. TypeOK'
    BY DEF TypeOK, CommandLooks, diskVars
<1>2. Flags'
    BY DEF Flags, Steady, CommandLooks, diskVars
<1>3. Sides'
    BY DEF Sides, Side, CommandLooks, diskVars
<1>4. Lives'
    BY DEF Lives, Side, Steady, Working, Before, CommandLooks, diskVars
<1>5. Promise'
    BY DEF Promise, Named, CommandLooks, diskVars
<1>6. Progress'
    BY DEF Working, Progress, Named, Saved, CommandLooks, diskVars
<1>7. Asked'
    BY DEF Asked, CommandLooks
<1> QED
    BY <1>1, <1>2, <1>3, <1>4, <1>5, <1>6, <1>7

\* A command writes a text of the side the files are on, or writes items back
\* over a move that is over.
LEMMA CommandWritesKeeps ==
    ASSUME Inv, NEW p \in Profiles, CommandWrites(p)
    PROVE  Inv'
<1> USE FilesApart, BoundsAreNumbers DEF Inv
<1>1. /\ p \in asked /\ asked' = asked \ {p}
      /\ UNCHANGED <<journal, copies, live, loadout, pending, phase, todo, sources,
                     crashes>>
      /\ p \in Files /\ Catalog \in Files /\ Loadouts \in Files
      /\ p # Catalog /\ p # Loadouts /\ ~loadout
    BY DEF CommandWrites, Asked, Files
<1>2. /\ Typed(p) \in Texts /\ Typed(p).v = live[p].v
      /\ Typed(p).items =
             IF Over /\ live[p].items = "own" THEN "back" ELSE live[p].items
    BY TypedTypes
<1>3. disk \in [Files -> MaybeText] /\ live \in [Files -> Texts]
      /\ Typed(p) # NoFile /\ live[p].v \in Nat
    BY <1>1, <1>2 DEF TypeOK, Texts
<1>4. disk' = disk \/ (phase = "idle" /\ disk' = [disk EXCEPT ![p] = Typed(p)])
    BY DEF CommandWrites, Tried, Write, WriteFails
<1>5. disk'[Catalog] = disk[Catalog] /\ disk'[Loadouts] = disk[Loadouts]
    BY <1>1, <1>3, <1>4
<1>6. TypeOK'
    <2>1. disk' \in [Files -> MaybeText]
        BY <1>2, <1>3, <1>4 DEF MaybeText
    <2>2. faults' \in Nat
        BY DEF TypeOK, CommandWrites, Tried, Write, WriteFails, Fault
    <2> QED
        BY <1>1, <2>1, <2>2 DEF TypeOK
<1>7. Flags'
    BY <1>1, <1>5 DEF Flags, Steady
<1>8. CASE disk' = disk
    <2>1. Sides'
        BY <1>1, <1>8 DEF Sides, Side
    <2>2. Lives'
        BY <1>1, <1>8 DEF Lives, Side, Steady, Working, Before
    <2>3. Promise'
        BY <1>1, <1>8 DEF Promise, Named
    <2>4. Progress'
        BY <1>1, <1>8 DEF Working, Progress, Named, Saved
    <2>5. Asked'
        BY <1>1, <1>8 DEF Asked
    <2> QED
        BY <1>6, <1>7, <2>1, <2>2, <2>3, <2>4, <2>5
<1>9. CASE phase = "idle" /\ disk' = [disk EXCEPT ![p] = Typed(p)]
    <2>1. disk'[p] = Typed(p) /\ \A f \in Files : f # p => disk'[f] = disk[f]
        BY <1>1, <1>3, <1>9
    <2>2. /\ ~Working /\ ~Working' /\ Before = disk /\ Before' = disk'
          /\ Steady <=> ~pending
        BY <1>1, <1>9 DEF Working, Before, Steady
    <2>3. pending => /\ Over /\ Typed(p).items = "back"
                     /\ journal = NoJournal => disk[Catalog] # NoFile
        BY <1>1, <1>2 DEF Flags, Over, Asked
    <2>4. ~pending =>
            /\ \/ Typed(p).items = Side(disk)
               \/ /\ disk[Catalog] # NoFile /\ Typed(p).items = "back"
                  /\ live[p].items = "back"
            /\ Typed(p).items = live[p].items
            /\ journal = NoJournal
        <3>1. ASSUME ~pending
              PROVE  /\ journal = NoJournal
                     /\ \/ live[p].items = Side(disk)
                        \/ disk[Catalog] # NoFile /\ live[p].items = "back"
            BY <1>1, <2>2, <3>1 DEF Flags, Lives
        <3> QED
            BY <1>2, <3>1 DEF Side, Over
    <2>5. Sides'
        <3>2. ASSUME journal = NoJournal, NEW f \in Files, disk'[f] # NoFile
              PROVE  \/ disk'[f].items = Side(disk)
                     \/ /\ f \in Profiles /\ disk[Catalog] # NoFile
                        /\ disk'[f].items = "back"
            <4>1. CASE f = p
                BY <2>1, <2>3, <2>4, <3>2, <4>1
            <4>2. CASE f # p
                BY <2>1, <3>2, <4>2 DEF Sides
            <4> QED
                BY <4>1, <4>2
        <3> QED
            BY <1>1, <1>5, <3>2 DEF Sides, Side
    <2>6. Lives'
        <3>1. ASSUME ~pending, NEW f \in Files
              PROVE  /\ \/ live[f].items = Side(disk)
                        \/ /\ f \in Profiles /\ disk[Catalog] # NoFile
                           /\ live[f].items = "back"
                           /\ loadout \/ (disk'[f] # NoFile /\ disk'[f].items = "back")
                     /\ disk'[f] # NoFile => disk'[f].v <= live[f].v
            <4>0. /\ \/ live[f].items = Side(disk)
                     \/ /\ f \in Profiles /\ disk[Catalog] # NoFile
                        /\ live[f].items = "back"
                        /\ loadout \/ (disk[f] # NoFile /\ disk[f].items = "back")
                  /\ disk[f] # NoFile => disk[f].v <= live[f].v
                BY <2>2, <3>1 DEF Lives
            <4>1. CASE f = p
                BY <1>2, <1>3, <2>1, <2>4, <3>1, <4>0, <4>1
            <4>2. CASE f # p
                BY <2>1, <4>0, <4>2
            <4> QED
                BY <4>1, <4>2
        <3>2. ~pending /\ disk[Catalog] # NoFile =>
                disk[Catalog].added \subseteq live[Catalog].added
            BY <2>2 DEF Lives
        <3>3. Side(Before') = Side(disk) /\ (Steady' <=> Steady)
            BY <1>1, <1>5, <2>2 DEF Side, Steady
        <3> QED
            BY <1>1, <1>5, <2>2, <3>1, <3>2, <3>3 DEF Lives
    <2>7. Promise'
        <3>1. ASSUME journal # NoJournal
              PROVE  disk'[p].items = "back"
            BY <2>1, <2>3, <2>4, <3>1
        <3> QED
            BY <1>1, <2>1, <3>1 DEF Promise, Named, Files
    <2>8. Progress'
        BY <1>1, <1>9 DEF Working, Progress
    <2>9. Asked'
        <3>1. ASSUME pending, NEW q \in asked \ {p}
              PROVE  disk'[q] = disk[q]
            BY <2>1, <3>1 DEF TypeOK, Files
        <3> QED
            BY <1>1, <3>1 DEF Asked
    <2> QED
        BY <1>6, <1>7, <2>5, <2>6, <2>7, <2>8, <2>9
<1> QED
    BY <1>4, <1>8, <1>9

\* A run that begins found no journal, no catalog and no copies.
LEMMA ApplyKeeps ==
    ASSUME Inv, Apply
    PROVE  Inv'
<1> USE FilesApart, BoundsAreNumbers DEF Inv
<1>1. TypeOK'
    BY DEF TypeOK, Files, Phases, Apply, diskVars
<1>2. Flags'
    BY DEF Flags, Apply, diskVars
<1>3. Sides'
    BY DEF Sides, Apply, diskVars
<1>4. Lives'
    BY DEF Flags, Lives, Steady, Working, Before, Apply, diskVars
<1>5. Promise'
    BY DEF Promise, Apply, diskVars
<1>6. Progress'
    BY DEF Working, Progress, Apply, diskVars
<1>7. Asked'
    BY DEF Flags, Asked, Apply, diskVars
<1> QED
    BY <1>1, <1>2, <1>3, <1>4, <1>5, <1>6, <1>7

\* The saves a run begins with are those of any other time.
LEMMA FlushKeeps ==
    ASSUME Inv, Flush
    PROVE  Inv'
<1> USE FilesApart, BoundsAreNumbers DEF Inv
<1>1. PICK p \in todo \ asked : Tried(p, live[p]) /\ todo' = todo \ {p}
    BY DEF Flush
<1>2. /\ p \in Profiles /\ p \in Files /\ todo \subseteq Profiles
      /\ phase = "flush" /\ phase' = "flush"
      /\ journal = NoJournal /\ Steady /\ ~Working /\ ~pending /\ ~loadout
      /\ disk[Catalog] = NoFile /\ disk[Loadouts] = NoFile
      /\ UNCHANGED <<journal, copies, live, loadout, pending, sources, asked, crashes>>
    BY <1>1 DEF Flush, Progress, Flags, Steady, Working, Files
<1>3. /\ disk \in [Files -> MaybeText] /\ live \in [Files -> Texts]
      /\ live[p] # NoFile
    BY <1>2 DEF TypeOK
<1>4. disk' = disk \/ disk' = [disk EXCEPT ![p] = live[p]]
    BY <1>1 DEF Tried, Write, WriteFails
<1>5. /\ disk'[Catalog] = NoFile /\ disk'[Loadouts] = NoFile
      /\ \A f \in Files : disk'[f] = disk[f] \/ disk'[f] = live[f]
    BY <1>2, <1>3, <1>4 DEF Files
<1>6. \A f \in Files :
        /\ live[f].items = "own" /\ live[f].v \in Nat
        /\ disk[f] # NoFile => disk[f].v <= live[f].v
        /\ disk[f] # NoFile => disk[f].items = "own"
    <2>1. \A f \in Files : live[f].v \in Nat
        BY <1>3 DEF Texts
    <2> QED
        BY <1>2, <2>1 DEF Lives, Sides, Side, Before
<1>7. TypeOK'
    <2>1. disk' \in [Files -> MaybeText]
        BY <1>2, <1>3, <1>4 DEF MaybeText
    <2>2. faults' \in Nat
        BY <1>1 DEF TypeOK, Tried, Write, WriteFails, Fault
    <2> QED
        BY <1>1, <1>2, <2>1, <2>2 DEF TypeOK
<1>8. Flags'
    BY <1>2 DEF Flags, Steady
<1>9. Sides'
    BY <1>2, <1>5, <1>6 DEF Sides, Side
<1>10. Lives'
    <2>1. Before' = disk' /\ Side(disk') = "own"
        BY <1>2, <1>5 DEF Before, Working, Side
    <2>2. \A f \in Files : disk'[f] # NoFile => disk'[f].v <= live[f].v
        BY <1>5, <1>6
    <2> QED
        BY <1>2, <1>5, <1>6, <2>1, <2>2 DEF Lives
<1>11. Promise'
    BY <1>2 DEF Promise
<1>12. Progress'
    BY <1>1, <1>2, <1>5 DEF Working, Progress
<1>13. Asked'
    BY <1>2 DEF Asked
<1> QED
    BY <1>7, <1>8, <1>9, <1>10, <1>11, <1>12, <1>13

\* What a run read is what the files hold.
LEMMA ReadKeeps ==
    ASSUME Inv, Read
    PROVE  Inv'
<1> USE FilesApart, BoundsAreNumbers DEF Inv
<1>1. TypeOK'
    BY DEF TypeOK, Files, Phases, Read, Fault, diskVars
<1>2. Flags'
    BY DEF Flags, Steady, Read, diskVars
<1>3. Sides'
    BY DEF Sides, Read, diskVars
<1>4. Lives'
    BY DEF Lives, Steady, Working, Before, Read, diskVars
<1>5. Promise'
    BY DEF Promise, Named, Read, diskVars
<1>6. Progress'
    BY DEF Working, Progress, Saved, Read, diskVars
<1>7. Asked'
    BY DEF Flags, Asked, Read, diskVars
<1> QED
    BY <1>1, <1>2, <1>3, <1>4, <1>5, <1>6, <1>7

\* A copy is of the text the run read, or the run gives up.
LEMMA CopyKeeps ==
    ASSUME Inv, Copy
    PROVE  Inv'
<1> USE FilesApart, BoundsAreNumbers DEF Inv
<1>1. TypeOK'
    BY DEF TypeOK, MaybeText, Files, NoJournal, Copied, Phases, Copy, Fault,
           GiveUp, GoOn
<1>2. Flags'
    BY DEF Flags, Steady, Copy, GiveUp, GoOn
<1>3. Sides'
    BY DEF Sides, Copy
<1>4. Lives'
    <2>1. /\ Steady /\ ~Working /\ ~Working'
          /\ UNCHANGED <<disk, live, loadout, pending>>
        BY DEF Steady, Working, Copy, GiveUp, GoOn
    <2> QED
        BY <2>1 DEF Lives, Side, Before
<1>5. Promise'
    BY DEF Flags, Steady, Promise, Copy
<1>6. Progress'
    BY DEF TypeOK, Working, Progress, Saved, Copy, GiveUp, GoOn, Copied
<1>7. Asked'
    BY DEF Flags, Asked, Copy, GiveUp, GoOn
<1> QED
    BY <1>1, <1>2, <1>3, <1>4, <1>5, <1>6, <1>7

\* The journal is saved once every file it names has its copy.
LEMMA SaveJournalKeeps ==
    ASSUME Inv, SaveJournal
    PROVE  Inv'
<1> USE FilesApart, BoundsAreNumbers DEF Inv
<1>1. ASSUME NEW listed \in SUBSET (Profiles \ Saved), journal' = Plan(listed)
      PROVE  Inv'
    <2>1. /\ journal' \in [Files -> MaybeText]
          /\ \A f \in Files :
                /\ journal'[f] # NoFile
                       <=> f \in Saved \cup listed \cup {Catalog, Loadouts}
                /\ journal'[f] # NoFile => journal'[f].items = "moved"
                /\ journal'[f] # NoFile =>
                    journal'[f].v = IF f \in Saved THEN sources[f].v ELSE 0
        BY <1>1, PlanTypes
    <2>2. phase = "copy" /\ todo = {} /\ journal = NoJournal
        BY DEF SaveJournal, Waits, Flags, Steady
    <2>3. journal' # NoJournal /\ journal # journal'
        BY <2>1, <2>2 DEF NoJournal, Files
    <2>4. /\ phase' = "write" /\ todo' = Named'
          /\ UNCHANGED <<disk, copies, live, loadout, pending, sources, asked, faults, crashes>>
        BY <2>3 DEF SaveJournal, Named
    <2>5. TypeOK'
        BY <2>1, <2>4 DEF TypeOK, Phases, Named
    <2>6. Flags'
        BY <2>2, <2>3, <2>4 DEF Flags, Steady
    <2>7. /\ sources = disk /\ disk[Catalog] = NoFile /\ disk[Loadouts] = NoFile
          /\ \A p \in Saved : copies[p] = sources[p] /\ sources[p].items = "own"
        BY <2>2 DEF Progress, Sides, Side, Saved, Files
    <2>8. Sides'
        BY <2>3 DEF Sides
    <2>9. Lives'
        <3>1. Before = disk /\ Before' = disk /\ Steady
            BY <2>2, <2>4, <2>7 DEF Before, Steady, Working
        <3> QED
            BY <2>4, <2>7, <3>1 DEF Lives, Side
    <2>10. Promise'
        BY <2>1, <2>4, <2>7 DEF Promise, Named, Saved, Files
    <2>11. Progress'
        BY <2>1, <2>2, <2>4, <2>7 DEF Progress, Named, Saved, Files
    <2>12. Asked'
        BY <2>2, <2>4 DEF Asked, Flags, Steady
    <2> QED
        BY <2>5, <2>6, <2>8, <2>9, <2>10, <2>11, <2>12
<1>2. CASE UNCHANGED journal /\ Fault /\ GiveUp
    <2>1. phase = "copy" /\ UNCHANGED <<disk, copies, live, loadout, pending, asked, crashes>>
        BY DEF SaveJournal
    <2>2. TypeOK'
        BY <1>2, <2>1, GiveUpTypes DEF TypeOK, Fault
    <2>3. Flags'
        BY <1>2, <2>1 DEF Flags, Steady, GiveUp, GoOn
    <2>4. Sides'
        BY <1>2, <2>1 DEF Sides
    <2>5. Lives'
        BY <1>2, <2>1 DEF Lives, Before, Steady, Working, GiveUp, GoOn
    <2>6. Promise'
        BY <1>2, <2>1 DEF Promise, Named
    <2>7. Progress'
        BY <1>2, <2>1 DEF Progress, Working, Copied, GiveUp, GoOn
    <2>8. Asked'
        BY <1>2, <2>1 DEF Asked, Flags, Steady, GiveUp, GoOn
    <2> QED
        BY <2>2, <2>3, <2>4, <2>5, <2>6, <2>7, <2>8
<1> QED
    BY <1>1, <1>2 DEF SaveJournal

\* A run writes what its journal names.
LEMMA WriteSharedKeeps ==
    ASSUME Inv, WriteShared
    PROVE  Inv'
<1> USE FilesApart, BoundsAreNumbers DEF Inv
<1>1. TypeOK'
    BY DEF TypeOK, Named, Phases, WriteShared, Write, WriteFails, Fault, First
<1>2. Flags'
    BY DEF Flags, Steady, WriteShared
<1>3. Sides'
    BY DEF Sides, Working, Progress, Named, NoJournal, WriteShared, First
<1>4. Lives'
    <2>1. /\ Working /\ Working' /\ ~Steady' /\ Before' = Before
          /\ Before[Catalog] = NoFile /\ UNCHANGED live
        BY DEF Working, Steady, Before, Progress, WriteShared
    <2> QED
        BY <2>1 DEF Lives, Side
<1>5. Promise'
    BY DEF TypeOK, Promise, Files, Named, WriteShared, Write, WriteFails
<1>6. Progress'
    BY DEF TypeOK, Working, Progress, Files, Named, Saved, WriteShared, Write,
           WriteFails, First
<1>7. Asked'
    BY DEF Flags, Asked, WriteShared
<1> QED
    BY <1>1, <1>2, <1>3, <1>4, <1>5, <1>6, <1>7

\* What a command may write while a run works is no older than what the run
\* has for the file.
LEMMA RunTexts ==
    ASSUME Inv, Working, NEW p \in asked
    PROVE  /\ live[p].items = "own"
           /\ journal[p] # NoFile => journal[p].v <= live[p].v
           /\ disk[p] # NoFile => disk[p].v <= live[p].v
<1> USE DEF Inv
<1>1. p \in Files /\ p \in Profiles /\ live[p].v \in Nat
    BY DEF TypeOK, Texts, Files
<1>2. /\ live[p].items = "own"
      /\ sources[p] # NoFile => sources[p].v <= live[p].v
    BY <1>1 DEF Lives, Before, Side, Progress
<1>3. journal[p] # NoFile => journal[p].v <= live[p].v
    <2>1. CASE p \in Saved
        BY <1>2, <2>1 DEF Progress, Saved
    <2>2. CASE p \in Named \ Saved
        BY <1>1, <2>2 DEF Progress
    <2> QED
        BY <1>1, <2>1, <2>2 DEF Named
<1>4. disk[p] = sources[p] \/ (journal[p] # NoFile /\ disk[p] = journal[p])
    BY <1>1 DEF Progress, Named
<1> QED
    BY <1>2, <1>3, <1>4

\* A run that is done wrote every file its journal names.
LEMMA DoneKeeps ==
    ASSUME Inv, Done
    PROVE  Inv'
<1> USE FilesApart, BoundsAreNumbers DEF Inv
<1>1. TypeOK'
    BY DEF TypeOK, MaybeText, NoJournal, Phases, Done, HoldForRelaunch, Fault
<1>2. Flags'
    BY DEF Flags, Steady, Promise, Progress, Named, Done, HoldForRelaunch
<1>3. Sides'
    <2>1. /\ {Catalog, Loadouts} \subseteq Named /\ journal # NoJournal
          /\ UNCHANGED disk
          /\ \A f \in Named : disk[f] = journal[f] /\ disk[f] # NoFile
        BY DEF Flags, Promise, Progress, Named, Done
    <2>2. ASSUME NEW f \in Files, disk[f] # NoFile
          PROVE  \/ disk[f].items = "moved"
                 \/ f \in Profiles /\ disk[f].items = "back"
        <3>1. CASE f \in Named
            BY <2>1, <3>1 DEF Promise
        <3>2. CASE f \notin Named
            BY <2>1, <2>2, <3>2 DEF Promise, Files
        <3> QED
            BY <3>1, <3>2
    <2>3. disk[Catalog] # NoFile /\ disk[Loadouts] # NoFile
        BY <2>1
    <2> QED
        BY <2>1, <2>2, <2>3 DEF Sides, Side
<1>4. Lives'
    BY DEF Lives, Steady, Working, Done, HoldForRelaunch
<1>5. Promise'
    BY DEF Promise, Named, Done
<1>6. Progress'
    BY DEF Working, Progress, Done, HoldForRelaunch
<1>7. Asked'
    <2>1. /\ Working /\ asked' = asked /\ live' = live /\ disk' = disk
          /\ phase' = "idle" /\ loadout' = loadout
          /\ journal' = NoJournal \/ journal' = journal
        BY DEF Working, Done, HoldForRelaunch
    <2>2. \A p \in asked :
            /\ live[p].items = "own"
            /\ journal[p] # NoFile => journal[p].v <= live[p].v
            /\ disk[p] # NoFile => disk[p].v <= live[p].v
        BY <2>1, RunTexts
    <2> QED
        BY <2>1, <2>2 DEF Asked, NoJournal, TypeOK, Files
<1> QED
    BY <1>1, <1>2, <1>3, <1>4, <1>5, <1>6, <1>7

\* A run that failed gives back what it read.
LEMMA PutBackKeeps ==
    ASSUME Inv, PutBack
    PROVE  Inv'
<1> USE FilesApart, BoundsAreNumbers DEF Inv
<1>1. TypeOK'
    BY DEF TypeOK, PutBack, Tried, Write, WriteFails, Fault
<1>2. Flags'
    BY DEF Flags, Steady, PutBack
<1>3. Sides'
    BY DEF Sides, Working, Progress, Named, NoJournal, PutBack, Last
<1>4. Lives'
    <2>1. /\ Working /\ Working' /\ ~Steady' /\ Before' = Before
          /\ Before[Catalog] = NoFile /\ UNCHANGED live
        BY DEF Working, Steady, Before, Progress, PutBack
    <2> QED
        BY <2>1 DEF Lives, Side
<1>5. Promise'
    BY DEF TypeOK, Working, Promise, Progress, Files, Named, Saved, PutBack, Tried,
           Write, WriteFails
<1>6. Progress'
    BY DEF TypeOK, Working, Progress, Named, Saved, PutBack, Tried, Write, WriteFails
<1>7. Asked'
    BY DEF Flags, Asked, PutBack
<1> QED
    BY <1>1, <1>2, <1>3, <1>4, <1>5, <1>6, <1>7

\* A run that failed leaves no journal, or all of it.
LEMMA EndUndoKeeps ==
    ASSUME Inv, EndUndo
    PROVE  Inv'
<1> USE FilesApart, BoundsAreNumbers DEF Inv
<1>1. TypeOK'
    <2>1. sources' \in [Files -> MaybeText] /\ journal' \in [Files -> MaybeText]
        BY DEF TypeOK, EndUndo, GiveUp, HoldForRelaunch, NoJournal, MaybeText
    <2>2. phase' \in Phases /\ todo' \in SUBSET Files
        BY GiveUpTypes DEF EndUndo, HoldForRelaunch, Phases
    <2>3. pending' \in BOOLEAN
        BY DEF TypeOK, EndUndo, HoldForRelaunch
    <2>4. faults' \in Nat
        BY DEF TypeOK, EndUndo, Fault
    <2> QED
        BY <2>1, <2>2, <2>3, <2>4 DEF TypeOK, EndUndo
<1>2. Flags'
    BY DEF Flags, Steady, EndUndo, HoldForRelaunch, GiveUp, GoOn
<1>3. Sides'
    <2>1. journal # NoJournal /\ Working /\ disk' = disk
        BY DEF Flags, Working, EndUndo
    <2>2. ASSUME journal' = NoJournal
          PROVE  /\ disk = sources /\ disk[Catalog] = NoFile /\ disk[Loadouts] = NoFile
                 /\ \A f \in Files : disk[f] # NoFile => disk[f].items = "own"
        <3>1. Restored
            BY <2>1, <2>2 DEF EndUndo
        <3>2. \A f \in Files : disk[f] = sources[f]
            BY <2>1, <3>1 DEF Restored, Progress, Named
        <3>3. disk = sources
            BY <3>2 DEF TypeOK
        <3>4. sources[Catalog] = NoFile /\ sources[Loadouts] = NoFile
            BY <2>1 DEF Progress
        <3>5. \A p \in Profiles : sources[p] # NoFile => sources[p].items = "own"
            BY <2>1 DEF Progress, Saved
        <3> QED
            BY <3>3, <3>4, <3>5 DEF Files
    <2> QED
        BY <2>1, <2>2 DEF Sides, Side
<1>4. Lives'
    <2>1. /\ Working /\ ~Working' /\ disk' = disk /\ live' = live
          /\ sources[Catalog] = NoFile
        BY DEF Working, Progress, EndUndo, HoldForRelaunch, GiveUp, GoOn
    <2>2. ASSUME Steady'
          PROVE  disk = sources
        <3>1. Restored
            BY <2>2 DEF Steady, EndUndo, HoldForRelaunch
        <3>2. \A f \in Files : disk[f] = sources[f]
            BY <2>1, <3>1 DEF Restored, Progress, Named
        <3> QED
            BY <3>2 DEF TypeOK
    <2> QED
        BY <2>1, <2>2 DEF Lives, Side, Before
<1>5. Promise'
    BY DEF Promise, Named, EndUndo
<1>6. Progress'
    BY DEF Working, Progress, Files, EndUndo, Restored, HoldForRelaunch, GiveUp,
           GoOn, Copied
<1>7. Asked'
    <2>1. /\ Working /\ asked' = asked /\ live' = live /\ disk' = disk
          /\ phase' # "off" /\ phase' # "launch" /\ loadout' = loadout
          /\ pending' => journal' = journal \/ pending
          /\ ~pending
        BY DEF Working, Flags, EndUndo, HoldForRelaunch, GiveUp, GoOn
    <2>2. \A p \in asked :
            /\ live[p].items = "own"
            /\ journal[p] # NoFile => journal[p].v <= live[p].v
            /\ disk[p] # NoFile => disk[p].v <= live[p].v
        BY <2>1, RunTexts
    <2> QED
        BY <2>1, <2>2 DEF Asked
<1> QED
    BY <1>1, <1>2, <1>3, <1>4, <1>5, <1>6, <1>7

\* The copies of a run that gave up are no longer promised.
LEMMA TakeOutKeeps ==
    ASSUME Inv, TakeOut
    PROVE  Inv'
<1> USE FilesApart, BoundsAreNumbers DEF Inv
<1>1. TypeOK'
    BY DEF TypeOK, MaybeText, Phases, TakeOut, Fault, GoOn
<1>2. Flags'
    BY DEF Flags, Steady, TakeOut, GoOn
<1>3. Sides'
    BY DEF Sides, TakeOut
<1>4. Lives'
    BY DEF Lives, Steady, Working, Before, TakeOut, GoOn
<1>5. Promise'
    BY DEF Flags, Steady, Promise, TakeOut
<1>6. Progress'
    BY DEF Working, Progress, TakeOut, GoOn
<1>7. Asked'
    BY DEF Flags, Asked, TakeOut, GoOn
<1> QED
    BY <1>1, <1>2, <1>3, <1>4, <1>5, <1>6, <1>7

\* What launch loads of files on one side of the move is on that side.
LEMMA LoadedSides ==
    ASSUME TypeOK, NEW f \in Files,
           disk[f] # NoFile =>
               \/ disk[f].items = Side(disk)
               \/ /\ f \in Profiles /\ disk[Catalog] # NoFile
                  /\ disk[f].items = "back"
    PROVE  /\ \/ Loaded[f].items = Side(disk)
              \/ /\ f \in Profiles /\ disk[Catalog] # NoFile
                 /\ Loaded[f].items = "back"
                 /\ disk[f] # NoFile /\ disk[f].items = "back"
           /\ disk[f] # NoFile =>
               disk[f].v <= Loaded[f].v /\ disk[f].added \subseteq Loaded[f].added
<1>1. CASE disk[f] # NoFile
    <2>1. Loaded[f] = disk[f] /\ disk[f].v \in Nat
        BY <1>1 DEF Loaded, TypeOK, MaybeText, Texts
    <2> QED
        BY <1>1, <2>1
<1>2. CASE disk[f] = NoFile
    <2>1. Loaded[f] = New(Side(disk))
        BY <1>2 DEF Loaded, Side
    <2>2. New(Side(disk)).items = Side(disk)
        BY DEF New
    <2> QED
        BY <1>2, <2>1, <2>2
<1> QED
    BY <1>1, <1>2

\* A session starts on what the files hold.
LEMMA LaunchKeeps ==
    ASSUME Inv, Launch
    PROVE  Inv'
<1> USE FilesApart, BoundsAreNumbers DEF Inv
<1>1. TypeOK'
    <2>1. live' \in [Files -> Texts]
        BY LoadedTypes DEF TypeOK, Launch, Opens
    <2>2. loadout' \in BOOLEAN /\ pending' \in BOOLEAN
        BY DEF TypeOK, Launch, Opens
    <2>3. faults' \in Nat /\ crashes' \in Nat
        BY DEF TypeOK, Launch, Opens, Fault
    <2>4. phase' \in Phases /\ todo' \in SUBSET Files
        BY DEF TypeOK, Launch, Opens, Named, Phases
    <2> QED
        BY <2>1, <2>2, <2>3, <2>4 DEF TypeOK, Launch, diskVars
<1>2. Flags'
    BY DEF TypeOK, Flags, Steady, Launch, Opens, diskVars
<1>3. Sides'
    BY DEF Sides, Launch, diskVars
<1>4. Lives'
    <2>1. ~Working' /\ UNCHANGED <<disk, journal>>
        BY DEF Steady, Working, Launch, Opens, diskVars
    <2>2. Steady' => journal = NoJournal /\ live' = Loaded
        BY DEF Steady, Launch, Opens
    <2>3. Steady' => Lives'
        BY <2>1, <2>2, LoadedSides DEF Sides, Lives, Side, Before, Files
    <2> QED
        BY <2>1, <2>3 DEF Lives
<1>5. Promise'
    BY DEF Promise, Named, Launch, diskVars
<1>6. Progress'
    BY DEF Working, Progress, Named, Launch, Opens, diskVars
<1>7. Asked'
    BY DEF Flags, Asked, Launch, Opens
<1> QED
    BY <1>1, <1>2, <1>3, <1>4, <1>5, <1>6, <1>7

\* A launch writes what the journal names.
LEMMA FinishKeeps ==
    ASSUME Inv, Finish
    PROVE  Inv'
<1> USE FilesApart, BoundsAreNumbers DEF Inv
<1>1. TypeOK'
    BY DEF TypeOK, Finish, Tried, Write, WriteFails, Fault
<1>2. Flags'
    BY DEF Flags, Steady, Finish
<1>3. Sides'
    BY DEF Sides, Progress, Named, NoJournal, Finish, First
<1>4. Lives'
    BY DEF Lives, Steady, Working, Finish
<1>5. Promise'
    BY DEF TypeOK, Promise, Files, Named, Finish, Tried, Write, WriteFails
<1>6. Progress'
    BY DEF Working, Progress, Named, Finish
<1>7. Asked'
    BY DEF Flags, Asked, Finish
<1> QED
    BY <1>1, <1>2, <1>3, <1>4, <1>5, <1>6, <1>7

\* The journal goes once every file holds its text.
LEMMA FinishEndsKeeps ==
    ASSUME Inv, FinishEnds
    PROVE  Inv'
<1> USE FilesApart, BoundsAreNumbers DEF Inv
<1>1. TypeOK'
    <2>1. live' \in [Files -> Texts]
        BY LoadedTypes DEF TypeOK, FinishEnds, Opens
    <2>2. loadout' \in BOOLEAN /\ pending' \in BOOLEAN
        BY DEF TypeOK, FinishEnds, Opens
    <2>3. faults' \in Nat /\ crashes' \in Nat
        BY DEF TypeOK, FinishEnds, Opens, Fault
    <2>4. phase' \in Phases /\ todo' \in SUBSET Files
        BY DEF FinishEnds, Opens, Phases
    <2>5. journal' \in [Files -> MaybeText]
        BY DEF TypeOK, FinishEnds, NoJournal, MaybeText
    <2> QED
        BY <2>1, <2>2, <2>3, <2>4, <2>5 DEF TypeOK, FinishEnds
<1>2. Flags'
    BY DEF TypeOK, Flags, Steady, FinishEnds, Opens
<1>3. Sides'
    <2>1. disk' = disk
        BY DEF FinishEnds
    <2>2. ASSUME journal' = NoJournal, NEW f \in Files, disk[f] # NoFile
          PROVE  /\ disk[Catalog] # NoFile /\ disk[Loadouts] # NoFile
                 /\ \/ disk[f].items = Side(disk)
                    \/ f \in Profiles /\ disk[f].items = "back"
        <3>1. journal # NoJournal /\ Finished
            BY <2>2 DEF FinishEnds, Flags
        <3>2. disk[Catalog] # NoFile /\ disk[Loadouts] # NoFile
            BY <3>1 DEF Promise, Named, Finished
        <3>3. CASE f \in Named
            <4>1. disk[f] = journal[f] /\ journal[f].items = "moved"
                BY <3>1, <3>3 DEF Promise, Finished
            <4> QED
                BY <3>2, <4>1 DEF Side
        <3>4. CASE f \notin Named
            BY <2>2, <3>1, <3>2, <3>4 DEF Promise, Files
        <3> QED
            BY <3>2, <3>3, <3>4
    <2>3. journal' = NoJournal => disk[Catalog] # NoFile /\ disk[Loadouts] # NoFile
        BY DEF FinishEnds, Flags, Promise, Named, Finished
    <2> QED
        BY <2>1, <2>2, <2>3 DEF Sides, Side
<1>4. Lives'
    <2>1. ~Working' /\ UNCHANGED disk
        BY DEF Working, FinishEnds, Opens
    <2>2. Steady' => journal' = NoJournal /\ live' = Loaded
        BY DEF Steady, FinishEnds, Opens
    <2>3. Steady' => Lives'
        BY <1>3, <2>1, <2>2, LoadedSides DEF Sides, Lives, Side, Before, Files
    <2> QED
        BY <2>1, <2>3 DEF Lives
<1>5. Promise'
    BY DEF Promise, Named, FinishEnds
<1>6. Progress'
    BY DEF Working, Progress, FinishEnds, Opens
<1>7. Asked'
    BY DEF Flags, Asked, FinishEnds, Opens
<1> QED
    BY <1>1, <1>2, <1>3, <1>4, <1>5, <1>6, <1>7

\* Nothing on disk changes where Vosh ends.
LEMMA CrashKeeps ==
    ASSUME Inv, Crash
    PROVE  Inv'
<1> USE FilesApart, BoundsAreNumbers DEF Inv
<1>1. TypeOK'
    <2>1. live' \in [Files -> Texts]
        BY LoadedTypes DEF Crash, Ends
    <2>2. faults' \in Nat /\ crashes' \in Nat
        BY DEF TypeOK, Crash, Ends
    <2>3. sources' \in [Files -> MaybeText]
        BY DEF Crash, Ends, NoJournal, MaybeText
    <2> QED
        BY <2>1, <2>2, <2>3 DEF TypeOK, Crash, Ends, diskVars, Phases
<1>2. Flags'
    BY DEF Flags, Steady, Crash, Ends
<1>3. Sides'
    BY DEF Sides, Crash, Ends, diskVars
<1>4. Lives'
    BY DEF Lives, Steady, Working, Crash, Ends
<1>5. Promise'
    BY DEF Promise, Named, Crash, Ends, diskVars
<1>6. Progress'
    BY DEF Working, Progress, Crash, Ends
<1>7. Asked'
    BY DEF Asked, Crash, Ends
<1> QED
    BY <1>1, <1>2, <1>3, <1>4, <1>5, <1>6, <1>7

\* Nothing on disk changes when you quit.
LEMMA QuitKeeps ==
    ASSUME Inv, Quit
    PROVE  Inv'
<1> USE FilesApart, BoundsAreNumbers DEF Inv
<1>1. TypeOK'
    BY LoadedTypes DEF TypeOK, Quit, Ends, diskVars, NoJournal, MaybeText, Phases
<1>2. Flags'
    BY DEF Flags, Steady, Quit, Ends
<1>3. Sides'
    BY DEF Sides, Quit, Ends, diskVars
<1>4. Lives'
    BY DEF Lives, Steady, Working, Quit, Ends
<1>5. Promise'
    BY DEF Promise, Named, Quit, Ends, diskVars
<1>6. Progress'
    BY DEF Working, Progress, Quit, Ends
<1>7. Asked'
    BY DEF Asked, Quit, Ends
<1> QED
    BY <1>1, <1>2, <1>3, <1>4, <1>5, <1>6, <1>7

\* The copies go while no journal promises them.
LEMMA MoveCopiesKeeps ==
    ASSUME Inv, MoveCopies
    PROVE  Inv'
<1> USE FilesApart, BoundsAreNumbers DEF Inv
<1>1. TypeOK'
    BY DEF TypeOK, Files, NoJournal, MoveCopies
<1>2. Flags'
    BY DEF Flags, MoveCopies
<1>3. Sides'
    BY DEF Sides, MoveCopies
<1>4. Lives'
    BY DEF Lives, Steady, Working, MoveCopies
<1>5. Promise'
    BY DEF Promise, MoveCopies
<1>6. Progress'
    BY DEF Working, Progress, MoveCopies
<1>7. Asked'
    BY DEF Asked, MoveCopies
<1> QED
    BY <1>1, <1>2, <1>3, <1>4, <1>5, <1>6, <1>7

-----------------------------------------------------------------------------
(* Theorems                                                                *)

\* Vosh is closed and no run has begun.
LEMMA InitHolds == JInit => Inv
<1> SUFFICES ASSUME JInit
             PROVE  Inv
    OBVIOUS
<1> USE FilesApart DEF JInit, NoJournal, Files
<1>0. disk \in [Files -> {NoFile, New("own")}]
    OBVIOUS
<1>1. disk \in [Files -> MaybeText]
    <2>1. New("own") \in Texts
        BY NewTypes
    <2> QED
        BY <1>0, <2>1 DEF MaybeText
<1>2. live \in [Files -> Texts]
    <2>1. \A f \in Files : disk[f] # NoFile => disk[f] \in Texts
        BY <1>1 DEF MaybeText
    <2>2. New("own") \in Texts /\ New("moved") \in Texts
        BY NewTypes
    <2>3. \A f \in Files : Loaded[f] \in Texts
        BY <2>1, <2>2 DEF Loaded
    <2> QED
        BY <2>3 DEF Loaded
<1>3. TypeOK
    BY <1>1, <1>2 DEF TypeOK, MaybeText, Phases
<1>4. Flags /\ Lives
    BY DEF Flags, Lives, Steady, Working
<1>5. Sides
    <2>1. \A f \in Files : disk[f] # NoFile => disk[f].items = "own"
        BY <1>0, NewTypes
    <2> QED
        BY <2>1 DEF Sides, Side
<1>6. Promise /\ Progress /\ Asked
    BY DEF Promise, Progress, Asked, Working
<1> QED
    BY <1>3, <1>4, <1>5, <1>6 DEF Inv

\* Every step keeps it.
LEMMA StepHolds == Inv /\ [JNext]_jvars => Inv'
<1> SUFFICES ASSUME Inv, [JNext]_jvars
             PROVE  Inv'
    OBVIOUS
<1>1. ASSUME NEW f \in Files, Edit(f)
      PROVE  Inv'
    BY <1>1, EditKeeps
<1>2. ASSUME NEW p \in Profiles, SaveStarts(p)
      PROVE  Inv'
    BY <1>2, SaveStartsKeeps
<1>6. ASSUME NEW p \in Profiles, CommandLooks(p) \/ CommandWrites(p)
      PROVE  Inv'
    BY <1>6, CommandLooksKeeps, CommandWritesKeeps
<1>3. CASE Works
    BY <1>3, SaveWritesKeeps, FlushKeeps, ReadKeeps, CopyKeeps, SaveJournalKeeps,
       WriteSharedKeeps, DoneKeeps, PutBackKeeps, EndUndoKeeps, TakeOutKeeps,
       FinishKeeps, FinishEndsKeeps DEF Works
<1>4. CASE Apply \/ Launch \/ Crash \/ Quit \/ MoveCopies
    BY <1>4, ApplyKeeps, LaunchKeeps, CrashKeeps, QuitKeeps, MoveCopiesKeeps
<1>5. CASE UNCHANGED jvars
    BY <1>5 DEF jvars, diskVars, Inv, TypeOK, Flags, Sides, Side, Lives, Promise,
       Progress, Asked, Steady, Working, Before, Saved, Named
<1> QED
    BY <1>1, <1>2, <1>3, <1>4, <1>5, <1>6 DEF JNext

\* The invariant holds of every state Vosh can be in.
LEMMA InvHolds == JSpec => []Inv
BY InitHolds, StepHolds, PTL DEF JSpec

(* Every variable keeps its type.                                          *)
THEOREM JournalTypes == JSpec => []TypeOK
<1>1. Inv => TypeOK
    BY DEF Inv
<1> QED
    BY <1>1, InvHolds, PTL

(* No session runs on the catalog while a profile file holds the items it  *)
(* had before the move and the move has yet to take, or while a journal is *)
(* left (finish_wizard_run in journal.rs, load in launch.rs).  A file may  *)
(* hold items it got since: in a session that ran without the catalog, or  *)
(* by a #profile save that looked at the flags before the move was over.   *)
THEOREM CatalogRunsWhole == JSpec => []LoadoutModeWhole
<1>1. Inv => LoadoutModeWhole
    BY DEF Inv, Flags, Sides, Side, Steady, LoadoutModeWhole, Files
<1> QED
    BY <1>1, InvHolds, PTL

(* A profile file loses the items it had before the move to a text of the  *)
(* move only once its full copy is in profiles/legacy, across crashes and  *)
(* relaunches (apply_migration).                                           *)
THEOREM CopiesFirst == JSpec => CopiesComeFirst
<1>1. Inv /\ [JNext]_jvars => [CopyFirst]_jvars
    <2> SUFFICES ASSUME Inv, JNext, NEW p \in Profiles,
                        disk[p] # NoFile, disk'[p] # NoFile,
                        disk[p].items = "own", disk'[p].items = "moved"
                 PROVE  copies[p] = disk[p]
        BY DEF CopyFirst
    <2> USE DEF Inv
    <2>0. p \in Files /\ disk \in [Files -> MaybeText]
        BY DEF Files, TypeOK
    <2>1. journal # NoJournal => copies[p] = disk[p]
        BY DEF Promise
    <2>2. ASSUME Steady
          PROVE  ~loadout /\ live[p].items = "own"
        <3>1. journal = NoJournal /\ disk[Catalog] = NoFile
            BY <2>0, <2>2 DEF Flags, Sides, Side
        <3>2. Before = disk
            BY <2>2 DEF Before, Working, Steady
        <3> QED
            BY <2>0, <2>2, <3>1, <3>2 DEF Flags, Lives, Side
    <2>3. CASE SaveWrites
        <3>1. ~loadout /\ live[p].items = "own"
            BY <2>2, <2>3 DEF SaveWrites, Steady
        <3>2. disk'[p] = disk[p] \/ disk'[p] = live[p]
            BY <2>0, <2>3, <3>1 DEF SaveWrites, Tried, Write, WriteFails, Text
        <3> QED
            BY <3>1, <3>2
    <2>4. CASE Flush
        <3>1. live[p].items = "own"
            BY <2>2, <2>4 DEF Flush, Steady
        <3>2. disk'[p] = disk[p] \/ disk'[p] = live[p]
            BY <2>0, <2>4 DEF Flush, Tried, Write, WriteFails
        <3> QED
            BY <3>1, <3>2
    <2>5. ASSUME NEW q \in Profiles, CommandWrites(q)
          PROVE  copies[p] = disk[p]
        <3>1. CASE journal = NoJournal
            <4>1. q = p /\ phase = "idle" /\ disk'[p] = Typed(p) /\ p \in asked
                BY <2>0, <2>5 DEF CommandWrites, Tried, Write, WriteFails
            <4>2. ~pending
                BY <2>0, <3>1 DEF Flags, Sides, Side
            <4>3. live[p].items = "own"
                BY <2>2, <4>1, <4>2 DEF Steady
            <4>4. Typed(p).items \in {"own", "back"}
                BY <4>3, TypedTypes
            <4> QED
                BY <4>1, <4>4
        <3>2. CASE journal # NoJournal
            BY <2>1, <3>2
        <3> QED
            BY <3>1, <3>2
    <2>6. CASE WriteShared
        BY <2>1, <2>6 DEF WriteShared, Flags
    <2>7. CASE PutBack
        BY <2>1, <2>7 DEF PutBack, Flags
    <2>8. CASE Finish
        BY <2>1, <2>8 DEF Finish, Flags
    <2>9. CASE Read \/ Copy \/ SaveJournal \/ Done \/ EndUndo \/ TakeOut \/ FinishEnds
        BY <2>0, <2>9 DEF Read, Copy, SaveJournal, Done, EndUndo, TakeOut,
           FinishEnds, diskVars
    <2>10. CASE Apply \/ Launch \/ Crash \/ Quit \/ MoveCopies
        BY <2>0, <2>10 DEF Apply, Launch, Crash, Quit, Ends, MoveCopies, diskVars
    <2>11. CASE \/ \E f \in Files : Edit(f)
                \/ \E q \in Profiles : SaveStarts(q) \/ CommandLooks(q)
        BY <2>0, <2>11 DEF Edit, SaveStarts, CommandLooks, diskVars
    <2> QED
        BY <2>3, <2>4, <2>5, <2>6, <2>7, <2>8, <2>9, <2>10, <2>11 DEF JNext, Works
<1>2. JSpec => [][JNext]_jvars
    BY DEF JSpec
<1> QED
    BY <1>1, <1>2, InvHolds, PTL DEF CopiesComeFirst

-----------------------------------------------------------------------------
(* What you add in a session without the catalog                           *)

Adds(text) == IF text = NoFile THEN {} ELSE text.added

\* A text with the items of before the move has none that were added.
OwnAlone ==
    \A p \in Profiles :
        /\ live[p].items = "own" => live[p].added = {}
        /\ disk[p] # NoFile /\ disk[p].items = "own" => disk[p].added = {}

\* Neither has a text a run writes or puts back, nor any profile file until
\* the relaunch that a run asks for.
RunAlone ==
    /\ journal # NoJournal \/ pending =>
        \A p \in Profiles : Adds(disk[p]) = {} /\ Adds(journal[p]) = {}
    /\ Working => \A p \in Profiles : Adds(sources[p]) = {}

\* What a file has, the text a save would write has too.
LiveHolds == Steady => \A p \in Profiles : Adds(disk[p]) \subseteq live[p].added

\* A save in loadout mode that is past the catalog merged its profile.
CatalogTakes ==
    phase = "save" /\ loadout /\ Catalog \notin todo =>
        \A p \in todo \cap Profiles : live[p].added \subseteq live[Catalog].added

AddsInv == OwnAlone /\ RunAlone /\ LiveHolds /\ CatalogTakes

\* A step that leaves the texts alone, and opens no phase that writes them.
LEMMA QuietAdds ==
    ASSUME Inv, AddsInv, UNCHANGED <<disk, journal, live, pending, loadout>>,
           ~Working', Steady' => Steady, CatalogTakes'
    PROVE  AddsInv'
BY DEF AddsInv, OwnAlone, RunAlone, LiveHolds, Adds

\* What a launch loads has what the files have.
LEMMA LoadedAdds ==
    ASSUME Inv, AddsInv, NEW p \in Profiles
    PROVE  /\ Loaded[p].items = "own" => Loaded[p].added = {}
           /\ Adds(disk[p]) \subseteq Loaded[p].added
<1>1. p \in Files
    BY DEF Files
<1>2. Loaded[p] = IF disk[p] # NoFile THEN disk[p]
                  ELSE IF disk[Catalog] # NoFile THEN New("moved") ELSE New("own")
    BY <1>1 DEF Loaded
<1>3. CASE disk[p] # NoFile
    BY <1>2, <1>3 DEF AddsInv, OwnAlone, Adds
<1>4. CASE disk[p] = NoFile
    BY <1>2, <1>4, NewTypes DEF Adds
<1> QED
    BY <1>3, <1>4

\* Vosh ends, or opens.
LEMMA LoadsAdds ==
    ASSUME Inv, AddsInv, disk' = disk, live' = Loaded,
           journal' = journal \/ journal' = NoJournal,
           phase' \in {"off", "idle"}, pending' => journal' = journal /\ journal # NoJournal
    PROVE  AddsInv'
<1>1. OwnAlone'
    BY LoadedAdds DEF AddsInv, OwnAlone
<1>2. RunAlone'
    <2>1. \A p \in Profiles : Adds(NoJournal[p]) = {}
        BY DEF NoJournal, Files, Adds
    <2> QED
        BY <2>1 DEF AddsInv, RunAlone, Working, Adds
<1>3. LiveHolds'
    BY LoadedAdds DEF LiveHolds, Adds
<1>4. CatalogTakes'
    BY DEF CatalogTakes
<1> QED
    BY <1>1, <1>2, <1>3, <1>4 DEF AddsInv

\* One profile file gets what a save would write, and the texts stay.
LEMMA SavedAdds ==
    ASSUME Inv, AddsInv, UNCHANGED <<journal, live, pending, loadout, sources>>,
           NEW p \in Profiles, NEW text \in Texts,
           disk' = disk \/ disk' = [disk EXCEPT ![p] = text],
           text.added \subseteq live[p].added, text.items = "own" => text.added = {},
           journal # NoJournal \/ pending => text.added = {},
           Working' => Working, Steady' => Steady, CatalogTakes'
    PROVE  AddsInv'
<1>1. \A q \in Profiles : disk'[q] = disk[q] \/ (q = p /\ disk'[q] = text)
    BY DEF Inv, TypeOK, Files
<1>2. text # NoFile
    BY FilesApart
<1> QED
    BY <1>1, <1>2 DEF AddsInv, OwnAlone, RunAlone, LiveHolds, Adds, Working

\* You change a text.
LEMMA EditAdds ==
    ASSUME Inv, AddsInv, NEW f \in Files, Edit(f)
    PROVE  AddsInv'
<1>1. PICK items \in SUBSET ({f} \cap Profiles) :
        /\ items # {} => ~loadout /\ live[f].items = "moved"
        /\ live' = [live EXCEPT ![f].v = @ + 1, ![f].added = @ \cup items]
    BY DEF Edit
<1>2. UNCHANGED <<disk, journal, loadout, pending, phase, todo, sources>>
    BY DEF Edit, diskVars
<1>3. \A g \in Files :
        /\ live'[g].items = live[g].items /\ live[g].added \subseteq live'[g].added
        /\ loadout \/ live[g].items # "moved" => live'[g].added = live[g].added
    BY <1>1 DEF Inv, TypeOK, Texts
<1>4. \A p \in Profiles : p \in Files
    BY DEF Files
<1>5. OwnAlone'
    BY <1>2, <1>3, <1>4 DEF AddsInv, OwnAlone
<1>6. RunAlone'
    BY <1>2 DEF AddsInv, RunAlone, Working, Adds
<1>7. LiveHolds'
    BY <1>2, <1>3, <1>4 DEF AddsInv, LiveHolds, Steady, Adds
<1>8. CatalogTakes'
    BY <1>2, <1>3, <1>4 DEF AddsInv, CatalogTakes, Files
<1> QED
    BY <1>5, <1>6, <1>7, <1>8 DEF AddsInv

\* A save writes a file.
LEMMA SaveWritesAdds ==
    ASSUME Inv, AddsInv, SaveWrites
    PROVE  AddsInv'
<1>1. PICK f \in First(todo) \ asked :
        /\ Tried(f, Text(f)) /\ GoOn(todo \ {f}, "save")
        /\ live' = IF f = Catalog THEN [live EXCEPT ![f] = Text(f)] ELSE live
    BY DEF SaveWrites
<1>2. /\ f \in Files /\ f \in todo /\ (f \in Profiles \/ loadout) /\ todo' = todo \ {f}
      /\ f \in Profiles => Catalog \notin todo
    BY <1>1, FilesApart DEF Inv, SaveWrites, First, TypeOK, Progress, Files, GoOn
<1>3. /\ phase = "save" /\ journal = NoJournal /\ Steady /\ ~pending
      /\ phase' \in {"save", "idle"}
      /\ UNCHANGED <<journal, loadout, pending, sources>>
    BY <1>1 DEF Inv, SaveWrites, Flags, Steady, GoOn
<1>4. disk' = disk \/ disk' = [disk EXCEPT ![f] = Text(f)]
    BY <1>1 DEF Tried, Write, WriteFails
<1>5. /\ disk \in [Files -> MaybeText] /\ live \in [Files -> Texts]
      /\ \A p \in Profiles : p \in Files /\ p # Catalog /\ p # Loadouts
    BY FilesApart DEF Inv, TypeOK, Files
<1>6. CASE f \in Profiles
    <2>1. live' = live
        BY <1>1, <1>5, <1>6
    <2>2. Text(f) \in Texts
        BY <1>2, TextTypes DEF Inv
    <2>3. /\ Text(f).added \subseteq live[f].added
          /\ Text(f).items = "own" => Text(f).added = {}
        <3>1. CASE ~loadout
            BY <1>6, <3>1 DEF Text, AddsInv, OwnAlone
        <3>2. CASE loadout
            BY <1>5, <1>6, <3>2 DEF Text, Texts
        <3> QED
            BY <3>1, <3>2
    <2>4. CatalogTakes'
        BY <1>2, <1>3, <1>6, <2>1, FilesApart DEF AddsInv, CatalogTakes
    <2> QED
        BY <1>3, <1>4, <1>6, <2>1, <2>2, <2>3, <2>4, SavedAdds DEF Working, Steady
<1>7. CASE f \notin Profiles
    <2>1. loadout /\ \A p \in Profiles : disk'[p] = disk[p] /\ live'[p] = live[p]
        BY <1>1, <1>2, <1>4, <1>5, <1>7
    <2>2. OwnAlone' /\ RunAlone' /\ LiveHolds'
        BY <1>3, <2>1 DEF AddsInv, OwnAlone, RunAlone, LiveHolds, Working, Adds
    <2>3. CatalogTakes'
        <3>1. CASE f = Catalog
            <4>1. live'[Catalog].added =
                    live[Catalog].added \cup UNION {live[p].added : p \in todo \cap Profiles}
                BY <1>1, <1>2, <1>5, <2>1, <3>1 DEF Text, Texts
            <4> QED
                BY <1>2, <2>1, <4>1 DEF CatalogTakes
        <3>2. CASE f # Catalog
            BY <1>1, <1>2, <1>3, <2>1, <3>2 DEF AddsInv, CatalogTakes
        <3> QED
            BY <3>1, <3>2
    <2> QED
        BY <2>2, <2>3 DEF AddsInv
<1> QED
    BY <1>6, <1>7

\* A #profile save writes the text of its profile.
LEMMA CommandAdds ==
    ASSUME Inv, AddsInv, NEW p \in Profiles, CommandWrites(p)
    PROVE  AddsInv'
<1>1. /\ p \in asked /\ p \in Files
      /\ UNCHANGED <<journal, live, loadout, pending, phase, todo, sources>>
    BY DEF CommandWrites, Files
<1>2. live[p] \in Texts /\ Typed(p) \in Texts /\ Typed(p).added = live[p].added
      /\ (Typed(p).items = "own" => live[p].items = "own")
    BY <1>1 DEF Inv, TypeOK, Typed, Texts
<1>3. CASE phase = "idle"
    <2>1. disk' = disk \/ disk' = [disk EXCEPT ![p] = Typed(p)]
        BY <1>3 DEF CommandWrites, Tried, Write, WriteFails
    <2>2. journal # NoJournal => pending
        BY <1>3 DEF Inv, Flags, Steady
    <2>3. pending => live[p].added = {}
        BY <1>1 DEF Inv, Asked, AddsInv, OwnAlone
    <2>4. CatalogTakes'
        BY <1>1, <1>3 DEF CatalogTakes
    <2>5. Typed(p).items = "own" => Typed(p).added = {}
        BY <1>2 DEF AddsInv, OwnAlone
    <2> QED
        BY <1>1, <1>2, <2>1, <2>2, <2>3, <2>4, <2>5, SavedAdds DEF Working, Steady
<1>4. CASE phase # "idle"
    <2>1. disk' = disk
        BY <1>4 DEF CommandWrites
    <2>2. CatalogTakes'
        BY <1>1 DEF AddsInv, CatalogTakes
    <2> QED
        BY <1>1, <2>1, <2>2 DEF AddsInv, OwnAlone, RunAlone, LiveHolds, Working, Steady, Adds
<1> QED
    BY <1>3, <1>4

\* The run, from its saves to its end.
LEMMA RunAdds ==
    ASSUME Inv, AddsInv, Flush \/ SaveJournal \/ WriteShared \/ Done \/ PutBack \/ EndUndo
    PROVE  AddsInv'
<1>1. \A p \in Profiles : p \in Files /\ p # Catalog /\ p # Loadouts
    BY FilesApart DEF Files
<1>2. CASE Flush
    <2>1. PICK p \in todo \ asked : Tried(p, live[p]) /\ todo' = todo \ {p}
        BY <1>2 DEF Flush
    <2>2. /\ p \in Profiles /\ phase = "flush" /\ phase' = "flush"
          /\ journal = NoJournal /\ ~pending
          /\ UNCHANGED <<journal, live, loadout, pending, sources>>
        BY <1>2, <2>1 DEF Inv, Flush, Progress, Flags, Steady
    <2>3. disk' = disk \/ disk' = [disk EXCEPT ![p] = live[p]]
        BY <2>1 DEF Tried, Write, WriteFails
    <2>4. live[p] \in Texts /\ (live[p].items = "own" => live[p].added = {})
        BY <1>1, <2>2 DEF Inv, TypeOK, AddsInv, OwnAlone
    <2>5. CatalogTakes'
        BY <2>2 DEF CatalogTakes
    <2> QED
        BY <2>2, <2>3, <2>4, <2>5, SavedAdds DEF Working, Steady
<1>3. CASE SaveJournal
    <2>1. /\ phase = "copy" /\ ~pending /\ sources = disk
          /\ UNCHANGED <<disk, live, pending, loadout>>
        BY <1>3 DEF Inv, SaveJournal, Progress, Flags, Steady
    <2>2. \A p \in Profiles : Adds(disk[p]) = {}
        <3>1. disk[Catalog] = NoFile /\ journal = NoJournal
            BY <2>1 DEF Inv, Progress, Flags, Steady
        <3>2. \A p \in Profiles : disk[p] # NoFile => disk[p].items = "own"
            BY <1>1, <3>1 DEF Inv, Sides, Side
        <3> QED
            BY <3>2 DEF AddsInv, OwnAlone, Adds
    <2>3. ASSUME NEW p \in Profiles PROVE Adds(journal'[p]) = {}
        <3>1. CASE journal' = journal
            BY <2>1, <3>1, <1>1 DEF Inv, Flags, Steady, NoJournal, Adds
        <3>2. CASE \E listed \in SUBSET (Profiles \ Saved) : journal' = Plan(listed)
            <4>1. PICK listed \in SUBSET (Profiles \ Saved) : journal' = Plan(listed)
                BY <3>2
            <4>2. New("moved").added = {} /\ [New("moved") EXCEPT !.v = sources[p].v].added = {}
                BY DEF New
            <4> QED
                BY <1>1, <4>1, <4>2 DEF Plan, Adds
        <3> QED
            BY <1>3, <3>1, <3>2 DEF SaveJournal
    <2>4. phase' \in {"write", "idle", "uncopy"}
        BY <1>3 DEF SaveJournal, GiveUp, GoOn
    <2>5. sources' = sources \/ (sources' = NoJournal /\ ~Working')
        BY <1>3 DEF SaveJournal, GiveUp, GoOn, Working
    <2> QED
        BY <2>1, <2>2, <2>3, <2>4, <2>5
        DEF AddsInv, OwnAlone, RunAlone, LiveHolds, CatalogTakes, Steady, Working, Adds
<1>4. CASE WriteShared \/ PutBack
    <2>1. journal # NoJournal /\ Working /\ phase' \in {"write", "undo"}
          /\ UNCHANGED <<journal, live, loadout, pending, sources>>
        BY <1>4 DEF Inv, WriteShared, PutBack, Flags, Working
    <2>2. \A p \in Profiles :
            \/ disk'[p] = disk[p] \/ disk'[p] = journal[p] \/ disk'[p] = sources[p]
        BY <1>1, <1>4 DEF Inv, TypeOK, WriteShared, PutBack, Tried, Write, WriteFails
    <2>3. \A p \in Profiles : Adds(disk'[p]) = {}
        BY <2>1, <2>2 DEF AddsInv, RunAlone, Adds
    <2> QED
        BY <2>1, <2>3
        DEF AddsInv, OwnAlone, RunAlone, LiveHolds, CatalogTakes, Steady, Working, Adds
<1>5. CASE Done \/ EndUndo
    <2>1. /\ journal # NoJournal /\ phase' \in {"idle", "uncopy"}
          /\ UNCHANGED <<disk, live, loadout>>
          /\ journal' = journal \/ journal' = NoJournal
        BY <1>5 DEF Inv, Done, EndUndo, Flags, GiveUp, GoOn, HoldForRelaunch
    <2>2. \A p \in Profiles : Adds(disk[p]) = {} /\ Adds(journal'[p]) = {}
        BY <1>1, <2>1 DEF AddsInv, RunAlone, NoJournal, Adds
    <2> QED
        BY <2>1, <2>2
        DEF AddsInv, OwnAlone, RunAlone, LiveHolds, CatalogTakes, Working, Adds
<1> QED
    BY <1>2, <1>3, <1>4, <1>5

\* Every step keeps it.
LEMMA AddsStep == Inv /\ AddsInv /\ [JNext]_jvars => AddsInv'
<1> SUFFICES ASSUME Inv, AddsInv, [JNext]_jvars
             PROVE  AddsInv'
    OBVIOUS
<1>1. ASSUME NEW f \in Files, Edit(f)
      PROVE  AddsInv'
    BY <1>1, EditAdds
<1>2. ASSUME NEW p \in Profiles, SaveStarts(p)
      PROVE  AddsInv'
    <2>1. /\ phase = "idle" /\ (loadout \/ ~pending) /\ phase' = "save"
          /\ loadout => Catalog \in todo'
          /\ UNCHANGED <<disk, journal, live, pending, loadout>>
        BY <1>2 DEF SaveStarts, diskVars
    <2>2. CatalogTakes' /\ ~Working' /\ Steady
        BY <2>1 DEF Inv, Flags, CatalogTakes, Working, Steady
    <2> QED
        BY <2>1, <2>2, QuietAdds
<1>3. ASSUME NEW p \in Profiles, CommandLooks(p)
      PROVE  AddsInv'
    BY <1>3 DEF CommandLooks, diskVars, AddsInv, OwnAlone, RunAlone, LiveHolds,
       CatalogTakes, Steady, Working, Adds
<1>4. ASSUME NEW p \in Profiles, CommandWrites(p)
      PROVE  AddsInv'
    BY <1>4, CommandAdds
<1>5. CASE SaveWrites
    BY <1>5, SaveWritesAdds
<1>6. CASE Flush \/ SaveJournal \/ WriteShared \/ Done \/ PutBack \/ EndUndo
    BY <1>6, RunAdds
<1>7. CASE Apply
    <2>1. /\ phase' = "flush" /\ ~pending /\ phase = "idle"
          /\ UNCHANGED <<disk, journal, live, pending, loadout>>
        BY <1>7 DEF Inv, Apply, Flags, diskVars
    <2> QED
        BY <2>1, QuietAdds DEF CatalogTakes, Working, Steady
<1>8. CASE Read \/ Copy \/ TakeOut \/ MoveCopies
    <2>1. /\ phase' \in {"copy", "idle", "uncopy", "off", "flush"}
          /\ phase \in {"flush", "copy", "uncopy", "off"}
          /\ phase = "off" => phase' = "off"
          /\ UNCHANGED <<disk, journal, live, pending, loadout>>
        BY <1>8 DEF Read, Copy, TakeOut, MoveCopies, GiveUp, GoOn, diskVars
    <2> QED
        BY <2>1, QuietAdds DEF CatalogTakes, Working, Steady
<1>9. CASE Finish
    <2>1. phase = "launch" /\ phase' = "launch" /\ journal # NoJournal
          /\ UNCHANGED <<journal, live, loadout, pending>>
        BY <1>9 DEF Inv, Finish, Flags
    <2>2. \A p \in Profiles : disk'[p] = disk[p] \/ disk'[p] = journal[p]
        BY <1>9, FilesApart DEF Inv, TypeOK, Files, Finish, Tried, Write, WriteFails
    <2>3. \A p \in Profiles : Adds(disk'[p]) = {}
        BY <2>1, <2>2 DEF AddsInv, RunAlone, Adds
    <2> QED
        BY <2>1, <2>3
        DEF AddsInv, OwnAlone, RunAlone, LiveHolds, CatalogTakes, Steady, Working, Adds
<1>10. CASE Launch
    <2>1. CASE phase' = "launch"
        <3>1. UNCHANGED <<disk, journal, live, pending, loadout>>
            BY <1>10, <2>1 DEF Launch, Opens, diskVars
        <3> QED
            BY <2>1, <3>1, QuietAdds DEF CatalogTakes, Working, Steady
    <2>2. CASE phase' # "launch"
        <3>1. /\ UNCHANGED <<disk, journal>> /\ live' = Loaded /\ phase' = "idle"
              /\ pending' => journal # NoJournal
            BY <1>10, <2>2 DEF Launch, Opens, diskVars
        <3> QED
            BY <3>1, LoadsAdds
    <2> QED
        BY <2>1, <2>2
<1>11. CASE FinishEnds
    <2>1. /\ disk' = disk /\ live' = Loaded /\ phase' = "idle"
          /\ journal' = journal \/ journal' = NoJournal
          /\ pending' => journal' = journal /\ journal # NoJournal
        BY <1>11 DEF Inv, FinishEnds, Opens, Flags
    <2> QED
        BY <2>1, LoadsAdds
<1>12. CASE Crash \/ Quit
    <2>1. /\ UNCHANGED <<disk, journal>> /\ live' = Loaded /\ phase' = "off" /\ ~pending'
        BY <1>12 DEF Crash, Quit, Ends, diskVars
    <2> QED
        BY <2>1, LoadsAdds
<1>13. CASE UNCHANGED jvars
    BY <1>13 DEF jvars, diskVars, AddsInv, OwnAlone, RunAlone, LiveHolds, CatalogTakes,
       Steady, Working, Adds
<1> QED
    BY <1>1, <1>2, <1>3, <1>4, <1>5, <1>6, <1>7, <1>8, <1>9, <1>10, <1>11, <1>12, <1>13
    DEF JNext, Works

(* Items you added in a session that ran without the catalog leave a       *)
(* profile file only by a save in loadout mode, once the catalog that      *)
(* session runs on has taken them (persist_loadout_mode).  The write of    *)
(* that catalog may still have failed.                                     *)
THEOREM AddedGoToCatalog == JSpec => AddedTaken
<1>1. JInit => AddsInv
    <2> SUFFICES ASSUME JInit PROVE AddsInv
        OBVIOUS
    <2>1. \A p \in Profiles : p \in Files
        BY DEF Files
    <2>2. New("own").added = {} /\ New("own").items = "own"
        BY DEF New
    <2>3. \A p \in Profiles :
            /\ disk[p] \in {NoFile, New("own")} /\ live[p] = New("own")
            /\ journal[p] = NoFile
        BY <2>1 DEF JInit, Loaded, NoJournal
    <2> QED
        BY <2>2, <2>3 DEF JInit, AddsInv, OwnAlone, RunAlone, LiveHolds, CatalogTakes,
           Steady, Working, Adds
<1>2. Inv /\ AddsInv /\ [JNext]_jvars => [Taken]_jvars
    <2> SUFFICES ASSUME Inv, AddsInv, JNext, NEW p \in Profiles,
                        disk[p] # NoFile, p \in disk[p].added,
                        disk'[p] = NoFile \/ p \notin disk'[p].added
                 PROVE  loadout /\ p \in live[Catalog].added
        BY DEF Taken
    <2>0. /\ p \in Files /\ p # Catalog /\ p # Loadouts /\ disk \in [Files -> MaybeText]
          /\ live \in [Files -> Texts]
        BY FilesApart DEF Inv, Files, TypeOK
    <2>1. journal = NoJournal /\ ~pending
        BY DEF AddsInv, RunAlone, Adds
    <2>2. Steady => p \in live[p].added
        BY DEF AddsInv, LiveHolds, Adds
    <2>3. disk' # disk
        OBVIOUS
    <2>4. CASE SaveWrites
        <3>1. PICK f \in First(todo) \ asked : Tried(f, Text(f))
            BY <2>4 DEF SaveWrites
        <3>2. phase = "save" /\ Steady
            BY <2>4 DEF SaveWrites, Steady
        <3>3. f = p /\ disk'[p] = Text(p)
            BY <2>0, <2>3, <3>1 DEF Tried, Write, WriteFails
        <3>4. loadout
            BY <2>0, <2>2, <3>2, <3>3, FilesApart DEF Text
        <3>5. Catalog \notin todo /\ p \in todo
            BY <2>0, <3>1, <3>3 DEF First
        <3> QED
            BY <2>2, <3>2, <3>4, <3>5 DEF AddsInv, CatalogTakes
    <2>5. CASE Flush
        <3>1. phase = "flush" /\ Steady
            BY <2>5 DEF Flush, Steady
        <3>2. disk'[p] = live[p]
            BY <2>0, <2>3, <2>5 DEF Flush, Tried, Write, WriteFails
        <3> QED
            BY <2>0, <2>2, <3>1, <3>2, FilesApart
    <2>6. ASSUME NEW q \in Profiles, CommandWrites(q)
          PROVE  FALSE
        <3>1. phase = "idle" /\ Steady
            BY <2>1, <2>3, <2>6 DEF CommandWrites, Steady
        <3>2. disk'[p] = Typed(p)
            BY <2>0, <2>3, <2>6 DEF CommandWrites, Tried, Write, WriteFails
        <3>3. Typed(p).added = live[p].added /\ Typed(p) \in Texts
            BY <2>0 DEF Typed, Texts
        <3> QED
            BY <2>2, <3>1, <3>2, <3>3, FilesApart
    <2>7. CASE WriteShared \/ PutBack \/ Finish
        BY <2>1, <2>7 DEF WriteShared, PutBack, Finish, Inv, Flags
    <2>8. CASE Read \/ Copy \/ SaveJournal \/ Done \/ EndUndo \/ TakeOut \/ FinishEnds
        BY <2>3, <2>8 DEF Read, Copy, SaveJournal, Done, EndUndo, TakeOut,
           FinishEnds, diskVars
    <2>9. CASE Apply \/ Launch \/ Crash \/ Quit \/ MoveCopies
        BY <2>3, <2>9 DEF Apply, Launch, Crash, Quit, Ends, MoveCopies, diskVars
    <2>10. CASE \/ \E f \in Files : Edit(f)
                \/ \E q \in Profiles : SaveStarts(q) \/ CommandLooks(q)
        BY <2>3, <2>10 DEF Edit, SaveStarts, CommandLooks, diskVars
    <2> QED
        BY <2>4, <2>5, <2>6, <2>7, <2>8, <2>9, <2>10 DEF JNext, Works
<1>3. JSpec => []AddsInv
    BY <1>1, InvHolds, AddsStep, PTL DEF JSpec
<1>4. JSpec => [][JNext]_jvars
    BY DEF JSpec
<1> QED
    BY <1>2, <1>3, <1>4, InvHolds, PTL DEF AddedTaken

-----------------------------------------------------------------------------
(* The refinement                                                          *)

content == [f \in Files |-> IF journal[f] # NoFile THEN journal[f] ELSE disk[f]]
undo == IF phase \in {"write", "undo"} THEN sources ELSE NoMove
late == {p \in asked : live[p].items = "own"}

\* A step that only ends commands leaves late as it is but for those.
LEMMA LateKeeps ==
    ASSUME asked' \subseteq asked, \A p \in asked' : live'[p].items = live[p].items
    PROVE  late' \subseteq late /\ (asked' = asked => late' = late)
BY DEF late

\* A step that changes neither a file nor a run at most gives a command up.
LEMMA Stutters ==
    ASSUME UNCHANGED <<disk, journal>>, ~Working, ~Working', late' \subseteq late
    PROVE  Promised!GivesUp
BY DEF Promised!GivesUp, Working, content, undo, late

\* With no journal the files hold what they hold.
LEMMA NoneLeft == TypeOK /\ journal = NoJournal => content = disk
BY DEF TypeOK, NoJournal, content

\* A write of a save, of the flush of a run, or of a command in time, is a
\* save of Move.
LEMMA SaveMaps ==
    ASSUME Inv, NEW f \in Files, Steady, f \in Profiles \/ loadout,
           NEW text \in Texts,
           \/ text.items = Side(disk)
           \/ disk[f] # NoFile /\ disk[f].items = "back" /\ text.items = "back",
           disk[f] # NoFile => disk[f].v <= text.v,
           f = Catalog /\ disk[f] # NoFile => disk[f].added \subseteq text.added,
           Tried(f, text), journal' = journal, ~Working', late' \subseteq late
    PROVE  Promised!Next
<1> USE FilesApart DEF Inv
<1>1. journal = NoJournal /\ ~Working
    BY DEF Flags, Steady, Working
<1>2. CASE WriteFails(f, text)
    BY <1>1, <1>2, Stutters DEF WriteFails, Promised!Next
<1>3. CASE Write(f, text)
    <2>1. undo = NoMove /\ undo' = NoMove
        BY <1>1 DEF undo, Working
    <2>2. content = disk /\ content' = [disk EXCEPT ![f] = text]
        BY <1>1, <1>3 DEF TypeOK, NoJournal, content, Write
    <2>3. f \in {Catalog, Loadouts} => disk[f] # NoFile
        BY <1>1 DEF Flags, Sides
    <2>4. disk \in [Files -> MaybeText]
        BY DEF TypeOK
    <2>5. disk[f] # NoFile => text.v >= disk[f].v
        BY <2>4 DEF Texts, MaybeText
    <2>6. f = Catalog => disk[f].added \subseteq text.added
        BY <2>3
    <2>7. /\ content'[f] = text
          /\ \A other \in Files \ {f} : content'[other] = content[other]
        BY <2>2, <2>4
    <2>8. Side(disk) = IF content[Catalog] # NoFile THEN "moved" ELSE "own"
        BY <2>2 DEF Side
    <2>9. Promised!Save(f)
        BY <2>1, <2>2, <2>3, <2>5, <2>6, <2>7, <2>8
           DEF Promised!Save, Promised!Moved, Promised!Files, Promised!Texts,
               Files, Texts, content, undo, late
    <2> QED
        BY <2>9 DEF Promised!Next, Promised!Files, Files
<1> QED
    BY <1>2, <1>3 DEF Tried

\* The journal, once it is saved, promises every write of the run.
LEMMA JournalMaps ==
    ASSUME Inv, SaveJournal
    PROVE  Promised!Next
<1> USE FilesApart DEF Inv
<1>1. /\ phase = "copy" /\ journal = NoJournal /\ sources = disk
      /\ disk[Catalog] = NoFile /\ disk[Loadouts] = NoFile /\ disk' = disk
      /\ late' = late
    BY LateKeeps DEF SaveJournal, Flags, Steady, Progress
<1>2. ASSUME NEW listed \in SUBSET (Profiles \ Saved), journal' = Plan(listed)
      PROVE  Promised!Begin
    <2>1. phase' = "write" /\ sources' = sources
        <3>1. Plan(listed) # NoJournal
            BY PlanTypes DEF NoJournal, Files
        <3> QED
            BY <1>1, <1>2, <3>1 DEF SaveJournal
    <2>2. undo = NoMove /\ undo' = content /\ content = disk
        BY <1>1, <2>1, NoneLeft DEF undo
    <2>3. content' = Plan(listed)
        <3>1. \A f \in Files : Plan(listed)[f] = NoFile => disk[f] = NoFile
            BY <1>1, PlanTypes DEF Saved, Files
        <3> QED
            BY <1>1, <1>2, <3>1, PlanTypes DEF content, Plan
    <2>4. \A p \in Profiles :
            content[p] # NoFile => content'[p] # NoFile /\ content'[p].v = content[p].v
        BY <1>1, <2>2, <2>3, PlanTypes DEF Saved, Files
    <2>5. /\ content' \in [Files -> MaybeText] /\ content[Catalog] = NoFile
          /\ content'[Catalog] # NoFile /\ content'[Loadouts] # NoFile
          /\ \A f \in Files : content'[f] # NoFile => content'[f].items = "moved"
        BY <1>1, <2>2, <2>3, PlanTypes DEF Files
    <2>6. undo = NoMove /\ undo' = content /\ late' = late
        BY <1>1, <2>2
    <2> QED
        BY <2>4, <2>5, <2>6 DEF Promised!Begin, Promised!Moved,
           Promised!Files, Promised!Texts, Files, Texts, MaybeText, content, undo, late
<1>3. CASE UNCHANGED journal /\ GiveUp
    BY <1>1, <1>3, Stutters DEF GiveUp, GoOn, Working, Promised!Next
<1> QED
    BY <1>2, <1>3 DEF SaveJournal, Promised!Next

\* A run that goes on writes or puts back only what its journal names.
LEMMA RunMaps ==
    ASSUME Inv, NEW f \in Named,
           disk' = disk \/ (\E text : disk' = [disk EXCEPT ![f] = text]),
           UNCHANGED <<journal, sources, asked, live>>, Working <=> Working'
    PROVE  UNCHANGED <<content, undo, late>>
<1>1. disk \in [Files -> MaybeText]
    BY DEF Inv, TypeOK
<1> QED
    BY <1>1 DEF content, undo, late, Working, Named

\* A run that is over, done or stopped, settles.
LEMMA OverMaps ==
    ASSUME Inv, Working, ~Working', UNCHANGED content, late' \subseteq late
    PROVE  Promised!Settle
<1>1. undo \in [Files -> Texts \cup {NoFile}] /\ undo' = NoMove
    BY DEF Inv, TypeOK, MaybeText, undo, Working
<1> QED
    BY <1>1, FilesApart DEF Promised!Settle, content, undo, late

\* A command looks where the move may still be undone, or finds no item of
\* its profile that is not moved.
LEMMA LooksMaps ==
    ASSUME Inv, NEW p \in Profiles, CommandLooks(p)
    PROVE  Promised!Looks(p) \/ UNCHANGED <<content, undo, late>>
<1> USE FilesApart DEF Inv
<1>1. /\ UNCHANGED <<content, undo>> /\ live' = live /\ asked' = asked \cup {p}
      /\ ~pending /\ phase \notin {"off", "launch"} /\ p \in Files
    BY DEF CommandLooks, diskVars, content, undo, Files
<1>2. CASE live[p].items # "own"
    BY <1>1, <1>2 DEF late
<1>3. CASE live[p].items = "own"
    <2>1. late' = late \cup {p}
        BY <1>1, <1>3 DEF late
    <2>2. content[Catalog] = NoFile \/ undo # NoMove
        <3>1. CASE Working
            <4>1. sources # NoMove
                BY DEF TypeOK, MaybeText
            <4> QED
                BY <3>1, <4>1 DEF undo, Working
        <3>2. CASE ~Working
            <4>1. Steady /\ journal = NoJournal /\ Before = disk
                BY <1>1, <3>2 DEF TypeOK, Phases, Working, Steady, Flags, Before
            <4>2. disk[Catalog] = NoFile
                BY <1>1, <1>3, <4>1 DEF Lives, Side
            <4> QED
                BY <4>1, <4>2, NoneLeft
        <3> QED
            BY <3>1, <3>2
    <2> QED
        BY <1>1, <2>1, <2>2 DEF Promised!Looks, Promised!Moved, content, undo, late
<1> QED
    BY <1>2, <1>3

\* A command in time saves, one too late for the move writes the items back,
\* and one that finds the lock taken gives up.
LEMMA CommandMaps ==
    ASSUME Inv, NEW p \in Profiles, CommandWrites(p)
    PROVE  Promised!Next
<1> USE FilesApart DEF Inv
<1>1. /\ p \in asked /\ asked' = asked \ {p} /\ p \in Files /\ ~loadout
      /\ UNCHANGED <<journal, live, phase, sources, pending>>
    BY DEF CommandWrites, Asked, Files
<1>2. late' = late \ {p} /\ undo' = undo /\ (Working <=> Working')
    BY <1>1 DEF late, undo, Working
<1>3. /\ Typed(p) \in Texts /\ Typed(p).v = live[p].v
      /\ Typed(p).items =
             IF Over /\ live[p].items = "own" THEN "back" ELSE live[p].items
    BY TypedTypes
<1>4. CASE disk' = disk
    <2>1. content' = content
        BY <1>1, <1>4 DEF content
    <2>2. Promised!GivesUp
        BY <1>2, <2>1 DEF Promised!GivesUp, content, undo, late
    <2> QED
        BY <2>2 DEF Promised!Next
<1>5. CASE phase = "idle" /\ ~pending /\ Tried(p, Typed(p))
    <2>1. Steady /\ Before = disk /\ journal = NoJournal /\ ~Working
        BY <1>5 DEF Steady, Before, Working, Flags
    <2>2. /\ \/ live[p].items = Side(disk)
             \/ /\ live[p].items = "back"
                /\ disk[p] # NoFile /\ disk[p].items = "back"
          /\ disk[p] # NoFile => disk[p].v <= live[p].v
        BY <1>1, <2>1 DEF Lives
    <2>3. \/ Typed(p).items = Side(disk)
          \/ disk[p] # NoFile /\ disk[p].items = "back" /\ Typed(p).items = "back"
        BY <1>3, <2>1, <2>2 DEF Over, Side
    <2>4. p # Catalog /\ late' \subseteq late /\ ~Working'
        BY <1>2, <2>1
    <2> QED
        BY <1>1, <1>3, <1>5, <2>1, <2>2, <2>3, <2>4, SaveMaps
<1>6. CASE phase = "idle" /\ pending /\ disk' = [disk EXCEPT ![p] = Typed(p)]
    <2>1. /\ live[p].items = "own"
          /\ journal[p] = NoFile /\ disk[p] # NoFile => disk[p].v <= live[p].v
          /\ journal # NoJournal \/ disk[Catalog] # NoFile
        BY <1>1, <1>6 DEF Asked, Flags
    <2>2. Typed(p).items = "back" /\ undo = NoMove /\ p \in late
        BY <1>1, <1>3, <1>6, <2>1 DEF Over, undo, late
    <2>3. CASE journal[p] # NoFile
        <3>1. content' = content
            BY <1>1, <1>6, <2>3 DEF content, TypeOK
        <3>2. Promised!GivesUp
            BY <1>2, <3>1 DEF Promised!GivesUp, content, undo, late
        <3> QED
            BY <3>2 DEF Promised!Next
    <2>4. CASE journal[p] = NoFile
        <3>1. disk \in [Files -> MaybeText]
            BY DEF TypeOK
        <3>2. /\ content'[p] = Typed(p) /\ content[p] = disk[p]
              /\ \A other \in Files \ {p} : content'[other] = content[other]
            BY <1>1, <1>6, <2>4, <3>1 DEF content
        <3>3. content[Catalog] # NoFile
            BY <2>1 DEF content, Promise, Named, Files
        <3>4. content[p] # NoFile => content'[p].v >= content[p].v
            <4>1. disk[p] # NoFile => disk[p].v \in Nat /\ disk[p].v <= live[p].v
                BY <1>1, <2>1, <2>4, <3>1 DEF MaybeText, Texts
            <4>2. live[p].v \in Nat
                BY <1>1 DEF TypeOK, Texts
            <4> QED
                BY <1>3, <3>2, <4>1, <4>2
        <3>5. Promised!SavesBack(p)
            BY <1>2, <1>3, <2>2, <3>2, <3>3, <3>4
               DEF Promised!SavesBack, Promised!Moved, Promised!Files,
                   Promised!Texts, Files, Texts, content, undo, late
        <3> QED
            BY <3>5 DEF Promised!Next
    <2> QED
        BY <2>3, <2>4
<1> QED
    BY <1>4, <1>5, <1>6 DEF CommandWrites, Tried, Write, WriteFails

(* Across crashes, failed writes and relaunches the wizard, the saves, the *)
(* #profile saves and the launch implement Move: the files move together   *)
(* or not at all, each save is of the side the files are on, and only a    *)
(* command that looked at the flags before a run was over writes items     *)
(* back over it (apply_migration, finish_wizard_run, persist_state,        *)
(* slash_profile).                                                         *)
THEOREM MovesWhole == JSpec => Implements
<1> USE FilesApart
<1>1. JInit => Promised!Init
    <2> SUFFICES ASSUME JInit
                 PROVE  Promised!Init
        OBVIOUS
    <2>1. disk \in [Files -> {NoFile, New("own")}]
        BY DEF JInit
    <2>2. disk \in [Files -> MaybeText]
        <3>1. New("own") \in Texts
            BY NewTypes
        <3> QED
            BY <2>1, <3>1 DEF MaybeText
    <2>3. content = disk /\ undo = NoMove /\ late = {}
        BY <2>2 DEF content, undo, late, JInit, NoJournal
    <2>4. \A p \in Profiles : disk[p] # NoFile => disk[p].items = "own"
        BY <2>1, NewTypes DEF Files
    <2>5. disk[Catalog] = NoFile /\ disk[Loadouts] = NoFile
        BY DEF JInit
    <2> QED
        BY <2>2, <2>3, <2>4, <2>5 DEF Promised!Init, content, undo, late, MaybeText,
           Files, Texts, Promised!Files, Promised!Texts
<1>2. Inv /\ [JNext]_jvars => [Promised!Next]_<<content, undo, late>>
    <2> SUFFICES ASSUME Inv, JNext
                 PROVE  \/ Promised!Next
                        \/ content' = content /\ undo' = undo /\ late' = late
        BY DEF jvars, diskVars, content, undo, late
    <2> USE DEF Inv
    <2>0. Promised!GivesUp => Promised!Next
        BY DEF Promised!Next
    <2>1. CASE SaveWrites
        <3>1. PICK f \in First(todo) \ asked :
                /\ Tried(f, Text(f)) /\ GoOn(todo \ {f}, "save")
                /\ live' = IF f = Catalog THEN [live EXCEPT ![f] = Text(f)] ELSE live
            BY <2>1 DEF SaveWrites
        <3>2. f \in Files /\ (f \in Profiles \/ loadout)
            BY <2>1, <3>1 DEF SaveWrites, First, TypeOK, Progress, Files
        <3>3. /\ Steady /\ ~Working' /\ Before = disk /\ journal' = journal
              /\ asked' = asked
              /\ loadout => disk[Catalog] # NoFile
            BY <2>1, <3>1 DEF SaveWrites, GoOn, Working, Steady, Before, Flags
        <3>4. late' = late
            <4>1. \A p \in asked : p \in Files /\ p # Catalog
                BY DEF TypeOK, Files
            <4>2. \A p \in asked : live'[p] = live[p]
                BY <3>1, <4>1 DEF TypeOK
            <4> QED
                BY <3>3, <4>2 DEF late
        <3>5. /\ \/ live[f].items = Side(disk)
                 \/ /\ f \in Profiles /\ live[f].items = "back"
                    /\ loadout \/ (disk[f] # NoFile /\ disk[f].items = "back")
              /\ disk[f] # NoFile => disk[f].v <= live[f].v
              /\ f = Catalog /\ disk[f] # NoFile =>
                    disk[f].added \subseteq live[f].added
            BY <3>2, <3>3 DEF Lives
        <3>6. /\ Text(f) \in Texts /\ Text(f).v = live[f].v
              /\ ~loadout \/ f = Catalog => Text(f).items = live[f].items
              /\ loadout /\ f # Catalog => Text(f).items = "moved"
              /\ f = Catalog => live[f].added \subseteq Text(f).added
            BY <3>2, TextTypes
        <3>7. \/ Text(f).items = Side(disk)
              \/ disk[f] # NoFile /\ disk[f].items = "back" /\ Text(f).items = "back"
            BY <3>2, <3>3, <3>5, <3>6 DEF Side
        <3> QED
            BY <3>1, <3>2, <3>3, <3>4, <3>5, <3>6, <3>7, SaveMaps
    <2>2. CASE Flush
        <3>1. PICK p \in todo \ asked : Tried(p, live[p])
            BY <2>2 DEF Flush
        <3>2. /\ p \in Profiles /\ p \in Files /\ Steady /\ ~Working' /\ Before = disk
              /\ UNCHANGED <<journal, asked, live>> /\ disk[Catalog] = NoFile
            BY <2>2, <3>1 DEF Flush, Progress, Files, Steady, Working, Before
        <3>3. late' = late /\ live[p] \in Texts
            BY <3>2, LateKeeps DEF TypeOK
        <3>4. live[p].items = Side(disk) /\ (disk[p] # NoFile => disk[p].v <= live[p].v)
            BY <3>2 DEF Lives, Side
        <3> QED
            BY <3>1, <3>2, <3>3, <3>4, SaveMaps
    <2>3. CASE SaveJournal
        BY <2>3, JournalMaps
    <2>4. CASE WriteShared
        <3>1. PICK f \in First(todo) : Write(f, journal[f]) \/ WriteFails(f, journal[f])
            BY <2>4 DEF WriteShared
        <3>2. f \in Named
            BY <2>4, <3>1 DEF WriteShared, First, Progress, Working
        <3> QED
            BY <2>4, <3>1, <3>2, RunMaps DEF WriteShared, Write, WriteFails, Working
    <2>5. CASE PutBack
        <3>1. PICK f \in Last(todo) : Tried(f, sources[f])
            BY <2>5 DEF PutBack
        <3>2. f \in Named
            BY <2>5, <3>1 DEF PutBack, Last, Progress, Working
        <3> QED
            BY <2>5, <3>1, <3>2, RunMaps DEF PutBack, Tried, Write, WriteFails,
               Working
    <2>6. CASE Finish
        <3>1. PICK f \in First(todo) : Tried(f, journal[f])
            BY <2>6 DEF Finish
        <3>2. f \in Named
            BY <2>6, <3>1 DEF Finish, First, Progress
        <3> QED
            BY <2>6, <3>1, <3>2, RunMaps DEF Finish, Tried, Write, WriteFails, Working
    <2>7. CASE Done
        <3>1. \A f \in Files : journal[f] # NoFile => disk[f] = journal[f]
            BY <2>7 DEF Done, Progress, Named
        <3>2. UNCHANGED content
            BY <2>7, <3>1 DEF Done, content, NoJournal
        <3>3. late' \subseteq late
            BY <2>7, LateKeeps DEF Done
        <3> QED
            BY <2>7, <3>2, <3>3, OverMaps
               DEF Done, HoldForRelaunch, Working, Promised!Next
    <2>8. CASE EndUndo /\ journal' = journal
        <3>1. UNCHANGED content /\ Working /\ ~Working' /\ late' \subseteq late
            BY <2>8, LateKeeps
               DEF EndUndo, content, HoldForRelaunch, GiveUp, GoOn, Working
        <3> QED
            BY <3>1, OverMaps DEF Promised!Next
    <2>9. CASE EndUndo /\ journal' # journal
        <3>1. Restored /\ journal' = NoJournal /\ GiveUp /\ disk' = disk /\ phase = "undo"
            BY <2>9 DEF EndUndo
        <3>2. \A f \in Files : disk[f] = sources[f]
            BY <3>1 DEF Restored, Progress, Working, Named
        <3>3. content' = sources /\ late' = late
            BY <2>9, <3>1, <3>2, LateKeeps DEF EndUndo, content, NoJournal, TypeOK
        <3>4. undo = sources /\ undo' = NoMove /\ sources # NoMove
            BY <3>1 DEF undo, GiveUp, GoOn, TypeOK, MaybeText
        <3> QED
            BY <3>3, <3>4 DEF Promised!Next, Promised!Undo, content, undo, late
    <2>10. CASE FinishEnds
        <3>1. disk' = disk /\ ~Working /\ ~Working' /\ asked = {} /\ asked' = {}
            BY <2>10 DEF FinishEnds, Opens, Working, Asked
        <3>2. late = {} /\ late' = {}
            BY <3>1 DEF late
        <3>3. UNCHANGED content
            <4>1. CASE Finished /\ journal' = NoJournal
                BY <3>1, <4>1 DEF Finished, Named, content, NoJournal
            <4>2. CASE journal' = journal
                BY <3>1, <4>2 DEF content
            <4> QED
                BY <2>10, <4>1, <4>2 DEF FinishEnds
        <3> QED
            BY <3>1, <3>2, <3>3 DEF undo, Working
    <2>11. CASE Crash
        <3>1. /\ UNCHANGED <<disk, journal, content>> /\ ~Working'
              /\ late' \subseteq late
            BY <2>11 DEF Crash, Ends, diskVars, content, late, Working
        <3>2. CASE Working
            BY <3>1, <3>2, OverMaps DEF Promised!Next
        <3>3. CASE ~Working
            BY <2>0, <3>1, <3>3, Stutters
        <3> QED
            BY <3>2, <3>3
    <2>12. CASE Read \/ Copy \/ TakeOut
        <3>1. late' \subseteq late
            BY <2>12, LateKeeps DEF Read, Copy, TakeOut
        <3> QED
            BY <2>0, <2>12, <3>1, Stutters
               DEF Read, Copy, TakeOut, GiveUp, GoOn, diskVars, Working
    <2>13. CASE Apply \/ Launch \/ Quit \/ MoveCopies
        <3>1. late' \subseteq late
            <4>1. CASE Apply \/ MoveCopies
                BY <4>1, LateKeeps DEF Apply, MoveCopies
            <4>2. CASE Launch
                BY <4>2 DEF Launch, Asked, late
            <4>3. CASE Quit
                BY <4>3 DEF Quit, Ends, late
            <4> QED
                BY <2>13, <4>1, <4>2, <4>3
        <3> QED
            BY <2>0, <2>13, <3>1, Stutters
               DEF Apply, Launch, Opens, Quit, Ends, MoveCopies, diskVars, Working
    <2>14. ASSUME NEW f \in Files, Edit(f)
           PROVE  content' = content /\ undo' = undo /\ late' = late
        <3>1. \A g \in Files : live'[g].items = live[g].items
            BY <2>14 DEF Edit, TypeOK, Texts
        <3>2. late' = late
            BY <2>14, <3>1, LateKeeps DEF Edit, TypeOK, Files
        <3> QED
            BY <2>14, <3>2 DEF Edit, diskVars, content, undo
    <2>15. ASSUME NEW p \in Profiles, SaveStarts(p)
           PROVE  content' = content /\ undo' = undo /\ late' = late
        BY <2>15 DEF SaveStarts, diskVars, Working, content, undo, late, Flags
    <2>16. ASSUME NEW p \in Profiles, CommandLooks(p) \/ CommandWrites(p)
           PROVE  \/ Promised!Next
                  \/ content' = content /\ undo' = undo /\ late' = late
        BY <2>16, LooksMaps, CommandMaps DEF Promised!Next
    <2> QED
        BY <2>1, <2>2, <2>3, <2>4, <2>5, <2>6, <2>7, <2>8, <2>9, <2>10, <2>11, <2>12,
           <2>13, <2>14, <2>15, <2>16 DEF JNext, Works
<1> QED
    BY <1>1, <1>2, InvHolds, PTL DEF Implements, Promised!Spec, Promised!vars,
       content, undo, late, JSpec
=============================================================================
