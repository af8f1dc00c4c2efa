-------------------------------- MODULE Move --------------------------------
(***************************************************************************)
(* What the move to loadouts promises, told without its writes: the texts  *)
(* of catalog.toml, loadouts.toml and every profile file change together,  *)
(* or not at all, and a run that failed gives back each text it had.       *)
(* Between two moves a save only takes a text on.  It never writes the     *)
(* items of a profile back once the catalog holds them, but for a command  *)
(* given before the move was over.                                         *)
(***************************************************************************)
EXTENDS Integers

CONSTANTS
    Profiles,  \* the profile files
    Catalog,   \* catalog.toml
    Loadouts,  \* loadouts.toml
    NoFile,    \* what a file that is not there holds
    NoMove     \* what undo is between two runs

Files == Profiles \cup {Catalog, Loadouts}

\* A text counts the changes in it.  The aliases, triggers and macros it had
\* before the move are its own, moved to the catalog, or back in it over the
\* move.  added names the profiles whose later items it holds.
Texts == [items : {"own", "moved", "back"}, added : SUBSET Profiles, v : Nat]

VARIABLES
    content,   \* what each file holds, the writes a journal promises done
    undo,      \* what a run still open gives back when it fails
    late       \* the profiles with a save under way that looked before the
               \* move was over

vars == <<content, undo, late>>

Moved == content[Catalog] # NoFile

\* No catalog yet, and no item in it.
Init ==
    /\ content \in [Files -> Texts \cup {NoFile}]
    /\ \A f \in {Catalog, Loadouts} : content[f] = NoFile
    /\ \A p \in Profiles : content[p] # NoFile => content[p].items = "own"
    /\ undo = NoMove /\ late = {}

\* A save of one file: as new as the last, and of this side of the move, or
\* back where it was already.  The catalog keeps the items it took.
Save(f) ==
    /\ undo = NoMove
    /\ content'[f] \in Texts
    /\ \/ content'[f].items = IF Moved THEN "moved" ELSE "own"
       \/ /\ content[f] # NoFile /\ content[f].items = "back"
          /\ content'[f].items = "back"
    /\ f \in {Catalog, Loadouts} => content[f] # NoFile
    /\ content[f] # NoFile => content'[f].v >= content[f].v
    /\ f = Catalog => content[f].added \subseteq content'[f].added
    /\ \A other \in Files \ {f} : content'[other] = content[other]
    /\ undo' = undo /\ late' \subseteq late

\* A command to save a profile looks, while the move may still be undone.
Looks(p) ==
    /\ ~Moved \/ undo # NoMove
    /\ late' = late \cup {p}
    /\ UNCHANGED <<content, undo>>

\* It writes the items of its profile back, once the move is over.
SavesBack(p) ==
    /\ undo = NoMove /\ Moved
    /\ p \in late
    /\ content'[p] \in Texts
    /\ content'[p].items = "back"
    /\ content[p] # NoFile => content'[p].v >= content[p].v
    /\ \A other \in Files \ {p} : content'[other] = content[other]
    /\ undo' = undo /\ late' \subseteq late \ {p}

\* It comes too late for a write, or Vosh ends.
GivesUp == late' \subseteq late /\ UNCHANGED <<content, undo>>

\* Every file there is moves, with the changes it held.  A profile that
\* never saved one may get one.
Begin ==
    /\ undo = NoMove /\ ~Moved
    /\ content' \in [Files -> Texts \cup {NoFile}]
    /\ \A f \in {Catalog, Loadouts} : content'[f] # NoFile
    /\ \A f \in Files : content'[f] # NoFile => content'[f].items = "moved"
    /\ \A p \in Profiles :
        content[p] # NoFile => content'[p] # NoFile /\ content'[p].v = content[p].v
    /\ undo' = content /\ late' = late

\* The run failed, and every text is back.
Undo ==
    /\ undo # NoMove
    /\ content' = undo /\ undo' = NoMove /\ late' = late

\* The run is over, done or left for the next launch.
Settle ==
    /\ undo # NoMove
    /\ undo' = NoMove /\ UNCHANGED content /\ late' \subseteq late

Next ==
    \/ Begin \/ Undo \/ Settle \/ GivesUp
    \/ \E f \in Files : Save(f)
    \/ \E p \in Profiles : Looks(p) \/ SavesBack(p)

Spec == Init /\ [][Next]_vars
=============================================================================
