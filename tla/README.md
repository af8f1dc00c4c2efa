# Vosh in TLA+

Vosh is a MUD client: a Tauri app whose Rust side runs one task per connection and whose page draws what those
tasks send. Most of what can go wrong in it, and that a unit test hardly reaches, happens where commands of the
page, the task of a connection, its timers and the game meet. These modules model those parts, TLC checks them on
small instances, and TLAPS proves the main invariants for every instance.

Paths below are under `src/src-tauri/src/` unless they say otherwise.

| To | run |
|---|---|
| check a run | `tlc -config Link.cfg Link`; where a module has an instance, `tlc -config Walk.cfg MCWalk`, `Saves.cfg MCSaves`, `Takeover.cfg MCTakeover` |
| check the proofs | `tlapm LinkProofs.tla`, and so on for each `*Proofs.tla` |

## Inventory

| Component | Source | State | Operations | Meets | What is hard | Correct when |
|---|---|---|---|---|---|---|
| Session link | `session.rs`, `session/reconnect.rs`, `session/conn.rs`, `ipc/session.rs` | the slot and its lock, the series, `LinkWatch`, the loop's stage, the state the page shows | Connect, Disconnect, Close, Cancel, a try, the loop's start and teardown | every other part of a session | awaits between take and put, aborts at any await, a drop during a command | a Disconnect keeps the session down, no link or series is out of reach, rows and page agree with the link |
| Telnet and window size | `src/crates/protocol/src/telnet/negotiator.rs`, `session/read.rs`, `session/echo.rs` | both sides of each option, the size, the names, who echoes | answers to WILL, WONT, DO, DONT, SEND; a resize | the link (a size before the slot holds a handle), the log (hidden lines) | offers that cross requests, sizes that cross both | both sides end agreed, the game holds the size, no loop of answers |
| Outgoing stream | `session/socket.rs`, `session/pace.rs` | the hold, the pace's bucket and queue, the count of repeats | four ways to write, hold, release, the timer, a change of pace | triggers, Lua, timers, typed lines, the walker, the writer | a call that offers several lines, a hold over lines that wait, a pace that changes | order, counts and rate are kept and no line stays behind |
| Walker | `session/walk.rs`, `input/walk.rs` | the walk, the one that waits, the step in flight, the room and its exits | `#walk`, stop, a click, each answer of the game, the backstop | the stream, the read loop, GMCP | answers that are late, missing or another command's | one step is under way at most, and a step leaves from the room it was planned for |
| Takeover between sessions | `session/reconnect.rs`, `session/gmcp.rs` | what each session plays, `took_at`, the picked character, the series | log in, tell the others, answer Y, drop, look, dial | two links | a login told late, a drop before it, a look as a login comes | no try takes back a character another session took |
| Writing card | `session/writer.rs`, `session/writer/` | the job, its stage, the lines unconfirmed, the armed tick | send a text, read one, post, answers by prompt and by time | the hold, the game's editor | a tick before its text, an answer after its time, a text or chat that reads like an answer | no line of a job goes where the game reads it as a command, and the card says what happened |
| Sessions, profiles and saves | `sessions.rs`, `profile/switch.rs`, `profile/open.rs`, `input/profile.rs`, `disk/save.rs` | the map of sessions, the profile each plays, the profiles open, marks, the debounce, `PERSIST_LOCK` | open, join, close, switch, mark, persist, reset, load | every step that locks a profile | a switch while a step waits for the lock, a mark during a write, a close beside a save | a step runs under the profile its session plays, and a change reaches the disk |
| Wizard, journal and launch | `loadouts/wizard/`, `app/launch.rs`, `disk/atomic.rs` | the files, the journal, the copies, the relaunch it asks for | run the wizard, undo, launch, save | saves, exit | a crash between two files, a write that fails on the way back | a launch finds the old files or all the new ones, and the copies are there first |
| Tick count | `tick.rs` | the last tick, in session or not | start, end, reset, count | the loop | small | its mark agrees with the link |
| Automation | `src/crates/automation` | aliases, triggers, variables | match, expand | the read loop | patterns, not orders | |
| Prompt engine, log store, Lua, import | `src/crates/prompt`, `log`, `script`, `import.rs` | their own | render, append, run, read | the read loop | data, not orders | |
| Native renderer and page | `native.rs`, `src/src/` | scrollback, panes | draw | events | drawing | |

The last four have no module: what is hard in them is text and data, one task at a time, and their own unit tests go
through it by example; SQLite orders the log's rows. The tick count's mark of being in session is in `Link`; its
arithmetic on times is not.

## Modules

| Module | Models | Kind |
|---|---|---|
| `Link`, `LinkProofs` | one session's link | specification, safety and liveness; theorems |
| `Telnet`, `TelnetProofs` | one connection's negotiation and the window's size | specification, safety and liveness; theorems |
| `Stream`, `StreamProofs` | one connection's hold and pace | specification, safety and liveness; theorems |
| `Walk`, `MCWalk`, `WalkProofs` | one connection's walker, its loop and the game it walks in | specification, safety and liveness; a small map and three plans; theorems |
| `Takeover`, `MCTakeover`, `TakeoverProofs` | the sessions on one game and the characters they take from each other | specification and safety; an instance with its symmetry; theorems |
| `Saves`, `MCSaves`, `SavesProofs` | the sessions, the profiles open and every save of them | specification and safety; an instance with its symmetry; theorems |
| `Move` | what the move to loadouts promises | abstract specification |
| `Journal`, `JournalProofs` | the wizard, its journal, the launch and the saves beside them | implements `Move`; safety and liveness; theorems |
| `Writer`, `WriterProofs` | the writing card's job, the hold and the game's editor | specification, safety and liveness; theorems |

`Link` has one session in full; `Takeover` has several, with a dial and its abort as one step each. `Saves` has the
sessions as the owners of profiles and leaves loadout mode out; `Journal` has what loadout mode adds to a save and
leaves the sessions out. `Writer` keeps of `Stream` the hold alone.

In every module a definition `D_Something`, just before `D`, is `D` with a mistake a change of the code could make.
Each property is known to notice the mistake that `PROJECT.json` pairs with it. The types of `Link`, `Telnet`,
`Journal`, `Saves` and `Takeover` are proved, and no run checks them again.

### Link

`slot` is `Session::slot` and `owner` the task that holds its lock across an await. Each link that reaches the game
has a number; `phase` follows its loop through `io_loop`: `start`, `run`, `tail` (the loop broke), `fold` (the session
is marked out), `after` (`after_drop` decides), `done`. `told` says its handle dropped its outgoing channel. A task is
a command of the page or the series a drop began (numbered by the link that dropped), and `pc` is its place: one place
per await of `connect`, `dial`, `spawn`, `disconnect`, `cancel` and `run_series`. A task that takes a handle out of
the slot keeps it in `hand`.

A step runs from one await to the next. An abort (`Redial::end`) marks a series; from there it dies at an await, or
goes on through awaits that were ready, except at a timer or at the socket. What the future held drops as it dies: the
lock, and a handle whose drop ends its link.

Three bounds on time keep out orders the clock does not allow, and each is a named guard:
- `Outwaits`: the shortest wait of a series, 3 seconds, is longer than a command's own steps, the socket apart;
- `LoginTakesTime`: you answer the game's login prompts more slowly than a dial hands over its link;
- `ToldLoopsOver`: a loop that was told to end is done before another socket opens, a round trip to the game later.

| Run | Asks | Shows |
|---|---|---|
| `link` | one command at a time, three links, two tries | `StaysDown`, `NoOrphanSeries`, `InSessionAgrees`, `OneSocket`, `RingsForRedial`; 204,774 states |
| `link_race` | two commands at once, two links | `NoStrayLink`, `ClosedIsDown`, and `WorkEnds`: every command and series ends; 95,380 states |
| `link_hung` | Connect beside Disconnect | finding: the Disconnect finds the slot empty |

`StaysDown`, `InSessionAgrees` and `OneSocket` are promises about one command at a time. With two they fail: `link_hung`
is the case a comment speaks of, and *Where the code does something else* lists the others. Two commands and one series
are enough for a race over the slot, since the slot's lock makes any third wait; three links let a redial's link drop
and start a series of its own, and two tries let a series go on after a failure.

### Telnet

`server` and `vosh` are the negotiator's two tables with RFC 1143's states as far as Vosh uses them, `held` is
`ServerEcho`, `size` and `window` are the sizes the negotiator and the session keep, and `stage` follows a dial until
its handle is in the slot. Two channels keep their order. The game is not in the repository: it is careful (RFC 1143)
or eager (it answers every DO and WILL), which `negotiator.rs` names, and starts `Starts` offers or requests itself.

| Run | Asks | Shows |
|---|---|---|
| `telnet` | four options and EOR, two starts, one resize | `SidesAgree` (options and echo) and `GameTold` (size and hello) once all is quiet, and it gets quiet (`Ends`); 479,116 states |

`GameTold` is about the size the loop last took: a resize between the start of a dial and the put of its handle
reaches the session alone.

Two starts are enough for each crossing of an offer with its withdrawal or with an answer of Vosh, since the states of
one option never depend on another's.

### Stream

`waiting`, `tokens`, `idle`, `last`, `repeats` and `heldBack` are `Pace`, `holding`, `held` and `linesOut` are
`Stream`. A call that offers or lets out several lines takes them one step each (`batch`, `draining`), and nothing
else runs between those steps, since one task owns the stream. Time is in steps of `1 / Second` seconds and `tokens`
are counted in as many parts, so the arithmetic stays whole. `gameLast` and `gameRuns` are what the game counts by
itself; `flow` is a leaking bucket over what the pace let go, which states the rate without looking at `tokens`.

| Run | Asks | Shows |
|---|---|---|
| `stream` | four lines of automation, one typed, paces 1 and 2 | `InOrder`, `LinesCounted`, `PaceKept`, `NeverPastStop`, and `Drains`: again and again no line waits, whether for the pace, for the hold to end, or in a call that has yet to offer it; 444,892 states |

The burst, the runaway and the stop are 1, 2 and 3 for TLC, so that four lines reach each limit and go past it; the
proofs have them at any value. The run's paces leave out 0, the pace turned off, since order fails with it: a line of
automation that comes before the next timer leaves ahead of the ones that wait. `HoldHolds` is proved and not run.

### Walk

`walk`, `next`, `flight`, `room`, `exits` and `fresh` are the fields of `Walker`, and `walk.aim` is a ghost beside
them: the room the steps sent so far lead to and the steps yet to send; `wire` has the lines under way and
`answers` what the game said that the loop has not read. What the loop does with one message, its sends included, is
one step, as one task runs it. The pace is there as a choice: `PaceFull` lets it keep a line of automation, and
`PacedGoes` lets the line go. The game moves you, fails a step, shows nothing in the dark, or does not answer.

The walker cannot tell whose answer it reads, so no property can hold after you are dragged off or type a move of
your own. The ghost `calm` is true while nothing but the walker moved you since all was last quiet and the walker was
not wrong about the room (`Settle`); `OneStep`, `RouteKept` and `RestThere` are about calm states. `StopWalk`, `Type`
and `Expire` may come at any time. A `#walk` inside what a walk held is a `StartWalk` right after; what follows a
`#walk stop` is a typed command. The lines Vosh prints and the progress the page draws are left out.

| Run | Asks | Shows |
|---|---|---|
| `walk` | three rooms, one with tiles, three walks, one typed command, one mischief | `OneStep` (with the exits those of the room), `RouteKept`: a click's steps leave from their rooms, `RestThere`: what followed a walk acts at its end, `WaitsForLanding` and `NoWalkHangs`; 970,969 states |
| `walk_paced` | two walks, the pace full | finding: the next walk's step passes what the last one held |

Three walks let one that waits be replaced, and three rooms in a row let a step lead to the right room, the wrong one
and nowhere. One exit leads back into its own room: the walker reads that as a look and waits for its backstop.
`RestThere` is about what the pace lets go at once; what it keeps acts wherever you are then, which is the finding.

### Takeover

`stage` follows the loop of each session's link: `up`, `ended`, `folded` (the watch is taken out of the session),
`decided`. The fields of `LinkWatch` are one variable each (`playing`, `asked`, `took`, `taken`, `picked`), `naming`
is the sessions that a login under way has yet to tell, since `took_character` locks one after another, and `later`
has the sessions whose last Y came after `Lost::at`, which is all `taken_since` asks of the clock. `place`, `who`,
`stale` and `wire` are the game's: where it has each link, the character picked on it, the characters whose link it
has yet to see go, and what it sent that a loop has not read. `claimed`, `overtaken` and `closer` are histories that
only the properties read. What you type reaches the game at once; what the game says takes its time.

Two guards bound the time: `LoginsApart` (the game lets no link in as a character while another session has yet to
read that it was let in) and `GraceEnds` (`TAKE_GRACE` is longer than the game needs to close the link it takes from).

| Run | Asks | Shows |
|---|---|---|
| `takeover` | two sessions, two characters, two links you open, four picks | `NoTryOfTaken`, `DeclinesTheTaken`, `TakenStaysDown`; 703,661 states |

Redials open links past the two, so a character goes back and forth; four picks let each session pick, be asked, and
pick again. The proofs have any number of sessions.

### Saves

Every step of the code that runs under one profile's lock is one action. `PERSIST_LOCK` is held across many, and `job`
is what holds it: its `kind`, the profile it means, and its place from the snapshot (`snap`) over the write (`write`)
and the shared settings it lays over the other profiles (`lay`) to the `end`. `opens` lists the profiles as they
opened, so the same name opened anew is another number; `open`, `plays`, `map` and `closing` are `Sessions` and the
profile each session holds; `edits` is the profile the page edits with no session. `queue` and `timers` are the saves
that wait for the lock and the debounces that sleep. `aims` is the profile a step of a session waits for in
`lock_profile`, and `settling` what a line asked of the profile before `settle_line_effects`.

| Run | Asks | Shows |
|---|---|---|
| `saves` | two sessions, two names, three opens, one change | `OnePerName`, `LinesLandOpen`, `NoSaveOfClosed`, `SharedAgrees`, `EditsCovered`; 1,597,206 states |
| `saves_switch` | one session, a switch, one change | finding: a change between the save and the move is lost |

Three opens let a profile close and open anew while a step or a save still means the old one. Two changes are more
than TLC can go through in its time; the theorems have any number.

### Journal and Move

`Move` says what the wizard promises with no writes in it: all files change together or not at all, and a run that
failed gives back what was there. `Journal` has the writes. `disk`, `journal` and `copies` are the files, `live` the
text a save would write, `phase` what holds `PERSIST_LOCK` and `todo` the files it has left. Each write swaps its file
whole (`disk/atomic.rs`) or fails and leaves it; Vosh may end before any of them, in the launch that repairs too.

A text says where the items are that it had before the move: its own, `moved` to the catalog, or `back` in it. Apart
from them `added` names the profiles whose later items it holds. There are two ways for items to reach a profile file
after the move, and both are in the model:
- A catalog.toml that does not read leaves a session on the profiles alone, with no relaunch to come (`Opens`). What
  you add there (`Edit`) its saves write into the profile file. The next launch that reads the catalog runs in loadout
  mode over that file, and the items run over the catalog's until a save takes them into the catalog and out of the file
  (`Text`).
- `#profile save` looks at `relaunch_pending` and at loadout mode under the lock of its profile (`CommandLooks`), and
  only then tries `PERSIST_LOCK` (`CommandWrites`). `asked` has the profiles between the two; nothing that needs the lock
  of such a profile goes on meanwhile. Where the move came to be over in between, its write puts the items `back`.

`LoadoutModeWhole` is thus about the items of before the move: while a session runs on the catalog no journal is left
and no profile file still holds its `own`. It says nothing of items `added` or `back`, which may be there. `Move` has
the same exceptions: `late` is the profiles whose `#profile save` looked before the move was over, `SavesBack` the one
step that brings items back, and a save of a profile may drop what was added to it. When it does, `AddedTaken` says,
the catalog the session runs on has those items; whether catalog.toml does depends on a write that is only logged.

Two profiles let a `#profile save` of one overlap a run from the session of the other. Three faults are enough for a run
that fails and fails again on its way back with a launch that fails over it, and for a catalog that does not read at one
launch and is not written at a later save; one edit tells an older text from a newer.

The refinement maps a file to the text the journal has for it, and to the file itself where the journal names none:
with the journal on disk the move has happened, since the launch finishes it. `Move`'s `undo` is what the run read of
each file, while it writes or takes its writes back. A crash during an undo leaves the journal, so the move stands.

| Run | Asks | Shows |
|---|---|---|
| `journal` | two profiles, three faults, two crashes, one edit | `Implements` (`Move`), `CopiesComeFirst`, `LoadoutModeWhole`, `AddedTaken`, and `Finishes`: a run that stopped is over in the end; 1,054,212 states |

### Writer

`job`, `waiting`, `done`, `game`, `armed` and `heard` are the fields of `Writer`; `held` counts the lines the hold
keeps. The game is external: it is modelled from the comments of `job.rs` and `plan.rs` as an editor and a board that
read what is on its way in order, with each answer on its way back. It may refuse, keep another line than was sent,
say something of its own (a chat, a prompt tick), find the text too long, or hang; the link may drop.

The card reads text, not acknowledgements, so no property can hold once it takes another's words for its answer. The
ghost `calm` is true until such a thing is on its way (*Where the code does something else* lists what then happens);
`LandsWhereMeant` and most of `ResultTrue` are about calm states. That no note goes out twice or changed is not.

| Run | Asks | Shows |
|---|---|---|
| `writer` | a read, a send or a post of three lines, one dotted; one line or stop of yours, one chat, one line kept otherwise, one of automation | `LandsWhereMeant`, `ResultTrue`, `JobsEnd`; 727,676 states |

What `ResultTrue` says of a note that stays: none of the card's does once its lines are read, whatever the job ended
with, but for the five ends of `Abandons`, of which it says nothing. There the game refused the editor (`no editor`,
told as Refused with the field Editor), the editor closed or the game fell silent (`closed`, `silent`, both told as
Failed), another editor was open (`busy`) or the text had no room (`too long`): the job ends at once, no clear goes
out, and a note that `to` and `subject` began stays.

Three lines with two in flight let a line be confirmed, in flight and unsent at once; the dotted one goes out behind a
space. There is one job per behaviour, and it starts when the game has answered all that came before.

## Fairness

- `Link` (`FairSpec`, `link_race`): tokio polls a task that is ready, its timers fire, and the socket answers or
  fails within the ten seconds `socket::connect` gives it. Nothing is assumed of you or of the game: no Connect, no
  drop and no switch need ever come.
- `Telnet`: the dial goes on, and each side reads what is there. A game that stops reading ends the link instead.
- `Stream`: a call runs to its end, the timer of `pace_due` fires, and the writing card's job ends, which its own
  backstop of 12 seconds sees to (`session/writer/job.rs`) and `JobsEnd` of `Writer` shows. Time passes however many
  calls are made (`SF_vars(Tick)`): a call takes no time in the model, and it would be against the clock for a hold
  and its release to follow one another for ever between two ticks.
- `Walk`: the timer of the step in flight fires. The game owes nothing.
- `Journal` (`FairSpec`): the tasks go on with what they began, Vosh launches again once it ended, and you quit when a
  run asks for the relaunch. Faults and crashes are bounded: a disk that always fails never finishes.
- `Writer`: the card reads what came and its timers fire, and the game answers what it was sent unless it hangs.
- `Saves` and `Takeover` state no fairness; their properties are about what no step may do.

`CHECK_DEADLOCK FALSE` is in the runs of `Telnet`, `Stream`, `Walk`, `Writer` and `Takeover`, which stop where the
bounds on what starts by itself are used up. `Link` never stops, since the switch can always change; `Saves` and
`Journal` never stop either, since a session may open and close, and Vosh end and launch, without end.

## Proofs

**`LinkProofs`** proves `TypeCorrect`, `NoLinkStrays` and `ClosedStaysDown` for any number of commands, links, tries
and operations, from `LinkAssumption` alone. `NoStrayLink` is not inductive: a task that hands its link over could
overwrite another's handle. The invariant `IInv` adds to it and the types
- `HandsOK`: each handle is in the slot or in one task's hand, and a link past the last made has no loop;
- `LockOK`: the lock is held by exactly the task that waits under it;
- `SeriesOrigin`: a series is born once, as the loop it follows is done, and counts its tries from none;
- `TriesOK`: a series that goes on has a try left.

One lemma per conjunct and action joins into `Inductive`. So the bound of eight tries and the rule that an abort ends
the link whose handle it drops hold however many commands of the page overlap. `ClosedStaysDown` adds `CloseComes` (a
session out of the map has a link in its slot, or one on its way there, only while its close has yet to take it) and
`SeriesWaits` (a series waits for no loop but the one its dial took out).

The other properties of `link` are about one call of the page at a time, and their theorems assume just that,
`OneCommand`; without it they are false, as `link_hung` shows. `OneInv` then adds `SoleDialer` and `SoleLink` (one task
dials, and one link runs that nobody told to end), `SlotEmpty` (the slot is empty while a task dials), `Enders` (a
command that aborted a series that still goes on waits for its end), `EndingLast` (no series comes after the one that a
Connect or the end of a Disconnect aborts), `Down` and `Leaving` (a Disconnect past the take leaves nothing that could
put a link back), `Mark` and `Rings`. From it follow `NoOrphanSeries`, `StaysDown`, `InSessionAgrees`, `OneSocket` and `RingsForRedial`.

**`TelnetProofs`** proves the types, `SidesAgree` and `GameTold` for every set of options and any number of starts and
resizes. RFC 1143 argues by what is on its way, and so does `TInv`:
- `Sides`, for each option and each of its two directions: which requests and answers of that option may be on the two
  channels, for each pair of states of the two ends and for a careful and an eager game, so that with both channels
  empty the two ends agree;
- `AsksEor`, `Echo`: the request for EOR and what `ServerEcho` keeps follow from the same channels;
- `SizeSent`, `HelloSent`, `NamesSent`: what the game has yet to be told is on its way, last of its kind.

**`StreamProofs`** proves the types, `LinesCounted`, `NeverPastStop`, `PaceKept`, `HoldHolds` and, where no profile
turns the pace off, `InOrder`, for every burst, runaway bound, stop and set of paces. The parts of the invariant:
- `Apart`: the hold and the pace never keep lines at the same time;
- `SameCount`: the pace counts repeats as the game does, which makes `NeverPastStop` inductive;
- `Balanced`: what flowed and what the next call may let go fit the bucket together;
- `Bounded`: within a call the queue grows past the runaway bound by no more than the call that then drops it;
- `Ordered` (for `InOrder`): each queue rises, and what waits was sent before the rest of the call.

**`WalkProofs`** proves the types, `WaitsForLanding`, `OneStep`, `RestThere` and `RouteKept` for every map, every set
of walks and any number of stops, lines and mischiefs. `OneStep` says nothing of what is on its way, so the invariant
`WInv` adds to it
- `FlightKnows`: a step in flight left from the room the walker knows, and a click's step expects the room planned;
- `AimKept`: what is left of the aim is what the walk has yet to send;
- `TilesBefore`: tiles come right before the room they are of, unread or read, so the exits are never another room's;
- while all is calm, `OneOut` (one step or one landing is under way, none with no step in flight), `RestsHere` (a rest
  is ahead of any step and aims at the room you stand in), `StepAims` (the step, or its answer, leads where the walk
  aims) and `RoomHere` (the walker's room is yours until the game answers from another).

`Lands` is the lemma at the centre: whichever way a step lands, what it leaves is a step in flight from the room that
was read, or no walk. The aim was first a recursive function of the steps, of which nothing can be proved for every
walk; as a record that each step moves on, it says the same and can be reasoned about.

**`TakeoverProofs`** proves the types and the three properties for any number of sessions, characters, links and
picks. The invariants grow on one another:
- `Placed` (with the types, `Types`): the game has a character where it has more than the menu;
- `Standing` and `Barred` (for `NoTryOfTaken`): a link that plays is up or just ended and one that dials has none, and a
  login counts for each session it was told to already, with the rest still to come;
- `Unread` and `Graced` (for `TakenStaysDown`): which texts may be unread on a link, and a Y that the game closed a link
  for, or is about to, is within its grace;
- `Picked` and `Marked` (for `DeclinesTheTaken`): a login not told yet is of the character picked last, no two are of
  one character, and a mark means that a link got the character.

**`SavesProofs`** proves the types and the five properties of `saves` for any sessions, names, opens and changes. The
invariant is `Parts` (the types), `OnePerName`, `NoSaveOfClosed`, `StepsPlay` (a step
is one of a session in the list that plays, and the next waits until the last is settled) and `JobSound` (what holds the
lock moves to a profile of the set, or lays what is shared over other open profiles). `SharedInv` adds `Agrees` and
`Snapped`: a profile that differs from global.toml has a save to come or one under way that will reach it. `EditsInv`
adds `Kept` and `Missed`: a change that the save under way has missed has another to come.

**`JournalProofs`** proves the types, `LoadoutModeWhole`, `CopiesComeFirst`, `AddedTaken` and the refinement of `Move`,
for every set of profiles and any number of changes, faults and crashes. The invariant is `TypeOK`, `Flags` (what the
phase says of the journal and of the flags), `Sides` (with no journal left every file is on one side of the move, or has
its items back), `Lives` (what a save would write is on that side too, and as new as the file), `Asked` (a `#profile
save` under way looked where no catalog ran, and while a relaunch is waited for its text is one of before the move, as
new as the file), `Promise` (a journal names every file there is, and a file it has yet to move has its copy, or its
items back) and `Progress` (how far a run has come). Each step then is a step of `Move` or a stutter. `AddsInv` goes on
from it for `AddedTaken`: no text a run writes, puts back or writes over has added items (`OwnAlone`, `RunAlone`), what
a file has the text of its next save has (`LiveHolds`), and a save past the catalog merged its profile (`CatalogTakes`).
The theorems leave open what the properties do: items added without the catalog, or written back by a late `#profile
save`, may lie in a profile file in loadout mode.

**`WriterProofs`** proves the types, `LandsWhereMeant` and `ResultTrue` for every text, every set of jobs and any number
of lines, stops and chats. Three invariants carry it:
- `Types`: a job under way is at one of four places, and what is left of its stages fits that place: `AtBoard` (only
  prompts, then the opener, the editor's stages and the `@`), `AtOpen` (the opener is out), `InText` (the editor's stages
  and the `@` are left) and `Leaving` (only prompts are). No stop, mend or refusal leads to a job of another shape.
- `LandInv`, while all is calm, what is on its way at each place: `Before` the editor one answer of the prompt at most is
  to come, which the armed tick counts (`OneToken`); `Opened` and behind the banner only the editor speaks; in the text
  (`Texted`) all that is out is the editor's, and the answer the card waits for is `Awaited`; past it, the `@` is the
  last line meant for the editor (`Fits`).
- `ResultInv`, how far a job got with what the game holds. `ResultTrue` speaks of a job that ended, and
  the facts it states come from answers given stages earlier, so it is far from inductive:
  - `Shape`: the stages left follow one another as in the job's kind (`Follows`), or the job ends early and at most
    leaves the editor and clears the note (`Quits`);
  - `ToldOnce`: one line at most is out whose answer the card goes on by, it is the one the stage asks for, and its
    answer comes once; `Reread`: a listing that comes is of what the game holds, as nothing that could change it went
    out behind the command that asks for it;
  - `Posting` (calm or not): the one `post` goes out after a listing that was your text and with nothing behind it that
    changes it; `Fresh`: a job begins with nothing of an earlier one on its way;
  - while all is calm, `SaidOnce` (what the card takes for an answer at the board is the answer), `Noted` (a note of the
    card's that a job leaves early has its clear ahead, but at the ends of `Abandons`), `Holds` (what is sent, or was changed, is in the game and nothing
    out changes it) and `Sent` (a job that ends early has posted nothing).

  The proof goes in two halves. Of the card: every answer, tick, stop and time out makes the job go on, begin to end
  early, end, or wait (`GoesOn`, `Quitting`, `Closing`, `Idles`), and each of these four keeps `ResultInv`. Of the game:
  every line it reads, wherever it reads it, is one step `Play`, which keeps `ResultInv` because `LandInv` says where the
  line lands. TLC checked `ResultInv` on the instance of `writer` before it was proved.

The lemmas on `Advance`, `Pump`, `Shown`, `EditorAnswered`, `Answered` and `JobReads` say, for every job and every
answer, to which place it goes and with which line (`ToBoard`, `ToOpen`, `ToText`, `ToLeave`) or that it ended (`Over`).
`SortableUpTo` shows that the lines a mend replaces have an ascending order, by the least bound up to which they would
have none: a set in place of an induction, whose theorem takes an operator.

Only model-checked: what speaks of fairness (`WorkEnds`, `Ends`, `Drains`, `NoWalkHangs`, `Finishes`, `JobsEnd`), which
is out of the prover's reach. Every invariant and every other property of a passing run is proved.

## Where the code does something else

| Run | What |
|---|---|
| `link_hung` | `session.rs` says the brief lock lets a Disconnect cancel a hung connect attempt; it finds the slot empty, returns, and the link comes up after it. |
| `walk_paced` | What an arrived walk held waits in the pace, and the step of the walk that takes over leaves first. |
| `saves_switch` | `switch.rs` says a profile is saved as its last session leaves; a change between that save and the move is lost as the profile closes. |

Seen while modelling, with no run of its own:

- Link: two Connects overlap, and the loop of the loser marks the session out while the winner's runs. Cancel while a
  try dials leaves the page on connecting. `docs/requirements.md` says Vosh never dials while Reconnect is off; a series
  that waits goes on dialing.
- Telnet: a resize between the start of a dial and the put of its handle reaches the session only; the game wraps at
  the old width until the next resize.
- Stream: the pace goes off with lines that wait, and a line of automation before the next timer leaves ahead of them.
- Takeover: a login handled between the taking of the watch by a drop and the start of its series is missed by
  `took_character`; the look of the try catches it while that session plays, but if it drops first, both sessions redial
  one character. A character picked again at the menu of the link that played it is no new name, so the others are not
  told, and a try already dialing reaches the game. `picked` outlives your N to the game's question. Two logins of one
  character handled in the wrong order leave both sessions marked as taken, which `LoginsApart` keeps out.
- Saves: the hold of `#profile reset` and a debounce that is about to fire race. A step reads the shared layer before it
  has the profile's lock, so a line may read an older one.
- Journal: the comment at the refusal of `profiles/legacy` says the items are in catalog.toml, which they are not when
  the run before it failed. The doc of `hold_for_relaunch` says every save is held until the relaunch, by a flag set
  under the lock a save takes before it reads the flag; `#profile save` reads it before it tries the lock
  (`input/profile.rs`), and one that reads it just before a run ends writes the items of its profile back over the moved
  file. The window is a few lines with no await, in which the run has to go from its flush to its end. A comment in
  `persist_loadout_mode` says what you typed is in catalog.toml as the profile file goes without items; a catalog.toml
  that does not save is only logged, and items added without the catalog are then in no file until a later save.
- Writer: a Stop while the opener is on its way leaves the editor open, and one while `to` is on its way leaves a note.
  `plan.rs` says the board's `clear` goes out after a refusal; an editor refused after `to` and `subject` ends the job
  with no clear and leaves the note, and so do the other ends of `Abandons`. A chat or a typed line at the prompt that
  is read as the answer to `post` makes the card say refused though the note went out. After a line that is too long,
  the second one in flight runs as a game command, though the header of `job.rs` says it never does.

## Not modelled

- `Takeover`: quits and closing lines (in `Link`), several games at once, picks by name.
- `Saves`: the catalog a save writes in loadout mode, writes that fail and the holds over files that could not be read,
  the flush at exit, rename, delete and copy of profiles, a step in flight as its session closes. Of several debounces
  that sleep for one profile the last stands for all, as the earlier ones find nothing to do.
- `Journal`: the rewrites of files of an older version at launch, a catalog you put back by hand, commands that do not ask
  for `relaunch_pending` (a delete, a plain create). A file that could not be read is a refusal that may come.
- `Writer`: what the card offers from a text taken over, the openers and the pager, other boards, check, clear and paste,
  and the words by which it knows a seal or a code.
- `Telnet`: CHARSET and NEW-ENVIRON, which keep no state, and the byte parser.
- The rest of the repository, most of its lines, is text and data: parsing and drawing of a prompt, patterns, files and
  their versions, Lua, SQL and the page. A model of it would be its code again.

## Plan

1. The composition of `Stream` and `Walk` under the writing card's hold: a step that the hold keeps past its time, the
   one hazard with no property.
2. `Saves` with writes that fail and the flush at exit, and with the catalog of loadout mode.

Abstract specifications still worth stating: a link that is up or down and obeys the last command (implemented by `Link`
where commands do not overlap), and a queue that delivers in order (implemented by `Stream` where a pace is set).
