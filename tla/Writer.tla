------------------------------- MODULE Writer -------------------------------
(***************************************************************************)
(* The writing card's job: session/writer/job.rs, the part of writer.rs    *)
(* that runs it, and the hold send_writer in conn.rs keeps meanwhile.      *)
(* The card drives the game's line editor blind: what it knows of the game *)
(* is the text, the editor's "> " and the prompt tick, each read late.     *)
(* The game, as the comments of the code describe it, is external.         *)
(*                                                                         *)
(* A line of your text is its number; Space stands for the line that goes  *)
(* out where the editor would read yours as a command, and Other for what  *)
(* the game held before, or keeps in place of a line.                      *)
(***************************************************************************)
EXTENDS Integers, Sequences, SequencesExt, FiniteSets

CONSTANTS
    Lines,      \* the lines of your text
    Dotted,     \* the ones that begin with a dot, @ or !
    Kinds,      \* the jobs you may start: a read, a send or a post
    MaxYours,   \* bound: the lines you type and the times you press Stop
    MaxChats,   \* bound: the times the game says something of its own
    MaxOthers,  \* bound: the lines the game keeps otherwise than sent, or not
    MaxAuto     \* bound: the lines automation sends

ASSUME WriterAssumption ==
    /\ Lines \in Nat \ {0} /\ Dotted \subseteq 1 .. Lines
    /\ Kinds \subseteq {"read", "send", "post"}
    /\ {MaxYours, MaxChats, MaxOthers, MaxAuto} \subseteq Nat

VARIABLES
    job,      \* Writer::job
    waiting,  \* Writer::waiting, the kind of a job that waits for the prompt
    done,     \* Writer::done
    game,     \* Writer::game
    armed,    \* Writer::armed
    heard,    \* Writer::heard
    held,     \* the lines of automation the stream's hold keeps
    toGame,   \* the lines on their way to the game
    toVosh,   \* what the game said, on its way to Vosh
    editing,  \* the game's editor is open
    text,     \* the text it edits
    note,     \* the board's note in progress, "card" for one the card began
    posted,   \* the notes posted
    hung,     \* the game stopped answering
    link,
    calm,     \* nothing came yet that the card takes for another answer
    left      \* what is left of the bounds

cardVars == <<job, waiting, done, game, armed, heard, held>>
gameVars == <<editing, text, note, posted, hung>>
vars == <<cardVars, toGame, toVosh, gameVars, link, calm, left>>

Space == 0
Other == Lines + 1
Kept == 0 .. Other
Meant == [n \in 1 .. Lines |-> n]
Wire(n) == IF n \in Dotted THEN Space ELSE n

InFlight == 2
MaxMends == 2

-----------------------------------------------------------------------------
(* What goes over the link                                                 *)

Line(by, do, n, x) == [by |-> by, do |-> do, n |-> n, x |-> x]
Command(by) == Line(by, "command", 0, 0)
Silenced == Line("you", "dot command", 0, 0)

EditorLines == {"text", "show", "clear", "replace", "delete", "leave", "dot command"}
PromptLines == {"open", "board", "to", "subject", "readback", "post", "clear note",
                "command"}

\* What one write of the game brings: words, a listing after them, and
\* what it ends on.
Said(words, listing, ends) == [words |-> words, listing |-> listing, ends |-> ends]
Tick == Said({}, <<>>, "tick")

-----------------------------------------------------------------------------
(* A job                                                                   *)

Stage(do) == [do |-> do, n |-> 0, x |-> 0]
NoStage == Stage("none")
Plan(stages) == [i \in DOMAIN stages |-> Stage(stages[i])]

\* Mutant: the text is not read back with .s before the card leaves.
Stages_NoVerify(kind) ==
    Plan(CASE kind = "read" -> <<"open", "show", "leave">>
           [] kind = "send" -> <<"open", "base", "clear", "send", "leave", "readback">>
           [] kind = "post" -> <<"board", "to", "subject", "open", "clear", "send",
                                 "leave", "readback", "post">>)

Stages(kind) ==
    Plan(CASE kind = "read" -> <<"open", "show", "leave">>
           [] kind = "send" -> <<"open", "base", "clear", "send", "verify", "leave",
                                 "readback">>
           [] kind = "post" -> <<"board", "to", "subject", "open", "clear", "send",
                                 "verify", "leave", "readback", "post">>)

NoJob ==
    [kind |-> "none", stages |-> <<>>, stage |-> NoStage, phase |-> "idle",
     words |-> {}, listing |-> <<>>, next |-> 1, flight |-> 0, from |-> 1, mends |-> 0,
     inEditor |-> FALSE, started |-> FALSE, postSent |-> FALSE, pending |-> "none",
     result |-> "none"]
New(kind) == [NoJob EXCEPT !.kind = kind, !.stages = Stages(kind)]
UnderWay == job # NoJob

\* A job and the lines it sends.
Then(j, out) == [job |-> j, out |-> out]
Waits(j) == Then(j, <<>>)
End(j, result) ==
    Waits([j EXCEPT !.phase = "idle", !.stage = NoStage, !.stages = <<>>,
                    !.result = result])

\* What a job ends with after its last stage.
Finish(j) ==
    End(j, IF j.pending # "none" THEN j.pending
           ELSE IF j.kind = "post" THEN "cleared" ELSE j.kind)

\* The next lines of your text, while fewer than two wait.
Take(j) ==
    LET free == InFlight - j.flight
        more == Lines + 1 - j.next
    IN IF more < free THEN more ELSE free
Pumped(j) ==
    Then([j EXCEPT !.next = @ + Take(j), !.flight = @ + Take(j)],
         [i \in 1 .. Take(j) |-> Line("card", "text", 0, Wire(j.next + i - 1))])

EditorStages == {"open", "show", "base", "verify", "clear", "replace", "delete"}
ShowStages == {"show", "base", "verify"}

CommandOf(s) ==
    Line("card", IF s.do \in ShowStages THEN "show" ELSE s.do, s.n, s.x)

\* Mutant: the editor counts as open while the @ that leaves it is out.
StaysOpen_AtLeave(j, s) == j.inEditor

StaysOpen(j, s) == j.inEditor /\ s.do # "leave"

\* Run the next stage.
Advance(j) ==
    IF j.stages = <<>> THEN Finish(j)
    ELSE LET s == Head(j.stages)
             at == [j EXCEPT !.stage = s, !.stages = Tail(@), !.words = {},
                             !.listing = <<>>]
         IN IF s.do = "send"
            THEN Pumped([at EXCEPT !.phase = "sending", !.next = j.from, !.flight = 0])
            ELSE Then([at EXCEPT !.phase = IF s.do \in EditorStages THEN "editor"
                                           ELSE "tick",
                                 !.inEditor = StaysOpen(j, s),
                                 !.postSent = @ \/ s.do = "post"],
                      <<CommandOf(s)>>)

Ending(j, result, stages) ==
    Advance([j EXCEPT !.pending = result, !.stages = Plan(stages), !.phase = "idle"])

\* A note the card began goes with the board's clear.
ClearThen(j, result) ==
    IF j.kind = "post" THEN Ending(j, result, <<"clear note">>) ELSE End(j, result)

FailInEditor(j, result) ==
    Ending(j, result, IF j.kind = "post" THEN <<"leave", "clear note">> ELSE <<"leave">>)

\* Send the next lines, and move on once the game took them all.
Pump(j) ==
    IF j.next > Lines /\ j.flight = 0 THEN Advance([j EXCEPT !.phase = "idle"])
    ELSE Pumped(j)

-----------------------------------------------------------------------------
(* What the game answers                                                   *)

\* The members of a finite set of numbers, in order.
Ascending(S) ==
    CHOOSE s \in [1 .. Cardinality(S) -> S] :
        \A i, k \in 1 .. Cardinality(S) : i < k => s[i] < s[k]

\* The commands that turn what the game holds into your text, and the line
\* from which it goes out again.  Deletes go from the last line up.
Mend(held_) ==
    LET common == IF Len(held_) < Lines THEN Len(held_) ELSE Lines
        wrong == Ascending({n \in 1 .. common : held_[n] # n})
        extra == IF Len(held_) > Lines THEN Len(held_) - Lines ELSE 0
    IN [i \in 1 .. Len(wrong) |-> [do |-> "replace", n |-> wrong[i], x |-> wrong[i]]]
       \o [i \in 1 .. extra |-> [do |-> "delete", n |-> Len(held_) + 1 - i, x |-> 0]]
       \o (IF Len(held_) < Lines THEN <<Stage("send")>> ELSE <<>>)
       \o <<Stage("verify")>>

Shown(j) ==
    CASE j.stage.do = "show" -> Advance(j)
      [] j.stage.do = "base" ->
            IF j.listing = <<>> THEN Advance(j) ELSE Ending(j, "changed", <<"leave">>)
      [] j.stage.do = "verify" ->
            IF j.listing = Meant THEN Advance(j)
            ELSE IF j.mends = MaxMends THEN FailInEditor(j, "failed")
            ELSE Advance([j EXCEPT !.mends = @ + 1, !.from = Len(j.listing) + 1,
                                   !.stages = Mend(j.listing) \o @])

\* The editor's "> ".  One for a line that counted as taken can come after
\* the next command went.
EditorAnswered(j) ==
    CASE j.stage.do = "open" ->
            IF "banner" \in j.words THEN Advance([j EXCEPT !.inEditor = TRUE])
            ELSE End(j, "busy")
      [] j.stage.do \in ShowStages ->
            IF "listed" \in j.words THEN Shown(j) ELSE Waits(j)
      [] j.stage.do = "clear" /\ "cleared" \notin j.words -> Waits(j)
      [] OTHER -> Advance(j)

\* The lines it gathered and the game's prompt answer a command.
Answered(j) ==
    CASE j.stage.do = "leave" -> Advance(j)
      [] j.stage.do = "board" ->
            IF "no note" \in j.words THEN Advance(j)
            ELSE End(j, IF "listed" \in j.words THEN "same note" ELSE "failed")
      [] j.stage.do = "to" ->
            IF "ok" \in j.words THEN Advance([j EXCEPT !.started = TRUE])
            ELSE End(j, "refused")
      [] j.stage.do = "subject" ->
            IF "ok" \in j.words THEN Advance(j) ELSE ClearThen(j, "refused")
      [] j.stage.do = "readback" ->
            IF j.kind = "send" THEN End(j, "send")
            ELSE IF "listed" \in j.words /\ j.listing = Meant THEN Advance(j)
            ELSE ClearThen(j, "failed")
      [] j.stage.do = "post" ->
            IF "ok" \in j.words THEN End(j, "posted")
            ELSE ClearThen([j EXCEPT !.postSent = FALSE], "refused")
      [] j.stage.do = "clear note" -> Finish(j)

\* The prompt tick with the text of its pulse in, and whether the job still
\* waits for its answer.
StillWaits(j) == j.phase = "tick" /\ j.stage.do # "leave" /\ j.words = {}
JobTick(j) ==
    CASE j.phase = "tick" -> IF StillWaits(j) THEN Waits(j)
                             ELSE Answered([j EXCEPT !.inEditor = FALSE])
      [] j.phase = "editor" ->
            End([j EXCEPT !.inEditor = FALSE],
                IF j.stage.do = "open" THEN "no editor" ELSE "closed")
      [] j.phase = "sending" -> End([j EXCEPT !.inEditor = FALSE], "closed")
      [] OTHER -> Waits(j)

\* The lines of a read, and its end.
Gathers(j, r) ==
    IF j.phase \notin {"tick", "editor"} THEN j
    ELSE [j EXCEPT !.words = @ \cup r.words,
                   !.listing = IF "listed" \in r.words THEN r.listing ELSE @]
JobReads(j, r, lone) ==
    IF "too long" \in r.words /\ j.inEditor
    THEN End([j EXCEPT !.inEditor = FALSE], "too long")
    ELSE CASE j.phase = "sending" ->
                Pump([j EXCEPT !.flight = IF lone < @ THEN @ - lone ELSE 0])
           [] j.phase = "editor" /\ r.ends = "editor" -> EditorAnswered(Gathers(j, r))
           [] OTHER -> Waits(Gathers(j, r))

-----------------------------------------------------------------------------
(* The writer and the hold                                                 *)

Init ==
    /\ job = NoJob /\ waiting = "none" /\ done = [result |-> "none", postSent |-> FALSE]
    /\ game \in {"unknown", "prompt"} /\ armed = "off" /\ heard = FALSE /\ held = 0
    /\ toGame = <<>> /\ toVosh = <<>>
    /\ editing = FALSE /\ text \in {<<>>, <<Other>>} /\ note \in {"none", "other"}
    /\ posted = <<>> /\ hung = FALSE /\ link = TRUE /\ calm = TRUE
    /\ left = [yours |-> MaxYours, chats |-> MaxChats, others |-> MaxOthers,
               auto |-> MaxAuto]

Spend(what) == left[what] > 0 /\ left' = [left EXCEPT ![what] = @ - 1]

\* Mutant: a tick kept for the answer of a job that ended stays armed.
Settle_Keeps(r, a) == a

\* A tick kept for the answer of a job that ended goes with it.
Settle(r, a) == IF r.job.result # "none" /\ a = "kept" THEN "off" ELSE a

\* The job's next state, and the lines it sends.  When it ended, what the
\* hold kept follows them.
Acts(r, h, a) ==
    /\ armed' = Settle(r, a)
    /\ IF r.job.result = "none"
       THEN /\ job' = r.job /\ toGame' = toGame \o r.out
            /\ UNCHANGED <<done, held>>
       ELSE /\ job' = NoJob
            /\ done' = [result |-> r.job.result, postSent |-> r.job.postSent]
            /\ toGame' = toGame \o r.out \o [i \in 1 .. held |-> Command("automation")]
            /\ held' = 0
    /\ heard' = (h /\ r.out = <<>>)

\* The editor has yet to open for a job, or a job for the prompt.
Opening ==
    \/ waiting # "none"
    \/ \E s \in {job.stage} \cup ToSet(job.stages) : s.do = "open"

\* The card would take other words for the answer it waits for and go on
\* wrong: the editor has yet to open, or the note is about to be posted.
Misreads == Opening \/ (job.kind = "post" /\ job.stage.do \in {"readback", "post"})

\* You ask for a job once the game answered all before.
Start(kind) ==
    /\ link /\ ~UnderWay /\ waiting = "none" /\ done.result = "none"
    /\ toGame = <<>> /\ toVosh = <<>>
    /\ \/ /\ game = "prompt" /\ armed = "off"
          /\ Acts(Advance(New(kind)), heard, armed) /\ waiting' = "none"
       \/ /\ game = "unknown" \/ armed # "off"
          /\ waiting' = kind
          /\ UNCHANGED <<job, done, armed, held, heard, toGame>>
    /\ UNCHANGED <<game, toVosh, gameVars, link, calm, left>>

\* A stop as the editor opens leaves it open, and one as the note begins
\* leaves the note: the answer is on its way, and the card knows of neither.
Stop ==
    /\ link /\ UnderWay
    /\ ~job.postSent
    /\ Spend("yours")
    /\ LET stages == (IF job.inEditor THEN <<"leave">> ELSE <<>>)
                     \o (IF job.kind = "post" /\ (job.started \/ job.inEditor)
                         THEN <<"clear note">> ELSE <<>>)
       IN Acts(IF stages = <<>> THEN End(job, "stopped")
               ELSE Ending(job, "stopped", stages), heard, armed)
    /\ calm' = (calm /\ job.stage.do \notin {"to", "open"})
    /\ UNCHANGED <<waiting, game, toVosh, gameVars, link>>

StopWaiting ==
    /\ link /\ waiting # "none"
    /\ waiting' = "none" /\ done' = [done EXCEPT !.result = "stopped"]
    /\ UNCHANGED <<job, game, armed, heard, held, toGame, toVosh, gameVars, link, calm, left>>

\* A line you type goes past the hold.
Typed == IF job.inEditor THEN Silenced ELSE Command("you")

TypeLine ==
    /\ link /\ UnderWay
    /\ Spend("yours") /\ calm' = (calm /\ ~Misreads)
    /\ toGame' = Append(toGame, Typed)
    /\ UNCHANGED <<cardVars, toVosh, gameVars, link>>

\* A trigger, a timer, Lua or #walk sends a line, which waits for the job.
\* Without a job it goes out as Stream has it, and Start waits for its answer.
Automation ==
    /\ link /\ UnderWay
    /\ Spend("auto")
    /\ held' = held + 1
    /\ UNCHANGED <<job, waiting, done, game, armed, heard, toGame, toVosh, gameVars, link, calm>>

\* One read of the socket: a write of the game, or two.
Reads(r, k, lone) ==
    LET armedNow == CASE r.ends = "editor" -> "off"
                      [] armed = "off" -> "off"
                      [] OTHER -> "text"
    IN /\ toVosh' = SubSeq(toVosh, k + 1, Len(toVosh))
       /\ game' = IF r.ends = "editor" THEN "editor" ELSE game
       /\ Acts(IF UnderWay THEN JobReads(job, r, lone) ELSE Waits(job), TRUE,
               armedNow)

Read ==
    /\ link /\ toVosh # <<>> /\ Head(toVosh) # Tick
    /\ LET a == Head(toVosh)
           lone(b) == b.words = {} /\ b.ends = "editor"
       IN \/ Reads(a, 1, IF lone(a) THEN 1 ELSE 0)
          \/ /\ Len(toVosh) > 1 /\ toVosh[2] # Tick
             /\ LET b == toVosh[2] IN
                Reads(Said(a.words \cup b.words,
                           IF "listed" \in b.words THEN b.listing ELSE a.listing, b.ends),
                      2, IF lone(a) /\ lone(b) THEN 2 ELSE 0)
    /\ UNCHANGED <<waiting, gameVars, link, calm, left>>

\* The tick only arms.
TickComes == IF heard \/ armed = "text" THEN "text" ELSE "silent"

ReadTick ==
    /\ link /\ toVosh # <<>> /\ Head(toVosh) = Tick
    /\ toVosh' = Tail(toVosh)
    /\ game' = "prompt"
    /\ armed' = TickComes
    /\ UNCHANGED <<job, waiting, done, heard, held, toGame, gameVars, link, calm, left>>

\* The link stayed quiet after the text of the tick, or, where none came
\* with it, for as long as that text could take.
Fire ==
    /\ link
    /\ \/ armed = "text"
       \/ armed = "silent" /\ ~(toVosh # <<>> /\ Head(toVosh).ends = "prompt")
    /\ IF UnderWay
       THEN /\ Acts(JobTick(job), heard, IF StillWaits(job) THEN "kept" ELSE "off")
            /\ waiting' = waiting
       ELSE /\ Acts(IF waiting = "none" THEN Waits(job) ELSE Advance(New(waiting)), heard,
                    "off")
            /\ waiting' = "none"
    /\ UNCHANGED <<game, toVosh, gameVars, link, calm, left>>

\* A line that waited three pulses counts as taken.
Confirm ==
    /\ link /\ job.phase = "sending"
    /\ \E n \in 1 .. job.flight : Acts(Pump([job EXCEPT !.flight = @ - n]), heard, armed)
    /\ UNCHANGED <<waiting, game, toVosh, gameVars, link, calm, left>>

\* Mutant: only a command at the prompt has a backstop.
Timed_AtPrompt == {"tick"}

\* The phases deadline() gives the backstop.
Timed == {"tick", "editor"}

\* The backstop.  An answer comes within its twelve seconds, or never.
Expire ==
    /\ link /\ job.phase \in Timed
    /\ toVosh = <<>> /\ (toGame # <<>> => hung) /\ armed \notin {"text", "silent"}
    /\ Acts(End(job, "silent"), heard, armed)
    /\ UNCHANGED <<waiting, game, toVosh, gameVars, link, calm, left>>

\* The link dropped.
Drop ==
    /\ link
    /\ link' = FALSE
    /\ job' = NoJob /\ waiting' = "none"
    /\ done' = IF UnderWay \/ waiting # "none"
               THEN [result |-> "dropped", postSent |-> job.postSent] ELSE done
    /\ game' = "unknown" /\ armed' = "off" /\ heard' = FALSE /\ held' = 0
    /\ toGame' = <<>> /\ toVosh' = <<>>
    /\ UNCHANGED <<gameVars, calm, left>>

-----------------------------------------------------------------------------
(* The game                                                                *)

\* In its editor each write ends on "> ", with something the game says of
\* its own in the same pulse or not.
SaysInEditor(words, listing) ==
    /\ editing' = TRUE /\ calm' = calm
    /\ \/ toVosh' = Append(toVosh, Said(words, listing, "editor")) /\ left' = left
       \/ /\ toVosh' = Append(toVosh, Said(words \cup {"chat"}, listing, "editor"))
          /\ Spend("chats")

\* At its prompt the tick comes before the text of its pulse or after it,
\* or alone where nothing prints.
SaysAtPrompt(words, listing) ==
    /\ editing' = FALSE /\ calm' = calm /\ left' = left
    /\ LET said == Said(words, listing, "prompt") IN
       \/ toVosh' = toVosh \o <<Tick, said>>
       \/ toVosh' = toVosh \o <<said, Tick>>
       \/ words = {} /\ toVosh' = Append(toVosh, Tick)

GameReads(dos) ==
    /\ link /\ ~hung
    /\ toGame # <<>> /\ Head(toGame).do \in dos
    /\ toGame' = Tail(toGame)
    /\ UNCHANGED <<cardVars, hung, link>>

Takes(x) == text' = Append(text, x)

\* A line of text where it belongs, or any line the editor takes for one.
EditorTakes ==
    /\ GameReads({"text"} \cup PromptLines) /\ editing
    /\ LET x == IF Head(toGame).do = "text" THEN Head(toGame).x ELSE Other IN
       \/ Takes(x) /\ SaysInEditor({}, <<>>)
       \/ /\ Takes(Other) /\ Spend("others")
          /\ toVosh' = Append(toVosh, Said({}, <<>>, "editor"))
          /\ UNCHANGED <<editing, calm>>
    /\ UNCHANGED <<note, posted>>

\* A line the text has no room for is skipped, and the editor closes.  What
\* the card sent after it is on its way.
EditorOverflows ==
    /\ GameReads({"text"}) /\ editing
    /\ Spend("others") /\ calm' = FALSE
    /\ editing' = FALSE /\ toVosh' = toVosh \o <<Said({"too long"}, <<>>, "prompt"), Tick>>
    /\ UNCHANGED <<text, note, posted>>

EditorShows ==
    /\ GameReads({"show"}) /\ editing
    /\ SaysInEditor({"listed"}, text)
    /\ UNCHANGED <<text, note, posted>>

EditorClears ==
    /\ GameReads({"clear"}) /\ editing
    /\ text' = <<>> /\ SaysInEditor({"cleared"}, <<>>)
    /\ UNCHANGED <<note, posted>>

EditorMends ==
    /\ GameReads({"replace", "delete"}) /\ editing
    /\ LET n == Head(toGame).n IN
       text' = IF n \notin DOMAIN text THEN text
               ELSE IF Head(toGame).do = "delete" THEN RemoveAt(text, n)
               ELSE [text EXCEPT ![n] = Head(toGame).x]
    /\ SaysInEditor({}, <<>>)
    /\ UNCHANGED <<note, posted>>

EditorRuns ==
    /\ GameReads({"dot command"}) /\ editing
    /\ SaysInEditor({"words"}, <<>>)
    /\ UNCHANGED <<text, note, posted>>

EditorCloses ==
    /\ GameReads({"leave"}) /\ editing
    /\ SaysAtPrompt({}, <<>>)
    /\ UNCHANGED <<text, note, posted>>

\* A command of the card at the prompt, which the game may refuse.
Opens ==
    /\ GameReads({"open"}) /\ ~editing
    /\ SaysInEditor({"banner"}, <<>>) \/ SaysAtPrompt({"no"}, <<>>)
    /\ UNCHANGED <<text, note, posted>>

ShowsNote ==
    /\ GameReads({"board", "readback"}) /\ ~editing
    /\ IF Head(toGame).do = "board" /\ note = "none" THEN SaysAtPrompt({"no note"}, <<>>)
       ELSE SaysAtPrompt({"listed"}, text)
    /\ UNCHANGED <<text, note, posted>>

SetsField ==
    /\ GameReads({"to", "subject"}) /\ ~editing
    /\ \/ /\ SaysAtPrompt({"ok"}, <<>>)
          /\ IF note = "none" THEN note' = "card" /\ text' = <<>>
             ELSE UNCHANGED <<note, text>>
       \/ SaysAtPrompt({"no"}, <<>>) /\ UNCHANGED <<note, text>>
    /\ UNCHANGED posted

ClearsNote ==
    /\ GameReads({"clear note"}) /\ ~editing
    /\ note' = "none" /\ SaysAtPrompt({"ok"}, <<>>)
    /\ UNCHANGED <<text, posted>>

Posts ==
    /\ GameReads({"post"}) /\ ~editing
    /\ \/ /\ note # "none" /\ note' = "none" /\ posted' = Append(posted, text)
          /\ SaysAtPrompt({"ok"}, <<>>)
       \/ SaysAtPrompt({"no"}, <<>>) /\ UNCHANGED <<note, posted>>
    /\ UNCHANGED text

\* Any other line is a command, one meant for the editor too.
RunsCommand ==
    /\ GameReads({"command"} \cup EditorLines) /\ ~editing
    /\ SaysAtPrompt({"words"}, <<>>)
    /\ UNCHANGED <<text, note, posted>>

GameStep ==
    \/ EditorTakes \/ EditorOverflows \/ EditorShows \/ EditorClears \/ EditorMends \/ EditorRuns
    \/ EditorCloses \/ Opens \/ ShowsNote \/ SetsField \/ ClearsNote \/ Posts
    \/ RunsCommand

\* It says something of its own, which at the prompt reads as an answer.
Chat ==
    /\ link /\ ~hung /\ done.result = "none"
    /\ Spend("chats") /\ calm' = (calm /\ (editing \/ ~Misreads))
    /\ toVosh' \in IF editing THEN {Append(toVosh, Said({"chat"}, <<>>, "editor"))}
                   ELSE {toVosh \o <<Tick, Said({"chat"}, <<>>, "prompt")>>,
                         toVosh \o <<Said({"chat"}, <<>>, "prompt"), Tick>>}
    /\ UNCHANGED <<cardVars, toGame, gameVars, link>>

Hang ==
    /\ link /\ ~hung /\ hung' = TRUE
    /\ UNCHANGED <<cardVars, toGame, toVosh, editing, text, note, posted, link, calm, left>>

CardStep == Read \/ ReadTick \/ Fire \/ Confirm \/ Expire

Next ==
    \/ \E kind \in Kinds : Start(kind)
    \/ Stop \/ StopWaiting \/ TypeLine \/ Automation
    \/ CardStep \/ Drop \/ GameStep \/ Chat \/ Hang

Fairness == WF_vars(CardStep) /\ WF_vars(GameStep)

Spec == Init /\ [][Next]_vars /\ Fairness

-----------------------------------------------------------------------------
(* Properties                                                              *)

Results ==
    {"none", "read", "send", "posted", "cleared", "same note", "changed", "refused",
     "no editor", "failed", "closed", "busy", "silent", "stopped", "too long", "dropped"}

TypeOK ==
    /\ job.kind \in Kinds \cup {"none"} /\ waiting \in Kinds \cup {"none"}
    /\ job.phase \in {"idle", "tick", "editor", "sending"}
    /\ (job.phase = "idle") <=> ~UnderWay
    /\ job.next \in 1 .. Lines + 1 /\ job.flight \in 0 .. InFlight
    /\ job.mends \in 0 .. MaxMends
    /\ done.result \in Results
    /\ armed \in {"off", "silent", "text", "kept"} /\ (armed = "kept" => UnderWay)
    /\ game \in {"unknown", "prompt", "editor"}
    /\ held \in 0 .. MaxAuto /\ (held > 0 => UnderWay)
    /\ note \in {"none", "card", "other"} /\ text \in Seq(Kept)

\* Each line the game reads is for where it is then: your text and the
\* editor's commands in the editor, all else at its prompt, what the hold
\* kept and what you type included.
LandsWhereMeant ==
    calm /\ toGame # <<>> /\ ~hung =>
        (Head(toGame).do \in EditorLines <=> editing)

\* The ends that send no clear, though a note may have begun.  The game
\* refuses the editor, which the card calls Refused with the field Editor.
\* The editor closes under it or the game stops answering, which it calls
\* Failed.  Another editor answers, or the text has no room.
Abandons == {"no editor", "closed", "silent", "busy", "too long"}

\* What the card says of a job that ended is true, through lines the game
\* keeps otherwise, answers that come after their time and a stop.  A note
\* never goes out twice, nor one that differs.  A text it says is sent is
\* what the game holds, a note it says is posted went out, and one that may
\* have gone out as the link dropped is said so.  After any end but those
\* of Abandons no note of the card's is left once its lines are read; of
\* those it says nothing.
ResultTrue ==
    /\ \A i \in DOMAIN posted : posted[i] = Meant
    /\ Len(posted) <= 1
    /\ calm =>
        /\ done.result = "send" => text = Meant
        /\ done.result = "changed" => text = <<Other>>
        /\ done.result = "posted" => posted # <<>>
        /\ posted # <<>> /\ done.result = "dropped" => done.postSent
        /\ link /\ toGame = <<>> /\ note = "card" => done.result \in {"none"} \cup Abandons

\* Every job ends, whatever the game answers.
JobsEnd == UnderWay ~> ~UnderWay
=============================================================================
