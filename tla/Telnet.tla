------------------------------- MODULE Telnet -------------------------------
(***************************************************************************)
(* The negotiation of telnet options between Vosh and a game over two      *)
(* channels that keep their order, from the dial to the end of what either *)
(* side has to say: the Negotiator and its answers, the hello that follows *)
(* GMCP, who echoes your input, the size of the window, and the names a    *)
(* game asks for until it hears one twice.                                 *)
(*                                                                         *)
(* The game is not in the repository.  It is either careful, and keeps the *)
(* states of RFC 1143 as Vosh does, or eager: it acts on each request and  *)
(* answers every DO with WILL and every WILL with DO, which negotiator.rs  *)
(* names.  The game starts at most Starts offers and requests of its own.  *)
(***************************************************************************)
EXTENDS Naturals, Sequences

CONSTANTS
    Options,    \* the options the game may bring up, beside EOR
    Starts,     \* bound: what the game offers or asks by itself
    Sizes,      \* the sizes of the window
    Resizes     \* bound: how often the window takes another size

AllOptions == {"EOR", "SGA", "ECHO", "GMCP", "TTYPE", "CHARSET",
               "NEW_ENVIRON", "NAWS", "other"}

ASSUME TelnetAssumption ==
    /\ Options \subseteq AllOptions
    /\ Starts \in Nat
    /\ Resizes \in Nat
    /\ Sizes # {} /\ 0 \notin Sizes

\* The options either side may bring up: Vosh asks for EOR.
Opts == Options \cup {"EOR"}

\* The options the server may perform, and the ones Vosh performs.
WantsServer == {"EOR", "SGA", "ECHO", "GMCP"}
AgreesTo == {"TTYPE", "CHARSET", "SGA", "GMCP", "NEW_ENVIRON", "NAWS"}

VARIABLES
    server,     \* Negotiator::server, what the server performs
    vosh,       \* Negotiator::vosh, what Vosh performs
    held,       \* ServerEcho::held
    size,       \* Negotiator::window_size
    cycle,      \* Negotiator::ttype_cycle
    window,     \* Session::window_size
    stage,      \* the dial: it waits for the socket, the handle is not in
                \* the slot yet, or it is
    push,       \* the page's call on connected has not come yet
    telling,    \* the sizes of calls that wait for the slot's lock
    queue,      \* the sizes in the channel of the loop
    toGame,     \* the bytes Vosh wrote and the game did not read
    toVosh,     \* the bytes the game wrote and Vosh did not read
    eager,      \* which of the two games this is
    does,       \* the game: what it performs
    lets,       \* the game: what it takes Vosh to perform
    heardSize,  \* the game: the last size it heard, or NoSize
    hello,      \* the game: it heard a hello since it last turned GMCP on
    names,      \* the game: the slots of the names it heard
    starts,     \* how much the game started by itself
    resizes     \* how often the window took another size

voshVars == <<server, vosh, held, size, cycle, window, stage, push,
             telling, queue>>
gameVars == <<eager, does, lets, heardSize, hello, names, starts>>
vars == <<voshVars, gameVars, toGame, toVosh, resizes>>

NoSize == 0
Verbs == {"WILL", "WONT", "DO", "DONT"}
Msg(verb, o) == [verb |-> verb, opt |-> o]
NawsOf(s) == [verb |-> "NAWS", size |-> s]
Hello == [verb |-> "HELLO"]
SendName == [verb |-> "SEND"]
NameIs(slot) == [verb |-> "IS", slot |-> slot]

Messages ==
    [verb: Verbs, opt: Opts] \cup [verb: {"NAWS"}, size: Sizes]
    \cup [verb: {"HELLO", "SEND"}] \cup [verb: {"IS"}, slot: 0 .. 2]

\* The first DO EOR goes out before the loop starts.  The size the
\* negotiator starts with is read before the socket opens.
Init ==
    /\ server = [o \in Opts |-> IF o = "EOR" THEN "WantYes" ELSE "No"]
    /\ vosh = [o \in Opts |-> "No"]
    /\ held = FALSE
    /\ window \in Sizes
    /\ size = window
    /\ cycle = 0
    /\ stage = "dial" /\ push = FALSE /\ telling = {} /\ queue = <<>>
    /\ toGame = <<>> /\ toVosh = <<>>
    /\ eager \in BOOLEAN
    /\ does = [o \in Opts |-> "No"]
    /\ lets = [o \in Opts |-> "No"]
    /\ heardSize = NoSize /\ hello = FALSE /\ names = <<>>
    /\ starts = 0 /\ resizes = 0

-----------------------------------------------------------------------------
(* The dial, and the size of the window as the page tells it.              *)

\* The socket opens, DO EOR goes out, and the page hears connected.
SocketOpens ==
    /\ stage = "dial"
    /\ stage' = "open"
    /\ push' = TRUE
    /\ toGame' = Append(toGame, Msg("DO", "EOR"))
    /\ UNCHANGED <<server, vosh, held, size, cycle, window, telling, queue,
                   gameVars, toVosh, resizes>>

PutSlot ==
    /\ stage = "open"
    /\ stage' = "slot"
    /\ UNCHANGED <<server, vosh, held, size, cycle, window, push, telling, queue,
                   gameVars, toGame, toVosh, resizes>>

\* session_set_window_size keeps the size with the session, then waits for
\* the slot's lock.  Two calls with one size are one here.
TellSize(s) ==
    /\ window' = s
    /\ telling' = telling \cup {s}
    /\ UNCHANGED <<server, vosh, held, size, cycle, stage, queue, gameVars,
                   toGame, toVosh>>

Resize(s) ==
    /\ s # window
    /\ resizes < Resizes
    /\ resizes' = resizes + 1
    /\ TellSize(s)
    /\ UNCHANGED push

\* The page tells the size on every connected it hears.
PagePushes ==
    /\ push
    /\ push' = FALSE
    /\ TellSize(window)
    /\ UNCHANGED resizes

\* The loop hears the size when the slot holds its handle.
ReachSlot(s) ==
    /\ s \in telling
    /\ telling' = telling \ {s}
    /\ queue' = IF stage = "slot" THEN Append(queue, s) ELSE queue
    /\ UNCHANGED <<server, vosh, held, size, cycle, window, stage, push,
                   gameVars, toGame, toVosh, resizes>>

LoopTakesSize ==
    /\ queue # <<>>
    /\ queue' = Tail(queue)
    /\ size' = Head(queue)
    /\ toGame' = IF "NAWS" \in Opts /\ vosh["NAWS"] = "Yes"
                 THEN Append(toGame, NawsOf(Head(queue))) ELSE toGame
    /\ UNCHANGED <<server, vosh, held, cycle, window, stage, push, telling,
                   gameVars, toVosh, resizes>>

-----------------------------------------------------------------------------
(* Vosh reads one event and writes its answer, as handle_event does.       *)

VoshReads(verb) ==
    /\ stage # "dial"
    /\ toVosh # <<>>
    /\ Head(toVosh).verb = verb
    /\ toVosh' = Tail(toVosh)
    /\ UNCHANGED <<size, window, stage, push, telling, queue, gameVars, resizes>>

AnswerWill_Always(o) ==
    IF o \in WantsServer THEN <<Msg("DO", o)>> ELSE <<Msg("DONT", o)>>

\* An offer of an option that is on, or that Vosh asked for, has no answer.
AnswerWill(o) ==
    IF server[o] # "No" THEN <<>>
    ELSE IF o \in WantsServer THEN <<Msg("DO", o)>> ELSE <<Msg("DONT", o)>>

\* The hello and the packets Vosh wants follow the DO that turns GMCP on.
Announce(o) == IF o = "GMCP" /\ server[o] # "Yes" THEN <<Hello>> ELSE <<>>

RespondWill ==
    /\ VoshReads("WILL")
    /\ LET o == Head(toVosh).opt IN
        /\ server' = [server EXCEPT ![o] =
                        IF o \in WantsServer \/ @ # "No" THEN "Yes" ELSE "No"]
        /\ toGame' = toGame \o AnswerWill(o) \o Announce(o)
        /\ held' = (held \/ o = "ECHO")
    /\ UNCHANGED <<vosh, cycle>>

RespondWont_Ignored ==
    /\ VoshReads("WONT")
    /\ LET o == Head(toVosh).opt IN
        /\ server' = [server EXCEPT ![o] = IF @ = "WantYes" THEN @ ELSE "No"]
        /\ toGame' = IF server[o] = "Yes" THEN Append(toGame, Msg("DONT", o))
                     ELSE toGame
        /\ held' = (held /\ o # "ECHO")
    /\ UNCHANGED <<vosh, cycle>>

RespondWont ==
    /\ VoshReads("WONT")
    /\ LET o == Head(toVosh).opt IN
        /\ server' = [server EXCEPT ![o] = "No"]
        /\ toGame' = IF server[o] = "Yes" THEN Append(toGame, Msg("DONT", o))
                     ELSE toGame
        /\ held' = (held /\ o # "ECHO")
    /\ UNCHANGED <<vosh, cycle>>

\* A DO of an option that is on has no answer.  The size goes with WILL.
AnswerDo_NoSize(o) ==
    IF vosh[o] = "Yes" THEN <<>>
    ELSE IF o \notin AgreesTo THEN <<Msg("WONT", o)>> ELSE <<Msg("WILL", o)>>

AnswerDo(o) ==
    IF vosh[o] = "Yes" THEN <<>>
    ELSE IF o \notin AgreesTo THEN <<Msg("WONT", o)>>
    ELSE IF o = "NAWS" THEN <<Msg("WILL", o), NawsOf(size)>>
    ELSE <<Msg("WILL", o)>>

RespondDo ==
    /\ VoshReads("DO")
    /\ LET o == Head(toVosh).opt IN
        /\ vosh' = [vosh EXCEPT ![o] = IF o \in AgreesTo THEN "Yes" ELSE @]
        /\ toGame' = toGame \o AnswerDo(o)
    /\ UNCHANGED <<server, held, cycle>>

RespondDont ==
    /\ VoshReads("DONT")
    /\ LET o == Head(toVosh).opt IN
        /\ vosh' = [vosh EXCEPT ![o] = "No"]
        /\ toGame' = IF vosh[o] = "Yes" THEN Append(toGame, Msg("WONT", o))
                     ELSE toGame
    /\ UNCHANGED <<server, held, cycle>>

\* The last of the three names answers every later request.
NameSlot == IF cycle < 2 THEN cycle ELSE 2

RespondTtype ==
    /\ VoshReads("SEND")
    /\ cycle' = cycle + 1
    /\ toGame' = Append(toGame, NameIs(NameSlot))
    /\ UNCHANGED <<server, vosh, held>>

-----------------------------------------------------------------------------
(* The game.                                                               *)

GameStarts(verb, o) ==
    /\ stage # "dial"
    /\ starts < Starts
    /\ starts' = starts + 1
    /\ toVosh' = Append(toVosh, Msg(verb, o))
    /\ UNCHANGED <<voshVars, eager, heardSize, hello, names, toGame, resizes>>

\* A careful game waits for the answer to what it said.  An eager one
\* may say it again.
GameOffers(o) ==
    /\ GameStarts("WILL", o)
    /\ eager \/ does[o] = "No"
    /\ does' = [does EXCEPT ![o] = IF eager THEN "Yes" ELSE "WantYes"]
    /\ UNCHANGED lets

GameStops(o) ==
    /\ GameStarts("WONT", o)
    /\ does[o] = "Yes"
    /\ does' = [does EXCEPT ![o] = IF eager THEN "No" ELSE "WantNo"]
    /\ UNCHANGED lets

GameAsks(o) ==
    /\ GameStarts("DO", o)
    /\ eager \/ lets[o] = "No"
    /\ lets' = [lets EXCEPT ![o] = IF eager THEN @ ELSE "WantYes"]
    /\ UNCHANGED does

GameForbids(o) ==
    /\ GameStarts("DONT", o)
    /\ lets[o] = "Yes"
    /\ lets' = [lets EXCEPT ![o] = IF eager THEN "No" ELSE "WantNo"]
    /\ UNCHANGED does

GameReads(verb) ==
    /\ toGame # <<>>
    /\ Head(toGame).verb = verb
    /\ toGame' = Tail(toGame)
    /\ UNCHANGED <<voshVars, eager, starts, resizes>>

Says(verb, o) == toVosh' = Append(toVosh, Msg(verb, o))

\* DO: a careful game that is off agrees or refuses, and an eager one
\* agrees each time it hears it.
GameHearsDo ==
    /\ GameReads("DO")
    /\ LET o == Head(toGame).opt IN
        \/ /\ eager \/ does[o] = "No"
           /\ does' = [does EXCEPT ![o] = "Yes"]
           /\ Says("WILL", o)
        \/ /\ ~eager /\ does[o] = "No"
           /\ Says("WONT", o)
           /\ UNCHANGED does
        \/ /\ ~eager /\ does[o] # "No"
           /\ does' = [does EXCEPT ![o] = IF @ = "WantNo" THEN "No" ELSE "Yes"]
           /\ UNCHANGED toVosh
        /\ hello' = (hello /\ o # "GMCP")
    /\ UNCHANGED <<lets, heardSize, names>>

GameHearsDont ==
    /\ GameReads("DONT")
    /\ LET o == Head(toGame).opt IN
        /\ does' = [does EXCEPT ![o] = "No"]
        /\ IF ~eager /\ does[o] = "Yes" THEN Says("WONT", o) ELSE UNCHANGED toVosh
    /\ UNCHANGED <<lets, heardSize, hello, names>>

GameHearsWill ==
    /\ GameReads("WILL")
    /\ LET o == Head(toGame).opt IN
        /\ lets' = [lets EXCEPT ![o] = IF @ = "WantNo" THEN "No" ELSE "Yes"]
        /\ IF eager \/ lets[o] = "No" THEN Says("DO", o) ELSE UNCHANGED toVosh
    /\ UNCHANGED <<does, heardSize, hello, names>>

GameHearsWont ==
    /\ GameReads("WONT")
    /\ LET o == Head(toGame).opt IN
        /\ lets' = [lets EXCEPT ![o] = "No"]
        /\ IF ~eager /\ lets[o] = "Yes" THEN Says("DONT", o) ELSE UNCHANGED toVosh
    /\ UNCHANGED <<does, heardSize, hello, names>>

GameHearsSize ==
    /\ GameReads("NAWS")
    /\ heardSize' = Head(toGame).size
    /\ UNCHANGED <<does, lets, hello, names, toVosh>>

GameHearsHello ==
    /\ GameReads("HELLO")
    /\ hello' = TRUE
    /\ UNCHANGED <<does, lets, heardSize, names, toVosh>>

\* The game asks for names until it hears one twice in a row.
Repeats == Len(names) > 1 /\ names[Len(names)] = names[Len(names) - 1]

GameAsksName ==
    /\ stage # "dial"
    /\ "TTYPE" \in Opts
    /\ lets["TTYPE"] = "Yes" /\ vosh["TTYPE"] = "Yes"
    /\ ~Repeats
    /\ \A i \in 1 .. Len(toVosh) : toVosh[i] # SendName
    /\ \A i \in 1 .. Len(toGame) : toGame[i].verb # "IS"
    /\ toVosh' = Append(toVosh, SendName)
    /\ UNCHANGED <<voshVars, gameVars, toGame, resizes>>

GameHearsName ==
    /\ GameReads("IS")
    /\ names' = Append(names, Head(toGame).slot)
    /\ UNCHANGED <<does, lets, heardSize, hello, toVosh>>

-----------------------------------------------------------------------------

Dial == SocketOpens \/ PutSlot \/ PagePushes \/ \E s \in Sizes : ReachSlot(s)
Vosh ==
    \/ LoopTakesSize
    \/ RespondWill \/ RespondWont \/ RespondDo \/ RespondDont \/ RespondTtype
Game ==
    \/ GameHearsDo \/ GameHearsDont \/ GameHearsWill \/ GameHearsWont
    \/ GameHearsSize \/ GameHearsHello \/ GameHearsName \/ GameAsksName
Freely ==
    \/ \E o \in Opts : GameOffers(o) \/ GameStops(o) \/ GameAsks(o) \/ GameForbids(o)
    \/ \E s \in Sizes : Resize(s)

Next == Dial \/ Vosh \/ Game \/ Freely

\* The dial goes on, the loop reads what is there, and so does the game.
Spec == Init /\ [][Next]_vars /\ WF_vars(Dial) /\ WF_vars(Vosh) /\ WF_vars(Game)

-----------------------------------------------------------------------------

Side == {"No", "Yes", "WantYes"}
GameSide == Side \cup {"WantNo"}

(* The type of every variable, and that Vosh never waits for a DO, since   *)
(* it offers no option first (respond_do).                                 *)
TypeOK ==
    /\ server \in [Opts -> Side]
    /\ vosh \in [Opts -> {"No", "Yes"}]
    /\ held \in BOOLEAN /\ push \in BOOLEAN /\ hello \in BOOLEAN
    /\ size \in Sizes /\ window \in Sizes /\ heardSize \in Sizes \cup {NoSize}
    /\ cycle \in 0 .. 4 /\ starts \in 0 .. Starts /\ resizes \in 0 .. Resizes
    /\ stage \in {"dial", "open", "slot"}
    /\ telling \subseteq Sizes /\ queue \in Seq(Sizes)
    /\ toGame \in Seq(Messages) /\ toVosh \in Seq(Messages)
    /\ eager \in BOOLEAN
    /\ does \in [Opts -> GameSide] /\ lets \in [Opts -> GameSide]
    /\ names \in Seq(0 .. 2)

Quiet == stage = "slot" /\ toGame = <<>> /\ toVosh = <<>> /\ queue = <<>>
         /\ ~push /\ telling = {}

(* Once nothing is on its way, both sides read every option alike and no   *)
(* question is open, whichever game this is and however its offers and     *)
(* requests crossed Vosh's own (negotiator.rs, RFC 1143).  ServerEcho and  *)
(* the Negotiator, which follow the same bytes apart from each other       *)
(* (handle_event in read.rs), agree at every byte.                         *)
SidesAgree ==
    /\ Quiet => \A o \in Opts :
        /\ server[o] = "Yes" <=> does[o] = "Yes"
        /\ vosh[o] = "Yes" <=> lets[o] = "Yes"
        /\ server[o] # "WantYes"
        /\ does[o] \in {"No", "Yes"} /\ lets[o] \in {"No", "Yes"}
    /\ "ECHO" \in Opts => (held <=> server["ECHO"] = "Yes")

(* What the game turned on, Vosh told it of.  A game that reads the size   *)
(* wraps at the size the loop last took, through a size that changes while *)
(* NAWS is asked for, refused or asked again; and one that performs GMCP   *)
(* has heard the hello since it turned it on.                              *)
GameTold ==
    Quiet =>
        /\ "NAWS" \in Opts /\ lets["NAWS"] = "Yes" => heardSize = size
        /\ "GMCP" \in Opts /\ does["GMCP"] = "Yes" => hello

(* The negotiation ends: neither game starts a loop with Vosh              *)
(* (the header of negotiator.rs).                                          *)
Ends == <>[](toGame = <<>> /\ toVosh = <<>>)
=============================================================================
