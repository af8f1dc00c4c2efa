---------------------------- MODULE WriterProofs ----------------------------
(***************************************************************************)
(* Theorems of Writer for every text, every set of jobs and every bound.   *)
(*                                                                         *)
(* All of them rest on three inductive invariants.  Types says what a job  *)
(* under way looks like: it is at the prompt before the editor, it waits   *)
(* for the editor, it is in the editor, or it is past it, and what is left *)
(* of its stages fits that place.  LandInv says, for each of these and     *)
(* while nothing came that the card takes for another answer, what is on   *)
(* its way between the card and the game.  ResultInv says how far a job    *)
(* got with what the game holds: which answer it has, and that what it     *)
(* will say of its text and its note is so by then.                        *)
(***************************************************************************)
EXTENDS Writer, FiniteSetTheorems, SequenceTheorems, WellFoundedInduction, TLAPS

-----------------------------------------------------------------------------
(* What a job, a line and a write of the game are.                         *)

Prompts == {"board", "to", "subject", "readback", "post", "clear note"}
InEdits == ShowStages \cup {"clear", "replace", "delete", "send"}
Deeds == Prompts \cup InEdits \cup {"open", "leave", "none"}
StageType == [do : Deeds, n : Nat, x : Kept]

LineType ==
    [by : {"card", "you", "automation"}, do : EditorLines \cup PromptLines,
     n : Nat, x : Kept]

Words == {"chat", "listed", "cleared", "banner", "no", "no note", "ok", "words", "too long"}
WriteType ==
    [words : SUBSET Words, listing : Seq(Kept), ends : {"editor", "prompt", "tick"}]

JobType ==
    [kind : Kinds \cup {"none"}, stages : Seq(StageType), stage : StageType,
     phase : {"idle", "tick", "editor", "sending"}, words : SUBSET Words,
     listing : Seq(Kept), next : 1 .. Lines + 1, flight : 0 .. InFlight,
     from : Nat \ {0}, mends : 0 .. MaxMends, inEditor : BOOLEAN,
     started : BOOLEAN, postSent : BOOLEAN, pending : Results, result : Results]

\* What is left of a job at the prompt, in the editor, and before it opens.
Past(s) == \A i \in 1 .. Len(s) : s[i].do \in Prompts

Inside(s) ==
    \E l \in 1 .. Len(s) :
        /\ s[l].do = "leave"
        /\ \A i \in 1 .. Len(s) : i < l => s[i].do \in InEdits
        /\ \A i \in 1 .. Len(s) : i > l => s[i].do \in Prompts

Outside(s) ==
    \E o, l \in 1 .. Len(s) :
        /\ o < l /\ s[o].do = "open" /\ s[l].do = "leave"
        /\ \A i \in 1 .. Len(s) : i < o => s[i].do \in Prompts
        /\ \A i \in 1 .. Len(s) : o < i /\ i < l => s[i].do \in InEdits
        /\ \A i \in 1 .. Len(s) : i > l => s[i].do \in Prompts

\* The text goes out from a line it has, and once it was read back only a
\* mend sends it again.
Sends(s) == \E i \in 1 .. Len(s) : s[i].do = "send"
SendsFirst(s) ==
    \A i, k \in 1 .. Len(s) : s[i].do = "verify" /\ i < k => s[k].do # "send"
Resends(j) ==
    /\ SendsFirst(j.stages)
    /\ Sends(j.stages) => j.from \in 1 .. Lines + 1 /\ j.stage.do # "verify"

AtBoard(j) ==
    /\ j.phase = "tick" /\ ~j.inEditor
    /\ j.stage.do \in Prompts /\ Outside(j.stages)
AtOpen(j) ==
    /\ j.phase = "editor" /\ ~j.inEditor
    /\ j.stage.do = "open" /\ Inside(j.stages)
InText(j) ==
    /\ j.inEditor /\ Inside(j.stages)
    /\ \/ j.phase = "editor" /\ j.stage.do \in InEdits \ {"send"}
       \/ j.phase = "sending" /\ j.stage.do = "send"
Leaving(j) ==
    /\ j.phase = "tick" /\ ~j.inEditor
    /\ j.stage.do \in Prompts \cup {"leave"} /\ Past(j.stages)

JobForm(j) ==
    /\ j \in JobType /\ j.kind \in Kinds /\ j.result = "none"
    /\ Resends(j)
    /\ AtBoard(j) \/ AtOpen(j) \/ InText(j) \/ Leaving(j)

-----------------------------------------------------------------------------
(* What a step of a job comes to.                                          *)

\* The job before its next stage runs.
Ready(j) ==
    /\ j \in JobType /\ j.kind \in Kinds /\ j.result = "none"
    /\ SendsFirst(j.stages)
    /\ Sends(j.stages) => j.from \in 1 .. Lines + 1

Are(out, dos) == \A i \in 1 .. Len(out) : out[i].do \in dos
Single(out, dos) == out \in Seq(LineType) /\ Len(out) = 1 /\ out[1].do \in dos

\* The job ended; it waits at the prompt before the editor, or for the
\* editor; it is in the editor, and asked for what it waits for; or it is
\* past the editor.
Over(r) ==
    /\ r.job.result \in Results \ {"none"} /\ r.out = <<>>
    /\ r.job.postSent \in BOOLEAN
ToBoard(r) == JobForm(r.job) /\ AtBoard(r.job) /\ Single(r.out, Prompts)
ToOpen(r) == JobForm(r.job) /\ AtOpen(r.job) /\ Single(r.out, {"open"})
Asked(s) == IF s.do \in ShowStages THEN "show" ELSE s.do
ToText(r) ==
    /\ JobForm(r.job) /\ InText(r.job)
    /\ r.out \in Seq(LineType) /\ Are(r.out, EditorLines \ {"leave"})
    /\ r.job.phase = "editor" => Single(r.out, {Asked(r.job.stage)})
ToLeave(r, dos) == JobForm(r.job) /\ Leaving(r.job) /\ Single(r.out, dos)

\* Nothing but what it gathered changes.
Stays(j, r) ==
    /\ JobForm(r.job) /\ r.out = <<>>
    /\ r.job.phase = j.phase /\ r.job.stage = j.stage /\ r.job.stages = j.stages
    /\ r.job.inEditor = j.inEditor

-----------------------------------------------------------------------------
(* Sequences of stages.                                                    *)

LEMMA LineIs ==
  ASSUME NEW s \in StageType, s.do \in Deeds \ {"send", "none"}
  PROVE  CommandOf(s) \in LineType /\ CommandOf(s).do = Asked(s)
  BY DEF StageType, LineType, CommandOf, Line, Asked, Deeds, Prompts, InEdits, ShowStages,
         EditorLines, PromptLines

LEMMA SingleIs ==
  ASSUME NEW s \in StageType, s.do \in Deeds \ {"send", "none"}, NEW dos, Asked(s) \in dos
  PROVE  Single(<<CommandOf(s)>>, dos)
  BY LineIs DEF Single

LEMMA PastHead ==
  ASSUME NEW s \in Seq(StageType), Past(s), s # <<>>
  PROVE  Head(s) \in StageType /\ Tail(s) \in Seq(StageType) /\ Head(s).do \in Prompts /\ Past(Tail(s))
  BY DEF Past

LEMMA InsideHead ==
  ASSUME NEW s \in Seq(StageType), Inside(s)
  PROVE  /\ s # <<>> /\ Head(s) \in StageType /\ Tail(s) \in Seq(StageType)
         /\ \/ Head(s).do = "leave" /\ Past(Tail(s))
            \/ Head(s).do \in InEdits /\ Inside(Tail(s))
<1>1. PICK l \in 1 .. Len(s) :
        /\ s[l].do = "leave"
        /\ \A i \in 1 .. Len(s) : i < l => s[i].do \in InEdits
        /\ \A i \in 1 .. Len(s) : i > l => s[i].do \in Prompts
  BY DEF Inside
<1>2. s # <<>> /\ Head(s) \in StageType /\ Tail(s) \in Seq(StageType) /\ Head(s) = s[1]
  BY <1>1
<1>3. Len(Tail(s)) = Len(s) - 1 /\ \A i \in 1 .. Len(s) - 1 : Tail(s)[i] = s[i + 1]
  BY <1>2
<1>4. CASE l = 1
  BY <1>1, <1>2, <1>3, <1>4 DEF Past
<1>5. CASE l # 1
  <2>1. l - 1 \in 1 .. Len(Tail(s)) /\ Tail(s)[l - 1].do = "leave"
    BY <1>1, <1>3, <1>5
  <2>2. \A i \in 1 .. Len(Tail(s)) : i < l - 1 => Tail(s)[i].do \in InEdits
    BY <1>1, <1>3, <1>5
  <2>3. \A i \in 1 .. Len(Tail(s)) : i > l - 1 => Tail(s)[i].do \in Prompts
    BY <1>1, <1>3, <1>5
  <2>4. Head(s).do \in InEdits
    BY <1>1, <1>2, <1>5
  <2> QED
    BY <1>2, <2>1, <2>2, <2>3, <2>4 DEF Inside
<1> QED
  BY <1>4, <1>5

LEMMA OutsideHead ==
  ASSUME NEW s \in Seq(StageType), Outside(s)
  PROVE  /\ s # <<>> /\ Head(s) \in StageType /\ Tail(s) \in Seq(StageType)
         /\ \/ Head(s).do = "open" /\ Inside(Tail(s))
            \/ Head(s).do \in Prompts /\ Outside(Tail(s))
<1>1. PICK o \in 1 .. Len(s), l \in 1 .. Len(s) :
        /\ o < l /\ s[o].do = "open" /\ s[l].do = "leave"
        /\ \A i \in 1 .. Len(s) : i < o => s[i].do \in Prompts
        /\ \A i \in 1 .. Len(s) : o < i /\ i < l => s[i].do \in InEdits
        /\ \A i \in 1 .. Len(s) : i > l => s[i].do \in Prompts
  BY DEF Outside
<1>2. s # <<>> /\ Head(s) \in StageType /\ Tail(s) \in Seq(StageType) /\ Head(s) = s[1]
  BY <1>1
<1>3. Len(Tail(s)) = Len(s) - 1 /\ \A i \in 1 .. Len(s) - 1 : Tail(s)[i] = s[i + 1]
  BY <1>2
<1>4. l - 1 \in 1 .. Len(Tail(s)) /\ Tail(s)[l - 1].do = "leave"
  BY <1>1, <1>3
<1>5. \A i \in 1 .. Len(Tail(s)) : i > l - 1 => Tail(s)[i].do \in Prompts
  BY <1>1, <1>3
<1>6. CASE o = 1
  <2>1. \A i \in 1 .. Len(Tail(s)) : i < l - 1 => Tail(s)[i].do \in InEdits
    BY <1>1, <1>3, <1>6
  <2> QED
    BY <1>1, <1>2, <1>4, <1>5, <1>6, <2>1 DEF Inside
<1>7. CASE o # 1
  <2>1. o - 1 \in 1 .. Len(Tail(s)) /\ o - 1 < l - 1 /\ Tail(s)[o - 1].do = "open"
    BY <1>1, <1>3, <1>7
  <2>2. \A i \in 1 .. Len(Tail(s)) : i < o - 1 => Tail(s)[i].do \in Prompts
    BY <1>1, <1>3, <1>7
  <2>3. \A i \in 1 .. Len(Tail(s)) : o - 1 < i /\ i < l - 1 => Tail(s)[i].do \in InEdits
    BY <1>1, <1>3, <1>7
  <2>4. Head(s).do \in Prompts
    BY <1>1, <1>2, <1>7
  <2> QED
    BY <1>2, <1>4, <1>5, <2>1, <2>2, <2>3, <2>4 DEF Outside
<1> QED
  BY <1>6, <1>7

LEMMA SendsTail ==
  ASSUME NEW s \in Seq(StageType), s # <<>>, SendsFirst(s)
  PROVE  /\ SendsFirst(Tail(s)) /\ (Sends(Tail(s)) => Sends(s))
         /\ Head(s).do = "verify" => ~ Sends(Tail(s))
<1>1. Len(Tail(s)) = Len(s) - 1 /\ \A i \in 1 .. Len(s) - 1 : Tail(s)[i] = s[i + 1]
  OBVIOUS
<1>2. Head(s) = s[1] /\ 1 \in 1 .. Len(s)
  OBVIOUS
<1>3. \A i \in 1 .. Len(Tail(s)) : i + 1 \in 1 .. Len(s) /\ 1 < i + 1
  BY <1>1
<1>4. SendsFirst(Tail(s))
  BY <1>1, <1>3 DEF SendsFirst
<1>5. Sends(Tail(s)) => Sends(s)
  BY <1>1, <1>3 DEF Sends
<1>6. Head(s).do = "verify" => ~ Sends(Tail(s))
  BY <1>1, <1>2, <1>3 DEF Sends, SendsFirst
<1> QED
  BY <1>4, <1>5, <1>6

-----------------------------------------------------------------------------
(* The next stage of a job.                                                *)

LEMMA Numbers == Lines \in Nat \ {0} /\ Kinds \subseteq {"read", "send", "post"} /\ Dotted \subseteq 1 .. Lines
  BY WriterAssumption

LEMMA EndOver ==
  ASSUME NEW j \in JobType, NEW result \in Results \ {"none"}
  PROVE  Over(End(j, result))
  BY DEF Over, End, Waits, Then, JobType

LEMMA FinishOver ==
  ASSUME NEW j \in JobType, j.kind \in Kinds
  PROVE  Over(Finish(j))
<1>1. CASE j.pending # "none"
  BY <1>1, EndOver DEF Finish, JobType
<1>2. CASE j.pending = "none" /\ j.kind = "post"
  <2>1. "cleared" \in Results \ {"none"}
    BY DEF Results
  <2> QED
    BY <1>2, <2>1, EndOver DEF Finish
<1>3. CASE j.pending = "none" /\ j.kind # "post"
  <2>1. j.kind \in Results \ {"none"}
    BY <1>3, Numbers DEF Results
  <2> QED
    BY <1>3, <2>1, EndOver DEF Finish
<1> QED
  BY <1>1, <1>2, <1>3

\* The lines that go out are lines of your text.
LEMMA TakeIs ==
  ASSUME NEW j \in JobType
  PROVE  /\ Take(j) \in Nat /\ Take(j) <= InFlight - j.flight
         /\ Take(j) <= Lines + 1 - j.next
  BY Numbers DEF Take, JobType, InFlight

LEMMA PumpedIs ==
  ASSUME NEW j \in JobType
  PROVE  /\ Pumped(j).job \in JobType
         /\ Pumped(j).job = [j EXCEPT !.next = @ + Take(j), !.flight = @ + Take(j)]
         /\ Pumped(j).out \in Seq(LineType) /\ Are(Pumped(j).out, EditorLines \ {"leave"})
<1> DEFINE k == Take(j)
           out == [i \in 1 .. k |-> Line("card", "text", 0, Wire(j.next + i - 1))]
<1>1. k \in Nat /\ k <= InFlight - j.flight /\ k <= Lines + 1 - j.next
  BY TakeIs
<1>2. Pumped(j).job = [j EXCEPT !.next = @ + k, !.flight = @ + k] /\ Pumped(j).out = out
  BY DEF Pumped, Then
<1> HIDE DEF k
<1>3. j.next \in 1 .. Lines + 1 /\ j.flight \in 0 .. InFlight /\ InFlight \in Nat
  BY DEF JobType, InFlight
<1>4. j.next + k \in 1 .. Lines + 1 /\ j.flight + k \in 0 .. InFlight
  BY <1>1, <1>3, Numbers
<1>5. [j EXCEPT !.next = @ + k, !.flight = @ + k] \in JobType
  BY <1>4 DEF JobType
<1>6. \A i \in 1 .. k : Wire(j.next + i - 1) \in Kept
  BY <1>1, <1>3, Numbers DEF Wire, Kept, Other, Space
<1>7. \A i \in 1 .. k : out[i] \in LineType /\ out[i].do = "text"
  BY <1>6 DEF Line, LineType, EditorLines
<1>8. out \in Seq(LineType) /\ Len(out) = k
  BY <1>1, <1>7
<1>9. Are(out, EditorLines \ {"leave"})
  BY <1>7, <1>8 DEF Are, EditorLines
<1> HIDE DEF out
<1> QED
  BY <1>2, <1>5, <1>8, <1>9 DEF k

LEMMA AdvanceIs ==
  ASSUME NEW j, Ready(j), j.stages # <<>>, Head(j.stages).do \in Deeds \ {"send", "none"}
  PROVE  /\ Advance(j).out = <<CommandOf(Head(j.stages))>>
         /\ Advance(j).job \in JobType
         /\ Advance(j).job.stage = Head(j.stages)
         /\ Advance(j).job.stages = Tail(j.stages)
         /\ Advance(j).job.phase = IF Head(j.stages).do \in EditorStages THEN "editor" ELSE "tick"
         /\ Advance(j).job.inEditor = (j.inEditor /\ Head(j.stages).do # "leave")
         /\ Advance(j).job.kind = j.kind /\ Advance(j).job.result = "none"
         /\ Resends(Advance(j).job)
<1> DEFINE s == Head(j.stages)
           at == [j EXCEPT !.stage = s, !.stages = Tail(@), !.words = {}, !.listing = <<>>]
           to == [at EXCEPT !.phase = IF s.do \in EditorStages THEN "editor" ELSE "tick",
                            !.inEditor = StaysOpen(j, s),
                            !.postSent = @ \/ s.do = "post"]
<1>1. j \in JobType /\ j.stages \in Seq(StageType) /\ s \in StageType /\ Tail(j.stages) \in Seq(StageType)
  BY DEF Ready, JobType
<1>2. Advance(j) = Then(to, <<CommandOf(s)>>)
  BY DEF Advance
<1>3. /\ at \in JobType /\ at.stage = s /\ at.stages = Tail(j.stages) /\ at.kind = j.kind
      /\ at.result = j.result /\ at.from = j.from
  <2>1. <<>> \in Seq(Kept) /\ {} \in SUBSET Words
    OBVIOUS
  <2> HIDE DEF s
  <2> QED
    BY <1>1, <2>1 DEF JobType
<1>4. StaysOpen(j, s) \in BOOLEAN /\ StaysOpen(j, s) = (j.inEditor /\ s.do # "leave")
  BY <1>1 DEF StaysOpen, JobType
<1>5. (at.postSent \/ s.do = "post") \in BOOLEAN
  OBVIOUS
<1>6. /\ to \in JobType /\ to.stage = s /\ to.stages = Tail(j.stages)
      /\ to.phase = (IF s.do \in EditorStages THEN "editor" ELSE "tick")
      /\ to.inEditor = StaysOpen(j, s) /\ to.kind = j.kind /\ to.result = j.result /\ to.from = j.from
  <2>1. (IF s.do \in EditorStages THEN "editor" ELSE "tick") \in {"idle", "tick", "editor", "sending"}
    OBVIOUS
  <2> HIDE DEF s, at
  <2> QED
    BY <1>1, <1>3, <1>4, <1>5, <2>1, ZenonT(60) DEF JobType
<1>7. Resends(to)
  <2>1. /\ SendsFirst(Tail(j.stages)) /\ (Sends(Tail(j.stages)) => Sends(j.stages))
        /\ s.do = "verify" => ~ Sends(Tail(j.stages))
    BY <1>1, SendsTail DEF Ready
  <2> HIDE DEF s, to
  <2> QED
    BY <1>6, <2>1 DEF Ready, Resends
<1> HIDE DEF to
<1>8. Advance(j).job = to /\ Advance(j).out = <<CommandOf(s)>>
  BY <1>2 DEF Then
<1> QED
  BY <1>4, <1>6, <1>7, <1>8 DEF Ready

LEMMA Named ==
  /\ Prompts \subseteq Deeds \ {"send", "none"} /\ Prompts \cap EditorStages = {}
  /\ InEdits \subseteq Deeds \ {"none"} /\ InEdits \ {"send"} \subseteq EditorStages
  /\ {"open", "leave"} \subseteq Deeds \ {"send", "none"}
  /\ "open" \in EditorStages /\ "leave" \notin EditorStages
  /\ "leave" \notin InEdits /\ "leave" \notin Prompts /\ "open" \notin Prompts
  /\ "open" \notin InEdits /\ Prompts \cap InEdits = {}
  /\ Prompts \subseteq PromptLines \ {"open"} /\ Prompts \cap EditorLines = {}
  /\ \A s \in StageType : s.do \in Prompts \cup {"open", "leave"} => Asked(s) = s.do
  /\ \A s \in StageType : s.do \in InEdits \ {"send"} => Asked(s) \in EditorLines \ {"leave"}
  BY DEF Prompts, InEdits, Deeds, ShowStages, EditorStages, PromptLines, EditorLines, Asked

LEMMA AdvancePast ==
  ASSUME NEW j, Ready(j), ~j.inEditor, Past(j.stages)
  PROVE  Over(Advance(j)) \/ ToLeave(Advance(j), Prompts)
<1>1. j \in JobType /\ j.stages \in Seq(StageType)
  BY DEF Ready, JobType
<1>2. CASE j.stages = <<>>
  <2>1. Advance(j) = Finish(j)
    BY <1>2 DEF Advance
  <2> QED
    BY <2>1, FinishOver DEF Ready
<1>3. CASE j.stages # <<>>
  <2> DEFINE s == Head(j.stages)
             r == Advance(j)
  <2>1. s \in StageType /\ s.do \in Prompts /\ Past(Tail(j.stages))
    BY <1>1, <1>3, PastHead
  <2>2. s.do \in Deeds \ {"send", "none"} /\ s.do \notin EditorStages /\ Asked(s) \in Prompts
    BY <2>1, Named
  <2>3. /\ r.out = <<CommandOf(s)>> /\ r.job \in JobType /\ r.job.stage = s
        /\ r.job.stages = Tail(j.stages) /\ r.job.phase = "tick"
        /\ r.job.inEditor = FALSE /\ r.job.kind = j.kind /\ r.job.result = "none"
        /\ Resends(r.job)
    BY <1>3, <2>2, AdvanceIs
  <2>4. Single(<<CommandOf(s)>>, Prompts)
    BY <2>1, <2>2, SingleIs
  <2> HIDE DEF r, s
  <2>5. ToLeave(r, Prompts)
    BY <2>1, <2>3, <2>4 DEF ToLeave, JobForm, Leaving, Ready
  <2> QED
    BY <2>5 DEF r
<1> QED
  BY <1>2, <1>3

LEMMA AdvanceOutside ==
  ASSUME NEW j, Ready(j), ~j.inEditor, Outside(j.stages)
  PROVE  ToBoard(Advance(j)) \/ ToOpen(Advance(j))
<1> DEFINE s == Head(j.stages)
           r == Advance(j)
<1>1. j \in JobType /\ j.stages \in Seq(StageType)
  BY DEF Ready, JobType
<1>2. /\ j.stages # <<>> /\ s \in StageType
      /\ \/ s.do = "open" /\ Inside(Tail(j.stages))
         \/ s.do \in Prompts /\ Outside(Tail(j.stages))
  BY <1>1, OutsideHead
<1>3. s.do \in Deeds \ {"send", "none"} /\ Asked(s) = s.do
  BY <1>2, Named
<1>4. /\ r.out = <<CommandOf(s)>> /\ r.job \in JobType /\ r.job.stage = s
      /\ r.job.stages = Tail(j.stages)
      /\ r.job.phase = IF s.do \in EditorStages THEN "editor" ELSE "tick"
      /\ r.job.inEditor = FALSE /\ r.job.kind = j.kind /\ r.job.result = "none"
      /\ Resends(r.job)
  BY <1>2, <1>3, AdvanceIs
<1>5. Single(<<CommandOf(s)>>, {s.do})
  BY <1>2, <1>3, SingleIs
<1> HIDE DEF r, s
<1>6. CASE s.do = "open" /\ Inside(Tail(j.stages))
  <2>1. ToOpen(r)
    BY <1>4, <1>5, <1>6, Named DEF ToOpen, JobForm, AtOpen, Ready
  <2> QED
    BY <2>1 DEF r
<1>7. CASE s.do \in Prompts /\ Outside(Tail(j.stages))
  <2>1. r.job.phase = "tick"
    BY <1>4, <1>7, Named
  <2>2. Single(r.out, Prompts)
    BY <1>4, <1>5, <1>7 DEF Single
  <2>3. ToBoard(r)
    BY <1>4, <1>7, <2>1, <2>2 DEF ToBoard, JobForm, AtBoard, Ready
  <2> QED
    BY <2>3 DEF r
<1> QED
  BY <1>2, <1>6, <1>7

LEMMA AdvanceInside ==
  ASSUME NEW j, Ready(j), j.inEditor, Inside(j.stages)
  PROVE  ToText(Advance(j)) \/ ToLeave(Advance(j), {"leave"})
<1> DEFINE s == Head(j.stages)
           r == Advance(j)
<1>1. j \in JobType /\ j.stages \in Seq(StageType)
  BY DEF Ready, JobType
<1>2. /\ j.stages # <<>> /\ s \in StageType /\ Tail(j.stages) \in Seq(StageType)
      /\ \/ s.do = "leave" /\ Past(Tail(j.stages))
         \/ s.do \in InEdits /\ Inside(Tail(j.stages))
  BY <1>1, InsideHead
<1>3. CASE s.do # "send"
  <2>1. s.do \in Deeds \ {"send", "none"}
    BY <1>2, <1>3, Named
  <2>2. /\ r.out = <<CommandOf(s)>> /\ r.job \in JobType /\ r.job.stage = s
        /\ r.job.stages = Tail(j.stages)
        /\ r.job.phase = IF s.do \in EditorStages THEN "editor" ELSE "tick"
        /\ r.job.inEditor = (s.do # "leave") /\ r.job.kind = j.kind /\ r.job.result = "none"
        /\ Resends(r.job)
    BY <1>2, <2>1, AdvanceIs
  <2>3. Single(<<CommandOf(s)>>, {Asked(s)})
    BY <1>2, <2>1, SingleIs
  <2> HIDE DEF r, s
  <2>4. CASE s.do = "leave" /\ Past(Tail(j.stages))
    <3>1. Asked(s) = "leave" /\ r.job.phase = "tick"
      BY <1>2, <2>2, <2>4, Named
    <3>2. ToLeave(r, {"leave"})
      BY <2>2, <2>3, <2>4, <3>1 DEF ToLeave, JobForm, Leaving, Ready
    <3> QED
      BY <3>2 DEF r
  <2>5. CASE s.do \in InEdits /\ Inside(Tail(j.stages))
    <3>1. s.do \in EditorStages /\ s.do \in InEdits \ {"send"} /\ s.do # "leave"
      BY <1>3, <2>5, Named
    <3>2. r.job.phase = "editor" /\ r.job.inEditor = TRUE
      BY <2>2, <3>1
    <3>3. Asked(s) \in EditorLines \ {"leave"}
      BY <1>2, <3>1, Named
    <3>4. r.out \in Seq(LineType) /\ Are(r.out, EditorLines \ {"leave"})
      BY <2>2, <2>3, <3>3 DEF Single, Are
    <3>5. ToText(r)
      BY <2>2, <2>3, <2>5, <3>1, <3>2, <3>4 DEF ToText, JobForm, InText, Ready
    <3> QED
      BY <3>5 DEF r
  <2> QED
    BY <1>2, <2>4, <2>5
<1>4. CASE s.do = "send"
  <2> DEFINE at == [j EXCEPT !.stage = s, !.stages = Tail(@), !.words = {}, !.listing = <<>>]
             to == [at EXCEPT !.phase = "sending", !.next = j.from, !.flight = 0]
  <2>1. Sends(j.stages) /\ Inside(Tail(j.stages))
    <3>1. s = j.stages[1] /\ 1 \in 1 .. Len(j.stages)
      BY <1>1, <1>2
    <3> QED
      BY <1>2, <1>4, <3>1 DEF Sends
  <2>2. r = Pumped(to)
    BY <1>2, <1>4 DEF Advance
  <2>3. /\ at \in JobType /\ at.stage = s /\ at.stages = Tail(j.stages) /\ at.kind = j.kind
        /\ at.result = j.result /\ at.from = j.from /\ at.inEditor = j.inEditor
    <3>1. <<>> \in Seq(Kept) /\ {} \in SUBSET Words
      OBVIOUS
    <3> HIDE DEF s
    <3> QED
      BY <1>1, <1>2, <3>1 DEF JobType
  <2>4. /\ to \in JobType /\ to.stage = s /\ to.stages = Tail(j.stages) /\ to.kind = j.kind
        /\ to.result = j.result /\ to.from = j.from /\ to.inEditor = j.inEditor
        /\ to.phase = "sending"
    <3>1. j.from \in 1 .. Lines + 1 /\ 0 \in 0 .. InFlight
      BY <2>1 DEF Ready, InFlight
    <3> HIDE DEF s, at
    <3> QED
      BY <2>3, <3>1 DEF JobType
  <2>5. Resends(to)
    <3>1. SendsFirst(Tail(j.stages)) /\ (Sends(Tail(j.stages)) => Sends(j.stages))
      BY <1>1, <1>2, SendsTail DEF Ready
    <3> HIDE DEF s, to
    <3> QED
      BY <1>4, <2>4, <3>1 DEF Ready, Resends
  <2> HIDE DEF to, s, r
  <2>6. /\ r.job \in JobType
        /\ r.job = [to EXCEPT !.next = @ + Take(to), !.flight = @ + Take(to)]
        /\ r.out \in Seq(LineType) /\ Are(r.out, EditorLines \ {"leave"})
    BY <2>2, <2>4, PumpedIs
  <2>7. /\ r.job.stage = s /\ r.job.stages = Tail(j.stages) /\ r.job.kind = j.kind
        /\ r.job.result = j.result /\ r.job.from = to.from /\ r.job.inEditor = j.inEditor
        /\ r.job.phase = "sending"
    BY <2>4, <2>6 DEF JobType
  <2>8. Resends(r.job)
    BY <2>4, <2>5, <2>7 DEF Resends
  <2>9. ToText(r)
    BY <1>4, <2>1, <2>6, <2>7, <2>8 DEF ToText, JobForm, InText, Ready
  <2> QED
    BY <2>9 DEF r
<1> QED
  BY <1>3, <1>4

-----------------------------------------------------------------------------
(* What is left of a job that ends early.                                  *)

LEMMA PlanIs ==
  ASSUME NEW l \in Seq(Deeds)
  PROVE  /\ Plan(l) \in Seq(StageType) /\ Len(Plan(l)) = Len(l)
         /\ \A i \in 1 .. Len(l) : Plan(l)[i].do = l[i]
<1>1. \A d \in Deeds : Stage(d) \in StageType /\ Stage(d).do = d
  BY Numbers DEF Stage, StageType, Kept, Other
<1>2. Plan(l) = [i \in 1 .. Len(l) |-> Stage(l[i])]
  BY DEF Plan
<1>3. \A i \in 1 .. Len(l) : l[i] \in Deeds
  OBVIOUS
<1> QED
  BY <1>1, <1>2, <1>3

Endings == {"leave", "clear note"}

LEMMA SeqOne ==
  ASSUME NEW S, NEW a \in S
  PROVE  <<a>> \in Seq(S) /\ Len(<<a>>) = 1 /\ <<a>>[1] = a
  OBVIOUS

LEMMA SeqTwo ==
  ASSUME NEW S, NEW a \in S, NEW b \in S
  PROVE  <<a, b>> \in Seq(S) /\ Len(<<a, b>>) = 2 /\ <<a, b>>[1] = a /\ <<a, b>>[2] = b
  OBVIOUS

LEMMA EndingsDeeds ==
  ASSUME NEW l \in Seq(Endings)
  PROVE  /\ Plan(l) \in Seq(StageType) /\ Len(Plan(l)) = Len(l)
         /\ \A i \in 1 .. Len(l) : Plan(l)[i].do = l[i]
         /\ \A i \in 1 .. Len(l) : l[i] \in Endings
<1>1. Endings \subseteq Deeds
  BY DEF Endings, Deeds, Prompts
<1>2. l \in Seq(Deeds)
  BY <1>1
<1> QED
  BY <1>2, PlanIs

LEMMA InsideOne ==
  ASSUME NEW p, Len(p) = 1, p[1].do = "leave"
  PROVE  Inside(p)
<1>1. 1 \in 1 .. Len(p) /\ \A i \in 1 .. Len(p) : ~ (i < 1) /\ ~ (i > 1)
  OBVIOUS
<1> QED
  BY <1>1 DEF Inside

LEMMA InsideTwo ==
  ASSUME NEW p \in Seq(StageType), Len(p) = 2, p[1].do = "leave", p[2].do = "clear note"
  PROVE  Inside(p)
<1>1. 1 \in 1 .. 2 /\ \A i \in 1 .. 2 : ~ (i < 1)
  BY ONLY SMT
<1>2. \A i \in 1 .. 2 : i > 1 => i = 2
  BY ONLY SMT
<1>3. p[2].do \in Prompts
  BY DEF Prompts
<1> QED
  BY <1>1, <1>2, <1>3 DEF Inside

LEMMA PlansEnd ==
  /\ <<"leave">> \in Seq(Endings) /\ Inside(Plan(<<"leave">>))
  /\ <<"leave", "clear note">> \in Seq(Endings) /\ Inside(Plan(<<"leave", "clear note">>))
  /\ <<"clear note">> \in Seq(Endings) /\ Past(Plan(<<"clear note">>))
<1>1. "leave" \in Endings /\ "clear note" \in Endings /\ "clear note" \in Prompts
  BY DEF Endings, Prompts
<1>2. ASSUME NEW a \in Endings, a = "leave" PROVE <<a>> \in Seq(Endings) /\ Inside(Plan(<<a>>))
  <2> DEFINE l == <<a>>
  <2>1. l \in Seq(Endings) /\ Len(l) = 1 /\ l[1] = a
    BY SeqOne
  <2> HIDE DEF l
  <2>2. Len(Plan(l)) = 1 /\ Plan(l)[1].do = "leave"
    BY <1>2, <2>1, EndingsDeeds
  <2>3. Inside(Plan(l))
    BY <2>2, InsideOne
  <2> QED
    BY <2>1, <2>3 DEF l
<1>3. ASSUME NEW a \in Endings, a = "leave", NEW b \in Endings, b = "clear note"
      PROVE  <<a, b>> \in Seq(Endings) /\ Inside(Plan(<<a, b>>))
  <2> DEFINE l == <<a, b>>
  <2>1. l \in Seq(Endings) /\ Len(l) = 2 /\ l[1] = a /\ l[2] = b
    BY SeqTwo
  <2> HIDE DEF l
  <2>2. Len(Plan(l)) = 2 /\ Plan(l)[1].do = "leave" /\ Plan(l)[2].do = "clear note"
    <3>1. 1 \in 1 .. Len(l) /\ 2 \in 1 .. Len(l)
      BY <2>1
    <3> QED
      BY <1>3, <2>1, <3>1, EndingsDeeds
  <2>3. Inside(Plan(l))
    BY <2>1, <2>2, InsideTwo, EndingsDeeds
  <2> QED
    BY <2>1, <2>3 DEF l
<1>4. ASSUME NEW a \in Endings, a = "clear note" PROVE <<a>> \in Seq(Endings) /\ Past(Plan(<<a>>))
  <2> DEFINE l == <<a>>
  <2>1. l \in Seq(Endings) /\ Len(l) = 1 /\ l[1] = a
    BY SeqOne
  <2> HIDE DEF l
  <2>2. Len(Plan(l)) = 1 /\ Plan(l)[1].do \in Prompts
    <3>1. 1 \in 1 .. Len(l)
      BY <2>1
    <3> QED
      BY <1>1, <1>4, <2>1, <3>1, EndingsDeeds
  <2>3. Past(Plan(l))
    BY <2>2 DEF Past
  <2> QED
    BY <2>1, <2>3 DEF l
<1> QED
  BY <1>1, <1>2, <1>3, <1>4, Zenon

LEMMA EndingReady ==
  ASSUME NEW j \in JobType, j.kind \in Kinds, j.result = "none",
         NEW result \in Results, NEW l \in Seq(Endings)
  PROVE  LET k == [j EXCEPT !.pending = result, !.stages = Plan(l), !.phase = "idle"]
         IN /\ Ready(k) /\ k.stages = Plan(l) /\ k.inEditor = j.inEditor
            /\ Ending(j, result, l) = Advance(k)
<1> DEFINE s == Plan(l)
           k == [j EXCEPT !.pending = result, !.stages = s, !.phase = "idle"]
<1>1. s \in Seq(StageType) /\ SendsFirst(s) /\ ~ Sends(s)
  <2>1. /\ s \in Seq(StageType) /\ Len(s) = Len(l)
        /\ \A i \in 1 .. Len(l) : s[i].do = l[i] /\ l[i] \in Endings
    BY EndingsDeeds
  <2> HIDE DEF s
  <2>2. \A i \in 1 .. Len(s) : s[i].do # "verify" /\ s[i].do # "send"
    BY <2>1 DEF Endings
  <2> QED
    BY <2>1, <2>2 DEF SendsFirst, Sends
<1>2. Ending(j, result, l) = Advance(k)
  BY DEF Ending
<1>3. k \in JobType /\ k.kind = j.kind /\ k.result = j.result /\ k.stages = s /\ k.inEditor = j.inEditor
  <2>1. "idle" \in {"idle", "tick", "editor", "sending"}
    OBVIOUS
  <2> HIDE DEF s
  <2> QED
    BY <1>1, <2>1 DEF JobType
<1> HIDE DEF k
<1>4. Ready(k)
  BY <1>1, <1>3 DEF Ready
<1> QED
  BY <1>2, <1>3, <1>4 DEF k, s

-----------------------------------------------------------------------------
(* Numbers in order.  A set of numbers that is not empty has a least one,  *)
(* and so the first k for which no order exists would be one past an order *)
(* that does.                                                              *)

LEMMA Least ==
  ASSUME NEW T \in SUBSET Nat, T # {}
  PROVE  \E n \in T : \A m \in T : n <= m
<1> DEFINE R == OpToRel(<, Nat)
<1>1. IsWellFoundedOn(R, Nat)
  BY NatLessThanWellFounded
<1>2. \A x, y \in Nat : x < y => <<x, y>> \in R
  BY Zenon DEF OpToRel
<1> HIDE DEF R
<1>3. PICK n \in T : \A m \in T : ~ (<<m, n>> \in R)
  BY <1>1, WFMin, Zenon
<1>4. \A m \in T : ~ (m < n)
  BY <1>2, <1>3, Zenon
<1> QED
  BY <1>4

Sorts(s, S) == \A i, k \in 1 .. Cardinality(S) : i < k => s[i] < s[k]
Sortable(S) == \E s \in [1 .. Cardinality(S) -> S] : Sorts(s, S)

LEMMA SortableEmpty == Sortable({})
<1>1. Cardinality({}) = 0
  BY FS_EmptySet
<1>2. [i \in 1 .. 0 |-> 0] \in [1 .. Cardinality({}) -> {}]
  BY <1>1
<1>3. Sorts([i \in 1 .. 0 |-> 0], {})
  BY <1>1 DEF Sorts
<1> QED
  BY <1>2, <1>3, Zenon DEF Sortable

LEMMA SortableMore ==
  ASSUME NEW Q \in SUBSET Nat, IsFiniteSet(Q), NEW k \in Nat, Sortable(Q),
         \A q \in Q : q < k
  PROVE  Sortable(Q \cup {k})
<1> DEFINE d == Cardinality(Q)
<1>1. k \notin Q
  OBVIOUS
<1>2. d \in Nat /\ Cardinality(Q \cup {k}) = d + 1
  BY <1>1, FS_AddElement, FS_CardinalityType
<1>3. PICK s \in [1 .. d -> Q] : Sorts(s, Q)
  BY Zenon DEF Sortable
<1>4. \A i, j \in 1 .. d : i < j => s[i] < s[j]
  BY <1>3, Zenon DEF Sorts
<1> HIDE DEF d
<1>5. \A i \in 1 .. d : s[i] \in Q /\ s[i] \in Nat /\ s[i] < k
  BY <1>3
<1> DEFINE t == [i \in 1 .. d + 1 |-> IF i = d + 1 THEN k ELSE s[i]]
<1>6. t \in [1 .. d + 1 -> Q \cup {k}]
  BY <1>2, <1>5
<1>7. \A i, j \in 1 .. d + 1 : i < j => t[i] < t[j]
  BY <1>2, <1>4, <1>5
<1> HIDE DEF t
<1>8. Sorts(t, Q \cup {k})
  BY <1>2, <1>7 DEF Sorts
<1> QED
  BY <1>2, <1>6, <1>8 DEF Sortable

LEMMA SortableUpTo ==
  ASSUME NEW S \in SUBSET Nat, NEW c \in Nat
  PROVE  Sortable(S \cap (1 .. c))
<1> DEFINE T == {k \in Nat : ~ Sortable(S \cap (1 .. k))}
<1>1. T = {}
  <2> SUFFICES ASSUME T # {} PROVE FALSE
    OBVIOUS
  <2>1. PICK k \in T : \A m \in T : k <= m
    <3>1. T \in SUBSET Nat
      OBVIOUS
    <3> QED
      BY <3>1, Least, Zenon
  <2>2. k \in Nat /\ ~ Sortable(S \cap (1 .. k))
    OBVIOUS
  <2>3. CASE k = 0
    <3>1. S \cap (1 .. k) = {}
      BY <2>3
    <3> QED
      BY <2>2, <3>1, SortableEmpty, Zenon
  <2>4. CASE k # 0
    <3> DEFINE Q == S \cap (1 .. k - 1)
    <3>1. k - 1 \in Nat /\ ~ (k <= k - 1)
      BY <2>2, <2>4
    <3>2. k - 1 \notin T
      BY <2>1, <3>1, Zenon
    <3>3. Sortable(Q)
      BY <3>1, <3>2, Zenon
    <3>4. IsFiniteSet(Q)
      <4>1. IsFiniteSet(1 .. k - 1)
        BY <3>1, FS_Interval
      <4> QED
        BY <4>1, FS_Intersection
    <3>5. Q \in SUBSET Nat /\ \A q \in Q : q < k
      BY <2>2
    <3>6. S \cap (1 .. k) = IF k \in S THEN Q \cup {k} ELSE Q
      BY <2>2, <2>4
    <3> HIDE DEF Q
    <3> QED
      BY <2>2, <3>3, <3>4, <3>5, <3>6, SortableMore
  <2> QED
    BY <2>3, <2>4
<1> QED
  BY <1>1

LEMMA AscendingIs ==
  ASSUME NEW c \in Nat, NEW S \in SUBSET (1 .. c)
  PROVE  Ascending(S) \in [1 .. Cardinality(S) -> S]
<1>1. S \cap (1 .. c) = S
  BY Zenon
<1>3. S \in SUBSET Nat
  OBVIOUS
<1>2. Sortable(S)
  BY <1>1, <1>3, SortableUpTo, Zenon
<1> QED
  BY <1>2, Zenon DEF Ascending, Sortable, Sorts
-----------------------------------------------------------------------------
(* A mend.                                                                 *)

Joined(a, b, c) ==
    /\ Len(c) = Len(a) + Len(b)
    /\ Len(a) \in Nat /\ Len(b) \in Nat
    /\ \A i \in 1 .. Len(a) : c[i] = a[i]
    /\ \A i \in 1 .. Len(b) : c[Len(a) + i] = b[i]
    /\ \A i \in 1 .. Len(c) :
        i > Len(a) => i - Len(a) \in 1 .. Len(b) /\ c[i] = b[i - Len(a)]

LEMMA ConcatIs ==
  ASSUME NEW S, NEW a \in Seq(S), NEW b \in Seq(S)
  PROVE  a \o b \in Seq(S) /\ Joined(a, b, a \o b)
<1> DEFINE c == a \o b
<1>1. /\ c \in Seq(S) /\ Len(c) = Len(a) + Len(b)
      /\ Len(a) \in Nat /\ Len(b) \in Nat
      /\ \A i \in 1 .. Len(a) : c[i] = a[i]
      /\ \A i \in 1 .. Len(b) : c[Len(a) + i] = b[i]
      /\ \A i \in 1 .. Len(a) + Len(b) : i > Len(a) => i - Len(a) \in 1 .. Len(b) /\ c[i] = b[i - Len(a)]
  OBVIOUS
<1> HIDE DEF c
<1>2. Joined(a, b, c)
  BY <1>1 DEF Joined
<1> QED
  BY <1>1, <1>2 DEF c

LEMMA ConcatAre ==
  ASSUME NEW S, NEW a \in Seq(S), NEW b \in Seq(S), NEW dos, Are(a, dos), Are(b, dos)
  PROVE  a \o b \in Seq(S) /\ Are(a \o b, dos)
<1> DEFINE c == a \o b
<1>1. c \in Seq(S) /\ Joined(a, b, c)
  BY ConcatIs, Zenon
<1> HIDE DEF c
<1>2. \A i \in 1 .. Len(c) : i \in 1 .. Len(a) \/ i > Len(a)
  BY <1>1 DEF Joined
<1>3. Are(c, dos)
  BY <1>1, <1>2 DEF Are, Joined
<1> QED
  BY <1>1, <1>3 DEF c

LEMMA SeqAt ==
  ASSUME NEW S, NEW s \in Seq(S)
  PROVE  Len(s) \in Nat /\ \A i \in 1 .. Len(s) : s[i] \in S
  OBVIOUS

LEMMA FunSeq ==
  ASSUME NEW S, NEW n \in Nat, NEW f \in [1 .. n -> S]
  PROVE  f \in Seq(S) /\ Len(f) = n
  OBVIOUS

LEMMA MendIs ==
  ASSUME NEW h \in Seq(Kept)
  PROVE  \E a \in Seq(StageType) :
            /\ Mend(h) = a \o <<Stage("verify")>>
            /\ Are(a, {"replace", "delete", "send"})
            /\ Len(h) >= Lines => Are(a, {"replace", "delete"})
<1> DEFINE common == IF Len(h) < Lines THEN Len(h) ELSE Lines
           S == {n \in 1 .. common : h[n] # n}
           wrong == Ascending(S)
           extra == IF Len(h) > Lines THEN Len(h) - Lines ELSE 0
           A == [i \in 1 .. Len(wrong) |-> [do |-> "replace", n |-> wrong[i], x |-> wrong[i]]]
           B == [i \in 1 .. extra |-> [do |-> "delete", n |-> Len(h) + 1 - i, x |-> 0]]
           C == IF Len(h) < Lines THEN <<Stage("send")>> ELSE <<>>
<1>1. Len(h) \in Nat /\ Lines \in Nat /\ common \in Nat /\ extra \in Nat
  BY Numbers
<1>2. common <= Lines /\ extra <= Len(h)
  BY <1>1
<1>3. wrong \in Seq(1 .. Lines)
  <2>1. S \in SUBSET (1 .. common) /\ S \subseteq 1 .. Lines
    BY <1>1, <1>2
  <2>2. wrong \in [1 .. Cardinality(S) -> S]
    <3> HIDE DEF S, common
    <3> QED
      BY <1>1, <2>1, AscendingIs
  <2>3. Cardinality(S) \in Nat
    <3> HIDE DEF common
    <3>1. IsFiniteSet(1 .. common)
      <4>1. 1 \in Int /\ common \in Int
        BY <1>1
      <4> QED
        BY <4>1, FS_Interval
    <3>2. IsFiniteSet(S)
      BY <2>1, <3>1, FS_Subset
    <3> QED
      BY <3>2, FS_CardinalityType
  <2> HIDE DEF S, wrong
  <2>4. wrong \in [1 .. Cardinality(S) -> 1 .. Lines]
    BY <2>1, <2>2
  <2> QED
    BY <2>3, <2>4, FunSeq, Zenon
<1>4. A \in Seq(StageType) /\ Are(A, {"replace", "delete"})
  <2>1. {"replace", "delete"} \subseteq Deeds
    BY DEF Deeds, InEdits
  <2>2. \A m \in 1 .. Lines : [do |-> "replace", n |-> m, x |-> m] \in StageType
    BY <1>1, <2>1 DEF StageType, Kept, Other
  <2> HIDE DEF wrong
  <2>3. \A i \in 1 .. Len(wrong) : wrong[i] \in 1 .. Lines
    BY <1>3, SeqAt, Zenon
  <2>4. Len(wrong) \in Nat
    BY <1>3, SeqAt, Zenon
  <2>5. \A i \in 1 .. Len(wrong) : A[i] \in StageType /\ A[i].do = "replace"
    BY <2>2, <2>3
  <2>6. A \in Seq(StageType) /\ Len(A) = Len(wrong)
    BY <2>4, <2>5
  <2> HIDE DEF A
  <2> QED
    BY <2>5, <2>6 DEF Are
<1>5. B \in Seq(StageType) /\ Are(B, {"replace", "delete"})
  <2>1. {"replace", "delete"} \subseteq Deeds
    BY DEF Deeds, InEdits
  <2>2. \A m \in Nat : [do |-> "delete", n |-> m, x |-> 0] \in StageType
    BY <1>1, <2>1 DEF StageType, Kept, Other
  <2> HIDE DEF extra
  <2>3. \A i \in 1 .. extra : Len(h) + 1 - i \in Nat
    BY <1>1, <1>2
  <2>4. \A i \in 1 .. extra : B[i] \in StageType /\ B[i].do = "delete"
    BY <2>2, <2>3
  <2>5. B \in Seq(StageType) /\ Len(B) = extra
    <3>1. B \in [1 .. extra -> StageType]
      BY <2>4
    <3>2. extra \in Nat
      BY <1>1
    <3> HIDE DEF B
    <3> QED
      BY <3>1, <3>2, FunSeq
  <2> HIDE DEF B
  <2> QED
    BY <2>4, <2>5 DEF Are
<1>6. /\ C \in Seq(StageType) /\ Are(C, {"replace", "delete", "send"})
      /\ Len(h) >= Lines => C = <<>>
  <2>1. Stage("send") \in StageType /\ Stage("send").do = "send"
    BY <1>1 DEF Stage, StageType, Kept, Other, Deeds, InEdits
  <2>2. CASE Len(h) < Lines
    <3>1. C = <<Stage("send")>>
      BY <2>2
    <3> HIDE DEF C
    <3>2. C \in Seq(StageType) /\ Len(C) = 1 /\ C[1] = Stage("send")
      BY <2>1, <3>1, SeqOne
    <3> QED
      BY <1>1, <2>1, <2>2, <3>2 DEF Are
  <2>3. CASE ~ (Len(h) < Lines)
    <3>1. C = <<>>
      BY <2>3
    <3> QED
      BY <3>1 DEF Are
  <2> QED
    BY <2>2, <2>3
<1>7. Mend(h) = A \o B \o C \o <<Stage("verify")>>
  BY DEF Mend
<1> HIDE DEF A, B, C
<1>8. A \o B \in Seq(StageType) /\ Are(A \o B, {"replace", "delete"})
  BY <1>4, <1>5, ConcatAre
<1>9. Are(A \o B, {"replace", "delete", "send"})
  BY <1>8 DEF Are
<1>10. A \o B \o C \in Seq(StageType) /\ Are(A \o B \o C, {"replace", "delete", "send"})
  BY <1>6, <1>8, <1>9, ConcatAre
<1>11. Len(h) >= Lines => A \o B \o C = A \o B
  BY <1>6, <1>8
<1> QED
  BY <1>7, <1>8, <1>10, <1>11

\* Commands of the editor go before what is left inside it.
LEMMA InsideMore ==
  ASSUME NEW m \in Seq(StageType), Are(m, InEdits), NEW s \in Seq(StageType), Inside(s)
  PROVE  m \o s \in Seq(StageType) /\ Inside(m \o s)
<1> DEFINE w == m \o s
<1>0. w \in Seq(StageType) /\ Joined(m, s, w)
  BY ConcatIs, Zenon
<1> HIDE DEF w
<1>1. /\ w \in Seq(StageType) /\ Len(w) = Len(m) + Len(s) /\ Len(m) \in Nat /\ Len(s) \in Nat
      /\ \A i \in 1 .. Len(m) : w[i] = m[i]
      /\ \A i \in 1 .. Len(s) : w[Len(m) + i] = s[i]
      /\ \A i \in 1 .. Len(w) : i > Len(m) => i - Len(m) \in 1 .. Len(s) /\ w[i] = s[i - Len(m)]
  BY <1>0 DEF Joined
<1>2. PICK l \in 1 .. Len(s) :
        /\ s[l].do = "leave"
        /\ \A i \in 1 .. Len(s) : i < l => s[i].do \in InEdits
        /\ \A i \in 1 .. Len(s) : i > l => s[i].do \in Prompts
  BY DEF Inside
<1> DEFINE n == Len(m) + l
<1>3. n \in 1 .. Len(w) /\ w[n].do = "leave"
  BY <1>1, <1>2
<1>4. \A i \in 1 .. Len(w) : i < n => w[i].do \in InEdits
  <2> SUFFICES ASSUME NEW i \in 1 .. Len(w), i < n PROVE w[i].do \in InEdits
    OBVIOUS
  <2>1. CASE i \in 1 .. Len(m)
    BY <1>1, <2>1 DEF Are
  <2>2. CASE i > Len(m)
    <3>1. i - Len(m) \in 1 .. Len(s) /\ i - Len(m) < l /\ w[i] = s[i - Len(m)]
      BY <1>1, <2>2
    <3> QED
      BY <1>2, <3>1
  <2> QED
    BY <1>1, <2>1, <2>2
<1>5. \A i \in 1 .. Len(w) : i > n => w[i].do \in Prompts
  <2> SUFFICES ASSUME NEW i \in 1 .. Len(w), i > n PROVE w[i].do \in Prompts
    OBVIOUS
  <2>1. i - Len(m) \in 1 .. Len(s) /\ i - Len(m) > l /\ w[i] = s[i - Len(m)]
    BY <1>1
  <2> QED
    BY <1>2, <2>1
<1> HIDE DEF n
<1>6. Inside(w)
  BY <1>3, <1>4, <1>5 DEF Inside
<1> QED
  BY <1>1, <1>6 DEF w

LEMMA MendForm ==
  ASSUME NEW h \in Seq(Kept), NEW s \in Seq(StageType), Inside(s), ~ Sends(s)
  PROVE  /\ Mend(h) \o s \in Seq(StageType) /\ Inside(Mend(h) \o s)
         /\ SendsFirst(Mend(h) \o s)
         /\ Sends(Mend(h) \o s) => Len(h) < Lines
<1>1. PICK a \in Seq(StageType) :
        /\ Mend(h) = a \o <<Stage("verify")>>
        /\ Are(a, {"replace", "delete", "send"})
        /\ Len(h) >= Lines => Are(a, {"replace", "delete"})
  BY MendIs
<1> DEFINE v == <<Stage("verify")>>
           m == Mend(h)
           w == m \o s
<1>2. Stage("verify") \in StageType /\ Stage("verify").do = "verify"
  BY Numbers DEF Stage, StageType, Kept, Other, Deeds, InEdits, ShowStages
<1>3. v \in Seq(StageType) /\ Len(v) = 1 /\ v[1].do = "verify"
  BY <1>2, SeqOne
<1>4. m = a \o v
  BY <1>1
<1> HIDE DEF v, m
<1>5. /\ m \in Seq(StageType) /\ Len(m) = Len(a) + 1 /\ Len(a) \in Nat
      /\ \A i \in 1 .. Len(a) : m[i] = a[i]
      /\ m[Len(a) + 1] = v[1]
  <2>1. m \in Seq(StageType) /\ Joined(a, v, m)
    BY <1>3, <1>4, ConcatIs, Zenon
  <2>2. 1 \in 1 .. Len(v)
    BY <1>3
  <2> QED
    BY <1>3, <2>1, <2>2 DEF Joined
<1>6. \A i \in 1 .. Len(m) : i \in 1 .. Len(a) \/ i = Len(a) + 1
  BY <1>5
<1>7. Are(m, InEdits)
  <2>1. {"replace", "delete", "send", "verify"} \subseteq InEdits
    BY DEF InEdits, ShowStages
  <2>2. \A i \in 1 .. Len(a) : a[i].do \in {"replace", "delete", "send"}
    BY <1>1 DEF Are
  <2>3. \A i \in 1 .. Len(m) : m[i].do \in {"replace", "delete", "send", "verify"}
    BY <1>3, <1>5, <1>6, <2>2
  <2> QED
    BY <2>1, <2>3 DEF Are
<1>8. w \in Seq(StageType) /\ Inside(w)
  BY <1>5, <1>7, InsideMore
<1>9. /\ Len(w) = Len(m) + Len(s) /\ Len(m) \in Nat /\ Len(s) \in Nat
      /\ \A i \in 1 .. Len(m) : w[i] = m[i]
      /\ \A i \in 1 .. Len(w) : i > Len(m) => i - Len(m) \in 1 .. Len(s) /\ w[i] = s[i - Len(m)]
  <2>1. Joined(m, s, w)
    BY <1>5, ConcatIs, Zenon
  <2> QED
    BY <2>1 DEF Joined
<1> HIDE DEF w
<1>10. SendsFirst(w)
  <2> SUFFICES ASSUME NEW i \in 1 .. Len(w), NEW k \in 1 .. Len(w), w[i].do = "verify", i < k
               PROVE  w[k].do # "send"
    BY DEF SendsFirst
  <2>1. i >= Len(m)
    <3>1. CASE i \in 1 .. Len(a)
      <4>1. i \in 1 .. Len(m) /\ w[i] = a[i]
        BY <1>5, <1>9, <3>1
      <4>2. a[i].do \in {"replace", "delete", "send"}
        BY <1>1, <3>1 DEF Are
      <4> QED
        BY <4>1, <4>2
    <3> QED
      BY <1>5, <1>9, <3>1
  <2>2. k - Len(m) \in 1 .. Len(s) /\ w[k] = s[k - Len(m)]
    BY <1>9, <2>1
  <2> QED
    BY <2>2 DEF Sends
<1>11. Sends(w) => Len(h) < Lines
  <2> SUFFICES ASSUME Sends(w), ~ (Len(h) < Lines) PROVE FALSE
    OBVIOUS
  <2>1. Are(a, {"replace", "delete"})
    BY <1>1, Numbers
  <2>2. PICK k \in 1 .. Len(w) : w[k].do = "send"
    BY DEF Sends
  <2>3. CASE k \in 1 .. Len(a)
    <3>1. k \in 1 .. Len(m) /\ w[k] = a[k]
      BY <1>5, <1>9, <2>3
    <3>2. a[k].do \in {"replace", "delete"}
      BY <2>1, <2>3 DEF Are
    <3> QED
      BY <2>2, <3>1, <3>2
  <2>4. CASE k = Len(a) + 1
    <3>1. k \in 1 .. Len(m) /\ w[k] = m[Len(a) + 1]
      BY <1>5, <1>9, <2>4
    <3> QED
      BY <1>3, <1>5, <2>2, <3>1
  <2>5. CASE k > Len(m)
    BY <1>9, <2>2, <2>5 DEF Sends
  <2> QED
    BY <1>5, <1>9, <2>3, <2>4, <2>5
<1> QED
  BY <1>8, <1>10, <1>11 DEF w, m

-----------------------------------------------------------------------------
(* What each answer makes of a job.                                        *)

Alike(j, k) ==
    /\ k.kind = j.kind /\ k.result = j.result /\ k.stages = j.stages /\ k.stage = j.stage
    /\ k.phase = j.phase /\ k.inEditor = j.inEditor /\ k.from = j.from

LEMMA FormKept ==
  ASSUME NEW j, JobForm(j), NEW k \in JobType, Alike(j, k)
  PROVE  /\ JobForm(k)
         /\ AtBoard(k) <=> AtBoard(j)
         /\ AtOpen(k) <=> AtOpen(j)
         /\ InText(k) <=> InText(j)
         /\ Leaving(k) <=> Leaving(j)
<1>1. AtBoard(k) <=> AtBoard(j)
  BY DEF AtBoard, Alike
<1>2. AtOpen(k) <=> AtOpen(j)
  BY DEF AtOpen, Alike
<1>3. InText(k) <=> InText(j)
  BY DEF InText, Alike
<1>4. Leaving(k) <=> Leaving(j)
  BY DEF Leaving, Alike
<1>5. Resends(k) <=> Resends(j)
  BY DEF Resends, Alike
<1> QED
  BY <1>1, <1>2, <1>3, <1>4, <1>5 DEF JobForm, Alike

LEMMA FormReady ==
  ASSUME NEW j, JobForm(j)
  PROVE  Ready(j) /\ j \in JobType
  BY DEF JobForm, Ready, Resends

LEMMA ClearThenIs ==
  ASSUME NEW j \in JobType, j.kind \in Kinds, j.result = "none", ~j.inEditor,
         NEW result \in Results \ {"none"}
  PROVE  Over(ClearThen(j, result)) \/ ToLeave(ClearThen(j, result), Prompts)
<1>1. CASE j.kind = "post"
  <2> DEFINE l == <<"clear note">>
             k == [j EXCEPT !.pending = result, !.stages = Plan(l), !.phase = "idle"]
  <2>1. l \in Seq(Endings) /\ Past(Plan(l))
    BY PlansEnd
  <2>2. ClearThen(j, result) = Ending(j, result, l)
    BY <1>1 DEF ClearThen
  <2> HIDE DEF l
  <2>3. /\ Ready(k) /\ k.stages = Plan(l) /\ k.inEditor = j.inEditor
        /\ Ending(j, result, l) = Advance(k)
    BY <2>1, EndingReady
  <2> HIDE DEF k
  <2>4. Over(Advance(k)) \/ ToLeave(Advance(k), Prompts)
    BY <2>1, <2>3, AdvancePast
  <2> QED
    BY <2>2, <2>3, <2>4
<1>2. CASE j.kind # "post"
  BY <1>2, EndOver DEF ClearThen
<1> QED
  BY <1>1, <1>2

LEMMA LeavesThen ==
  ASSUME NEW j \in JobType, j.kind \in Kinds, j.result = "none", j.inEditor,
         NEW result \in Results, NEW l \in {<<"leave">>, <<"leave", "clear note">>}
  PROVE  ToText(Ending(j, result, l)) \/ ToLeave(Ending(j, result, l), {"leave"})
<1> DEFINE k == [j EXCEPT !.pending = result, !.stages = Plan(l), !.phase = "idle"]
<1>1. l \in Seq(Endings) /\ Inside(Plan(l))
  BY PlansEnd
<1>2. /\ Ready(k) /\ k.stages = Plan(l) /\ k.inEditor = j.inEditor
      /\ Ending(j, result, l) = Advance(k)
  BY <1>1, EndingReady
<1> HIDE DEF k
<1> QED
  BY <1>1, <1>2, AdvanceInside

LEMMA ShownIs ==
  ASSUME NEW j, JobForm(j), InText(j), j.stage.do \in ShowStages
  PROVE  ToText(Shown(j)) \/ ToLeave(Shown(j), {"leave"})
<1>1. Ready(j) /\ j \in JobType /\ j.inEditor /\ Inside(j.stages) /\ j.kind \in Kinds /\ j.result = "none"
  BY FormReady DEF JobForm, InText
<1>2. ToText(Advance(j)) \/ ToLeave(Advance(j), {"leave"})
  BY <1>1, AdvanceInside
<1>3. {"changed", "failed"} \subseteq Results
  BY DEF Results
<1>4. CASE j.stage.do = "show"
  <2>1. Shown(j) = Advance(j)
    BY <1>4 DEF Shown
  <2> QED
    BY <1>2, <2>1
<1>5. CASE j.stage.do = "base"
  <2>1. Shown(j) = IF j.listing = <<>> THEN Advance(j) ELSE Ending(j, "changed", <<"leave">>)
    BY <1>5 DEF Shown
  <2>2. \/ ToText(Ending(j, "changed", <<"leave">>))
        \/ ToLeave(Ending(j, "changed", <<"leave">>), {"leave"})
    BY <1>1, <1>3, LeavesThen
  <2> QED
    BY <1>2, <2>1, <2>2
<1>6. CASE j.stage.do = "verify"
  <2> DEFINE k == [j EXCEPT !.mends = @ + 1, !.from = Len(j.listing) + 1,
                            !.stages = Mend(j.listing) \o @]
  <2>1. Shown(j) = IF j.listing = Meant THEN Advance(j)
                   ELSE IF j.mends = MaxMends THEN FailInEditor(j, "failed")
                   ELSE Advance(k)
    BY <1>6 DEF Shown
  <2>2. ToText(FailInEditor(j, "failed")) \/ ToLeave(FailInEditor(j, "failed"), {"leave"})
    <3>1. CASE j.kind = "post"
      <4>1. FailInEditor(j, "failed") = Ending(j, "failed", <<"leave", "clear note">>)
        BY <3>1 DEF FailInEditor
      <4> QED
        BY <1>1, <1>3, <4>1, LeavesThen
    <3>2. CASE j.kind # "post"
      <4>1. FailInEditor(j, "failed") = Ending(j, "failed", <<"leave">>)
        BY <3>2 DEF FailInEditor
      <4> QED
        BY <1>1, <1>3, <4>1, LeavesThen
    <3> QED
      BY <3>1, <3>2
  <2>3. ASSUME j.mends # MaxMends PROVE ToText(Advance(k)) \/ ToLeave(Advance(k), {"leave"})
    <3> DEFINE h == j.listing
               s == Mend(h) \o j.stages
               n == Len(h) + 1
    <3>1. h \in Seq(Kept) /\ j.stages \in Seq(StageType) /\ ~ Sends(j.stages)
      BY <1>1, <1>6 DEF JobForm, Resends, JobType
    <3>2. /\ s \in Seq(StageType) /\ Inside(s) /\ SendsFirst(s)
          /\ Sends(s) => Len(h) < Lines
      BY <1>1, <3>1, MendForm
    <3>3. n \in Nat \ {0} /\ (Sends(s) => n \in 1 .. Lines + 1)
      BY <3>1, <3>2, Numbers
    <3>4. j.mends + 1 \in 0 .. MaxMends
      BY <1>1, <2>3 DEF JobType, MaxMends
    <3>5. k = [j EXCEPT !.mends = @ + 1, !.from = n, !.stages = s]
      OBVIOUS
    <3> HIDE DEF s, n, h, k
    <3>6. /\ k \in JobType /\ k.kind = j.kind /\ k.result = j.result /\ k.stages = s
          /\ k.inEditor = j.inEditor /\ k.from = n
      BY <1>1, <3>2, <3>3, <3>4, <3>5 DEF JobType
    <3>7. Ready(k)
      BY <1>1, <3>2, <3>3, <3>6 DEF Ready
    <3> QED
      BY <1>1, <3>2, <3>6, <3>7, AdvanceInside
  <2> HIDE DEF k
  <2> QED
    BY <1>2, <2>1, <2>2, <2>3
<1> QED
  BY <1>4, <1>5, <1>6 DEF ShowStages

\* The job waits on where the answer it asked for is yet to come.
LEMMA EditorAnsweredIs ==
  ASSUME NEW j, JobForm(j), j.phase = "editor"
  PROVE  LET r == EditorAnswered(j) IN
         /\ AtOpen(j) \/ InText(j)
         /\ AtOpen(j) => IF "banner" \in j.words THEN ToText(r) \/ ToLeave(r, {"leave"})
                         ELSE Over(r)
         /\ InText(j) => \/ ToText(r) \/ ToLeave(r, {"leave"})
                         \/ /\ r = Waits(j)
                            /\ \/ j.stage.do \in ShowStages /\ "listed" \notin j.words
                               \/ j.stage.do = "clear" /\ "cleared" \notin j.words
<1> DEFINE r == EditorAnswered(j)
<1>1. j \in JobType /\ Ready(j) /\ j.kind \in Kinds /\ j.result = "none"
  BY FormReady DEF JobForm
<1>2. AtOpen(j) \/ InText(j)
  BY DEF JobForm, AtBoard, Leaving
<1>3. ASSUME AtOpen(j), "banner" \in j.words PROVE ToText(r) \/ ToLeave(r, {"leave"})
  <2> DEFINE k == [j EXCEPT !.inEditor = TRUE]
  <2>1. r = Advance(k)
    <3>1. j.stage.do = "open"
      BY <1>3 DEF AtOpen
    <3> QED
      BY <1>3, <3>1 DEF EditorAnswered, ShowStages
  <2>2. k \in JobType /\ k.kind = j.kind /\ k.result = j.result /\ k.stages = j.stages /\ k.inEditor
        /\ k.from = j.from
    BY <1>1 DEF JobType
  <2> HIDE DEF k
  <2>3. Ready(k)
    BY <1>1, <2>2 DEF Ready
  <2>4. Inside(k.stages)
    BY <1>3, <2>2 DEF AtOpen
  <2> HIDE DEF r
  <2> QED
    BY <2>1, <2>2, <2>3, <2>4, AdvanceInside
<1>4. ASSUME AtOpen(j), "banner" \notin j.words PROVE Over(r)
  <2>1. r = End(j, "busy")
    <3>1. j.stage.do = "open"
      BY <1>4 DEF AtOpen
    <3> QED
      BY <1>4, <3>1 DEF EditorAnswered, ShowStages
  <2>2. "busy" \in Results \ {"none"}
    BY DEF Results
  <2> QED
    BY <1>1, <2>1, <2>2, EndOver
<1>5. ASSUME InText(j)
      PROVE  \/ ToText(r) \/ ToLeave(r, {"leave"})
             \/ /\ r = Waits(j)
                /\ \/ j.stage.do \in ShowStages /\ "listed" \notin j.words
                   \/ j.stage.do = "clear" /\ "cleared" \notin j.words
  <2>1. j.inEditor /\ Inside(j.stages) /\ j.stage.do \in InEdits \ {"send"} /\ j.stage.do # "open"
    BY <1>5, Named DEF InText
  <2>2. ToText(Advance(j)) \/ ToLeave(Advance(j), {"leave"})
    BY <1>1, <2>1, AdvanceInside
  <2>3. CASE j.stage.do \in ShowStages
    <3>1. r = IF "listed" \in j.words THEN Shown(j) ELSE Waits(j)
      BY <2>1, <2>3 DEF EditorAnswered, ShowStages
    <3> HIDE DEF r
    <3> QED
      BY <1>5, <2>3, <3>1, ShownIs
  <2>4. CASE j.stage.do \notin ShowStages
    <3>1. r = IF j.stage.do = "clear" /\ "cleared" \notin j.words THEN Waits(j) ELSE Advance(j)
      BY <2>1, <2>4 DEF EditorAnswered, ShowStages
    <3> HIDE DEF r
    <3> QED
      BY <2>2, <3>1
  <2> QED
    BY <2>3, <2>4
<1> QED
  BY <1>2, <1>3, <1>4, <1>5

LEMMA AnsweredIs ==
  ASSUME NEW j, JobForm(j), j.phase = "tick"
  PROVE  LET r == Answered(j) IN
         /\ AtBoard(j) \/ Leaving(j)
         /\ Over(r) \/ ToLeave(r, Prompts) \/ (AtBoard(j) /\ (ToBoard(r) \/ ToOpen(r)))
<1> DEFINE r == Answered(j)
           Fine(q) == Over(q) \/ ToLeave(q, Prompts) \/ (AtBoard(j) /\ (ToBoard(q) \/ ToOpen(q)))
<1>1. j \in JobType /\ Ready(j) /\ j.kind \in Kinds /\ j.result = "none"
  BY FormReady DEF JobForm
<1>2. AtBoard(j) \/ Leaving(j)
  BY DEF JobForm, AtOpen, InText
<1>3. ~j.inEditor /\ j.stage.do \in Prompts \cup {"leave"}
  BY <1>2 DEF AtBoard, Leaving
<1>4. ASSUME NEW k, Ready(k), k.stages = j.stages, k.inEditor = j.inEditor PROVE Fine(Advance(k))
  <2>1. CASE AtBoard(j)
    <3>1. Outside(k.stages) /\ ~k.inEditor
      BY <1>4, <2>1 DEF AtBoard
    <3> QED
      BY <1>4, <2>1, <3>1, AdvanceOutside
  <2>2. CASE Leaving(j)
    <3>1. Past(k.stages) /\ ~k.inEditor
      BY <1>4, <2>2 DEF Leaving
    <3> QED
      BY <1>4, <3>1, AdvancePast
  <2> QED
    BY <1>2, <2>1, <2>2
<1>5. {"same note", "failed", "refused", "send", "posted"} \subseteq Results \ {"none"}
  BY DEF Results
<1>6. \A result \in {"same note", "failed", "refused", "send", "posted"} : Fine(End(j, result))
  BY <1>1, <1>5, EndOver
<1>7. ASSUME NEW k \in JobType, k.kind = j.kind, k.result = j.result, k.inEditor = j.inEditor,
             NEW result \in {"failed", "refused"}
      PROVE  Fine(ClearThen(k, result))
  BY <1>1, <1>3, <1>5, <1>7, ClearThenIs
<1>8. Fine(Finish(j))
  BY <1>1, FinishOver
<1>9. Fine(Advance(j))
  BY <1>1, <1>4
<1>10. CASE j.stage.do = "leave"
  <2>1. r = Advance(j)
    BY <1>10 DEF Answered
  <2> HIDE DEF Fine
  <2>2. Fine(r)
    BY <1>9, <2>1
  <2> QED
    BY <1>2, <2>2 DEF Fine
<1>11. CASE j.stage.do = "board"
  <2>1. r = IF "no note" \in j.words THEN Advance(j)
            ELSE End(j, IF "listed" \in j.words THEN "same note" ELSE "failed")
    BY <1>11 DEF Answered
  <2> HIDE DEF Fine, r
  <2>2. Fine(r)
    BY <1>6, <1>9, <2>1
  <2> QED
    BY <1>2, <2>2 DEF Fine, r
<1>12. CASE j.stage.do = "to"
  <2> DEFINE k == [j EXCEPT !.started = TRUE]
  <2>1. r = IF "ok" \in j.words THEN Advance(k) ELSE End(j, "refused")
    BY <1>12 DEF Answered
  <2>2. k \in JobType /\ k.kind = j.kind /\ k.result = j.result /\ k.stages = j.stages
        /\ k.inEditor = j.inEditor /\ k.from = j.from
    BY <1>1 DEF JobType
  <2> HIDE DEF k
  <2>3. Ready(k)
    BY <1>1, <2>2 DEF Ready
  <2>4. Fine(Advance(k))
    BY <1>4, <2>2, <2>3
  <2> HIDE DEF Fine, r
  <2>5. Fine(r)
    BY <1>6, <2>1, <2>4
  <2> QED
    BY <1>2, <2>5 DEF Fine, r
<1>13. CASE j.stage.do = "subject"
  <2>1. r = IF "ok" \in j.words THEN Advance(j) ELSE ClearThen(j, "refused")
    BY <1>13 DEF Answered
  <2>2. Fine(ClearThen(j, "refused"))
    BY <1>1, <1>7
  <2> HIDE DEF Fine, r
  <2>3. Fine(r)
    BY <1>9, <2>1, <2>2
  <2> QED
    BY <1>2, <2>3 DEF Fine, r
<1>14. CASE j.stage.do = "readback"
  <2>1. r = IF j.kind = "send" THEN End(j, "send")
            ELSE IF "listed" \in j.words /\ j.listing = Meant THEN Advance(j)
            ELSE ClearThen(j, "failed")
    BY <1>14 DEF Answered
  <2>2. Fine(ClearThen(j, "failed"))
    BY <1>1, <1>7
  <2> HIDE DEF Fine, r
  <2>3. Fine(r)
    BY <1>6, <1>9, <2>1, <2>2
  <2> QED
    BY <1>2, <2>3 DEF Fine, r
<1>15. CASE j.stage.do = "post"
  <2> DEFINE k == [j EXCEPT !.postSent = FALSE]
  <2>1. r = IF "ok" \in j.words THEN End(j, "posted") ELSE ClearThen(k, "refused")
    BY <1>15 DEF Answered
  <2>2. k \in JobType /\ k.kind = j.kind /\ k.result = j.result /\ k.inEditor = j.inEditor
    BY <1>1 DEF JobType
  <2> HIDE DEF k
  <2>3. Fine(ClearThen(k, "refused"))
    BY <1>7, <2>2
  <2> HIDE DEF Fine, r
  <2>4. Fine(r)
    BY <1>6, <2>1, <2>3
  <2> QED
    BY <1>2, <2>4 DEF Fine, r
<1>16. CASE j.stage.do = "clear note"
  <2>1. r = Finish(j)
    BY <1>16 DEF Answered
  <2> HIDE DEF Fine
  <2>2. Fine(r)
    BY <1>8, <2>1
  <2> QED
    BY <1>2, <2>2 DEF Fine
<1> QED
  BY <1>3, <1>10, <1>11, <1>12, <1>13, <1>14, <1>15, <1>16 DEF Prompts

-----------------------------------------------------------------------------
(* A job begins.                                                           *)

LEMMA Seq3 ==
  ASSUME NEW S, NEW a1 \in S, NEW a2 \in S, NEW a3 \in S
  PROVE  LET l == <<a1, a2, a3>> IN
         /\ l \in Seq(S) /\ Len(l) = 3
         /\ l[1] = a1 /\ l[2] = a2 /\ l[3] = a3
  OBVIOUS

LEMMA Seq7 ==
  ASSUME NEW S, NEW a1 \in S, NEW a2 \in S, NEW a3 \in S, NEW a4 \in S, NEW a5 \in S,
         NEW a6 \in S, NEW a7 \in S
  PROVE  LET l == <<a1, a2, a3, a4, a5, a6, a7>> IN
         /\ l \in Seq(S) /\ Len(l) = 7
         /\ l[1] = a1 /\ l[2] = a2 /\ l[3] = a3 /\ l[4] = a4 /\ l[5] = a5 /\ l[6] = a6 /\ l[7] = a7
  OBVIOUS

LEMMA Seq10 ==
  ASSUME NEW S, NEW a1 \in S, NEW a2 \in S, NEW a3 \in S, NEW a4 \in S, NEW a5 \in S,
         NEW a6 \in S, NEW a7 \in S, NEW a8 \in S, NEW a9 \in S, NEW a10 \in S
  PROVE  LET l == <<a1, a2, a3, a4, a5, a6, a7, a8, a9, a10>> IN
         /\ l \in Seq(S) /\ Len(l) = 10
         /\ l[1] = a1 /\ l[2] = a2 /\ l[3] = a3 /\ l[4] = a4 /\ l[5] = a5 /\ l[6] = a6 /\ l[7] = a7 /\ l[8] = a8 /\ l[9] = a9 /\ l[10] = a10
  OBVIOUS

LEMMA Stages_read ==
  ASSUME NEW p \in Seq(StageType), Len(p) = 3,
         p[1].do = "open", p[2].do = "show", p[3].do = "leave"
  PROVE  Outside(p) /\ SendsFirst(p)
<1>1. DOMAIN p = 1 .. 3 /\ 1 .. Len(p) = 1 .. 3
  OBVIOUS
<1>2. \A i \in 1 .. 3 : i = 1 \/ i = 2 \/ i = 3
  BY ONLY SMT
<1>3. \A i \in 1 .. 3 : i < 1 => p[i].do \in Prompts
  <2>1. \A i \in 1 .. 3 : i < 1 => FALSE
    BY ONLY SMT
  <2>2. TRUE
    BY DEF Prompts
  <2> QED
    BY ONLY <2>1, <2>2
<1>4. \A i \in 1 .. 3 : 1 < i /\ i < 3 => p[i].do \in InEdits
  BY <1>2 DEF InEdits, ShowStages
<1>5. \A i \in 1 .. 3 : i > 3 => p[i].do \in Prompts
  <2>1. \A i \in 1 .. 3 : i > 3 => FALSE
    BY ONLY SMT
  <2>2. TRUE
    BY DEF Prompts
  <2> QED
    BY ONLY <2>1, <2>2
<1>6. 1 \in 1 .. 3 /\ 3 \in 1 .. 3 /\ 1 < 3
  BY ONLY SMT
<1>7. Outside(p)
  BY <1>1, <1>3, <1>4, <1>5, <1>6 DEF Outside
<1>8. \A i, k \in 1 .. 3 : p[i].do = "verify" /\ i < k => p[k].do # "send"
  BY <1>2
<1> QED
  BY <1>1, <1>7, <1>8 DEF SendsFirst

LEMMA Stages_send ==
  ASSUME NEW p \in Seq(StageType), Len(p) = 7,
         p[1].do = "open", p[2].do = "base", p[3].do = "clear", p[4].do = "send", p[5].do = "verify", p[6].do = "leave", p[7].do = "readback"
  PROVE  Outside(p) /\ SendsFirst(p)
<1>1. DOMAIN p = 1 .. 7 /\ 1 .. Len(p) = 1 .. 7
  OBVIOUS
<1>2. \A i \in 1 .. 7 : i = 1 \/ i = 2 \/ i = 3 \/ i = 4 \/ i = 5 \/ i = 6 \/ i = 7
  BY ONLY SMT
<1>3. \A i \in 1 .. 7 : i < 1 => p[i].do \in Prompts
  <2>1. \A i \in 1 .. 7 : i < 1 => FALSE
    BY ONLY SMT
  <2>2. TRUE
    BY DEF Prompts
  <2> QED
    BY ONLY <2>1, <2>2
<1>4. \A i \in 1 .. 7 : 1 < i /\ i < 6 => p[i].do \in InEdits
  BY <1>2 DEF InEdits, ShowStages
<1>5. \A i \in 1 .. 7 : i > 6 => p[i].do \in Prompts
  <2>1. \A i \in 1 .. 7 : i > 6 => i = 7
    BY ONLY SMT
  <2>2. p[7].do \in Prompts
    BY DEF Prompts
  <2> QED
    BY ONLY <2>1, <2>2
<1>6. 1 \in 1 .. 7 /\ 6 \in 1 .. 7 /\ 1 < 6
  BY ONLY SMT
<1>7. Outside(p)
  BY <1>1, <1>3, <1>4, <1>5, <1>6 DEF Outside
<1>8. \A i, k \in 1 .. 7 : p[i].do = "verify" /\ i < k => p[k].do # "send"
  BY <1>2
<1> QED
  BY <1>1, <1>7, <1>8 DEF SendsFirst

LEMMA Stages_post ==
  ASSUME NEW p \in Seq(StageType), Len(p) = 10,
         p[1].do = "board", p[2].do = "to", p[3].do = "subject", p[4].do = "open", p[5].do = "clear", p[6].do = "send", p[7].do = "verify", p[8].do = "leave", p[9].do = "readback", p[10].do = "post"
  PROVE  Outside(p) /\ SendsFirst(p)
<1>1. DOMAIN p = 1 .. 10 /\ 1 .. Len(p) = 1 .. 10
  OBVIOUS
<1>2. \A i \in 1 .. 10 : i = 1 \/ i = 2 \/ i = 3 \/ i = 4 \/ i = 5 \/ i = 6 \/ i = 7 \/ i = 8 \/ i = 9 \/ i = 10
  BY ONLY SMT
<1>3. \A i \in 1 .. 10 : i < 4 => p[i].do \in Prompts
  <2>1. \A i \in 1 .. 10 : i < 4 => i = 1 \/ i = 2 \/ i = 3
    BY ONLY SMT
  <2>2. p[1].do \in Prompts /\ p[2].do \in Prompts /\ p[3].do \in Prompts
    BY DEF Prompts
  <2> QED
    BY ONLY <2>1, <2>2
<1>4. \A i \in 1 .. 10 : 4 < i /\ i < 8 => p[i].do \in InEdits
  BY <1>2 DEF InEdits, ShowStages
<1>5. \A i \in 1 .. 10 : i > 8 => p[i].do \in Prompts
  <2>1. \A i \in 1 .. 10 : i > 8 => i = 9 \/ i = 10
    BY ONLY SMT
  <2>2. p[9].do \in Prompts /\ p[10].do \in Prompts
    BY DEF Prompts
  <2> QED
    BY ONLY <2>1, <2>2
<1>6. 4 \in 1 .. 10 /\ 8 \in 1 .. 10 /\ 4 < 8
  BY ONLY SMT
<1>7. Outside(p)
  BY <1>1, <1>3, <1>4, <1>5, <1>6 DEF Outside
<1>8. \A i, k \in 1 .. 10 : p[i].do = "verify" /\ i < k => p[k].do # "send"
  BY <1>2
<1> QED
  BY <1>1, <1>7, <1>8 DEF SendsFirst

LEMMA StagesIs ==
  ASSUME NEW kind \in Kinds
  PROVE  /\ Stages(kind) \in Seq(StageType) /\ Outside(Stages(kind))
         /\ SendsFirst(Stages(kind))
<1>1. CASE kind = "read"
  <2> DEFINE l == <<"open", "show", "leave">>
             p == Plan(l)
  <2>1. Stages(kind) = p
    BY <1>1 DEF Stages
  <2>2. "open" \in Deeds /\ "show" \in Deeds /\ "leave" \in Deeds
    BY DEF Deeds, Prompts, InEdits, ShowStages
  <2>3. /\ l \in Seq(Deeds) /\ Len(l) = 3
        /\ l[1] = "open" /\ l[2] = "show" /\ l[3] = "leave"
    BY <2>2, Seq3, Zenon
  <2> HIDE DEF l
  <2>4. p \in Seq(StageType) /\ Len(p) = 3 /\ \A i \in 1 .. 3 : p[i].do = l[i]
    BY <2>3, PlanIs
  <2> HIDE DEF p
  <2>5. 1 \in 1 .. 3 /\ 2 \in 1 .. 3 /\ 3 \in 1 .. 3
    BY ONLY SMT
  <2>6. p[1].do = "open" /\ p[2].do = "show" /\ p[3].do = "leave"
    BY <2>3, <2>4, <2>5
  <2> QED
    BY <2>1, <2>4, <2>6, Stages_read
<1>2. CASE kind = "send"
  <2> DEFINE l == <<"open", "base", "clear", "send", "verify", "leave", "readback">>
             p == Plan(l)
  <2>1. Stages(kind) = p
    BY <1>2 DEF Stages
  <2>2. "open" \in Deeds /\ "base" \in Deeds /\ "clear" \in Deeds /\ "send" \in Deeds /\ "verify" \in Deeds /\ "leave" \in Deeds /\ "readback" \in Deeds
    BY DEF Deeds, Prompts, InEdits, ShowStages
  <2>3. /\ l \in Seq(Deeds) /\ Len(l) = 7
        /\ l[1] = "open" /\ l[2] = "base" /\ l[3] = "clear" /\ l[4] = "send" /\ l[5] = "verify" /\ l[6] = "leave" /\ l[7] = "readback"
    BY <2>2, Seq7, ZenonT(60)
  <2> HIDE DEF l
  <2>4. p \in Seq(StageType) /\ Len(p) = 7 /\ \A i \in 1 .. 7 : p[i].do = l[i]
    BY <2>3, PlanIs
  <2> HIDE DEF p
  <2>5. 1 \in 1 .. 7 /\ 2 \in 1 .. 7 /\ 3 \in 1 .. 7 /\ 4 \in 1 .. 7 /\ 5 \in 1 .. 7 /\ 6 \in 1 .. 7 /\ 7 \in 1 .. 7
    BY ONLY SMT
  <2>6. p[1].do = "open" /\ p[2].do = "base" /\ p[3].do = "clear" /\ p[4].do = "send" /\ p[5].do = "verify" /\ p[6].do = "leave" /\ p[7].do = "readback"
    BY <2>3, <2>4, <2>5
  <2> QED
    BY <2>1, <2>4, <2>6, Stages_send
<1>3. CASE kind = "post"
  <2> DEFINE l == <<"board", "to", "subject", "open", "clear", "send", "verify", "leave", "readback", "post">>
             p == Plan(l)
  <2>1. Stages(kind) = p
    BY <1>3 DEF Stages
  <2>2. "board" \in Deeds /\ "to" \in Deeds /\ "subject" \in Deeds /\ "open" \in Deeds /\ "clear" \in Deeds /\ "send" \in Deeds /\ "verify" \in Deeds /\ "leave" \in Deeds /\ "readback" \in Deeds /\ "post" \in Deeds
    BY DEF Deeds, Prompts, InEdits, ShowStages
  <2>3. /\ l \in Seq(Deeds) /\ Len(l) = 10
        /\ l[1] = "board" /\ l[2] = "to" /\ l[3] = "subject" /\ l[4] = "open" /\ l[5] = "clear" /\ l[6] = "send" /\ l[7] = "verify" /\ l[8] = "leave" /\ l[9] = "readback" /\ l[10] = "post"
    BY <2>2, Seq10
  <2> HIDE DEF l
  <2>4. p \in Seq(StageType) /\ Len(p) = 10 /\ \A i \in 1 .. 10 : p[i].do = l[i]
    BY <2>3, PlanIs
  <2> HIDE DEF p
  <2>5. 1 \in 1 .. 10 /\ 2 \in 1 .. 10 /\ 3 \in 1 .. 10 /\ 4 \in 1 .. 10 /\ 5 \in 1 .. 10 /\ 6 \in 1 .. 10 /\ 7 \in 1 .. 10 /\ 8 \in 1 .. 10 /\ 9 \in 1 .. 10 /\ 10 \in 1 .. 10
    BY ONLY SMT
  <2>6. p[1].do = "board" /\ p[2].do = "to" /\ p[3].do = "subject" /\ p[4].do = "open" /\ p[5].do = "clear" /\ p[6].do = "send" /\ p[7].do = "verify" /\ p[8].do = "leave" /\ p[9].do = "readback" /\ p[10].do = "post"
    BY <2>3, <2>4, <2>5
  <2> QED
    BY <2>1, <2>4, <2>6, Stages_post
<1> QED
  BY <1>1, <1>2, <1>3, Numbers

LEMMA NoJobIs ==
  /\ NoJob \in JobType /\ NoJob.result = "none" /\ NoJob.phase = "idle"
  /\ ~NoJob.inEditor /\ NoJob.from = 1 /\ ~JobForm(NoJob)
<1>1. NoStage \in StageType
  BY Numbers DEF NoStage, Stage, StageType, Deeds, Kept, Other
<1>2. {} \in SUBSET Words /\ <<>> \in Seq(Kept) /\ <<>> \in Seq(StageType)
  OBVIOUS
<1>3. 1 \in 1 .. Lines + 1 /\ 0 \in 0 .. InFlight /\ 0 \in 0 .. MaxMends /\ "none" \in Results
  BY Numbers DEF InFlight, MaxMends, Results
<1>4. NoJob \in JobType
  BY <1>1, <1>2, <1>3 DEF NoJob, JobType
<1>5. NoJob.result = "none" /\ NoJob.phase = "idle" /\ ~NoJob.inEditor /\ NoJob.from = 1
  BY DEF NoJob
<1> QED
  BY <1>4, <1>5 DEF JobForm, AtBoard, AtOpen, InText, Leaving

LEMMA NewIs ==
  ASSUME NEW kind \in Kinds
  PROVE  ToBoard(Advance(New(kind))) \/ ToOpen(Advance(New(kind)))
<1> DEFINE s == Stages(kind)
           j == [NoJob EXCEPT !.kind = kind, !.stages = s]
<1>1. New(kind) = j
  BY DEF New
<1>2. s \in Seq(StageType) /\ Outside(s) /\ SendsFirst(s)
  BY StagesIs
<1> HIDE DEF s
<1>3. /\ j \in JobType /\ j.kind = kind /\ j.stages = s /\ j.result = "none"
      /\ ~j.inEditor /\ j.from = 1
  BY <1>2, NoJobIs DEF JobType
<1> HIDE DEF j
<1>4. Ready(j)
  <2>1. 1 \in 1 .. Lines + 1
    BY Numbers
  <2> QED
    BY <1>2, <1>3, <2>1 DEF Ready
<1> QED
  BY <1>1, <1>2, <1>3, <1>4, AdvanceOutside

-----------------------------------------------------------------------------
(* A tick, a read, a line taken, a stop.                                   *)

LEMMA JobTickIs ==
  ASSUME NEW j, JobForm(j)
  PROVE  LET r == JobTick(j) IN
         \/ /\ StillWaits(j) /\ r = Waits(j)
            /\ AtBoard(j) \/ Leaving(j)
         \/ /\ ~StillWaits(j)
            /\ \/ Over(r)
               \/ /\ AtBoard(j) \/ Leaving(j)
                  /\ ToLeave(r, Prompts) \/ (AtBoard(j) /\ (ToBoard(r) \/ ToOpen(r)))
<1> DEFINE k == [j EXCEPT !.inEditor = FALSE]
<1>1. j \in JobType /\ j.kind \in Kinds /\ j.result = "none"
  BY DEF JobForm
<1>2. k \in JobType /\ k.kind = j.kind /\ k.result = j.result /\ k.stages = j.stages
      /\ k.stage = j.stage /\ k.phase = j.phase /\ k.from = j.from /\ k.inEditor = FALSE
  BY <1>1 DEF JobType
<1>3. {"no editor", "closed"} \subseteq Results \ {"none"}
  BY DEF Results
<1>4. CASE j.phase = "tick"
  <2>1. AtBoard(j) \/ Leaving(j)
    BY <1>4 DEF JobForm, AtOpen, InText
  <2>2. JobTick(j) = IF StillWaits(j) THEN Waits(j) ELSE Answered(k)
    BY <1>4 DEF JobTick
  <2> HIDE DEF k
  <2>6. j.inEditor = FALSE
    BY <1>1, <2>1 DEF AtBoard, Leaving, JobType
  <2>3. Alike(j, k)
    BY <1>2, <2>6 DEF Alike
  <2>4. JobForm(k) /\ (AtBoard(k) <=> AtBoard(j)) /\ (Leaving(k) <=> Leaving(j))
    BY <1>2, <2>3, FormKept
  <2>5. \/ Over(Answered(k)) \/ ToLeave(Answered(k), Prompts)
        \/ (AtBoard(k) /\ (ToBoard(Answered(k)) \/ ToOpen(Answered(k))))
    BY <1>2, <1>4, <2>4, AnsweredIs
  <2> QED
    BY <2>1, <2>2, <2>4, <2>5
<1>5. CASE j.phase = "editor"
  <2>1. JobTick(j) = End(k, IF j.stage.do = "open" THEN "no editor" ELSE "closed")
    BY <1>5 DEF JobTick
  <2>2. ~StillWaits(j)
    BY <1>5 DEF StillWaits
  <2> HIDE DEF k
  <2>3. Over(End(k, "no editor")) /\ Over(End(k, "closed"))
    BY <1>2, <1>3, EndOver
  <2>4. Over(JobTick(j))
    BY <2>1, <2>3
  <2> QED
    BY <2>2, <2>4
<1>6. CASE j.phase = "sending"
  <2>1. JobTick(j) = End(k, "closed")
    BY <1>6 DEF JobTick
  <2>2. ~StillWaits(j)
    BY <1>6 DEF StillWaits
  <2> HIDE DEF k
  <2>3. Over(End(k, "closed"))
    BY <1>2, <1>3, EndOver
  <2> QED
    BY <2>1, <2>2, <2>3
<1>7. j.phase \in {"tick", "editor", "sending"}
  BY DEF JobForm, AtBoard, AtOpen, InText, Leaving
<1> QED
  BY <1>4, <1>5, <1>6, <1>7

LEMMA PumpIs ==
  ASSUME NEW j, JobForm(j), j.phase = "sending", NEW f \in 0 .. InFlight
  PROVE  LET r == Pump([j EXCEPT !.flight = f]) IN
         InText(j) /\ (ToText(r) \/ ToLeave(r, {"leave"}))
<1> DEFINE k == [j EXCEPT !.flight = f]
<1>1. j \in JobType
  BY DEF JobForm
<1>2. k \in JobType /\ Alike(j, k)
  BY <1>1 DEF JobType, Alike
<1> HIDE DEF k
<1>3. InText(j)
  BY DEF JobForm, AtBoard, AtOpen, Leaving
<1>4. JobForm(k) /\ InText(k) /\ k.phase = "sending" /\ Ready(k)
  BY <1>2, <1>3, FormKept, FormReady DEF Alike
<1> DEFINE r == Pump(k)
<1>5. CASE k.next > Lines /\ k.flight = 0
  <2> DEFINE m == [k EXCEPT !.phase = "idle"]
  <2>1. r = Advance(m)
    BY <1>5 DEF Pump
  <2>2. /\ m \in JobType /\ m.kind = k.kind /\ m.result = k.result /\ m.stages = k.stages
        /\ m.inEditor = k.inEditor /\ m.from = k.from
    BY <1>2 DEF JobType
  <2> HIDE DEF m, r
  <2>3. Ready(m) /\ m.inEditor /\ Inside(m.stages)
    BY <1>4, <2>2 DEF Ready, InText
  <2>4. ToText(r) \/ ToLeave(r, {"leave"})
    BY <2>1, <2>3, AdvanceInside
  <2> QED
    BY <1>3, <2>4 DEF r, k
<1>6. CASE ~ (k.next > Lines /\ k.flight = 0)
  <2>1. r = Pumped(k)
    BY <1>6 DEF Pump
  <2> HIDE DEF r
  <2>2. /\ r.job \in JobType
        /\ r.job = [k EXCEPT !.next = @ + Take(k), !.flight = @ + Take(k)]
        /\ r.out \in Seq(LineType) /\ Are(r.out, EditorLines \ {"leave"})
    BY <1>2, <2>1, PumpedIs
  <2>3. Alike(k, r.job)
    BY <1>2, <2>2 DEF JobType, Alike
  <2>4. JobForm(r.job) /\ InText(r.job) /\ r.job.phase = "sending"
    BY <1>4, <2>2, <2>3, FormKept DEF Alike
  <2>5. ToText(r)
    BY <2>2, <2>4 DEF ToText
  <2> QED
    BY <1>3, <2>5 DEF r, k
<1> QED
  BY <1>5, <1>6

ReadType == [words : SUBSET Words, listing : Seq(Kept), ends : {"editor", "prompt"}]

LEMMA GathersIs ==
  ASSUME NEW j, JobForm(j), NEW r \in ReadType
  PROVE  LET k == Gathers(j, r) IN
         /\ k \in JobType /\ Alike(j, k)
         /\ j.phase \in {"tick", "editor"} => k.words = j.words \cup r.words
<1> DEFINE w == j.words \cup r.words
           g == IF "listed" \in r.words THEN r.listing ELSE j.listing
           k == [j EXCEPT !.words = w, !.listing = g]
<1>1. j \in JobType
  BY DEF JobForm
<1>2. w \in SUBSET Words /\ g \in Seq(Kept)
  BY <1>1 DEF JobType, ReadType
<1>3. Gathers(j, r) = IF j.phase \notin {"tick", "editor"} THEN j ELSE k
  BY DEF Gathers
<1> HIDE DEF w, g
<1>4. k \in JobType /\ Alike(j, k) /\ k.words = w
  BY <1>1, <1>2 DEF JobType, Alike
<1>5. Alike(j, j)
  BY DEF Alike
<1> HIDE DEF k
<1> QED
  BY <1>1, <1>3, <1>4, <1>5 DEF w

\* A job reads: it ends at a line too long, the editor answers, or it waits on.
LEMMA JobReadsIs ==
  ASSUME NEW j, JobForm(j), NEW r \in ReadType, NEW lone \in Nat
  PROVE  LET q == JobReads(j, r, lone) IN
         \/ "too long" \in r.words /\ Over(q)
         \/ Stays(j, q) /\ (j.phase = "editor" => r.ends = "prompt")
         \/ InText(j) /\ (ToText(q) \/ ToLeave(q, {"leave"}))
         \/ /\ InText(j) /\ Stays(j, q) /\ r.ends = "editor"
            /\ \/ j.stage.do \in ShowStages /\ "listed" \notin r.words
               \/ j.stage.do = "clear" /\ "cleared" \notin r.words
         \/ AtOpen(j) /\ r.ends = "editor" /\ (ToText(q) \/ ToLeave(q, {"leave"}))
         \/ AtOpen(j) /\ r.ends = "editor" /\ "banner" \notin r.words /\ Over(q)
<1> DEFINE q == JobReads(j, r, lone)
           g == Gathers(j, r)
<1>1. j \in JobType /\ j.phase \in {"tick", "editor", "sending"}
  BY DEF JobForm, AtBoard, AtOpen, InText, Leaving
<1>2. /\ g \in JobType /\ Alike(j, g) /\ JobForm(g)
      /\ AtOpen(g) <=> AtOpen(j)
      /\ InText(g) <=> InText(j)
      /\ j.phase \in {"tick", "editor"} => g.words = j.words \cup r.words
  BY GathersIs, FormKept
<1> HIDE DEF g
<1>3. Stays(j, Waits(g))
  BY <1>2 DEF Stays, Waits, Then, Alike
<1>4. CASE "too long" \in r.words /\ j.inEditor
  <2> DEFINE k == [j EXCEPT !.inEditor = FALSE]
  <2>1. q = End(k, "too long")
    BY <1>4 DEF JobReads
  <2>2. k \in JobType /\ "too long" \in Results \ {"none"}
    BY <1>1 DEF JobType, Results
  <2> HIDE DEF k, q
  <2>3. Over(q)
    BY <2>1, <2>2, EndOver
  <2> QED
    BY <1>4, <2>3 DEF q
<1>5. CASE ~ ("too long" \in r.words /\ j.inEditor) /\ j.phase = "sending"
  <2> DEFINE f == IF lone < j.flight THEN j.flight - lone ELSE 0
             k == [j EXCEPT !.flight = f]
  <2>1. q = Pump(k)
    BY <1>5 DEF JobReads
  <2>2. f \in 0 .. InFlight
    BY <1>1 DEF JobType, InFlight
  <2> HIDE DEF f, q
  <2>3. InText(j) /\ (ToText(q) \/ ToLeave(q, {"leave"}))
    BY <1>5, <2>1, <2>2, PumpIs
  <2> QED
    BY <2>3 DEF q
<1>6. CASE ~ ("too long" \in r.words /\ j.inEditor) /\ j.phase = "editor" /\ r.ends = "editor"
  <2>1. q = EditorAnswered(g)
    BY <1>6 DEF JobReads, g
  <2>2. g.phase = "editor" /\ g.stage = j.stage
    BY <1>2, <1>6 DEF Alike
  <2> HIDE DEF q
  <2>3. AtOpen(g) \/ InText(g)
    BY <1>2, <2>2, EditorAnsweredIs
  <2>4. CASE AtOpen(g)
    <3>1. IF "banner" \in g.words THEN ToText(q) \/ ToLeave(q, {"leave"}) ELSE Over(q)
      BY <1>2, <2>1, <2>2, <2>4, EditorAnsweredIs
    <3>2. "banner" \notin g.words => "banner" \notin r.words
      BY <1>2, <1>6
    <3> QED
      BY <1>2, <1>6, <2>4, <3>1, <3>2 DEF q
  <2>5. CASE InText(g)
    <3>1. \/ ToText(q) \/ ToLeave(q, {"leave"})
          \/ /\ q = Waits(g)
             /\ \/ g.stage.do \in ShowStages /\ "listed" \notin g.words
                \/ g.stage.do = "clear" /\ "cleared" \notin g.words
      BY <1>2, <2>1, <2>2, <2>5, EditorAnsweredIs
    <3>2. r.words \subseteq g.words
      BY <1>2, <1>6
    <3> QED
      BY <1>2, <1>3, <1>6, <2>2, <2>5, <3>1, <3>2 DEF q
  <2> QED
    BY <2>3, <2>4, <2>5
<1>7. CASE /\ ~ ("too long" \in r.words /\ j.inEditor) /\ j.phase # "sending"
           /\ ~ (j.phase = "editor" /\ r.ends = "editor")
  <2>1. q = Waits(g)
    BY <1>7 DEF JobReads, g
  <2>2. j.phase = "editor" => r.ends = "prompt"
    BY <1>7 DEF ReadType
  <2> HIDE DEF q
  <2> QED
    BY <1>3, <2>1, <2>2 DEF q
<1> QED
  BY <1>4, <1>5, <1>6, <1>7

\* A stop leaves the editor, or ends the job at the prompt.
StopStages(j) ==
    (IF j.inEditor THEN <<"leave">> ELSE <<>>)
    \o (IF j.kind = "post" /\ (j.started \/ j.inEditor) THEN <<"clear note">> ELSE <<>>)
Stopped(j) ==
    IF StopStages(j) = <<>> THEN End(j, "stopped") ELSE Ending(j, "stopped", StopStages(j))

LEMMA JoinOne ==
  ASSUME NEW a, NEW b
  PROVE  /\ <<a>> \o <<b>> = <<a, b>>
         /\ <<>> \o <<a>> = <<a>>
<1> DEFINE S == {a, b}
<1>1. <<a>> \in Seq(S) /\ <<b>> \in Seq(S) /\ <<>> \in Seq(S) /\ <<a, b>> \in Seq(S)
  OBVIOUS
<1>2. <<>> \o <<a>> = <<a>>
  BY <1>1, ConcatEmptySeq
<1>3. <<a>> \o <<b>> = Append(<<a>>, b)
  <2>1. b \in S
    OBVIOUS
  <2> HIDE DEF S
  <2> QED
   BY <1>1, <2>1, AppendIsConcat
<1>4. Append(<<a>>, b) = <<a, b>>
  <2> DEFINE c == Append(<<a>>, b)
             d == <<a, b>>
  <2>0. b \in S
    OBVIOUS
  <2>1. c \in Seq(S) /\ Len(c) = Len(<<a>>) + 1 /\ c[Len(<<a>>) + 1] = b /\ \A i \in 1 .. Len(<<a>>) : c[i] = <<a>>[i]
    <3> HIDE DEF S
    <3> QED
      BY <1>1, <2>0, AppendProperties
  <2>2. Len(<<a>>) = 1 /\ <<a>>[1] = a
    OBVIOUS
  <2>3. Len(d) = 2 /\ d[1] = a /\ d[2] = b
    OBVIOUS
  <2>8. d \in Seq(S)
    BY <1>1
  <2> HIDE DEF c, d, S
  <2>4. Len(c) = 2 /\ c[1] = a /\ c[2] = b
    BY <2>1, <2>2
  <2>5. \A i \in 1 .. 2 : i = 1 \/ i = 2
    BY ONLY SMT
  <2>6. \A i \in 1 .. 2 : c[i] = d[i]
    BY ONLY <2>3, <2>4, <2>5
  <2>7. c = d
    BY <2>1, <2>3, <2>4, <2>6, <2>8, SeqEqual
  <2> QED
    BY <2>7 DEF c, d
<1> QED
  BY <1>2, <1>3, <1>4

LEMMA NoneOne ==
  ASSUME NEW a, NEW b
  PROVE  <<a>> # <<>> /\ <<a, b>> # <<>>
  OBVIOUS

LEMMA StoppedIs ==
  ASSUME NEW j, JobForm(j)
  PROVE  LET r == Stopped(j) IN
         \/ InText(j) /\ (ToText(r) \/ ToLeave(r, {"leave"}))
         \/ ~InText(j) /\ (Over(r) \/ ToLeave(r, Prompts))
<1>1. j \in JobType /\ j.kind \in Kinds /\ j.result = "none" /\ j.inEditor \in BOOLEAN
  BY DEF JobForm, JobType
<1>2. InText(j) <=> j.inEditor
  BY DEF JobForm, AtBoard, AtOpen, InText, Leaving
<1>3. "stopped" \in Results \ {"none"}
  BY DEF Results
<1>4. CASE j.inEditor /\ j.kind = "post"
  <2>1. StopStages(j) = <<"leave">> \o <<"clear note">>
    BY <1>4 DEF StopStages
  <2>2. StopStages(j) = <<"leave", "clear note">>
    BY <2>1, JoinOne, Zenon
  <2>3. StopStages(j) # <<>>
    BY <2>2, NoneOne, Zenon
  <2>4. Stopped(j) = Ending(j, "stopped", <<"leave", "clear note">>)
    BY <2>2, <2>3 DEF Stopped
  <2> QED
    BY <1>1, <1>2, <1>3, <1>4, <2>4, LeavesThen
<1>5. CASE j.inEditor /\ j.kind # "post"
  <2>1. StopStages(j) = <<"leave">> \o <<>>
    BY <1>5 DEF StopStages
  <2>2. StopStages(j) = <<"leave">>
    BY <2>1
  <2>3. StopStages(j) # <<>>
    BY <2>2
  <2>4. Stopped(j) = Ending(j, "stopped", <<"leave">>)
    BY <2>2, <2>3 DEF Stopped
  <2> QED
    BY <1>1, <1>2, <1>3, <1>5, <2>4, LeavesThen
<1>6. CASE ~j.inEditor /\ j.kind = "post" /\ j.started
  <2> DEFINE l == <<"clear note">>
             k == [j EXCEPT !.pending = "stopped", !.stages = Plan(l), !.phase = "idle"]
  <2>1. StopStages(j) = <<>> \o l
    BY <1>6 DEF StopStages
  <2>2. StopStages(j) = l
    BY <2>1, JoinOne, Zenon
  <2>3. StopStages(j) # <<>>
    BY <2>2, NoneOne, Zenon
  <2>4. Stopped(j) = Ending(j, "stopped", l)
    BY <2>2, <2>3 DEF Stopped
  <2>5. l \in Seq(Endings) /\ Past(Plan(l))
    BY PlansEnd
  <2> HIDE DEF l
  <2>6. /\ Ready(k) /\ k.stages = Plan(l) /\ k.inEditor = j.inEditor
        /\ Ending(j, "stopped", l) = Advance(k)
    BY <1>1, <1>3, <2>5, EndingReady
  <2> HIDE DEF k
  <2>7. Over(Advance(k)) \/ ToLeave(Advance(k), Prompts)
    BY <1>6, <2>5, <2>6, AdvancePast
  <2> QED
    BY <1>2, <1>6, <2>4, <2>6, <2>7
<1>7. CASE ~j.inEditor /\ ~ (j.kind = "post" /\ j.started)
  <2>1. StopStages(j) = <<>> \o <<>>
    BY <1>7 DEF StopStages
  <2>2. StopStages(j) = <<>>
    BY <2>1
  <2>3. Stopped(j) = End(j, "stopped")
    BY <2>2 DEF Stopped
  <2> QED
    BY <1>1, <1>2, <1>3, <1>7, <2>3, EndOver
<1> QED
  BY <1>1, <1>4, <1>5, <1>6, <1>7

-----------------------------------------------------------------------------
(* The types.                                                              *)

\* A write that ends on the tick is the tick.
Ticks == \A i \in 1 .. Len(toVosh) : toVosh[i].ends = "tick" => toVosh[i] = Tick

Arms == {"off", "silent", "text", "kept"}
DoneType == [result : Results, postSent : BOOLEAN]
LeftType == [yours : Nat, chats : Nat, others : Nat, auto : Nat]

Types ==
    /\ job = NoJob \/ JobForm(job)
    /\ waiting \in Kinds \cup {"none"} /\ (waiting # "none" => job = NoJob)
    /\ done \in DoneType
    /\ game \in {"unknown", "prompt", "editor"}
    /\ armed \in Arms /\ (armed = "kept" => job # NoJob)
    /\ left \in LeftType
    /\ held \in Nat /\ held + left.auto <= MaxAuto /\ (held > 0 => job # NoJob)
    /\ toGame \in Seq(LineType) /\ toVosh \in Seq(WriteType) /\ Ticks
    /\ text \in Seq(Kept) /\ note \in {"none", "card", "other"}
    /\ heard \in BOOLEAN /\ editing \in BOOLEAN /\ hung \in BOOLEAN
    /\ link \in BOOLEAN /\ calm \in BOOLEAN
    /\ ~link => toGame = <<>>

-----------------------------------------------------------------------------
(* What the card does.                                                     *)

Moves(r) == JobForm(r.job) /\ r.out \in Seq(LineType)

LEMMA Moving ==
  ASSUME NEW r
  PROVE  /\ ToBoard(r) \/ ToOpen(r) \/ ToText(r) => Moves(r)
         /\ \A dos : ToLeave(r, dos) => Moves(r)
         /\ \A j : Stays(j, r) => Moves(r)
         /\ Moves(r) => r.job.result = "none" /\ ~ Over(r)
<1>1. ToBoard(r) \/ ToOpen(r) \/ ToText(r) => Moves(r)
  BY DEF ToBoard, ToOpen, ToText, Moves, Single
<1>2. ASSUME NEW dos, ToLeave(r, dos) PROVE Moves(r)
  BY <1>2 DEF ToLeave, Moves, Single
<1>3. ASSUME NEW j, Stays(j, r) PROVE Moves(r)
  BY <1>3 DEF Stays, Moves
<1>4. Moves(r) => r.job.result = "none" /\ ~ Over(r)
  BY DEF Moves, JobForm, Over
<1> QED
  BY <1>1, <1>2, <1>3, <1>4

Flush == [i \in 1 .. held |-> Command("automation")]

LEMMA FlushIs ==
  ASSUME held \in Nat
  PROVE  Flush \in Seq(LineType) /\ Are(Flush, {"command"})
<1>1. Command("automation") \in LineType /\ Command("automation").do = "command"
  BY Numbers DEF Command, Line, LineType, EditorLines, PromptLines, Kept, Other
<1>2. Flush \in Seq(LineType) /\ Len(Flush) = held /\ \A i \in 1 .. held : Flush[i].do = "command"
  BY <1>1 DEF Flush
<1> QED
  BY <1>2 DEF Are

LEMMA ActsGo ==
  ASSUME NEW r, NEW h, NEW a, Acts(r, h, a), r.job.result = "none"
  PROVE  /\ job' = r.job /\ toGame' = toGame \o r.out /\ armed' = a
         /\ done' = done /\ held' = held /\ heard' \in BOOLEAN
  BY DEF Acts, Settle

LEMMA ActsOver ==
  ASSUME NEW r, NEW h, NEW a, Acts(r, h, a), Over(r), toGame \in Seq(LineType)
  PROVE  /\ job' = NoJob /\ toGame' = toGame \o Flush
         /\ armed' = (IF a = "kept" THEN "off" ELSE a)
         /\ done' \in DoneType /\ held' = 0 /\ heard' \in BOOLEAN
<1>1. r.job.result \in Results /\ r.job.result # "none" /\ r.out = <<>> /\ r.job.postSent \in BOOLEAN
  BY DEF Over
<1>2. toGame' = toGame \o r.out \o Flush
  BY <1>1 DEF Acts, Flush
<1>3. toGame \o <<>> = toGame
  BY ConcatEmptySeq
<1>4. /\ job' = NoJob /\ done' = [result |-> r.job.result, postSent |-> r.job.postSent]
      /\ held' = 0 /\ heard' = (h /\ r.out = <<>>) /\ armed' = Settle(r, a)
  BY <1>1 DEF Acts
<1>5. toGame' = toGame \o Flush
  BY <1>1, <1>2, <1>3
<1>6. done' \in DoneType
  BY <1>1, <1>4 DEF DoneType
<1>7. heard' \in BOOLEAN
  BY <1>4
<1>8. armed' = (IF a = "kept" THEN "off" ELSE a)
  BY <1>1, <1>4 DEF Settle
<1> QED
  BY <1>4, <1>5, <1>6, <1>7, <1>8

\* After any of them the types of what Acts sets hold again.
ActsKeep ==
    /\ job' = NoJob \/ JobForm(job')
    /\ done' \in DoneType /\ heard' \in BOOLEAN
    /\ armed' \in Arms /\ (armed' = "kept" => job' # NoJob)
    /\ held' \in Nat /\ held' <= held /\ (held' > 0 => job' # NoJob)
    /\ toGame' \in Seq(LineType)

LEMMA NotForm == ASSUME NEW j, JobForm(j) PROVE j # NoJob
  BY NoJobIs

LEMMA ActsTypes ==
  ASSUME Types, NEW r, NEW h, NEW a \in Arms, Acts(r, h, a), Moves(r) \/ Over(r)
  PROVE  ActsKeep
<1>1. CASE Moves(r)
  <2>1. r.job.result = "none" /\ JobForm(r.job) /\ r.job # NoJob /\ r.out \in Seq(LineType)
    BY <1>1, Moving, NotForm DEF Moves
  <2>2. /\ job' = r.job /\ toGame' = toGame \o r.out /\ armed' = a
        /\ done' = done /\ held' = held /\ heard' \in BOOLEAN
    BY <2>1, ActsGo
  <2>3. toGame' \in Seq(LineType)
    BY <2>1, <2>2 DEF Types
  <2> QED
    BY <2>1, <2>2, <2>3 DEF Types, ActsKeep
<1>2. CASE Over(r)
  <2>1. /\ job' = NoJob /\ toGame' = toGame \o Flush
        /\ armed' = (IF a = "kept" THEN "off" ELSE a)
        /\ done' \in DoneType /\ held' = 0 /\ heard' \in BOOLEAN
    BY <1>2, ActsOver DEF Types
  <2>2. Flush \in Seq(LineType)
    BY FlushIs DEF Types
  <2>3. toGame' \in Seq(LineType)
    BY <2>1, <2>2 DEF Types
  <2>4. armed' \in Arms /\ armed' # "kept"
    BY <2>1 DEF Arms
  <2> QED
    BY <2>1, <2>3, <2>4 DEF Types, ActsKeep
<1> QED
  BY <1>1, <1>2

\* One that only waits, whether there is a job or none.
LEMMA ActsWaits ==
  ASSUME Types, NEW h, NEW a \in Arms, Acts(Waits(job), h, a), a = "kept" => job # NoJob
  PROVE  /\ ActsKeep /\ job' = job /\ toGame' = toGame /\ armed' = a
         /\ done' = done /\ held' = held
<1> DEFINE r == Waits(job)
<1>1. r.job = job /\ r.out = <<>>
  BY DEF Waits, Then
<1>2. job.result = "none"
  BY NoJobIs DEF Types, JobForm
<1> HIDE DEF r
<1>3. /\ job' = r.job /\ toGame' = toGame \o r.out /\ armed' = a
      /\ done' = done /\ held' = held /\ heard' \in BOOLEAN
  BY <1>1, <1>2, ActsGo DEF r
<1>4. toGame \o <<>> = toGame
  BY ConcatEmptySeq DEF Types
<1>5. toGame' = toGame
  BY <1>1, <1>3, <1>4
<1> QED
  BY <1>1, <1>3, <1>5 DEF Types, ActsKeep

-----------------------------------------------------------------------------
(* What a read takes.                                                      *)

ReadOf(r, k) ==
    /\ k \in 1 .. Len(toVosh) /\ r \in ReadType /\ r.ends = toVosh[k].ends
    /\ \A i \in 1 .. k : toVosh[i].ends # "tick" /\ toVosh[i].words \subseteq r.words
    /\ \A w \in r.words : \E i \in 1 .. k : w \in toVosh[i].words
    /\ "listed" \in r.words =>
        \E i \in 1 .. k : "listed" \in toVosh[i].words /\ toVosh[i].listing = r.listing
    /\ k \in {1, 2}

LEMMA ReadIs ==
  ASSUME Types, Read
  PROVE  /\ link /\ UNCHANGED <<waiting, gameVars, link, calm, left>>
         /\ \E k \in {1, 2}, lone \in Nat, r \in ReadType : ReadOf(r, k) /\ Reads(r, k, lone)
<1> DEFINE v == toVosh
           a == Head(v)
           lone(b) == b.words = {} /\ b.ends = "editor"
           n == IF lone(a) THEN 1 ELSE 0
           b == v[2]
           ab == Said(a.words \cup b.words,
                      IF "listed" \in b.words THEN b.listing ELSE a.listing, b.ends)
           m == IF lone(a) /\ lone(b) THEN 2 ELSE 0
<1>1. /\ link /\ v # <<>> /\ a # Tick /\ UNCHANGED <<waiting, gameVars, link, calm, left>>
      /\ Reads(a, 1, n) \/ (Len(v) > 1 /\ b # Tick /\ Reads(ab, 2, m))
  BY DEF Read
<1>2. v \in Seq(WriteType) /\ \A i \in 1 .. Len(v) : v[i] # Tick => v[i].ends # "tick"
  BY DEF Types, Ticks
<1>3. n \in Nat /\ m \in Nat
  OBVIOUS
<1> HIDE DEF n, m
<1>4. 1 \in 1 .. Len(v) /\ a = v[1] /\ v[1] \in WriteType /\ v[1].ends # "tick"
  BY <1>1, <1>2
<1>5. CASE Reads(a, 1, n)
  <2>1. v[1] \in ReadType
    BY <1>4 DEF WriteType, ReadType
  <2>2. \A i \in 1 .. 1 : i = 1
    BY ONLY SMT
  <2>3. ReadOf(v[1], 1)
    <3>1. \A i \in 1 .. 1 : v[i].ends # "tick" /\ v[i].words \subseteq v[1].words
      BY <1>4, <2>2
    <3>2. \A w \in v[1].words : \E i \in 1 .. 1 : w \in v[i].words
      <4>1. 1 \in 1 .. 1
        BY ONLY SMT
      <4> QED
        BY <4>1
    <3>3. 1 \in {1, 2}
      OBVIOUS
    <3>4. "listed" \in v[1].words =>
             \E i \in 1 .. 1 : "listed" \in v[i].words /\ v[i].listing = v[1].listing
      <4>1. 1 \in 1 .. 1
        BY ONLY SMT
      <4> QED
        BY <4>1
    <3> QED
      BY <1>4, <2>1, <3>1, <3>2, <3>3, <3>4 DEF ReadOf
  <2>4. Reads(v[1], 1, n)
    BY <1>4, <1>5
  <2>5. 1 \in {1, 2}
    OBVIOUS
  <2> QED
    BY <1>1, <1>3, <2>1, <2>3, <2>4, <2>5, Zenon
<1>6. CASE Len(v) > 1 /\ b # Tick /\ Reads(ab, 2, m)
  <2>1. 2 \in 1 .. Len(v) /\ b \in WriteType /\ b.ends # "tick"
    BY <1>2, <1>6
  <2>2. /\ ab \in ReadType /\ ab.ends = b.ends /\ ab.words = a.words \cup b.words
        /\ ab.listing = IF "listed" \in b.words THEN b.listing ELSE a.listing
    <3>1. a.words \cup b.words \in SUBSET Words
      BY <1>4, <2>1 DEF WriteType
    <3>2. (IF "listed" \in b.words THEN b.listing ELSE a.listing) \in Seq(Kept)
      BY <1>4, <2>1 DEF WriteType
    <3>3. b.ends \in {"editor", "prompt"}
      BY <2>1 DEF WriteType
    <3> HIDE DEF a, b
    <3> QED
      BY <3>1, <3>2, <3>3 DEF Said, ReadType
  <2>3. \A i \in 1 .. 2 : i = 1 \/ i = 2
    BY ONLY SMT
  <2>4. 1 \in 1 .. 2 /\ 2 \in 1 .. 2 /\ 2 \in {1, 2}
    BY ONLY SMT
  <2> HIDE DEF ab
  <2>5. ReadOf(ab, 2)
    <3>1. \A i \in 1 .. 2 : v[i].ends # "tick" /\ v[i].words \subseteq ab.words
      BY <1>4, <2>1, <2>2, <2>3
    <3>2. \A w \in ab.words : \E i \in 1 .. 2 : w \in v[i].words
      BY <1>4, <2>2, <2>4
    <3>3. "listed" \in ab.words =>
             \E i \in 1 .. 2 : "listed" \in v[i].words /\ v[i].listing = ab.listing
      BY <1>4, <2>2, <2>4
    <3> QED
      BY <2>1, <2>2, <2>4, <3>1, <3>2, <3>3 DEF ReadOf
  <2> QED
    BY <1>1, <1>3, <1>6, <2>2, <2>4, <2>5, Zenon
<1> QED
  BY <1>1, <1>5, <1>6

LEMMA DropIs ==
  ASSUME NEW S, NEW s \in Seq(S), NEW k \in 1 .. Len(s)
  PROVE  LET t == SubSeq(s, k + 1, Len(s)) IN
         /\ t \in Seq(S) /\ Len(t) = Len(s) - k
         /\ \A i \in 1 .. Len(t) : i + k \in 1 .. Len(s) /\ t[i] = s[i + k]
  OBVIOUS

LEMMA TailIs ==
  ASSUME NEW S, NEW s \in Seq(S), s # <<>>
  PROVE  /\ Head(s) = s[1] /\ 1 \in 1 .. Len(s) /\ Head(s) \in S
         /\ Tail(s) \in Seq(S) /\ Len(Tail(s)) = Len(s) - 1
         /\ \A i \in 1 .. Len(Tail(s)) : i + 1 \in 1 .. Len(s) /\ Tail(s)[i] = s[i + 1]
  OBVIOUS

LEMMA AppendIs ==
  ASSUME NEW S, NEW s \in Seq(S), NEW e \in S
  PROVE  /\ Append(s, e) \in Seq(S) /\ Len(Append(s, e)) = Len(s) + 1 /\ Len(s) \in Nat
         /\ \A i \in 1 .. Len(s) : Append(s, e)[i] = s[i]
         /\ Append(s, e)[Len(s) + 1] = e
         /\ \A i \in 1 .. Len(s) + 1 : i \in 1 .. Len(s) \/ i = Len(s) + 1
  OBVIOUS

-----------------------------------------------------------------------------
(* Every step keeps the types.                                             *)

LEMMA TypesCard ==
  ASSUME Types, ActsKeep, link' = link, link,
         waiting' \in Kinds \cup {"none"}, waiting' # "none" => job' = NoJob,
         game' \in {"unknown", "prompt", "editor"},
         left' \in LeftType, left'.auto = left.auto,
         toVosh' \in Seq(WriteType), Ticks',
         UNCHANGED gameVars, calm' \in BOOLEAN
  PROVE  Types'
<1>1. held' \in Nat /\ held \in Nat /\ held' <= held /\ held + left.auto <= MaxAuto
  BY DEF Types, ActsKeep
<1>2. left.auto \in Nat /\ MaxAuto \in Nat
  BY WriterAssumption DEF Types, LeftType
<1>3. held' + left'.auto <= MaxAuto
  BY <1>1, <1>2
<1> QED
  BY <1>1, <1>3 DEF Types, ActsKeep, gameVars

LEMMA TicksDrop ==
  ASSUME Types, NEW k \in 1 .. Len(toVosh), toVosh' = SubSeq(toVosh, k + 1, Len(toVosh))
  PROVE  toVosh' \in Seq(WriteType) /\ Ticks'
<1>1. toVosh \in Seq(WriteType)
  BY DEF Types
<1>2. /\ toVosh' \in Seq(WriteType)
      /\ \A i \in 1 .. Len(toVosh') : i + k \in 1 .. Len(toVosh) /\ toVosh'[i] = toVosh[i + k]
  BY <1>1, DropIs
<1> QED
  BY <1>2 DEF Types, Ticks

LEMMA TypesStart ==
  ASSUME Types, NEW kind \in Kinds, Start(kind)
  PROVE  Types'
<1>1. link /\ job = NoJob /\ UNCHANGED <<game, toVosh, gameVars, link, calm, left>>
  BY DEF Start, UnderWay
<1>2. kind # "none"
  BY Numbers
<1>3. Ticks'
  BY <1>1 DEF Types, Ticks
<1>4. CASE Acts(Advance(New(kind)), heard, armed) /\ waiting' = "none"
  <2>1. Moves(Advance(New(kind)))
    BY NewIs, Moving
  <2>2. armed \in Arms
    BY DEF Types
  <2>3. ActsKeep
    BY <1>4, <2>1, <2>2, ActsTypes
  <2> QED
    BY <1>1, <1>3, <1>4, <2>3, TypesCard DEF Types
<1>5. CASE waiting' = kind /\ UNCHANGED <<job, done, armed, held, heard, toGame>>
  BY <1>1, <1>3, <1>5 DEF Types, gameVars
<1> QED
  BY <1>4, <1>5 DEF Start

LEMMA SpendIs ==
  ASSUME Types, NEW what \in {"yours", "chats", "others", "auto"}, Spend(what)
  PROVE  /\ left' \in LeftType /\ left.auto \in Nat
         /\ left'.auto = (IF what = "auto" THEN left.auto - 1 ELSE left.auto)
         /\ what = "auto" => left.auto > 0
<1>1. left \in LeftType /\ left[what] > 0 /\ left' = [left EXCEPT ![what] = @ - 1]
  BY DEF Types, Spend
<1>2. CASE what = "yours"
  BY <1>1, <1>2 DEF LeftType
<1>3. CASE what = "chats"
  BY <1>1, <1>3 DEF LeftType
<1>4. CASE what = "others"
  BY <1>1, <1>4 DEF LeftType
<1>5. CASE what = "auto"
  BY <1>1, <1>5 DEF LeftType
<1> QED
  BY <1>2, <1>3, <1>4, <1>5

LEMMA StopIs ==
  ASSUME Types, Stop
  PROVE  /\ link /\ JobForm(job) /\ Acts(Stopped(job), heard, armed)
         /\ calm' = (calm /\ job.stage.do \notin {"to", "open"})
         /\ Spend("yours") /\ UNCHANGED <<waiting, game, toVosh, gameVars, link>>
         /\ waiting = "none"
<1>1. JobForm(job) /\ waiting = "none"
  BY DEF Types, Stop, UnderWay
<1>2. Acts(Stopped(job), heard, armed)
  BY Zenon DEF Stop, Stopped, StopStages
<1> QED
  BY <1>1, <1>2 DEF Stop

LEMMA TypesStop ==
  ASSUME Types, Stop
  PROVE  Types'
<1>1. /\ link /\ JobForm(job) /\ Acts(Stopped(job), heard, armed)
      /\ calm' = (calm /\ job.stage.do \notin {"to", "open"})
      /\ Spend("yours") /\ UNCHANGED <<waiting, game, toVosh, gameVars, link>>
      /\ waiting = "none"
  BY StopIs
<1>2. Moves(Stopped(job)) \/ Over(Stopped(job))
  BY <1>1, StoppedIs, Moving
<1>3. armed \in Arms
  BY DEF Types
<1>4. ActsKeep
  BY <1>1, <1>2, <1>3, ActsTypes
<1>5. left' \in LeftType /\ left'.auto = left.auto
  BY <1>1, SpendIs
<1>6. Ticks' /\ calm' \in BOOLEAN
  BY <1>1 DEF Types, Ticks
<1> QED
  BY <1>1, <1>4, <1>5, <1>6, TypesCard DEF Types

LEMMA TypesStopWaiting ==
  ASSUME Types, StopWaiting
  PROVE  Types'
<1>1. done' \in DoneType
  BY DEF StopWaiting, Types, DoneType, Results
<1> QED
  BY <1>1 DEF StopWaiting, Types, Ticks, gameVars

LEMMA TypedIs ==
  /\ Typed \in LineType
  /\ Typed.do = IF job.inEditor THEN "dot command" ELSE "command"
<1>1. "you" \in {"card", "you", "automation"} /\ 0 \in Nat /\ 0 \in Kept
  BY Numbers DEF Kept, Other
<1>2. "dot command" \in EditorLines /\ "command" \in PromptLines
  BY DEF EditorLines, PromptLines
<1> QED
  BY <1>1, <1>2 DEF Typed, Silenced, Command, Line, LineType

LEMMA TypesTypeLine ==
  ASSUME Types, TypeLine
  PROVE  Types'
<1>1. /\ link /\ Spend("yours") /\ calm' = (calm /\ ~Misreads)
      /\ toGame' = Append(toGame, Typed)
      /\ UNCHANGED <<cardVars, toVosh, gameVars, link>>
  BY DEF TypeLine
<1>2. left' \in LeftType /\ left'.auto = left.auto
  BY <1>1, SpendIs
<1>3. toGame' \in Seq(LineType)
  <2>1. Typed \in LineType /\ toGame \in Seq(LineType)
    BY TypedIs DEF Types
  <2> QED
    BY <1>1, <2>1, AppendIs
<1>4. calm' \in BOOLEAN
  BY <1>1
<1> QED
  BY <1>1, <1>2, <1>3, <1>4 DEF Types, Ticks, cardVars, gameVars

LEMMA TypesAutomation ==
  ASSUME Types, Automation
  PROVE  Types'
<1>1. /\ link /\ job # NoJob /\ Spend("auto") /\ held' = held + 1
      /\ UNCHANGED <<job, waiting, done, game, armed, heard, toGame, toVosh, gameVars, link, calm>>
  BY DEF Automation, UnderWay
<1>2. left' \in LeftType /\ left'.auto = left.auto - 1 /\ left.auto \in Nat
  BY <1>1, SpendIs
<1>3. held' \in Nat /\ held' + left'.auto <= MaxAuto
  BY <1>1, <1>2, WriterAssumption DEF Types
<1> QED
  BY <1>1, <1>2, <1>3 DEF Types, Ticks, gameVars

\* What a read comes to for the card.
LEMMA ReadsActs ==
  ASSUME Types, Read
  PROVE  \E k \in {1, 2}, lone \in Nat, r \in ReadType :
            /\ ReadOf(r, k)
            /\ toVosh' = SubSeq(toVosh, k + 1, Len(toVosh))
            /\ game' \in {"unknown", "prompt", "editor"}
            /\ \E a \in Arms \ {"kept"} :
                /\ a = IF r.ends = "editor" \/ armed = "off" THEN "off" ELSE "text"
                /\ Acts(IF UnderWay THEN JobReads(job, r, lone) ELSE Waits(job), TRUE, a)
<1>1. PICK k \in {1, 2}, lone \in Nat, r \in ReadType : ReadOf(r, k) /\ Reads(r, k, lone)
  BY ReadIs
<1> DEFINE a == CASE r.ends = "editor" -> "off"
                  [] armed = "off" -> "off"
                  [] OTHER -> "text"
<1>2. /\ toVosh' = SubSeq(toVosh, k + 1, Len(toVosh))
      /\ game' = IF r.ends = "editor" THEN "editor" ELSE game
      /\ Acts(IF UnderWay THEN JobReads(job, r, lone) ELSE Waits(job), TRUE, a)
  BY <1>1, Zenon DEF Reads
<1>3. a = IF r.ends = "editor" \/ armed = "off" THEN "off" ELSE "text"
  OBVIOUS
<1>4. a \in Arms \ {"kept"}
  BY <1>3 DEF Arms
<1>5. game' \in {"unknown", "prompt", "editor"}
  BY <1>2 DEF Types
<1> HIDE DEF a
<1> QED
  BY <1>1, <1>2, <1>3, <1>4, <1>5, Zenon

LEMMA JobReadsMoves ==
  ASSUME NEW j, JobForm(j), NEW r \in ReadType, NEW lone \in Nat
  PROVE  Moves(JobReads(j, r, lone)) \/ Over(JobReads(j, r, lone))
<1> DEFINE q == JobReads(j, r, lone)
<1>1. Over(q) \/ Stays(j, q) \/ ToText(q) \/ ToLeave(q, {"leave"})
  BY JobReadsIs
<1> QED
  BY <1>1, Moving

LEMMA TypesRead ==
  ASSUME Types, Read
  PROVE  Types'
<1>1. link /\ UNCHANGED <<waiting, gameVars, link, calm, left>>
  BY ReadIs
<1>2. PICK k \in {1, 2}, lone \in Nat, r \in ReadType :
            /\ ReadOf(r, k)
            /\ toVosh' = SubSeq(toVosh, k + 1, Len(toVosh))
            /\ game' \in {"unknown", "prompt", "editor"}
            /\ \E a \in Arms \ {"kept"} :
                /\ a = IF r.ends = "editor" \/ armed = "off" THEN "off" ELSE "text"
                /\ Acts(IF UnderWay THEN JobReads(job, r, lone) ELSE Waits(job), TRUE, a)
  BY ReadsActs
<1>3. PICK a \in Arms \ {"kept"} :
        Acts(IF UnderWay THEN JobReads(job, r, lone) ELSE Waits(job), TRUE, a)
  BY <1>2
<1>4. ActsKeep /\ (job = NoJob => job' = NoJob)
  <2>1. CASE job = NoJob
    <3>1. Acts(Waits(job), TRUE, a)
      BY <1>3, <2>1 DEF UnderWay
    <3> QED
      BY <2>1, <3>1, ActsWaits
  <2>2. CASE job # NoJob
    <3>1. Acts(JobReads(job, r, lone), TRUE, a) /\ JobForm(job)
      BY <1>3, <2>2 DEF UnderWay, Types
    <3>2. Moves(JobReads(job, r, lone)) \/ Over(JobReads(job, r, lone))
      BY <3>1, JobReadsMoves
    <3> QED
      BY <2>2, <3>1, <3>2, ActsTypes
  <2> QED
    BY <2>1, <2>2
<1>5. toVosh' \in Seq(WriteType) /\ Ticks'
  BY <1>2, TicksDrop DEF ReadOf
<1> QED
  BY <1>1, <1>2, <1>4, <1>5, TypesCard DEF Types

LEMMA TypesReadTick ==
  ASSUME Types, ReadTick
  PROVE  Types'
<1>1. /\ link /\ toVosh # <<>> /\ toVosh' = Tail(toVosh) /\ game' = "prompt"
      /\ armed' = TickComes
      /\ UNCHANGED <<job, waiting, done, heard, held, toGame, gameVars, link, calm, left>>
  BY DEF ReadTick
<1>2. /\ toVosh' \in Seq(WriteType)
      /\ \A i \in 1 .. Len(toVosh') : i + 1 \in 1 .. Len(toVosh) /\ toVosh'[i] = toVosh[i + 1]
  BY <1>1, TailIs DEF Types
<1>3. Ticks'
  BY <1>2 DEF Types, Ticks
<1>4. armed' \in {"text", "silent"} /\ armed' \in Arms
  BY <1>1 DEF TickComes, Arms
<1> QED
  BY <1>1, <1>2, <1>3, <1>4 DEF Types, gameVars

LEMMA JobTickMoves ==
  ASSUME NEW j, JobForm(j)
  PROVE  Moves(JobTick(j)) \/ Over(JobTick(j))
<1> DEFINE q == JobTick(j)
<1>1. CASE q = Waits(j)
  <2>1. q.job = j /\ q.out = <<>>
    BY <1>1 DEF Waits, Then
  <2>2. <<>> \in Seq(LineType)
    OBVIOUS
  <2> HIDE DEF q
  <2>3. Moves(q)
    BY <2>1, <2>2 DEF Moves
  <2> QED
    BY <2>3 DEF q
<1>2. CASE Over(q) \/ ToLeave(q, Prompts) \/ ToBoard(q) \/ ToOpen(q)
  BY <1>2, Moving
<1> QED
  BY <1>1, <1>2, JobTickIs

LEMMA TypesFire ==
  ASSUME Types, Fire
  PROVE  Types'
<1>1. link /\ UNCHANGED <<game, toVosh, gameVars, link, calm, left>>
  BY DEF Fire
<1>2. Ticks'
  BY <1>1 DEF Types, Ticks
<1>3. ActsKeep /\ waiting' \in Kinds \cup {"none"} /\ (waiting' # "none" => job' = NoJob)
  <2>1. CASE job # NoJob
    <3> DEFINE a == IF StillWaits(job) THEN "kept" ELSE "off"
    <3>1. Acts(JobTick(job), heard, a) /\ waiting' = waiting /\ JobForm(job)
      BY <2>1 DEF Fire, UnderWay, Types
    <3>2. a \in Arms
      BY DEF Arms
    <3> HIDE DEF a
    <3>3. Moves(JobTick(job)) \/ Over(JobTick(job))
      BY <3>1, JobTickMoves
    <3>4. ActsKeep
      BY <3>1, <3>2, <3>3, ActsTypes
    <3> QED
      BY <2>1, <3>1, <3>4 DEF Types
  <2>2. CASE job = NoJob /\ waiting = "none"
    <3>1. Acts(Waits(job), heard, "off") /\ waiting' = "none"
      BY <2>2 DEF Fire, UnderWay
    <3>2. "off" \in Arms
      BY DEF Arms
    <3>3. ActsKeep
      BY <3>1, <3>2, ActsWaits
    <3> QED
      BY <3>1, <3>3
  <2>3. CASE job = NoJob /\ waiting # "none"
    <3>1. Acts(Advance(New(waiting)), heard, "off") /\ waiting' = "none" /\ waiting \in Kinds
      BY <2>3 DEF Fire, UnderWay, Types
    <3>2. "off" \in Arms
      BY DEF Arms
    <3>3. Moves(Advance(New(waiting)))
      BY <3>1, NewIs, Moving
    <3>4. ActsKeep
      BY <3>1, <3>2, <3>3, ActsTypes
    <3> QED
      BY <3>1, <3>4
  <2> QED
    BY <2>1, <2>2, <2>3
<1> QED
  BY <1>1, <1>2, <1>3, TypesCard DEF Types

LEMMA ConfirmIs ==
  ASSUME Types, Confirm
  PROVE  /\ link /\ JobForm(job) /\ InText(job) /\ job.phase = "sending"
         /\ UNCHANGED <<waiting, game, toVosh, gameVars, link, calm, left>>
         /\ \E r : /\ Acts(r, heard, armed) /\ (ToText(r) \/ ToLeave(r, {"leave"}))
<1>1. /\ link /\ job.phase = "sending"
      /\ UNCHANGED <<waiting, game, toVosh, gameVars, link, calm, left>>
  BY DEF Confirm
<1>2. JobForm(job)
  BY <1>1, NoJobIs DEF Types
<1>3. PICK n \in 1 .. job.flight : Acts(Pump([job EXCEPT !.flight = @ - n]), heard, armed)
  BY DEF Confirm
<1> DEFINE f == job.flight - n
<1>4. f \in 0 .. InFlight
  BY <1>2 DEF JobForm, JobType, InFlight
<1>5. Acts(Pump([job EXCEPT !.flight = f]), heard, armed)
  BY <1>3
<1> HIDE DEF f
<1>6. /\ InText(job)
      /\ \/ ToText(Pump([job EXCEPT !.flight = f]))
         \/ ToLeave(Pump([job EXCEPT !.flight = f]), {"leave"})
  BY <1>1, <1>2, <1>4, PumpIs
<1> QED
  BY <1>1, <1>2, <1>5, <1>6

LEMMA TypesConfirm ==
  ASSUME Types, Confirm
  PROVE  Types'
<1>1. /\ link /\ JobForm(job)
      /\ UNCHANGED <<waiting, game, toVosh, gameVars, link, calm, left>>
  BY ConfirmIs
<1>2. PICK r : Acts(r, heard, armed) /\ (ToText(r) \/ ToLeave(r, {"leave"}))
  BY ConfirmIs
<1>3. Moves(r)
  BY <1>2, Moving
<1>4. armed \in Arms /\ waiting = "none"
  BY <1>1, NotForm DEF Types
<1>5. ActsKeep
  BY <1>2, <1>3, <1>4, ActsTypes
<1>6. Ticks'
  BY <1>1 DEF Types, Ticks
<1> QED
  BY <1>1, <1>4, <1>5, <1>6, TypesCard DEF Types

LEMMA ExpireIs ==
  ASSUME Types, Expire
  PROVE  /\ link /\ JobForm(job) /\ job.phase \in Timed /\ toVosh = <<>>
         /\ toGame # <<>> => hung
         /\ Acts(End(job, "silent"), heard, armed) /\ Over(End(job, "silent"))
         /\ UNCHANGED <<waiting, game, toVosh, gameVars, link, calm, left>>
<1>1. /\ link /\ job.phase \in Timed /\ toVosh = <<>> /\ (toGame # <<>> => hung)
      /\ Acts(End(job, "silent"), heard, armed)
      /\ UNCHANGED <<waiting, game, toVosh, gameVars, link, calm, left>>
  BY DEF Expire
<1>2. JobForm(job)
  BY <1>1, NoJobIs DEF Types, Timed
<1>3. "silent" \in Results \ {"none"}
  BY DEF Results
<1>4. Over(End(job, "silent"))
  BY <1>2, <1>3, EndOver DEF JobForm
<1> QED
  BY <1>1, <1>2, <1>4

LEMMA TypesExpire ==
  ASSUME Types, Expire
  PROVE  Types'
<1>1. /\ link /\ JobForm(job) /\ Acts(End(job, "silent"), heard, armed)
      /\ Over(End(job, "silent"))
      /\ UNCHANGED <<waiting, game, toVosh, gameVars, link, calm, left>>
  BY ExpireIs
<1>2. armed \in Arms /\ waiting = "none"
  BY <1>1, NotForm DEF Types
<1>3. ActsKeep
  BY <1>1, <1>2, ActsTypes
<1>4. Ticks'
  BY <1>1 DEF Types, Ticks
<1> QED
  BY <1>1, <1>2, <1>3, <1>4, TypesCard DEF Types

LEMMA TypesDrop ==
  ASSUME Types, Drop
  PROVE  Types'
<1>1. done' \in DoneType
  <2>1. "dropped" \in Results
    BY DEF Results
  <2>2. job.postSent \in BOOLEAN
    BY NoJobIs DEF Types, JobForm, JobType
  <2>3. [result |-> "dropped", postSent |-> job.postSent] \in DoneType
    BY <2>1, <2>2 DEF DoneType
  <2>4. done' = [result |-> "dropped", postSent |-> job.postSent] \/ done' = done
    BY DEF Drop
  <2> QED
    BY <2>3, <2>4 DEF Types
<1>2. /\ link' = FALSE /\ job' = NoJob /\ waiting' = "none"
      /\ game' = "unknown" /\ armed' = "off" /\ heard' = FALSE /\ held' = 0
      /\ toGame' = <<>> /\ toVosh' = <<>> /\ UNCHANGED <<gameVars, calm, left>>
  BY DEF Drop
<1>3. Ticks'
  BY <1>2 DEF Ticks
<1>4. held' + left'.auto <= MaxAuto
  BY <1>2, WriterAssumption DEF Types, LeftType
<1>5. toGame' \in Seq(LineType) /\ toVosh' \in Seq(WriteType) /\ armed' \in Arms
  BY <1>2 DEF Arms
<1>6. /\ text' \in Seq(Kept) /\ note' \in {"none", "card", "other"} /\ editing' \in BOOLEAN
      /\ hung' \in BOOLEAN /\ calm' \in BOOLEAN /\ left' \in LeftType
  BY <1>2 DEF Types, gameVars
<1>7. /\ job' = NoJob \/ JobForm(job')
      /\ waiting' \in Kinds \cup {"none"} /\ (waiting' # "none" => job' = NoJob)
      /\ game' \in {"unknown", "prompt", "editor"} /\ armed' # "kept"
      /\ heard' \in BOOLEAN /\ link' \in BOOLEAN
  BY <1>2
<1>8. held' \in Nat /\ ~ (held' > 0)
  BY <1>2
<1> QED
  BY <1>1, <1>2, <1>3, <1>4, <1>5, <1>6, <1>7, <1>8, Zenon DEF Types
-----------------------------------------------------------------------------
(* What the game does.                                                     *)

\* What it says in its editor, and at its prompt: one tick, with text or not.
InEditor(m) == m \in WriteType /\ m.ends = "editor" /\ "too long" \notin m.words
Prompted(w) ==
    /\ w \in Seq(WriteType)
    /\ \E t \in 1 .. Len(w) :
        /\ w[t] = Tick
        /\ \A i \in 1 .. Len(w) : i # t => w[i].ends = "prompt"
    /\ \A i \in 1 .. Len(w) : "too long" \notin w[i].words

\* It answers in its editor, at its prompt, or with a line it had no room for.
AnswersInEditor(do) ==
    /\ editing' = TRUE /\ calm' = calm
    /\ \E m : /\ InEditor(m) /\ toVosh' = Append(toVosh, m)
              /\ do = "show" => "listed" \in m.words
              /\ do = "clear" => "cleared" \in m.words
              /\ ~editing => do = "open" /\ "banner" \in m.words
              /\ editing => do # "leave"
AnswersAtPrompt(do) ==
    /\ editing' = FALSE /\ calm' = calm
    /\ \E w : Prompted(w) /\ toVosh' = toVosh \o w
    /\ editing => do = "leave"
Overflows ==
    /\ editing' = FALSE /\ calm' = FALSE
    /\ toVosh' \in Seq(WriteType) /\ Ticks'

Answers(do) == AnswersInEditor(do) \/ AnswersAtPrompt(do) \/ Overflows

LEMMA TickIs ==
  /\ Tick \in WriteType /\ Tick.ends = "tick" /\ Tick.words = {}
<1>1. <<>> \in Seq(Kept) /\ {} \in SUBSET Words
  OBVIOUS
<1> QED
  BY <1>1 DEF Tick, Said, WriteType

LEMMA SaidIs ==
  ASSUME NEW words \in SUBSET Words, NEW listing \in Seq(Kept),
         NEW ends \in {"editor", "prompt", "tick"}
  PROVE  /\ Said(words, listing, ends) \in WriteType
         /\ Said(words, listing, ends).words = words
         /\ Said(words, listing, ends).ends = ends
  BY DEF Said, WriteType

LEMMA TwoIs ==
  ASSUME NEW S, NEW a \in S, NEW b \in S
  PROVE  /\ <<a, b>> \in Seq(S) /\ Len(<<a, b>>) = 2 /\ <<a, b>>[1] = a /\ <<a, b>>[2] = b
         /\ \A i \in 1 .. 2 : i = 1 \/ i = 2
  OBVIOUS

LEMMA OneIs ==
  ASSUME NEW S, NEW a \in S
  PROVE  /\ <<a>> \in Seq(S) /\ Len(<<a>>) = 1 /\ <<a>>[1] = a
         /\ \A i \in 1 .. 1 : i = 1
         /\ \A s \in Seq(S) : Append(s, a) = s \o <<a>>
  OBVIOUS

LEMMA PromptedIs ==
  ASSUME NEW m \in WriteType, m.ends = "prompt", "too long" \notin m.words
  PROVE  Prompted(<<Tick, m>>) /\ Prompted(<<m, Tick>>) /\ Prompted(<<Tick>>)
<1>1. Tick \in WriteType /\ "too long" \notin Tick.words
  BY TickIs
<1>2. 1 \in 1 .. 2 /\ 2 \in 1 .. 2 /\ 1 \in 1 .. 1
  BY ONLY SMT
<1>3. Prompted(<<Tick, m>>)
  <2> DEFINE w == <<Tick, m>>
  <2>1. /\ w \in Seq(WriteType) /\ Len(w) = 2 /\ w[1] = Tick /\ w[2] = m
        /\ \A i \in 1 .. 2 : i = 1 \/ i = 2
    BY <1>1, TwoIs, Zenon
  <2> HIDE DEF w
  <2>2. \A i \in 1 .. Len(w) : i # 1 => w[i].ends = "prompt"
    BY <2>1
  <2>3. \A i \in 1 .. Len(w) : "too long" \notin w[i].words
    BY <1>1, <2>1
  <2>4. Prompted(w)
    BY <1>2, <2>1, <2>2, <2>3 DEF Prompted
  <2> QED
    BY <2>4 DEF w
<1>4. Prompted(<<m, Tick>>)
  <2> DEFINE w == <<m, Tick>>
  <2>1. /\ w \in Seq(WriteType) /\ Len(w) = 2 /\ w[1] = m /\ w[2] = Tick
        /\ \A i \in 1 .. 2 : i = 1 \/ i = 2
    BY <1>1, TwoIs, Zenon
  <2> HIDE DEF w
  <2>2. \A i \in 1 .. Len(w) : i # 2 => w[i].ends = "prompt"
    BY <2>1
  <2>3. \A i \in 1 .. Len(w) : "too long" \notin w[i].words
    BY <1>1, <2>1
  <2>4. Prompted(w)
    BY <1>2, <2>1, <2>2, <2>3 DEF Prompted
  <2> QED
    BY <2>4 DEF w
<1>5. Prompted(<<Tick>>)
  <2> DEFINE w == <<Tick>>
  <2>1. w \in Seq(WriteType) /\ Len(w) = 1 /\ w[1] = Tick /\ \A i \in 1 .. 1 : i = 1
    BY <1>1, OneIs, Zenon
  <2> HIDE DEF w
  <2>2. \A i \in 1 .. Len(w) : i # 1 => w[i].ends = "prompt"
    BY <2>1
  <2>3. \A i \in 1 .. Len(w) : "too long" \notin w[i].words
    BY <1>1, <2>1
  <2>4. Prompted(w)
    BY <1>2, <2>1, <2>2, <2>3 DEF Prompted
  <2> QED
    BY <2>4 DEF w
<1> QED
  BY <1>3, <1>4, <1>5

LEMMA SaysInEditorIs ==
  ASSUME Types, NEW words \in SUBSET (Words \ {"too long"}), NEW listing \in Seq(Kept),
         SaysInEditor(words, listing)
  PROVE  /\ editing' = TRUE /\ calm' = calm /\ left' \in LeftType /\ left'.auto = left.auto
         /\ \E m : InEditor(m) /\ words \subseteq m.words /\ toVosh' = Append(toVosh, m)
<1>1. CASE toVosh' = Append(toVosh, Said(words, listing, "editor")) /\ left' = left
  <2>1. InEditor(Said(words, listing, "editor")) /\ Said(words, listing, "editor").words = words
    BY SaidIs DEF InEditor
  <2> QED
    BY <1>1, <2>1 DEF SaysInEditor, Types
<1>2. CASE /\ toVosh' = Append(toVosh, Said(words \cup {"chat"}, listing, "editor"))
           /\ Spend("chats")
  <2> DEFINE more == words \cup {"chat"}
  <2>1. more \in SUBSET Words /\ "too long" \notin more /\ words \subseteq more
    BY DEF Words
  <2> HIDE DEF more
  <2>2. InEditor(Said(more, listing, "editor")) /\ Said(more, listing, "editor").words = more
    BY <2>1, SaidIs DEF InEditor
  <2>3. left' \in LeftType /\ left'.auto = left.auto
    BY <1>2, SpendIs
  <2>4. toVosh' = Append(toVosh, Said(more, listing, "editor"))
    BY <1>2 DEF more
  <2> QED
    BY <2>1, <2>2, <2>3, <2>4 DEF SaysInEditor
<1> QED
  BY <1>1, <1>2 DEF SaysInEditor

LEMMA SaysAtPromptIs ==
  ASSUME Types, NEW words \in SUBSET (Words \ {"too long"}), NEW listing \in Seq(Kept),
         SaysAtPrompt(words, listing)
  PROVE  /\ editing' = FALSE /\ calm' = calm /\ left' \in LeftType /\ left'.auto = left.auto
         /\ \E w : Prompted(w) /\ toVosh' = toVosh \o w
<1> DEFINE m == Said(words, listing, "prompt")
<1>1. m \in WriteType /\ m.ends = "prompt" /\ "too long" \notin m.words
  <2>1. words \in SUBSET Words /\ "too long" \notin words
    OBVIOUS
  <2>2. "prompt" \in {"editor", "prompt", "tick"}
    OBVIOUS
  <2>3. m \in WriteType /\ m.words = words /\ m.ends = "prompt"
    BY <2>1, <2>2, SaidIs
  <2> QED
    BY <2>1, <2>3
<1>2. /\ editing' = FALSE /\ calm' = calm /\ left' = left
      /\ \/ toVosh' = toVosh \o <<Tick, m>> \/ toVosh' = toVosh \o <<m, Tick>>
         \/ toVosh' = Append(toVosh, Tick)
  BY DEF SaysAtPrompt
<1> HIDE DEF m
<1>3. Prompted(<<Tick, m>>) /\ Prompted(<<m, Tick>>) /\ Prompted(<<Tick>>)
  BY <1>1, PromptedIs
<1>4. Append(toVosh, Tick) = toVosh \o <<Tick>>
  <2>1. Tick \in WriteType /\ toVosh \in Seq(WriteType)
    BY TickIs DEF Types
  <2> QED
    BY <2>1, OneIs
<1>5. \E w : Prompted(w) /\ toVosh' = toVosh \o w
  BY <1>2, <1>3, <1>4, Zenon
<1> QED
  BY <1>2, <1>5 DEF Types

LEMMA ConcatAt ==
  ASSUME NEW S, NEW v \in Seq(S), NEW w \in Seq(S)
  PROVE  /\ v \o w \in Seq(S) /\ Len(v \o w) = Len(v) + Len(w)
         /\ \A i \in 1 .. Len(v \o w) :
              \/ i \in 1 .. Len(v) /\ (v \o w)[i] = v[i]
              \/ i - Len(v) \in 1 .. Len(w) /\ (v \o w)[i] = w[i - Len(v)]
  OBVIOUS

LEMMA ConcatTicks ==
  ASSUME Types, NEW w, Prompted(w), toVosh' = toVosh \o w
  PROVE  toVosh' \in Seq(WriteType) /\ Ticks'
<1>1. toVosh \in Seq(WriteType) /\ w \in Seq(WriteType) /\ Len(toVosh) \in Nat /\ Len(w) \in Nat
  <2>1. toVosh \in Seq(WriteType) /\ w \in Seq(WriteType)
    BY DEF Types, Prompted
  <2> QED
    BY <2>1
<1>2. /\ toVosh' \in Seq(WriteType) /\ Len(toVosh') = Len(toVosh) + Len(w)
      /\ \A i \in 1 .. Len(toVosh') :
           \/ i \in 1 .. Len(toVosh) /\ toVosh'[i] = toVosh[i]
           \/ i - Len(toVosh) \in 1 .. Len(w) /\ toVosh'[i] = w[i - Len(toVosh)]
  BY <1>1
<1>3. \A i \in 1 .. Len(w) : w[i].ends = "tick" => w[i] = Tick
  BY DEF Prompted
<1>4. \A i \in 1 .. Len(toVosh) : toVosh[i].ends = "tick" => toVosh[i] = Tick
  BY DEF Types, Ticks
<1> QED
  BY <1>2, <1>3, <1>4 DEF Ticks

LEMMA AppendTicks ==
  ASSUME Types, NEW m, InEditor(m), toVosh' = Append(toVosh, m)
  PROVE  toVosh' \in Seq(WriteType) /\ Ticks'
<1>1. toVosh \in Seq(WriteType) /\ m \in WriteType /\ m.ends = "editor"
  BY DEF Types, InEditor
<1>2. /\ toVosh' \in Seq(WriteType) /\ Len(toVosh') = Len(toVosh) + 1
      /\ \A i \in 1 .. Len(toVosh) : toVosh'[i] = toVosh[i]
      /\ toVosh'[Len(toVosh) + 1] = m
      /\ \A i \in 1 .. Len(toVosh) + 1 : i \in 1 .. Len(toVosh) \/ i = Len(toVosh) + 1
  BY <1>1, AppendIs
<1> QED
  BY <1>1, <1>2 DEF Ticks, Types

\* What all of the game's steps share, and the types of what they set.
GameTypes ==
    /\ text' \in Seq(Kept) /\ note' \in {"none", "card", "other"}
    /\ left' \in LeftType /\ left'.auto = left.auto

LEMMA TypesGame ==
  ASSUME Types, NEW dos, GameReads(dos), GameTypes, Answers(Head(toGame).do)
  PROVE  Types'
<1>1. /\ link /\ toGame # <<>> /\ toGame' = Tail(toGame)
      /\ UNCHANGED <<cardVars, hung, link>>
  BY DEF GameReads
<1>2. toGame' \in Seq(LineType)
  BY <1>1 DEF Types
<1>3. /\ toVosh' \in Seq(WriteType) /\ Ticks' /\ editing' \in BOOLEAN /\ calm' \in BOOLEAN
  <2>1. CASE AnswersInEditor(Head(toGame).do)
    BY <2>1, AppendTicks DEF AnswersInEditor, Types
  <2>2. CASE AnswersAtPrompt(Head(toGame).do)
    BY <2>2, ConcatTicks DEF AnswersAtPrompt, Types
  <2>3. CASE Overflows
    BY <2>3 DEF Overflows
  <2> QED
    BY <2>1, <2>2, <2>3 DEF Answers
<1> QED
  BY <1>1, <1>2, <1>3 DEF Types, GameTypes, cardVars

LEMMA NoWords == {} \in SUBSET (Words \ {"too long"}) /\ <<>> \in Seq(Kept)
  OBVIOUS

LEMMA HeadIs ==
  ASSUME Types, NEW dos, GameReads(dos)
  PROVE  /\ Head(toGame) \in LineType /\ Head(toGame).do \in dos /\ Head(toGame).n \in Nat
         /\ Head(toGame).x \in Kept
         /\ Head(toGame).do \in EditorLines \cup PromptLines
         /\ text \in Seq(Kept) /\ note \in {"none", "card", "other"} /\ editing \in BOOLEAN
<1>1. Head(toGame) \in LineType /\ Head(toGame).do \in dos
  BY DEF GameReads, Types
<1> QED
  BY <1>1 DEF LineType, Types

\* A deed of the editor's is no deed of the prompt's.
LEMMA Apart ==
  /\ \A do \in PromptLines : do \notin EditorLines
  /\ "show" \in EditorLines /\ "clear" \in EditorLines /\ "leave" \in EditorLines
  /\ "open" \in PromptLines /\ "command" \in PromptLines
  BY DEF PromptLines, EditorLines

LEMMA InEditorAnswers ==
  ASSUME Types, NEW dos, GameReads(dos), editing, text' \in Seq(Kept), UNCHANGED note,
         NEW words \in SUBSET (Words \ {"too long"}), NEW listing \in Seq(Kept),
         SaysInEditor(words, listing),
         "leave" \notin dos, "show" \in dos => "listed" \in words,
         "clear" \in dos => "cleared" \in words
  PROVE  GameTypes /\ Answers(Head(toGame).do)
<1>1. /\ editing' = TRUE /\ calm' = calm /\ left' \in LeftType /\ left'.auto = left.auto
      /\ \E m : InEditor(m) /\ words \subseteq m.words /\ toVosh' = Append(toVosh, m)
  BY SaysInEditorIs
<1>2. Head(toGame).do \in dos
  BY HeadIs
<1>3. AnswersInEditor(Head(toGame).do)
  BY <1>1, <1>2 DEF AnswersInEditor
<1>4. note' \in {"none", "card", "other"}
  BY DEF Types
<1> QED
  BY <1>1, <1>3, <1>4 DEF GameTypes, Answers

LEMMA AtPromptAnswers ==
  ASSUME Types, NEW dos, GameReads(dos), text' \in Seq(Kept),
         note' \in {"none", "card", "other"},
         NEW words \in SUBSET (Words \ {"too long"}), NEW listing \in Seq(Kept),
         SaysAtPrompt(words, listing), editing => dos = {"leave"}
  PROVE  GameTypes /\ Answers(Head(toGame).do)
<1>1. /\ editing' = FALSE /\ calm' = calm /\ left' \in LeftType /\ left'.auto = left.auto
      /\ \E w : Prompted(w) /\ toVosh' = toVosh \o w
  BY SaysAtPromptIs
<1>2. Head(toGame).do \in dos
  BY HeadIs
<1>3. AnswersAtPrompt(Head(toGame).do)
  BY <1>1, <1>2 DEF AnswersAtPrompt
<1> QED
  BY <1>1, <1>3 DEF GameTypes, Answers

LEMMA EditorShowsIs ==
  ASSUME Types, EditorShows
  PROVE  \E dos : GameReads(dos) /\ GameTypes /\ Answers(Head(toGame).do)
<1> DEFINE dos == {"show"}
           words == {"listed"}
<1>1. /\ GameReads(dos) /\ editing /\ SaysInEditor(words, text) /\ UNCHANGED note
  BY DEF EditorShows
<1>2. words \in SUBSET (Words \ {"too long"}) /\ text \in Seq(Kept)
  BY DEF Words, Types
<1>3. /\ "leave" \notin dos /\ ("show" \in dos => "listed" \in words)
      /\ ("clear" \in dos => "cleared" \in words)
  OBVIOUS
<1>4. text' \in Seq(Kept)
  BY DEF EditorShows, Types
<1> HIDE DEF dos, words
<1>5. GameTypes /\ Answers(Head(toGame).do)
  BY <1>1, <1>2, <1>3, <1>4, InEditorAnswers
<1> QED
  BY <1>1, <1>5

LEMMA EditorClearsIs ==
  ASSUME Types, EditorClears
  PROVE  \E dos : GameReads(dos) /\ GameTypes /\ Answers(Head(toGame).do)
<1> DEFINE dos == {"clear"}
           words == {"cleared"}
<1>1. /\ GameReads(dos) /\ editing /\ SaysInEditor(words, <<>>) /\ UNCHANGED note
  BY DEF EditorClears
<1>2. words \in SUBSET (Words \ {"too long"}) /\ <<>> \in Seq(Kept)
  BY DEF Words, Types
<1>3. /\ "leave" \notin dos /\ ("show" \in dos => "listed" \in words)
      /\ ("clear" \in dos => "cleared" \in words)
  OBVIOUS
<1>4. text' \in Seq(Kept)
  BY DEF EditorClears, Types
<1> HIDE DEF dos, words
<1>5. GameTypes /\ Answers(Head(toGame).do)
  BY <1>1, <1>2, <1>3, <1>4, InEditorAnswers
<1> QED
  BY <1>1, <1>5

LEMMA EditorRunsIs ==
  ASSUME Types, EditorRuns
  PROVE  \E dos : GameReads(dos) /\ GameTypes /\ Answers(Head(toGame).do)
<1> DEFINE dos == {"dot command"}
           words == {"words"}
<1>1. /\ GameReads(dos) /\ editing /\ SaysInEditor(words, <<>>) /\ UNCHANGED note
  BY DEF EditorRuns
<1>2. words \in SUBSET (Words \ {"too long"}) /\ <<>> \in Seq(Kept)
  BY DEF Words, Types
<1>3. /\ "leave" \notin dos /\ ("show" \in dos => "listed" \in words)
      /\ ("clear" \in dos => "cleared" \in words)
  OBVIOUS
<1>4. text' \in Seq(Kept)
  BY DEF EditorRuns, Types
<1> HIDE DEF dos, words
<1>5. GameTypes /\ Answers(Head(toGame).do)
  BY <1>1, <1>2, <1>3, <1>4, InEditorAnswers
<1> QED
  BY <1>1, <1>5

LEMMA RemovedIs ==
  ASSUME NEW s \in Seq(Kept), NEW n \in DOMAIN s
  PROVE  RemoveAt(s, n) \in Seq(Kept)
<1>1. n \in 1 .. Len(s)
  OBVIOUS
<1>2. SubSeq(s, 1, n - 1) \in Seq(Kept) /\ SubSeq(s, n + 1, Len(s)) \in Seq(Kept)
  BY <1>1
<1> QED
  BY <1>2 DEF RemoveAt

LEMMA ReplacedIs ==
  ASSUME NEW s \in Seq(Kept), NEW n \in DOMAIN s, NEW x \in Kept
  PROVE  [s EXCEPT ![n] = x] \in Seq(Kept)
  BY ExceptSeq

LEMMA EditorMendsIs ==
  ASSUME Types, EditorMends
  PROVE  \E dos : GameReads(dos) /\ GameTypes /\ Answers(Head(toGame).do)
<1> DEFINE dos == {"replace", "delete"}
           words == {}
<1>1. /\ GameReads(dos) /\ editing /\ SaysInEditor(words, <<>>) /\ UNCHANGED note
  BY DEF EditorMends
<1>2. words \in SUBSET (Words \ {"too long"}) /\ <<>> \in Seq(Kept)
  BY DEF Words, Types
<1>3. /\ "leave" \notin dos /\ ("show" \in dos => "listed" \in words)
      /\ ("clear" \in dos => "cleared" \in words)
  OBVIOUS
<1>4. text' \in Seq(Kept)
  <2> DEFINE n == Head(toGame).n
             x == Head(toGame).x
  <2>1. /\ text \in Seq(Kept) /\ x \in Kept
    BY <1>1, HeadIs
  <2>2. \/ text' = text
        \/ n \in DOMAIN text /\ text' = RemoveAt(text, n)
        \/ n \in DOMAIN text /\ text' = [text EXCEPT ![n] = x]
    BY DEF EditorMends
  <2> HIDE DEF n, x
  <2> QED
    BY <2>1, <2>2, RemovedIs, ReplacedIs
<1> HIDE DEF dos, words
<1>5. GameTypes /\ Answers(Head(toGame).do)
  BY <1>1, <1>2, <1>3, <1>4, InEditorAnswers
<1> QED
  BY <1>1, <1>5

LEMMA EditorTakesIs ==
  ASSUME Types, EditorTakes
  PROVE  \E dos : GameReads(dos) /\ GameTypes /\ Answers(Head(toGame).do)
<1> DEFINE dos == {"text"} \cup PromptLines
           x == IF Head(toGame).do = "text" THEN Head(toGame).x ELSE Other
<1>1. /\ GameReads(dos) /\ editing /\ UNCHANGED note
      /\ \/ text' = Append(text, x) /\ SaysInEditor({}, <<>>)
         \/ /\ text' = Append(text, Other) /\ Spend("others")
            /\ toVosh' = Append(toVosh, Said({}, <<>>, "editor"))
            /\ UNCHANGED <<editing, calm>>
  BY DEF EditorTakes, Takes
<1>2. "leave" \notin dos /\ "show" \notin dos /\ "clear" \notin dos
  BY DEF PromptLines
<1>3. Other \in Kept
  BY Numbers DEF Kept, Other
<1>4. x \in Kept /\ text \in Seq(Kept) /\ Head(toGame).do \in dos
  BY <1>1, <1>3, HeadIs
<1> HIDE DEF dos, x
<1>5. text' \in Seq(Kept)
  BY <1>1, <1>3, <1>4, AppendIs, ZenonT(60)
<1>6. CASE SaysInEditor({}, <<>>)
  BY <1>1, <1>2, <1>5, <1>6, NoWords, InEditorAnswers
<1>7. CASE /\ Spend("others") /\ UNCHANGED <<editing, calm>>
           /\ toVosh' = Append(toVosh, Said({}, <<>>, "editor"))
  <2>1. left' \in LeftType /\ left'.auto = left.auto
    BY <1>7, SpendIs
  <2>2. InEditor(Said({}, <<>>, "editor"))
    <3>1. {} \in SUBSET Words /\ "too long" \notin {} /\ "editor" \in {"editor", "prompt", "tick"}
      OBVIOUS
    <3> QED
      BY <3>1, NoWords, SaidIs, Zenon DEF InEditor
  <2>3. AnswersInEditor(Head(toGame).do)
    BY <1>1, <1>2, <1>4, <1>7, <2>2 DEF AnswersInEditor, Types
  <2>4. note' \in {"none", "card", "other"}
    BY <1>1 DEF Types
  <2> QED
    BY <1>1, <1>5, <2>1, <2>3, <2>4 DEF GameTypes, Answers
<1> QED
  BY <1>1, <1>6, <1>7

LEMMA EditorOverflowsIs ==
  ASSUME Types, EditorOverflows
  PROVE  \E dos : GameReads(dos) /\ GameTypes /\ Answers(Head(toGame).do)
<1> DEFINE m == Said({"too long"}, <<>>, "prompt")
           w == <<m, Tick>>
<1>1. /\ GameReads({"text"}) /\ Spend("others") /\ calm' = FALSE /\ editing' = FALSE
      /\ toVosh' = toVosh \o w /\ UNCHANGED <<text, note, posted>>
  BY DEF EditorOverflows
<1>2. m \in WriteType /\ m.ends = "prompt"
  <2>1. {"too long"} \in SUBSET Words /\ "prompt" \in {"editor", "prompt", "tick"}
    BY DEF Words
  <2> QED
    BY <2>1, NoWords, SaidIs
<1> HIDE DEF m
<1>3. /\ w \in Seq(WriteType) /\ Len(w) = 2 /\ w[1] = m /\ w[2] = Tick
      /\ \A i \in 1 .. 2 : i = 1 \/ i = 2
  BY <1>2, TickIs, TwoIs, Zenon
<1> HIDE DEF w
<1>4. toVosh \in Seq(WriteType) /\ \A i \in 1 .. Len(toVosh) : toVosh[i].ends = "tick" => toVosh[i] = Tick
  BY DEF Types, Ticks
<1>5. /\ toVosh' \in Seq(WriteType) /\ Len(toVosh') = Len(toVosh) + Len(w)
      /\ \A i \in 1 .. Len(toVosh') :
           \/ i \in 1 .. Len(toVosh) /\ toVosh'[i] = toVosh[i]
           \/ i - Len(toVosh) \in 1 .. Len(w) /\ toVosh'[i] = w[i - Len(toVosh)]
  BY <1>1, <1>3, <1>4, ConcatAt, ZenonT(60)
<1>6. Ticks'
  BY <1>2, <1>3, <1>4, <1>5 DEF Ticks
<1>7. left' \in LeftType /\ left'.auto = left.auto
  BY <1>1, SpendIs
<1> QED
  BY <1>1, <1>5, <1>6, <1>7 DEF Types, GameTypes, Answers, Overflows

LEMMA EditorClosesIs ==
  ASSUME Types, EditorCloses
  PROVE  \E dos : GameReads(dos) /\ GameTypes /\ Answers(Head(toGame).do)
<1> DEFINE dos == {"leave"}
<1>1. GameReads(dos) /\ editing /\ text' \in Seq(Kept)
  BY DEF EditorCloses, Types
<1>2. note' \in {"none", "card", "other"}
  BY DEF EditorCloses, Types
<1>3. CASE SaysAtPrompt({}, <<>>)
  <2> DEFINE words == {}
  <2>1. words \in SUBSET (Words \ {"too long"}) /\ <<>> \in Seq(Kept)
    BY DEF Words, Types
  <2>2. SaysAtPrompt(words, <<>>) /\ (editing => dos = {"leave"})
    BY <1>1, <1>3
  <2> HIDE DEF words, dos
  <2> QED
    BY <1>1, <1>2, <2>1, <2>2, AtPromptAnswers
<1> QED
  BY <1>3 DEF EditorCloses

LEMMA OpensIs ==
  ASSUME Types, Opens
  PROVE  \E dos : GameReads(dos) /\ GameTypes /\ Answers(Head(toGame).do)
<1> DEFINE dos == {"open"}
<1>1. GameReads(dos) /\ ~editing /\ text' \in Seq(Kept)
  BY DEF Opens, Types
<1>2. note' \in {"none", "card", "other"}
  BY DEF Opens, Types
<1>3. CASE SaysAtPrompt({"no"}, <<>>)
  <2> DEFINE words == {"no"}
  <2>1. words \in SUBSET (Words \ {"too long"}) /\ <<>> \in Seq(Kept)
    BY DEF Words, Types
  <2>2. SaysAtPrompt(words, <<>>) /\ (editing => dos = {"leave"})
    BY <1>1, <1>3
  <2> HIDE DEF words, dos
  <2> QED
    BY <1>1, <1>2, <2>1, <2>2, AtPromptAnswers
<1>4. CASE SaysInEditor({"banner"}, <<>>)
  <2> DEFINE words == {"banner"}
  <2>1. words \in SUBSET (Words \ {"too long"}) /\ "banner" \in words /\ <<>> \in Seq(Kept)
    BY DEF Words
  <2>2. SaysInEditor(words, <<>>)
    BY <1>4
  <2>3. Head(toGame).do = "open"
    BY <1>1, HeadIs
  <2> HIDE DEF words, dos
  <2>4. /\ editing' = TRUE /\ calm' = calm /\ left' \in LeftType /\ left'.auto = left.auto
        /\ \E m : InEditor(m) /\ words \subseteq m.words /\ toVosh' = Append(toVosh, m)
    BY <2>1, <2>2, SaysInEditorIs
  <2>5. AnswersInEditor(Head(toGame).do)
    BY <1>1, <2>1, <2>3, <2>4 DEF AnswersInEditor
  <2> QED
    BY <1>1, <1>2, <2>4, <2>5 DEF GameTypes, Answers
<1> QED
  BY <1>3, <1>4 DEF Opens

LEMMA ShowsNoteIs ==
  ASSUME Types, ShowsNote
  PROVE  \E dos : GameReads(dos) /\ GameTypes /\ Answers(Head(toGame).do)
<1> DEFINE dos == {"board", "readback"}
<1>1. GameReads(dos) /\ ~editing /\ text' \in Seq(Kept)
  BY DEF ShowsNote, Types
<1>2. note' \in {"none", "card", "other"}
  BY DEF ShowsNote, Types
<1>3. CASE SaysAtPrompt({"no note"}, <<>>)
  <2> DEFINE words == {"no note"}
  <2>1. words \in SUBSET (Words \ {"too long"}) /\ <<>> \in Seq(Kept)
    BY DEF Words, Types
  <2>2. SaysAtPrompt(words, <<>>) /\ (editing => dos = {"leave"})
    BY <1>1, <1>3
  <2> HIDE DEF words, dos
  <2> QED
    BY <1>1, <1>2, <2>1, <2>2, AtPromptAnswers
<1>4. CASE SaysAtPrompt({"listed"}, text)
  <2> DEFINE words == {"listed"}
  <2>1. words \in SUBSET (Words \ {"too long"}) /\ text \in Seq(Kept)
    BY DEF Words, Types
  <2>2. SaysAtPrompt(words, text) /\ (editing => dos = {"leave"})
    BY <1>1, <1>4
  <2> HIDE DEF words, dos
  <2> QED
    BY <1>1, <1>2, <2>1, <2>2, AtPromptAnswers
<1> QED
  BY <1>3, <1>4 DEF ShowsNote

LEMMA SetsFieldIs ==
  ASSUME Types, SetsField
  PROVE  \E dos : GameReads(dos) /\ GameTypes /\ Answers(Head(toGame).do)
<1> DEFINE dos == {"to", "subject"}
<1>1. GameReads(dos) /\ ~editing /\ text' \in Seq(Kept)
  <2>1. GameReads(dos) /\ ~editing /\ (text' = <<>> \/ text' = text)
    BY DEF SetsField
  <2>2. <<>> \in Seq(Kept) /\ text \in Seq(Kept)
    BY DEF Types
  <2> HIDE DEF dos
  <2> QED
    BY <2>1, <2>2
<1>2. note' \in {"none", "card", "other"}
  BY DEF SetsField, Types
<1>3. CASE SaysAtPrompt({"ok"}, <<>>)
  <2> DEFINE words == {"ok"}
  <2>1. words \in SUBSET (Words \ {"too long"}) /\ <<>> \in Seq(Kept)
    BY DEF Words, Types
  <2>2. SaysAtPrompt(words, <<>>) /\ (editing => dos = {"leave"})
    BY <1>1, <1>3
  <2> HIDE DEF words, dos
  <2> QED
    BY <1>1, <1>2, <2>1, <2>2, AtPromptAnswers
<1>4. CASE SaysAtPrompt({"no"}, <<>>)
  <2> DEFINE words == {"no"}
  <2>1. words \in SUBSET (Words \ {"too long"}) /\ <<>> \in Seq(Kept)
    BY DEF Words, Types
  <2>2. SaysAtPrompt(words, <<>>) /\ (editing => dos = {"leave"})
    BY <1>1, <1>4
  <2> HIDE DEF words, dos
  <2> QED
    BY <1>1, <1>2, <2>1, <2>2, AtPromptAnswers
<1> QED
  BY <1>3, <1>4 DEF SetsField

LEMMA ClearsNoteIs ==
  ASSUME Types, ClearsNote
  PROVE  \E dos : GameReads(dos) /\ GameTypes /\ Answers(Head(toGame).do)
<1> DEFINE dos == {"clear note"}
<1>1. GameReads(dos) /\ ~editing /\ text' \in Seq(Kept)
  BY DEF ClearsNote, Types
<1>2. note' \in {"none", "card", "other"}
  BY DEF ClearsNote, Types
<1>3. CASE SaysAtPrompt({"ok"}, <<>>)
  <2> DEFINE words == {"ok"}
  <2>1. words \in SUBSET (Words \ {"too long"}) /\ <<>> \in Seq(Kept)
    BY DEF Words, Types
  <2>2. SaysAtPrompt(words, <<>>) /\ (editing => dos = {"leave"})
    BY <1>1, <1>3
  <2> HIDE DEF words, dos
  <2> QED
    BY <1>1, <1>2, <2>1, <2>2, AtPromptAnswers
<1> QED
  BY <1>3 DEF ClearsNote

LEMMA PostsIs ==
  ASSUME Types, Posts
  PROVE  \E dos : GameReads(dos) /\ GameTypes /\ Answers(Head(toGame).do)
<1> DEFINE dos == {"post"}
<1>1. GameReads(dos) /\ ~editing /\ text' \in Seq(Kept)
  BY DEF Posts, Types
<1>2. note' \in {"none", "card", "other"}
  BY DEF Posts, Types
<1>3. CASE SaysAtPrompt({"ok"}, <<>>)
  <2> DEFINE words == {"ok"}
  <2>1. words \in SUBSET (Words \ {"too long"}) /\ <<>> \in Seq(Kept)
    BY DEF Words, Types
  <2>2. SaysAtPrompt(words, <<>>) /\ (editing => dos = {"leave"})
    BY <1>1, <1>3
  <2> HIDE DEF words, dos
  <2> QED
    BY <1>1, <1>2, <2>1, <2>2, AtPromptAnswers
<1>4. CASE SaysAtPrompt({"no"}, <<>>)
  <2> DEFINE words == {"no"}
  <2>1. words \in SUBSET (Words \ {"too long"}) /\ <<>> \in Seq(Kept)
    BY DEF Words, Types
  <2>2. SaysAtPrompt(words, <<>>) /\ (editing => dos = {"leave"})
    BY <1>1, <1>4
  <2> HIDE DEF words, dos
  <2> QED
    BY <1>1, <1>2, <2>1, <2>2, AtPromptAnswers
<1> QED
  BY <1>3, <1>4 DEF Posts

LEMMA RunsCommandIs ==
  ASSUME Types, RunsCommand
  PROVE  \E dos : GameReads(dos) /\ GameTypes /\ Answers(Head(toGame).do)
<1> DEFINE dos == {"command"} \cup EditorLines
<1>1. GameReads(dos) /\ ~editing /\ text' \in Seq(Kept)
  BY DEF RunsCommand, Types
<1>2. note' \in {"none", "card", "other"}
  BY DEF RunsCommand, Types
<1>3. CASE SaysAtPrompt({"words"}, <<>>)
  <2> DEFINE words == {"words"}
  <2>1. words \in SUBSET (Words \ {"too long"}) /\ <<>> \in Seq(Kept)
    BY DEF Words, Types
  <2>2. SaysAtPrompt(words, <<>>) /\ (editing => dos = {"leave"})
    BY <1>1, <1>3
  <2> HIDE DEF words, dos
  <2> QED
    BY <1>1, <1>2, <2>1, <2>2, AtPromptAnswers
<1> QED
  BY <1>3 DEF RunsCommand

LEMMA GameIs ==
  ASSUME Types, GameStep
  PROVE  \E dos : GameReads(dos) /\ GameTypes /\ Answers(Head(toGame).do)
  BY EditorTakesIs, EditorOverflowsIs, EditorShowsIs, EditorClearsIs, EditorMendsIs,
     EditorRunsIs, EditorClosesIs, OpensIs, ShowsNoteIs, SetsFieldIs, ClearsNoteIs, PostsIs,
     RunsCommandIs, Zenon DEF GameStep

LEMMA TypesGameStep ==
  ASSUME Types, GameStep
  PROVE  Types'
<1>1. PICK dos : GameReads(dos) /\ GameTypes /\ Answers(Head(toGame).do)
  BY GameIs
<1> QED
  BY <1>1, TypesGame

LEMMA ChatIs ==
  ASSUME Types, Chat
  PROVE  /\ link /\ ~hung /\ calm' = (calm /\ (editing \/ ~Misreads))
         /\ UNCHANGED <<cardVars, toGame, gameVars, link>>
         /\ left' \in LeftType /\ left'.auto = left.auto
         /\ editing => \E m : InEditor(m) /\ toVosh' = Append(toVosh, m)
         /\ ~editing => \E w : Prompted(w) /\ toVosh' = toVosh \o w
<1> DEFINE words == {"chat"}
           m == Said(words, <<>>, "editor")
           p == Said(words, <<>>, "prompt")
<1>1. /\ link /\ ~hung /\ calm' = (calm /\ (editing \/ ~Misreads)) /\ Spend("chats")
      /\ UNCHANGED <<cardVars, toGame, gameVars, link>>
      /\ editing => toVosh' = Append(toVosh, m)
      /\ ~editing => \/ toVosh' = toVosh \o <<Tick, p>>
                     \/ toVosh' = toVosh \o <<p, Tick>>
  BY DEF Chat
<1>2. words \in SUBSET Words /\ "too long" \notin words
  BY DEF Words
<1>3. "editor" \in {"editor", "prompt", "tick"} /\ "prompt" \in {"editor", "prompt", "tick"}
  OBVIOUS
<1> HIDE DEF words
<1>4. InEditor(m)
  BY <1>2, <1>3, NoWords, SaidIs DEF InEditor
<1>5. p \in WriteType /\ p.ends = "prompt" /\ "too long" \notin p.words
  BY <1>2, <1>3, NoWords, SaidIs
<1> HIDE DEF m, p
<1>6. Prompted(<<Tick, p>>) /\ Prompted(<<p, Tick>>)
  BY <1>5, PromptedIs
<1>7. left' \in LeftType /\ left'.auto = left.auto
  BY <1>1, SpendIs
<1>8. ~editing => \E w : Prompted(w) /\ toVosh' = toVosh \o w
  BY <1>1, <1>6, Zenon
<1>9. editing => \E e : InEditor(e) /\ toVosh' = Append(toVosh, e)
  BY <1>1, <1>4, Zenon
<1> QED
  BY <1>1, <1>7, <1>8, <1>9

LEMMA TypesChat ==
  ASSUME Types, Chat
  PROVE  Types'
<1>1. /\ link /\ ~hung /\ calm' = (calm /\ (editing \/ ~Misreads))
      /\ UNCHANGED <<cardVars, toGame, gameVars, link>>
      /\ left' \in LeftType /\ left'.auto = left.auto
      /\ editing => \E m : InEditor(m) /\ toVosh' = Append(toVosh, m)
      /\ ~editing => \E w : Prompted(w) /\ toVosh' = toVosh \o w
  BY ChatIs
<1>2. toVosh' \in Seq(WriteType) /\ Ticks'
  BY <1>1, AppendTicks, ConcatTicks
<1>3. calm' \in BOOLEAN
  BY <1>1
<1> QED
  BY <1>1, <1>2, <1>3 DEF Types, cardVars, gameVars

LEMMA TypesInit == Init => Types
<1> SUFFICES ASSUME Init PROVE Types
  OBVIOUS
<1>1. job = NoJob /\ waiting = "none" /\ game \in {"unknown", "prompt", "editor"}
      /\ armed = "off" /\ heard = FALSE /\ held = 0 /\ toGame = <<>> /\ toVosh = <<>>
      /\ editing = FALSE /\ note \in {"none", "card", "other"} /\ hung = FALSE
      /\ link = TRUE /\ calm = TRUE
  BY DEF Init
<1>2. done \in DoneType
  BY DEF Init, DoneType, Results
<1>3. text \in Seq(Kept)
  <2>1. Other \in Kept
    BY Numbers DEF Kept, Other
  <2>2. <<Other>> \in Seq(Kept) /\ <<>> \in Seq(Kept)
    BY <2>1
  <2> QED
    BY <2>2 DEF Init
<1>4. left \in LeftType /\ left.auto = MaxAuto /\ MaxAuto \in Nat
  BY WriterAssumption DEF Init, LeftType
<1>5. armed \in Arms /\ armed # "kept"
  BY <1>1 DEF Arms
<1>6. held + left.auto <= MaxAuto /\ held \in Nat /\ ~ (held > 0)
  BY <1>1, <1>4
<1>7. Ticks /\ toVosh \in Seq(WriteType) /\ toGame \in Seq(LineType)
  BY <1>1 DEF Ticks
<1> QED
  BY <1>1, <1>2, <1>3, <1>4, <1>5, <1>6, <1>7 DEF Types

LEMMA TypesNext == Types /\ [Next]_vars => Types'
<1> SUFFICES ASSUME Types, [Next]_vars PROVE Types'
  OBVIOUS
<1>1. ASSUME NEW kind \in Kinds, Start(kind) PROVE Types'
  BY <1>1, TypesStart
<1>2. CASE Stop
  BY <1>2, TypesStop
<1>3. CASE StopWaiting
  BY <1>3, TypesStopWaiting
<1>4. CASE TypeLine
  BY <1>4, TypesTypeLine
<1>5. CASE Automation
  BY <1>5, TypesAutomation
<1>6. CASE Read
  BY <1>6, TypesRead
<1>7. CASE ReadTick
  BY <1>7, TypesReadTick
<1>8. CASE Fire
  BY <1>8, TypesFire
<1>9. CASE Confirm
  BY <1>9, TypesConfirm
<1>10. CASE Expire
  BY <1>10, TypesExpire
<1>11. CASE Drop
  BY <1>11, TypesDrop
<1>12. CASE GameStep
  BY <1>12, TypesGameStep
<1>13. CASE Chat
  BY <1>13, TypesChat
<1>14. CASE Hang
  BY <1>14 DEF Hang, Types, Ticks, cardVars
<1>15. CASE UNCHANGED vars
  BY <1>15 DEF vars, Types, Ticks, cardVars, gameVars
<1> QED
  BY <1>1, <1>2, <1>3, <1>4, <1>5, <1>6, <1>7, <1>8, <1>9, <1>10, <1>11, <1>12, <1>13, <1>14,
     <1>15, Zenon DEF Next, CardStep

\* An idle card has no job, and a job under way is in none but its phases.
LEMMA TypesEnough == Types => TypeOK
<1> SUFFICES ASSUME Types PROVE TypeOK
  OBVIOUS
<1>1. job \in JobType /\ ((job.phase = "idle") <=> job = NoJob)
  <2>1. CASE job = NoJob
    BY <2>1, NoJobIs
  <2>2. CASE JobForm(job)
    <3>1. job \in JobType /\ job # NoJob
      BY <2>2, NotForm DEF JobForm
    <3>2. job.phase # "idle"
      BY <2>2 DEF JobForm, AtBoard, AtOpen, InText, Leaving
    <3> QED
      BY <3>1, <3>2
  <2> QED
    BY <2>1, <2>2 DEF Types
<1>2. held \in 0 .. MaxAuto
  <2>1. held \in Nat /\ left.auto \in Nat /\ MaxAuto \in Nat /\ held + left.auto <= MaxAuto
    BY WriterAssumption DEF Types, LeftType
  <2> QED
    BY <2>1
<1>3. done.result \in Results
  BY DEF Types, DoneType
<1>4. /\ job.kind \in Kinds \cup {"none"} /\ job.phase \in {"idle", "tick", "editor", "sending"}
      /\ job.next \in 1 .. Lines + 1 /\ job.flight \in 0 .. InFlight
      /\ job.mends \in 0 .. MaxMends
  BY <1>1 DEF JobType
<1> QED
  BY <1>1, <1>2, <1>3, <1>4 DEF Types, TypeOK, UnderWay, Arms

\* Whatever you type, the game says and the link does, the card's job, what
\* the hold keeps and what the game holds are of their types; an idle card
\* keeps no tick for an answer and holds nothing back, and a job under way
\* is in one of its three phases.
THEOREM TypesHold == Spec => []TypeOK
<1>1. Spec => []Types
  BY TypesInit, TypesNext, PTL DEF Spec
<1> QED
  BY <1>1, TypesEnough, PTL

-----------------------------------------------------------------------------
(* Where the lines land.                                                   *)

Ends(v, ends) == \A i \in 1 .. Len(v) : v[i].ends \in ends
Carries(v, word) == \E i \in 1 .. Len(v) : word \in v[i].words
Goes(g, do) == \E i \in 1 .. Len(g) : g[i].do = do

\* At most one answer of the prompt is to come: the line that asks for it is
\* out, its tick is on its way, or the tick came.
OneToken(g, v, a) ==
    /\ Len(g) <= 1
    /\ g # <<>> \/ a # "off" => Ends(v, {"prompt", "editor"})
    /\ g # <<>> => a = "off"
    /\ \A i, k \in 1 .. Len(v) : v[i].ends = "tick" /\ v[k].ends = "tick" => i = k

\* Before the editor, with the command that opens it out, in the editor,
\* and past it or without a job.
Before(g, v, a, e) ==
    /\ ~e /\ OneToken(g, v, a)
    /\ Ends(v, {"prompt", "tick"}) /\ Are(g, PromptLines \ {"open"})

Banner(v) ==
    \E k \in 1 .. Len(v) :
        /\ "banner" \in v[k].words
        /\ \A i \in 1 .. Len(v) : v[i].ends = IF i < k THEN "prompt" ELSE "editor"
Opened(g, v, a, e) ==
    \/ e /\ g = <<>> /\ a = "off" /\ Banner(v)
    \/ ~e /\ OneToken(g, v, a) /\ Ends(v, {"prompt", "tick"}) /\ Are(g, {"open"})

Awaited(j, g, v) ==
    j.phase = "editor" =>
        /\ g # <<>> \/ v # <<>>
        /\ j.stage.do \in ShowStages => Goes(g, "show") \/ Carries(v, "listed")
        /\ j.stage.do = "clear" => Goes(g, "clear") \/ Carries(v, "cleared")
Texted(j, g, v, a, e) ==
    /\ e /\ a = "off" /\ Ends(v, {"editor"}) /\ Are(g, EditorLines \ {"leave"})
    /\ Awaited(j, g, v)

Fits(g, e) ==
    /\ \A i \in 1 .. Len(g) :
        /\ g[i].do # "open"
        /\ g[i].do \in EditorLines
           <=> e /\ \A k \in 1 .. Len(g) : k < i => g[k].do # "leave"
    /\ e => Goes(g, "leave")

Land(j, w, g, v, a, e) ==
    /\ ~Carries(v, "too long")
    /\ \/ (w # "none" \/ AtBoard(j)) /\ Before(g, v, a, e)
       \/ AtOpen(j) /\ Opened(g, v, a, e)
       \/ InText(j) /\ Texted(j, g, v, a, e)
       \/ (Leaving(j) \/ (j = NoJob /\ w = "none")) /\ Fits(g, e)

LandNow == Land(job, waiting, toGame, toVosh, armed, editing)
LandInv == calm /\ ~hung /\ link => LandNow

\* What a job is doing, it does at one place only.
LEMMA Places ==
  ASSUME NEW j, JobForm(j)
  PROVE  /\ j # NoJob /\ (AtBoard(j) \/ AtOpen(j) \/ InText(j) \/ Leaving(j))
         /\ AtBoard(j) => ~AtOpen(j) /\ ~InText(j) /\ ~Leaving(j)
         /\ AtOpen(j) => ~AtBoard(j) /\ ~InText(j) /\ ~Leaving(j)
         /\ InText(j) => ~AtBoard(j) /\ ~AtOpen(j) /\ ~Leaving(j)
         /\ Leaving(j) => ~AtBoard(j) /\ ~AtOpen(j) /\ ~InText(j)
<1>1. j # NoJob /\ (AtBoard(j) \/ AtOpen(j) \/ InText(j) \/ Leaving(j))
  BY NotForm DEF JobForm
<1>2. AtBoard(j) => ~AtOpen(j) /\ ~InText(j)
  BY DEF AtBoard, AtOpen, InText
<1>3. AtOpen(j) => ~InText(j) /\ ~Leaving(j)
  BY DEF AtOpen, InText, Leaving
<1>4. InText(j) => ~Leaving(j)
  BY DEF InText, Leaving
<1>5. AtBoard(j) => ~Leaving(j)
  <2>1. "open" \notin Prompts
    BY DEF Prompts
  <2>2. ~ (Outside(j.stages) /\ Past(j.stages))
    BY <2>1 DEF Outside, Past
  <2> QED
    BY <2>2 DEF AtBoard, Leaving
<1> QED
  BY <1>1, <1>2, <1>3, <1>4, <1>5

LEMMA Nowhere == ~AtBoard(NoJob) /\ ~AtOpen(NoJob) /\ ~InText(NoJob) /\ ~Leaving(NoJob)
<1>1. NoJob.phase = "idle" /\ ~NoJob.inEditor
  BY NoJobIs
<1> QED
  BY <1>1 DEF AtBoard, AtOpen, InText, Leaving

LEMMA PromptDeeds ==
  /\ Prompts \subseteq PromptLines \ {"open"} /\ {"command"} \subseteq PromptLines \ {"open"}
  /\ "open" \notin EditorLines /\ \A do \in PromptLines : do \notin EditorLines
  BY DEF Prompts, PromptLines, EditorLines

\* What comes at the prompt after a text is left may follow what is out.
LEMMA PutPrompt ==
  ASSUME NEW g \in Seq(LineType), NEW out \in Seq(LineType), NEW e \in BOOLEAN,
         Are(out, PromptLines \ {"open"}), Fits(g, e)
  PROVE  Fits(g \o out, e)
<1> DEFINE h == g \o out
<1>1. /\ h \in Seq(LineType) /\ Len(h) = Len(g) + Len(out) /\ Len(g) \in Nat /\ Len(out) \in Nat
      /\ \A i \in 1 .. Len(h) : \/ i \in 1 .. Len(g) /\ h[i] = g[i]
                                \/ /\ i - Len(g) \in 1 .. Len(out) /\ h[i] = out[i - Len(g)]
                                   /\ i > Len(g)
  BY ConcatAt
<1>2. \A i \in 1 .. Len(g) : i \in 1 .. Len(h) /\ h[i] = g[i]
  BY <1>1
<1> HIDE DEF h
<1>3. e => Goes(h, "leave")
  BY <1>2 DEF Fits, Goes
<1>4. ASSUME NEW i \in 1 .. Len(h)
      PROVE  /\ h[i].do # "open"
             /\ h[i].do \in EditorLines
                <=> e /\ \A k \in 1 .. Len(h) : k < i => h[k].do # "leave"
  <2>1. CASE i \in 1 .. Len(g) /\ h[i] = g[i]
    <3>1. \A k \in 1 .. Len(h) : k < i => k \in 1 .. Len(g)
      BY <1>1, <2>1
    <3>2. (\A k \in 1 .. Len(h) : k < i => h[k].do # "leave")
          <=> \A k \in 1 .. Len(g) : k < i => g[k].do # "leave"
      BY <1>2, <3>1
    <3> QED
      BY <2>1, <3>2 DEF Fits
  <2>2. CASE i - Len(g) \in 1 .. Len(out) /\ h[i] = out[i - Len(g)] /\ i > Len(g)
    <3>1. h[i].do \in PromptLines \ {"open"}
      BY <2>2 DEF Are
    <3>2. h[i].do # "open" /\ h[i].do \notin EditorLines
      BY <3>1, PromptDeeds
    <3>3. e => \E k \in 1 .. Len(g) : g[k].do = "leave"
      BY DEF Fits, Goes
    <3>4. \A k \in 1 .. Len(g) : k < i
      BY <1>1, <2>2
    <3> QED
      BY <1>2, <3>2, <3>3, <3>4
  <2> QED
    BY <1>1, <2>1, <2>2
<1> QED
  BY <1>3, <1>4 DEF Fits, h

LEMMA BeforeFits ==
  ASSUME NEW g, NEW v, NEW a, NEW e, Before(g, v, a, e)
  PROVE  Fits(g, e)
  BY PromptDeeds DEF Before, Are, Fits

LEMMA ConcatOne ==
  ASSUME NEW S, NEW g \in Seq(S), NEW out \in Seq(S), Len(out) = 1
  PROVE  /\ g \o out \in Seq(S) /\ Len(g \o out) = Len(g) + 1 /\ Len(g) \in Nat
         /\ (g \o out)[Len(g) + 1] = out[1]
         /\ \A i \in 1 .. Len(g) : i \in 1 .. Len(g \o out) /\ (g \o out)[i] = g[i]
         /\ \A i \in 1 .. Len(g \o out) : i \in 1 .. Len(g) \/ i = Len(g) + 1
         /\ Len(g) + 1 \in 1 .. Len(g \o out)
<1>1. g \o out \in Seq(S) /\ Len(g \o out) = Len(g) + 1 /\ Len(g) \in Nat
  <2>1. g \o out \in Seq(S) /\ Len(g \o out) = Len(g) + Len(out)
    BY ConcatAt
  <2>2. Len(g) \in Nat
    OBVIOUS
  <2> QED
    BY <2>1, <2>2
<1>2. Len(g) + 1 \in 1 .. Len(g \o out) /\ \A i \in 1 .. Len(g) : i \in 1 .. Len(g \o out)
  BY <1>1
<1>3. \A i \in 1 .. Len(g \o out) : i \in 1 .. Len(g) \/ i = Len(g) + 1
  BY <1>1
<1>4. \A i \in 1 .. Len(g) : (g \o out)[i] = g[i]
  OBVIOUS
<1>5. (g \o out)[Len(g) + 1] = out[1]
  BY <1>1
<1> QED
  BY <1>1, <1>2, <1>3, <1>4, <1>5

\* The @ after what went to the editor.
LEMMA LeaveFits ==
  ASSUME NEW g \in Seq(LineType), NEW out, Are(g, EditorLines \ {"leave"}), Single(out, {"leave"})
  PROVE  Fits(g \o out, TRUE)
<1>1. out \in Seq(LineType) /\ Len(out) = 1 /\ out[1].do = "leave"
  BY DEF Single
<1> DEFINE h == g \o out
<1>2. /\ h \in Seq(LineType) /\ Len(h) = Len(g) + 1 /\ Len(g) \in Nat
      /\ h[Len(g) + 1] = out[1]
      /\ \A i \in 1 .. Len(g) : i \in 1 .. Len(h) /\ h[i] = g[i]
      /\ \A i \in 1 .. Len(h) : i \in 1 .. Len(g) \/ i = Len(g) + 1
      /\ Len(g) + 1 \in 1 .. Len(h)
  <2>1. Len(out) = 1 /\ out \in Seq(LineType)
    BY <1>1
  <2> QED
    BY <2>1, ConcatOne, Zenon
<1> HIDE DEF h
<1>3. Goes(h, "leave")
  BY <1>1, <1>2 DEF Goes
<1>4. \A i \in 1 .. Len(g) : h[i].do \in EditorLines /\ h[i].do # "leave" /\ h[i].do # "open"
  BY <1>2, PromptDeeds DEF Are
<1>5. \A i \in 1 .. Len(h) : h[i].do \in EditorLines /\ h[i].do # "open"
  BY <1>1, <1>2, <1>4, PromptDeeds, Apart
<1>6. \A i, k \in 1 .. Len(h) : k < i => h[k].do # "leave"
  BY <1>2, <1>4
<1> QED
  BY <1>3, <1>5, <1>6 DEF Fits, h

\* What is asked for in the editor is awaited.
LEMMA TextOut ==
  ASSUME NEW g \in Seq(LineType), NEW v, NEW r, ToText(r),
         Ends(v, {"editor"}), Are(g, EditorLines \ {"leave"})
  PROVE  Texted(r.job, g \o r.out, v, "off", TRUE)
<1> DEFINE h == g \o r.out
<1>1. r.out \in Seq(LineType) /\ Are(r.out, EditorLines \ {"leave"})
  BY DEF ToText
<1>2. Are(h, EditorLines \ {"leave"})
  BY <1>1, ConcatAre, Zenon
<1>3. ASSUME r.job.phase = "editor" PROVE h # <<>> /\ Goes(h, Asked(r.job.stage))
  <2>1. Len(r.out) = 1 /\ r.out[1].do = Asked(r.job.stage)
    BY <1>3 DEF ToText, Single
  <2>2. Len(h) = Len(g) + 1 /\ Len(g) + 1 \in 1 .. Len(h) /\ h[Len(g) + 1] = r.out[1]
    <3>1. Len(r.out) = 1 /\ r.out \in Seq(LineType)
      BY <1>1, <2>1
    <3> QED
      BY <3>1, ConcatOne, ZenonT(60)
  <2> HIDE DEF h
  <2>3. Goes(h, Asked(r.job.stage))
    BY <2>1, <2>2 DEF Goes
  <2>4. h # <<>>
    BY <2>2
  <2> QED
    BY <2>3, <2>4
<1> HIDE DEF h
<1>4. "clear" \notin ShowStages
  BY DEF ShowStages
<1>5. Awaited(r.job, h, v)
  BY <1>3, <1>4 DEF Awaited, Asked
<1> QED
  BY <1>2, <1>5 DEF Texted, h

\* A command goes out at the prompt once nothing else is to come there.
LEMMA AskOne ==
  ASSUME NEW g \in Seq(LineType), g = <<>>, NEW out, NEW dos, Single(out, dos), NEW v \in Seq(WriteType),
         Ends(v, {"prompt"})
  PROVE  OneToken(g \o out, v, "off") /\ Are(g \o out, dos) /\ Ends(v, {"prompt", "tick"})
<1>1. out \in Seq(LineType) /\ Len(out) = 1 /\ out[1].do \in dos
  BY DEF Single
<1>2. g \o out = out
  BY <1>1
<1>3. Are(out, dos)
  BY <1>1 DEF Are
<1>4. Len(out) <= 1
  BY <1>1
<1>5. Ends(v, {"prompt", "editor"}) /\ Ends(v, {"prompt", "tick"})
  BY DEF Ends
<1>6. \A i \in 1 .. Len(v) : v[i].ends # "tick"
  BY DEF Ends
<1> QED
  BY <1>2, <1>3, <1>4, <1>5, <1>6 DEF OneToken

LEMMA AskBoard ==
  ASSUME NEW g \in Seq(LineType), g = <<>>, NEW r, ToBoard(r), NEW v \in Seq(WriteType),
         Ends(v, {"prompt"})
  PROVE  Before(g \o r.out, v, "off", FALSE)
<1>1. Single(r.out, Prompts)
  BY DEF ToBoard
<1>2. OneToken(g \o r.out, v, "off") /\ Are(g \o r.out, Prompts) /\ Ends(v, {"prompt", "tick"})
  BY <1>1, AskOne
<1>3. Are(g \o r.out, PromptLines \ {"open"})
  BY <1>2, PromptDeeds DEF Are
<1> QED
  BY <1>2, <1>3 DEF Before

LEMMA AskOpen ==
  ASSUME NEW g \in Seq(LineType), g = <<>>, NEW r, ToOpen(r), NEW v \in Seq(WriteType),
         Ends(v, {"prompt"})
  PROVE  Opened(g \o r.out, v, "off", FALSE)
<1>1. Single(r.out, {"open"})
  BY DEF ToOpen
<1>2. OneToken(g \o r.out, v, "off") /\ Are(g \o r.out, {"open"}) /\ Ends(v, {"prompt", "tick"})
  BY <1>1, AskOne
<1> QED
  BY <1>2 DEF Opened

\* Once the tick came, nothing else of the prompt is to come.
LEMMA TokenCame ==
  ASSUME NEW g, NEW v, NEW a, OneToken(g, v, a), Ends(v, {"prompt", "tick"}), a # "off"
  PROVE  g = <<>> /\ Ends(v, {"prompt"})
  BY DEF OneToken, Ends

\* While the editor has yet to open, the card is not sure of what it reads.
LEMMA OpensYet ==
  ASSUME JobForm(job), AtBoard(job) \/ AtOpen(job)
  PROVE  Opening
<1>1. CASE AtOpen(job)
  BY <1>1 DEF AtOpen, Opening
<1>2. CASE AtBoard(job)
  <2>1. job.stages \in Seq(StageType)
    BY DEF JobForm, JobType
  <2>2. PICK o \in 1 .. Len(job.stages) : job.stages[o].do = "open"
    BY <1>2 DEF AtBoard, Outside
  <2>3. job.stages[o] \in ToSet(job.stages)
    BY <2>1, <2>2 DEF ToSet
  <2> QED
    BY <2>2, <2>3 DEF Opening
<1> QED
  BY <1>1, <1>2

LEMMA Stands ==
  ASSUME Types, AtBoard(job) \/ AtOpen(job) \/ InText(job) \/ Leaving(job)
  PROVE  JobForm(job) /\ job # NoJob /\ waiting = "none" /\ UnderWay
<1>1. job # NoJob
  BY Nowhere
<1> QED
  BY <1>1 DEF Types, UnderWay

LEMMA CarriesDrop ==
  ASSUME NEW v \in Seq(WriteType), NEW k \in 1 .. Len(v)
  PROVE  LET t == SubSeq(v, k + 1, Len(v)) IN
         /\ \A word : ~Carries(v, word) => ~Carries(t, word)
         /\ \A ends : Ends(v, ends) => Ends(t, ends)
<1> DEFINE t == SubSeq(v, k + 1, Len(v))
<1>1. \A i \in 1 .. Len(t) : i + k \in 1 .. Len(v) /\ t[i] = v[i + k]
  BY DropIs
<1> HIDE DEF t
<1>2. ASSUME NEW word, ~Carries(v, word) PROVE ~Carries(t, word)
  BY <1>1, <1>2 DEF Carries
<1>3. ASSUME NEW ends, Ends(v, ends) PROVE Ends(t, ends)
  BY <1>1, <1>3 DEF Ends
<1> QED
  BY <1>2, <1>3 DEF t

\* A job that ends, at the prompt or with what it had out for the editor and
\* the @ after it: what the hold kept may follow.
LEMMA LandOver ==
  ASSUME Types, Fits(toGame, editing), job' = NoJob, waiting' = "none",
         toGame' = toGame \o Flush, editing' = editing, ~Carries(toVosh', "too long")
  PROVE  LandNow'
<1>1. toGame \in Seq(LineType) /\ editing \in BOOLEAN /\ Flush \in Seq(LineType)
      /\ Are(Flush, {"command"})
  BY FlushIs DEF Types
<1>2. Are(Flush, PromptLines \ {"open"})
  BY <1>1, PromptDeeds DEF Are
<1>3. Fits(toGame \o Flush, editing)
  BY <1>1, <1>2, PutPrompt
<1> QED
  BY <1>3 DEF LandNow, Land

\* One that goes on at the prompt after its text.
LEMMA LandLeaving ==
  ASSUME Types, NEW r, ToLeave(r, Prompts), Fits(toGame, editing), job' = r.job,
         toGame' = toGame \o r.out, editing' = editing, ~Carries(toVosh', "too long")
  PROVE  LandNow'
<1>1. toGame \in Seq(LineType) /\ editing \in BOOLEAN /\ r.out \in Seq(LineType)
  BY DEF Types, ToLeave, Single
<1>2. Are(r.out, PromptLines \ {"open"})
  <2>1. Len(r.out) = 1 /\ r.out[1].do \in Prompts
    BY DEF ToLeave, Single
  <2>2. r.out[1].do \in PromptLines \ {"open"}
    BY <2>1, PromptDeeds
  <2>3. \A i \in 1 .. 1 : i = 1
    BY ONLY SMT
  <2> QED
    BY <2>1, <2>2, <2>3 DEF Are
<1>3. Fits(toGame \o r.out, editing)
  BY <1>1, <1>2, PutPrompt
<1> QED
  BY <1>3 DEF LandNow, Land, ToLeave

\* One that sends to the editor, or leaves it.
LEMMA LandText ==
  ASSUME Types, NEW r, ToText(r) \/ ToLeave(r, {"leave"}), job' = r.job,
         toGame' = toGame \o r.out, editing, editing' = editing, armed' = "off",
         ~Carries(toVosh', "too long"),
         Ends(toVosh', {"editor"}), Are(toGame, EditorLines \ {"leave"})
  PROVE  LandNow'
<1>1. toGame \in Seq(LineType)
  BY DEF Types
<1>2. editing' = TRUE
  BY DEF Types
<1>3. CASE ToText(r)
  <2>1. Texted(r.job, toGame \o r.out, toVosh', "off", TRUE)
    BY <1>1, <1>3, TextOut
  <2>2. InText(job')
    BY <1>3 DEF ToText
  <2> QED
    BY <1>2, <2>1, <2>2 DEF LandNow, Land
<1>4. CASE ToLeave(r, {"leave"})
  <2>1. Fits(toGame \o r.out, TRUE) /\ Leaving(r.job)
    BY <1>1, <1>4, LeaveFits DEF ToLeave
  <2> QED
    BY <1>2, <2>1 DEF LandNow, Land
<1> QED
  BY <1>3, <1>4

\* The first command of a job, or the next before the editor.
LEMMA LandAsk ==
  ASSUME Types, NEW r, ToBoard(r) \/ ToOpen(r), job' = r.job, toGame = <<>>,
         toGame' = toGame \o r.out, ~editing, editing' = editing, armed' = "off",
         toVosh' = toVosh, ~Carries(toVosh', "too long"), Ends(toVosh, {"prompt"})
  PROVE  LandNow'
<1>1. toGame \in Seq(LineType) /\ toVosh \in Seq(WriteType) /\ editing' = FALSE
  BY DEF Types
<1>2. CASE ToBoard(r)
  <2>1. Before(toGame \o r.out, toVosh, "off", FALSE) /\ AtBoard(r.job)
    BY <1>1, <1>2, AskBoard DEF ToBoard
  <2> QED
    BY <1>1, <2>1 DEF LandNow, Land
<1>3. CASE ToOpen(r)
  <2>1. Opened(toGame \o r.out, toVosh, "off", FALSE) /\ AtOpen(r.job)
    BY <1>1, <1>3, AskOpen DEF ToOpen
  <2> QED
    BY <1>1, <2>1 DEF LandNow, Land
<1> QED
  BY <1>2, <1>3

\* A job goes on as it was: only its words differ.
LEMMA StaysPlace ==
  ASSUME NEW j, JobForm(j), NEW q, Stays(j, q)
  PROVE  /\ AtBoard(j) => AtBoard(q.job)
         /\ AtOpen(j) => AtOpen(q.job)
         /\ InText(j) => InText(q.job)
         /\ Leaving(j) => Leaving(q.job)
         /\ \A g, v : Awaited(j, g, v) <=> Awaited(q.job, g, v)
  BY DEF Stays, AtBoard, AtOpen, InText, Leaving, Awaited

-----------------------------------------------------------------------------
LEMMA LandStart ==
  ASSUME Types, LandNow, NEW kind \in Kinds, Start(kind)
  PROVE  LandNow'
<1>1. /\ link /\ job = NoJob /\ waiting = "none" /\ toGame = <<>> /\ toVosh = <<>>
      /\ toVosh' = toVosh /\ editing' = editing /\ kind # "none"
  BY Numbers DEF Start, UnderWay, gameVars
<1>2. Fits(toGame, editing)
  BY <1>1, Nowhere DEF LandNow, Land
<1>3. ~editing
  BY <1>1, <1>2 DEF Fits, Goes
<1>4. ~Carries(toVosh', "too long") /\ Ends(toVosh, {"prompt"}) /\ Ends(toVosh', {"prompt", "editor"})
      /\ Ends(toVosh', {"prompt", "tick"})
  BY <1>1 DEF Carries, Ends
<1>5. CASE armed = "off" /\ Acts(Advance(New(kind)), heard, armed) /\ waiting' = "none"
  <2> DEFINE r == Advance(New(kind))
  <2>1. ToBoard(r) \/ ToOpen(r)
    BY NewIs
  <2>2. Acts(r, heard, armed)
    BY <1>5
  <2> HIDE DEF r
  <2>3. r.job.result = "none"
    BY <2>1, Moving
  <2>4. job' = r.job /\ toGame' = toGame \o r.out /\ armed' = "off"
    BY <1>5, <2>2, <2>3, ActsGo
  <2> QED
    BY <1>1, <1>3, <1>4, <2>1, <2>4, LandAsk
<1>6. CASE waiting' = kind /\ UNCHANGED <<job, armed, toGame>>
  <2>1. toGame' = <<>> /\ toVosh' = <<>>
    BY <1>1, <1>6
  <2>2. Are(toGame', PromptLines \ {"open"})
    BY <2>1 DEF Are
  <2>3. OneToken(toGame', toVosh', armed')
    <3>1. Len(toVosh') = 0 /\ Len(toGame') = 0
      BY <2>1
    <3>2. \A i \in 1 .. 0 : FALSE
      BY ONLY SMT
    <3>3. \A i, k \in 1 .. Len(toVosh') : i = k
      BY <3>1, <3>2
    <3>4. Len(toGame') <= 1
      BY <3>1
    <3> QED
      BY <1>4, <2>1, <3>3, <3>4 DEF OneToken
  <2> QED
    BY <1>1, <1>3, <1>4, <1>6, <2>2, <2>3 DEF LandNow, Land, Before
<1> QED
  BY <1>5, <1>6 DEF Start

LEMMA LandStop ==
  ASSUME Types, LandNow, Stop, calm'
  PROVE  LandNow'
<1>1. /\ link /\ JobForm(job) /\ Acts(Stopped(job), heard, armed)
      /\ calm' = (calm /\ job.stage.do \notin {"to", "open"})
      /\ UNCHANGED <<waiting, game, toVosh, gameVars, link>> /\ waiting = "none"
  BY StopIs
<1> DEFINE r == Stopped(job)
<1>2. \/ InText(job) /\ (ToText(r) \/ ToLeave(r, {"leave"}))
      \/ ~InText(job) /\ (Over(r) \/ ToLeave(r, Prompts))
  BY <1>1, StoppedIs
<1>3. Acts(r, heard, armed) /\ editing' = editing /\ toVosh' = toVosh /\ job # NoJob
  BY <1>1, NotForm DEF gameVars
<1>4. ~AtOpen(job)
  BY <1>1 DEF AtOpen
<1>5. ~Carries(toVosh', "too long")
  BY <1>3 DEF LandNow, Land
<1> HIDE DEF r
<1>6. CASE InText(job) /\ (ToText(r) \/ ToLeave(r, {"leave"}))
  <2>1. r.job.result = "none"
    BY <1>6, Moving
  <2>2. job' = r.job /\ toGame' = toGame \o r.out /\ armed' = armed
    BY <1>3, <2>1, ActsGo
  <2>3. Texted(job, toGame, toVosh, armed, editing)
    BY <1>1, <1>6, Places DEF LandNow, Land
  <2> QED
    BY <1>3, <1>5, <1>6, <2>2, <2>3, LandText DEF Texted
<1>7. CASE ~InText(job) /\ (Over(r) \/ ToLeave(r, Prompts))
  <2>1. Fits(toGame, editing)
    BY <1>1, <1>3, <1>4, <1>7, BeforeFits DEF LandNow, Land
  <2>2. CASE Over(r)
    <3>1. job' = NoJob /\ toGame' = toGame \o Flush
      BY <1>3, <2>2, ActsOver DEF Types
    <3> QED
      BY <1>1, <1>3, <1>5, <2>1, <3>1, LandOver
  <2>3. CASE ToLeave(r, Prompts)
    <3>1. r.job.result = "none"
      BY <2>3, Moving
    <3>2. job' = r.job /\ toGame' = toGame \o r.out
      BY <1>3, <3>1, ActsGo
    <3> QED
      BY <1>3, <1>5, <2>1, <2>3, <3>2, LandLeaving
  <2> QED
    BY <1>7, <2>2, <2>3
<1> QED
  BY <1>2, <1>6, <1>7

LEMMA LandStopWaiting ==
  ASSUME Types, LandNow, StopWaiting
  PROVE  LandNow'
<1>1. /\ waiting # "none" /\ waiting' = "none" /\ job = NoJob
      /\ UNCHANGED <<job, toGame, toVosh, armed, editing>>
  BY DEF StopWaiting, Types, gameVars
<1>2. Before(toGame, toVosh, armed, editing) /\ ~Carries(toVosh, "too long")
  BY <1>1, Nowhere DEF LandNow, Land
<1>3. Fits(toGame, editing)
  BY <1>2, BeforeFits
<1> QED
  BY <1>1, <1>2, <1>3 DEF LandNow, Land

LEMMA LandConfirm ==
  ASSUME Types, LandNow, Confirm
  PROVE  LandNow'
<1>1. /\ link /\ JobForm(job) /\ InText(job) /\ job.phase = "sending"
      /\ UNCHANGED <<waiting, game, toVosh, gameVars, link, calm, left>>
      /\ \E r : /\ Acts(r, heard, armed) /\ (ToText(r) \/ ToLeave(r, {"leave"}))
  BY ConfirmIs
<1>2. PICK r : Acts(r, heard, armed) /\ (ToText(r) \/ ToLeave(r, {"leave"}))
  BY <1>1
<1>3. r.job.result = "none"
  BY <1>2, Moving
<1>4. job' = r.job /\ toGame' = toGame \o r.out /\ armed' = armed
  BY <1>2, <1>3, ActsGo
<1>5. Texted(job, toGame, toVosh, armed, editing) /\ ~Carries(toVosh, "too long")
  BY <1>1, Places, Stands DEF LandNow, Land
<1>6. toVosh' = toVosh /\ editing' = editing
  BY <1>1 DEF gameVars
<1> QED
  BY <1>2, <1>4, <1>5, <1>6, LandText DEF Texted

LEMMA LandExpire ==
  ASSUME Types, LandNow, Expire, ~hung
  PROVE  LandNow'
<1>1. /\ link /\ JobForm(job) /\ job.phase \in Timed /\ toVosh = <<>> /\ toGame = <<>>
      /\ Acts(End(job, "silent"), heard, armed) /\ Over(End(job, "silent"))
      /\ UNCHANGED <<waiting, game, toVosh, gameVars, link, calm, left>>
  BY ExpireIs
<1>2. job' = NoJob /\ toGame' = toGame \o Flush
  BY <1>1, ActsOver DEF Types
<1>3. toVosh' = toVosh /\ editing' = editing /\ waiting' = waiting
  BY <1>1 DEF gameVars
<1>4. waiting = "none" /\ job # NoJob
  BY <1>1, NotForm DEF Types
<1>5. ~Carries(toVosh', "too long")
  BY <1>3 DEF LandNow, Land
<1>6. Fits(toGame, editing)
  <2>1. CASE Before(toGame, toVosh, armed, editing)
    BY <2>1, BeforeFits
  <2>2. CASE AtOpen(job) /\ Opened(toGame, toVosh, armed, editing)
    <3>1. ~editing
      BY <1>1, <2>2 DEF Opened, Banner
    <3> QED
      BY <1>1, <3>1 DEF Fits
  <2>3. CASE InText(job) /\ Texted(job, toGame, toVosh, armed, editing)
    <3>1. job.phase = "editor"
      BY <1>1, <2>3 DEF InText, Timed
    <3> QED
      BY <1>1, <2>3, <3>1 DEF Texted, Awaited
  <2> QED
    BY <1>4, <2>1, <2>2, <2>3 DEF LandNow, Land
<1> QED
  BY <1>2, <1>3, <1>4, <1>5, <1>6, LandOver

LEMMA LandTypeLine ==
  ASSUME Types, LandNow, TypeLine, calm'
  PROVE  LandNow'
<1>1. /\ job # NoJob /\ ~Misreads /\ toGame' = Append(toGame, Typed)
      /\ UNCHANGED <<cardVars, toVosh, gameVars>>
  BY DEF TypeLine, UnderWay
<1>2. /\ job' = job /\ waiting' = waiting /\ toVosh' = toVosh /\ armed' = armed /\ editing' = editing
      /\ waiting = "none" /\ JobForm(job)
  BY <1>1 DEF cardVars, gameVars, Types
<1>3. /\ Typed \in LineType /\ toGame \in Seq(LineType) /\ editing \in BOOLEAN
      /\ Typed.do = IF job.inEditor THEN "dot command" ELSE "command"
  BY TypedIs DEF Types
<1> DEFINE out == <<Typed>>
<1>4. /\ out \in Seq(LineType) /\ Len(out) = 1 /\ out[1] = Typed
      /\ toGame' = toGame \o out /\ \A i \in 1 .. 1 : i = 1
  BY <1>1, <1>3, OneIs, ZenonT(60)
<1> HIDE DEF out
<1>5. /\ \A i \in 1 .. Len(toGame) : i \in 1 .. Len(toGame') /\ toGame'[i] = toGame[i]
      /\ Len(toGame') = Len(toGame) + 1 /\ Len(toGame) \in Nat
  <2> DEFINE h == toGame \o out
  <2>1. /\ \A i \in 1 .. Len(toGame) : i \in 1 .. Len(h) /\ h[i] = toGame[i]
        /\ Len(h) = Len(toGame) + 1 /\ Len(toGame) \in Nat
    <3>1. toGame \in Seq(LineType) /\ out \in Seq(LineType) /\ Len(out) = 1
      BY <1>3, <1>4
    <3> QED
      BY <3>1, ConcatOne, ZenonT(60)
  <2> HIDE DEF h
  <2>2. toGame' = h
    BY <1>4 DEF h
  <2> QED
    BY <2>1, <2>2
<1>6. ~AtBoard(job) /\ ~AtOpen(job)
  BY <1>1, <1>2, OpensYet DEF Misreads
<1>7. CASE InText(job) /\ Texted(job, toGame, toVosh, armed, editing)
  <2>1. Typed.do \in EditorLines \ {"leave"}
    BY <1>3, <1>7 DEF InText, EditorLines
  <2>2. Are(out, EditorLines \ {"leave"})
    BY <1>4, <2>1 DEF Are
  <2>3. Are(toGame', EditorLines \ {"leave"})
    BY <1>3, <1>4, <1>7, <2>2, ConcatAre DEF Texted
  <2>4. Awaited(job, toGame', toVosh)
    <3>1. \A do : Goes(toGame, do) => Goes(toGame', do)
      BY <1>5 DEF Goes
    <3>2. toGame' # <<>>
      BY <1>5
    <3> QED
      BY <1>7, <3>1, <3>2 DEF Texted, Awaited
  <2> QED
    BY <1>2, <1>7, <2>3, <2>4 DEF LandNow, Land, Texted
<1>8. CASE Leaving(job) /\ Fits(toGame, editing)
  <2>1. Typed.do \in PromptLines \ {"open"}
    BY <1>3, <1>8, PromptDeeds DEF Leaving
  <2>2. Are(out, PromptLines \ {"open"})
    BY <1>4, <2>1 DEF Are
  <2>3. Fits(toGame', editing)
    BY <1>3, <1>4, <1>8, <2>2, PutPrompt
  <2> QED
    BY <1>2, <1>8, <2>3 DEF LandNow, Land
<1> QED
  BY <1>1, <1>2, <1>6, <1>7, <1>8 DEF LandNow, Land

LEMMA LandReadTick ==
  ASSUME Types, LandNow, ReadTick
  PROVE  LandNow'
<1>1. /\ toVosh # <<>> /\ Head(toVosh) = Tick /\ toVosh' = Tail(toVosh)
      /\ job' = job /\ waiting' = waiting /\ toGame' = toGame /\ editing' = editing
  BY DEF ReadTick, gameVars
<1>2. /\ toVosh[1] = Tick /\ 1 \in 1 .. Len(toVosh)
      /\ \A i \in 1 .. Len(toVosh') :
            i + 1 \in 1 .. Len(toVosh) /\ toVosh'[i] = toVosh[i + 1] /\ i + 1 # 1
  <2>1. toVosh \in Seq(WriteType)
    BY DEF Types
  <2>2. /\ Head(toVosh) = toVosh[1] /\ 1 \in 1 .. Len(toVosh)
        /\ \A i \in 1 .. Len(Tail(toVosh)) :
              i + 1 \in 1 .. Len(toVosh) /\ Tail(toVosh)[i] = toVosh[i + 1]
    BY <1>1, <2>1, TailIs
  <2>3. \A i \in 1 .. Len(toVosh') : i + 1 # 1
    BY ONLY SMT
  <2> QED
    BY <1>1, <2>2, <2>3
<1>3. toVosh[1].ends = "tick"
  BY <1>2, TickIs
<1>4. ~Carries(toVosh', "too long")
  BY <1>2 DEF LandNow, Land, Carries
\* The token that was on its way is in.
<1>5. ASSUME OneToken(toGame, toVosh, armed), Ends(toVosh, {"prompt", "tick"})
      PROVE  OneToken(toGame', toVosh', armed') /\ Ends(toVosh', {"prompt", "tick"})
  <2>1. toGame = <<>> /\ armed = "off"
    BY <1>2, <1>3, <1>5 DEF OneToken, Ends
  <2>2. \A i \in 1 .. Len(toVosh') : toVosh'[i].ends # "tick"
    BY <1>2, <1>3, <1>5 DEF OneToken
  <2>3. \A i \in 1 .. Len(toVosh') : toVosh'[i].ends = "prompt"
    BY <1>2, <1>5, <2>2 DEF Ends
  <2>4. Ends(toVosh', {"prompt", "editor"}) /\ Ends(toVosh', {"prompt", "tick"})
    BY <2>3 DEF Ends
  <2> QED
    BY <1>1, <1>5, <2>1, <2>2, <2>4 DEF OneToken
<1>6. CASE (waiting # "none" \/ AtBoard(job)) /\ Before(toGame, toVosh, armed, editing)
  BY <1>1, <1>4, <1>5, <1>6 DEF LandNow, Land, Before
<1>7. CASE AtOpen(job) /\ Opened(toGame, toVosh, armed, editing)
  <2>1. ~Banner(toVosh)
    <3>1. SUFFICES ASSUME NEW k \in 1 .. Len(toVosh),
                          \A i \in 1 .. Len(toVosh) : toVosh[i].ends = IF i < k THEN "prompt" ELSE "editor"
                   PROVE  FALSE
      BY Zenon DEF Banner
    <3>2. 1 < k \/ 1 >= k
      OBVIOUS
    <3> QED
      BY <1>2, <1>3, <3>1, <3>2
  <2> QED
    BY <1>1, <1>4, <1>5, <1>7, <2>1 DEF LandNow, Land, Opened
<1>8. CASE InText(job) /\ Texted(job, toGame, toVosh, armed, editing)
  BY <1>2, <1>3, <1>8 DEF Texted, Ends
<1>9. CASE (Leaving(job) \/ (job = NoJob /\ waiting = "none")) /\ Fits(toGame, editing)
  BY <1>1, <1>4, <1>9 DEF LandNow, Land
<1> QED
  BY <1>6, <1>7, <1>8, <1>9 DEF LandNow, Land

LEMMA LandFire ==
  ASSUME Types, LandNow, Fire
  PROVE  LandNow'
<1>1. /\ armed \in {"text", "silent"} /\ toVosh' = toVosh /\ editing' = editing
      /\ ~Carries(toVosh', "too long")
  BY DEF Fire, gameVars, LandNow, Land
<1>2. CASE job # NoJob
  <2> DEFINE r == JobTick(job)
             a == IF StillWaits(job) THEN "kept" ELSE "off"
  <2>1. Acts(r, heard, a) /\ waiting' = waiting /\ waiting = "none" /\ JobForm(job)
    BY <1>2 DEF Fire, UnderWay, Types
  <2>2. \/ /\ StillWaits(job) /\ r = Waits(job)
           /\ AtBoard(job) \/ Leaving(job)
        \/ /\ ~StillWaits(job)
           /\ \/ Over(r)
              \/ /\ AtBoard(job) \/ Leaving(job)
                 /\ ToLeave(r, Prompts) \/ (AtBoard(job) /\ (ToBoard(r) \/ ToOpen(r)))
    BY <2>1, JobTickIs
  <2> HIDE DEF r
  <2>3. Fits(toGame, editing)
    <3>1. CASE AtOpen(job) /\ Opened(toGame, toVosh, armed, editing)
      <4>1. ~editing /\ toGame = <<>>
        BY <1>1, <3>1 DEF Opened, OneToken
      <4> QED
        BY <4>1 DEF Fits
    <3>2. ~ (InText(job) /\ Texted(job, toGame, toVosh, armed, editing))
      BY <1>1 DEF Texted
    <3> QED
      BY <3>1, <3>2, BeforeFits DEF LandNow, Land
  <2>4. CASE StillWaits(job) /\ r = Waits(job)
    <3>1. job' = job /\ toGame' = toGame /\ armed' = "kept"
      <4>1. a = "kept" /\ Acts(Waits(job), heard, a) /\ a \in Arms
        BY <2>1, <2>4 DEF Arms
      <4> QED
        BY <1>2, <4>1, ActsWaits
    <3>2. CASE Leaving(job)
      BY <1>1, <2>1, <2>3, <3>1, <3>2 DEF LandNow, Land
    <3>3. CASE AtBoard(job)
      <4>1. Before(toGame, toVosh, armed, editing)
        BY <1>2, <2>1, <3>3, Places DEF LandNow, Land
      <4>2. Before(toGame', toVosh', armed', editing')
        BY <1>1, <3>1, <4>1 DEF Before, OneToken
      <4> QED
        BY <1>1, <3>1, <3>3, <4>2 DEF LandNow, Land
    <3> QED
      BY <2>2, <2>4, <3>2, <3>3
  <2>5. CASE Over(r)
    <3>1. job' = NoJob /\ toGame' = toGame \o Flush
      BY <2>1, <2>5, ActsOver DEF Types
    <3> QED
      BY <1>1, <2>1, <2>3, <3>1, LandOver
  <2>6. CASE ToLeave(r, Prompts)
    <3>1. r.job.result = "none"
      BY <2>6, Moving
    <3>2. job' = r.job /\ toGame' = toGame \o r.out
      BY <2>1, <3>1, ActsGo
    <3> QED
      BY <1>1, <2>3, <2>6, <3>2, LandLeaving
  <2>7. CASE ~StillWaits(job) /\ AtBoard(job) /\ (ToBoard(r) \/ ToOpen(r))
    <3>1. r.job.result = "none"
      BY <2>7, Moving
    <3>2. job' = r.job /\ toGame' = toGame \o r.out /\ armed' = "off"
      BY <2>1, <2>7, <3>1, ActsGo
    <3>3. Before(toGame, toVosh, armed, editing)
      BY <1>2, <2>1, <2>7, Places DEF LandNow, Land
    <3>4. toGame = <<>> /\ Ends(toVosh, {"prompt"}) /\ ~editing
      BY <1>1, <3>3, TokenCame DEF Before
    <3> QED
      BY <1>1, <2>7, <3>2, <3>4, LandAsk
  <2> QED
    BY <2>2, <2>4, <2>5, <2>6, <2>7
<1>3. CASE job = NoJob /\ waiting = "none"
  <2>1. Acts(Waits(job), heard, "off") /\ waiting' = "none" /\ "off" \in Arms
    BY <1>3 DEF Fire, UnderWay, Arms
  <2>2. job' = job /\ toGame' = toGame
    BY <2>1, ActsWaits
  <2>3. Fits(toGame, editing)
    BY <1>3, Nowhere DEF LandNow, Land
  <2> QED
    BY <1>1, <1>3, <2>1, <2>2, <2>3 DEF LandNow, Land
<1>4. CASE job = NoJob /\ waiting # "none"
  <2> DEFINE r == Advance(New(waiting))
  <2>1. Acts(r, heard, "off") /\ waiting \in Kinds
    BY <1>4 DEF Fire, UnderWay, Types
  <2>2. ToBoard(r) \/ ToOpen(r)
    BY <2>1, NewIs
  <2> HIDE DEF r
  <2>3. r.job.result = "none"
    BY <2>2, Moving
  <2>4. job' = r.job /\ toGame' = toGame \o r.out /\ armed' = "off"
    BY <2>1, <2>3, ActsGo
  <2>5. Before(toGame, toVosh, armed, editing)
    BY <1>4, Nowhere DEF LandNow, Land
  <2>6. toGame = <<>> /\ Ends(toVosh, {"prompt"}) /\ ~editing
    BY <1>1, <2>5, TokenCame DEF Before
  <2> QED
    BY <1>1, <2>2, <2>4, <2>6, LandAsk
<1> QED
  BY <1>2, <1>3, <1>4

LEMMA LandAutomation ==
  ASSUME LandNow, Automation
  PROVE  LandNow'
  BY DEF Automation, LandNow, gameVars

LEMMA AppendEnds ==
  ASSUME NEW v \in Seq(WriteType), NEW m \in WriteType
  PROVE  LET t == Append(v, m) IN
         /\ \A word : Carries(t, word) <=> Carries(v, word) \/ word \in m.words
         /\ \A ends : Ends(t, ends) <=> Ends(v, ends) /\ m.ends \in ends
         /\ t # <<>>
<1> DEFINE t == Append(v, m)
<1>1. /\ t \in Seq(WriteType) /\ Len(t) = Len(v) + 1 /\ Len(v) \in Nat
      /\ \A i \in 1 .. Len(v) : t[i] = v[i]
      /\ t[Len(v) + 1] = m
      /\ \A i \in 1 .. Len(v) + 1 : i \in 1 .. Len(v) \/ i = Len(v) + 1
  BY AppendIs
<1>2. /\ \A i \in 1 .. Len(v) : i \in 1 .. Len(t)
      /\ Len(v) + 1 \in 1 .. Len(t) /\ t # <<>>
  <2>1. Len(v) + 1 > 0 /\ Len(v) + 1 \in 1 .. Len(v) + 1 /\ \A i \in 1 .. Len(v) : i \in 1 .. Len(v) + 1
    BY <1>1
  <2> HIDE DEF t
  <2> QED
    BY <1>1, <2>1
<1> HIDE DEF t
<1>3. ASSUME NEW word PROVE Carries(t, word) <=> Carries(v, word) \/ word \in m.words
  BY <1>1, <1>2 DEF Carries
<1>4. ASSUME NEW ends PROVE Ends(t, ends) <=> Ends(v, ends) /\ m.ends \in ends
  BY <1>1, <1>2 DEF Ends
<1> QED
  BY <1>2, <1>3, <1>4 DEF t

\* What the game says in its editor keeps the banner, and its own.
LEMMA AppendBanner ==
  ASSUME NEW v \in Seq(WriteType), NEW m, InEditor(m),
         Banner(v) \/ (Ends(v, {"prompt"}) /\ "banner" \in m.words)
  PROVE  Banner(Append(v, m))
<1> DEFINE t == Append(v, m)
<1>1. m \in WriteType /\ m.ends = "editor"
  BY DEF InEditor
<1>2. /\ Len(t) = Len(v) + 1 /\ Len(v) \in Nat
      /\ \A i \in 1 .. Len(v) : t[i] = v[i]
      /\ t[Len(v) + 1] = m
      /\ \A i \in 1 .. Len(v) + 1 : i \in 1 .. Len(v) \/ i = Len(v) + 1
  BY <1>1, AppendIs
<1> HIDE DEF t
<1>3. CASE Banner(v)
  <2>1. PICK k \in 1 .. Len(v) :
          /\ "banner" \in v[k].words
          /\ \A i \in 1 .. Len(v) : v[i].ends = IF i < k THEN "prompt" ELSE "editor"
    BY <1>3, Zenon DEF Banner
  <2>2. k \in 1 .. Len(t) /\ "banner" \in t[k].words /\ ~ (Len(v) + 1 < k)
    BY <1>2, <2>1
  <2>3. \A i \in 1 .. Len(t) : t[i].ends = IF i < k THEN "prompt" ELSE "editor"
    BY <1>1, <1>2, <2>1, <2>2
  <2> QED
    BY <2>2, <2>3 DEF Banner, t
<1>4. CASE Ends(v, {"prompt"}) /\ "banner" \in m.words
  <2>1. /\ Len(v) + 1 \in 1 .. Len(t) /\ "banner" \in t[Len(v) + 1].words
        /\ \A i \in 1 .. Len(v) : i < Len(v) + 1
    BY <1>2, <1>4
  <2>2. \A i \in 1 .. Len(t) : t[i].ends = IF i < Len(v) + 1 THEN "prompt" ELSE "editor"
    BY <1>1, <1>2, <1>4, <2>1 DEF Ends
  <2> QED
    BY <2>1, <2>2 DEF Banner, t
<1> QED
  BY <1>3, <1>4

\* The prompt's answer to the only line that was out.
LEMMA PromptTicks ==
  ASSUME NEW v \in Seq(WriteType), NEW w, Prompted(w)
  PROVE  LET t == v \o w IN
         /\ ~Carries(v, "too long") => ~Carries(t, "too long")
         /\ Ends(v, {"prompt"}) => /\ Ends(t, {"prompt", "tick"}) /\ OneToken(<<>>, t, "off")
<1>1. w \in Seq(WriteType) /\ Len(v) \in Nat
  <2>1. w \in Seq(WriteType)
    BY DEF Prompted
  <2> QED
    BY <2>1
<1>0. /\ v \o w \in Seq(WriteType) /\ Len(v \o w) = Len(v) + Len(w)
      /\ \A i \in 1 .. Len(v \o w) :
            \/ i \in 1 .. Len(v) /\ (v \o w)[i] = v[i]
            \/ i - Len(v) \in 1 .. Len(w) /\ (v \o w)[i] = w[i - Len(v)]
  BY <1>1, ConcatAt, Zenon
<1> DEFINE t == v \o w
<1>2. /\ t \in Seq(WriteType) /\ Len(t) = Len(v) + Len(w)
      /\ \A i \in 1 .. Len(t) :
            \/ i \in 1 .. Len(v) /\ t[i] = v[i]
            \/ i - Len(v) \in 1 .. Len(w) /\ t[i] = w[i - Len(v)]
  BY <1>0
<1> HIDE DEF t
<1>3. ~Carries(v, "too long") => ~Carries(t, "too long")
  BY <1>2 DEF Prompted, Carries
<1>4. PICK n \in 1 .. Len(w) :
        w[n] = Tick /\ \A i \in 1 .. Len(w) : i # n => w[i].ends = "prompt"
  BY DEF Prompted
<1>5. \A i \in 1 .. Len(w) : w[i].ends \in {"prompt", "tick"}
  BY <1>4, TickIs
<1>6. ASSUME Ends(v, {"prompt"}) PROVE Ends(t, {"prompt", "tick"}) /\ OneToken(<<>>, t, "off")
  <2>1. Ends(t, {"prompt", "tick"})
    BY <1>2, <1>5, <1>6 DEF Ends
  <2>2. \A i \in 1 .. Len(t) : t[i].ends = "tick" => i - Len(v) = n
    BY <1>2, <1>4, <1>6 DEF Ends
  <2>3. \A i, k \in 1 .. Len(t) : t[i].ends = "tick" /\ t[k].ends = "tick" => i = k
    <3>1. \A i, k \in 1 .. Len(t) : i - Len(v) = k - Len(v) => i = k
      BY <1>1
    <3> QED
      BY <2>2, <3>1
  <2>4. Len(<<>>) <= 1
    OBVIOUS
  <2> QED
    BY <2>1, <2>3, <2>4 DEF OneToken
<1> QED
  BY <1>3, <1>6 DEF t

LEMMA LandGame ==
  ASSUME Types, LandNow, NEW dos, GameReads(dos), Answers(Head(toGame).do), calm'
  PROVE  LandNow'
<1> DEFINE do == Head(toGame).do
<1>1. /\ toGame # <<>> /\ toGame' = Tail(toGame)
      /\ job' = job /\ waiting' = waiting /\ armed' = armed
  BY DEF GameReads, cardVars
<1>2. /\ toGame \in Seq(LineType) /\ toVosh \in Seq(WriteType) /\ editing \in BOOLEAN
  BY DEF Types
<1>3. /\ do = toGame[1].do /\ 1 \in 1 .. Len(toGame) /\ Len(toGame) \in Nat
      /\ Len(toGame') = Len(toGame) - 1 /\ toGame' \in Seq(LineType)
      /\ \A i \in 1 .. Len(toGame') : i + 1 \in 1 .. Len(toGame) /\ toGame'[i] = toGame[i + 1]
  <2>1. /\ Head(toGame) = toGame[1] /\ 1 \in 1 .. Len(toGame) /\ Len(Tail(toGame)) = Len(toGame) - 1
        /\ Tail(toGame) \in Seq(LineType)
        /\ \A i \in 1 .. Len(Tail(toGame)) :
              i + 1 \in 1 .. Len(toGame) /\ Tail(toGame)[i] = toGame[i + 1]
    BY <1>1, <1>2, TailIs
  <2>2. Len(toGame) \in Nat
    BY <1>2
  <2> QED
    BY <1>1, <2>1, <2>2
<1>4. \A i \in 1 .. Len(toGame) : i = 1 \/ (i - 1 \in 1 .. Len(toGame') /\ toGame[i] = toGame'[i - 1])
  <2>1. \A i \in 1 .. Len(toGame) : i = 1 \/ (i - 1 \in 1 .. Len(toGame') /\ (i - 1) + 1 = i)
    BY <1>3
  <2> QED
    BY <1>3, <2>1
<1> HIDE DEF do
<1>5. CASE AnswersInEditor(do)
  <2>1. PICK m : /\ InEditor(m) /\ toVosh' = Append(toVosh, m)
                 /\ do = "show" => "listed" \in m.words
                 /\ do = "clear" => "cleared" \in m.words
                 /\ ~editing => do = "open" /\ "banner" \in m.words
                 /\ editing => do # "leave"
    BY <1>5, Zenon DEF AnswersInEditor
  <2>2. m \in WriteType /\ m.ends = "editor" /\ "too long" \notin m.words /\ editing' = TRUE
    BY <1>5, <2>1 DEF InEditor, AnswersInEditor
  <2>3. /\ \A word : Carries(toVosh', word) <=> Carries(toVosh, word) \/ word \in m.words
        /\ \A ends : Ends(toVosh', ends) <=> Ends(toVosh, ends) /\ m.ends \in ends
        /\ toVosh' # <<>>
    BY <1>2, <2>1, <2>2, AppendEnds, Zenon
  <2>4. ~Carries(toVosh', "too long")
    BY <2>2, <2>3 DEF LandNow, Land
  <2>5. ~Before(toGame, toVosh, armed, editing)
    <3>1. do # "open" \/ ~Are(toGame, PromptLines \ {"open"})
      BY <1>3 DEF Are
    <3> QED
      BY <2>1, <3>1 DEF Before
  <2>6. CASE AtOpen(job) /\ Opened(toGame, toVosh, armed, editing)
    <3>1. /\ ~editing /\ OneToken(toGame, toVosh, armed) /\ Ends(toVosh, {"prompt", "tick"})
      BY <1>1, <2>6 DEF Opened
    <3>2. armed = "off" /\ Ends(toVosh, {"prompt"}) /\ Len(toGame) <= 1
      BY <1>1, <3>1 DEF OneToken, Ends
    <3>3. toGame' = <<>>
      <4>1. Len(toGame') = 0
        BY <1>3, <3>2
      <4> QED
        BY <1>3, <4>1
    <3>4. Banner(toVosh')
      BY <1>2, <2>1, <3>1, <3>2, AppendBanner
    <3> QED
      BY <1>1, <2>2, <2>4, <2>6, <3>2, <3>3, <3>4 DEF LandNow, Land, Opened
  <2>7. CASE InText(job) /\ Texted(job, toGame, toVosh, armed, editing)
    <3>1. editing /\ armed = "off" /\ Ends(toVosh, {"editor"}) /\ Are(toGame, EditorLines \ {"leave"})
      BY <2>7 DEF Texted
    <3>2. Ends(toVosh', {"editor"})
      BY <2>2, <2>3, <3>1
    <3>3. Are(toGame', EditorLines \ {"leave"})
      BY <1>3, <3>1 DEF Are
    <3>4. \A what : Goes(toGame, what) => what = do \/ Goes(toGame', what)
      BY <1>3, <1>4 DEF Goes
    <3>5. Awaited(job, toGame', toVosh')
      <4>1. Goes(toGame, "show") => Goes(toGame', "show") \/ Carries(toVosh', "listed")
        BY <2>1, <2>3, <3>4
      <4>2. Goes(toGame, "clear") => Goes(toGame', "clear") \/ Carries(toVosh', "cleared")
        BY <2>1, <2>3, <3>4
      <4>3. /\ Carries(toVosh, "listed") => Carries(toVosh', "listed")
            /\ Carries(toVosh, "cleared") => Carries(toVosh', "cleared")
        BY <2>3
      <4> QED
        BY <2>3, <2>7, <4>1, <4>2, <4>3 DEF Texted, Awaited
    <3> QED
      BY <1>1, <2>2, <2>4, <2>7, <3>1, <3>2, <3>3, <3>5 DEF LandNow, Land, Texted, Awaited
  <2>8. CASE (Leaving(job) \/ (job = NoJob /\ waiting = "none")) /\ Fits(toGame, editing)
    <3>1. editing /\ do # "leave"
      BY <1>3, <2>1, <2>8 DEF Fits
    <3>2. Goes(toGame', "leave")
      BY <1>3, <1>4, <2>8, <3>1 DEF Fits, Goes
    <3>3. ASSUME NEW i \in 1 .. Len(toGame')
          PROVE  /\ toGame'[i].do # "open"
                 /\ toGame'[i].do \in EditorLines
                    <=> \A k \in 1 .. Len(toGame') : k < i => toGame'[k].do # "leave"
      <4>1. /\ toGame[i + 1].do # "open"
            /\ toGame[i + 1].do \in EditorLines
               <=> \A k \in 1 .. Len(toGame) : k < i + 1 => toGame[k].do # "leave"
        BY <1>3, <2>8, <3>1 DEF Fits
      <4>2. ASSUME \A k \in 1 .. Len(toGame') : k < i => toGame'[k].do # "leave",
                   NEW k \in 1 .. Len(toGame), k < i + 1
            PROVE  toGame[k].do # "leave"
        <5>1. CASE k = 1
          BY <1>3, <3>1, <5>1
        <5>2. CASE k # 1
          <6>1. k - 1 \in 1 .. Len(toGame') /\ toGame[k] = toGame'[k - 1]
            BY <1>4, <5>2
          <6>2. k - 1 < i
            BY <4>2
          <6> QED
            BY <4>2, <6>1, <6>2
        <5> QED
          BY <5>1, <5>2
      <4>3. ASSUME \A k \in 1 .. Len(toGame) : k < i + 1 => toGame[k].do # "leave",
                   NEW k \in 1 .. Len(toGame'), k < i
            PROVE  toGame'[k].do # "leave"
        <5>1. k + 1 \in 1 .. Len(toGame) /\ toGame'[k] = toGame[k + 1]
          BY <1>3
        <5>2. k + 1 < i + 1
          BY <4>3
        <5> QED
          BY <4>3, <5>1, <5>2
      <4>4. toGame'[i] = toGame[i + 1]
        BY <1>3
      <4> QED
        BY <4>1, <4>2, <4>3, <4>4
    <3>4. Fits(toGame', TRUE)
      BY <3>2, <3>3 DEF Fits
    <3> QED
      BY <1>1, <2>2, <2>4, <2>8, <3>4 DEF LandNow, Land
  <2> QED
    BY <2>5, <2>6, <2>7, <2>8 DEF LandNow, Land
<1>6. CASE AnswersAtPrompt(do)
  <2>1. PICK w : Prompted(w) /\ toVosh' = toVosh \o w
    BY <1>6 DEF AnswersAtPrompt
  <2>2. editing' = FALSE /\ (editing => do = "leave")
    BY <1>6 DEF AnswersAtPrompt
  <2>3. /\ ~Carries(toVosh, "too long") => ~Carries(toVosh', "too long")
        /\ Ends(toVosh, {"prompt"}) => /\ Ends(toVosh', {"prompt", "tick"})
                                       /\ OneToken(<<>>, toVosh', "off")
    BY <1>2, <2>1, PromptTicks, Zenon
  <2>4. ~Carries(toVosh', "too long")
    BY <2>3 DEF LandNow, Land
  <2>5. ASSUME OneToken(toGame, toVosh, armed), Ends(toVosh, {"prompt", "tick"})
        PROVE  /\ armed = "off" /\ toGame' = <<>> /\ OneToken(toGame', toVosh', armed')
               /\ Ends(toVosh', {"prompt", "tick"}) /\ \A any : Are(toGame', any)
    <3>1. armed = "off" /\ Ends(toVosh, {"prompt"}) /\ Len(toGame) <= 1
      BY <1>1, <2>5 DEF OneToken, Ends
    <3>2. toGame' = <<>>
      <4>1. Len(toGame') = 0
        BY <1>3, <3>1
      <4> QED
        BY <1>3, <4>1
    <3>3. \A any : Are(toGame', any)
      BY <3>2 DEF Are
    <3> QED
      BY <1>1, <2>3, <3>1, <3>2, <3>3
  <2>6. CASE (waiting # "none" \/ AtBoard(job)) /\ Before(toGame, toVosh, armed, editing)
    BY <1>1, <2>2, <2>4, <2>5, <2>6 DEF LandNow, Land, Before
  <2>7. CASE AtOpen(job) /\ Opened(toGame, toVosh, armed, editing)
    BY <1>1, <2>2, <2>4, <2>5, <2>7 DEF LandNow, Land, Opened
  <2>8. CASE InText(job) /\ Texted(job, toGame, toVosh, armed, editing)
    BY <1>3, <2>2, <2>8 DEF Texted, Are
  <2>9. CASE (Leaving(job) \/ (job = NoJob /\ waiting = "none")) /\ Fits(toGame, editing)
    <3>1. ASSUME NEW i \in 1 .. Len(toGame')
          PROVE  toGame'[i].do # "open" /\ toGame'[i].do \notin EditorLines
      <4>1. /\ i + 1 \in 1 .. Len(toGame) /\ 1 < i + 1 /\ toGame'[i] = toGame[i + 1]
        BY <1>3
      <4>2. editing => toGame[1].do = "leave"
        BY <1>3, <2>2
      <4> QED
        BY <1>3, <2>9, <4>1, <4>2 DEF Fits
    <3>2. Fits(toGame', FALSE)
      BY <3>1 DEF Fits
    <3> QED
      BY <1>1, <2>2, <2>4, <2>9, <3>2 DEF LandNow, Land
  <2> QED
    BY <2>6, <2>7, <2>8, <2>9 DEF LandNow, Land
<1>7. CASE Overflows
  BY <1>7 DEF Overflows
<1> QED
  BY <1>5, <1>6, <1>7 DEF Answers, do

LEMMA LandChat ==
  ASSUME Types, LandNow, Chat, calm'
  PROVE  LandNow'
<1>1. /\ link /\ ~hung /\ calm' = (calm /\ (editing \/ ~Misreads))
      /\ UNCHANGED <<cardVars, toGame, gameVars, link>>
      /\ left' \in LeftType /\ left'.auto = left.auto
      /\ editing => \E m : InEditor(m) /\ toVosh' = Append(toVosh, m)
      /\ ~editing => \E w : Prompted(w) /\ toVosh' = toVosh \o w
  BY ChatIs
<1>2. /\ job' = job /\ waiting' = waiting /\ armed' = armed /\ toGame' = toGame /\ editing' = editing
      /\ toVosh \in Seq(WriteType)
  BY <1>1 DEF cardVars, gameVars, Types
<1>3. CASE editing
  <2>1. PICK m : InEditor(m) /\ toVosh' = Append(toVosh, m)
    BY <1>1, <1>3
  <2>2. m \in WriteType /\ m.ends = "editor" /\ "too long" \notin m.words
    BY <2>1 DEF InEditor
  <2>3. /\ \A word : Carries(toVosh', word) <=> Carries(toVosh, word) \/ word \in m.words
        /\ \A ends : Ends(toVosh', ends) <=> Ends(toVosh, ends) /\ m.ends \in ends
        /\ toVosh' # <<>>
    BY <1>2, <2>1, <2>2, AppendEnds, Zenon
  <2>4. ~Carries(toVosh', "too long")
    BY <2>2, <2>3 DEF LandNow, Land
  <2>5. CASE AtOpen(job) /\ Opened(toGame, toVosh, armed, editing)
    <3>1. toGame = <<>> /\ armed = "off" /\ Banner(toVosh)
      BY <1>3, <2>5 DEF Opened
    <3>2. Banner(toVosh')
      BY <1>2, <2>1, <3>1, AppendBanner
    <3> QED
      BY <1>2, <1>3, <2>4, <2>5, <3>1, <3>2 DEF LandNow, Land, Opened
  <2>6. CASE InText(job) /\ Texted(job, toGame, toVosh, armed, editing)
    <3>1. Ends(toVosh', {"editor"})
      BY <2>2, <2>3, <2>6 DEF Texted
    <3>2. Awaited(job, toGame, toVosh')
      BY <2>3, <2>6 DEF Texted, Awaited
    <3> QED
      BY <1>2, <2>4, <2>6, <3>1, <3>2 DEF LandNow, Land, Texted
  <2>7. CASE (Leaving(job) \/ (job = NoJob /\ waiting = "none")) /\ Fits(toGame, editing)
    BY <1>2, <2>4, <2>7 DEF LandNow, Land
  <2> QED
    BY <1>3, <2>5, <2>6, <2>7 DEF LandNow, Land, Before
<1>4. CASE ~editing
  <2>1. PICK w : Prompted(w) /\ toVosh' = toVosh \o w
    BY <1>1, <1>4
  <2>2. ~Carries(toVosh, "too long") => ~Carries(toVosh', "too long")
    BY <1>2, <2>1, PromptTicks, Zenon
  <2>3. waiting = "none" /\ ~AtBoard(job) /\ ~AtOpen(job)
    <3>1. ~Misreads
      BY <1>1, <1>4
    <3> QED
      BY <3>1, Stands, OpensYet DEF Misreads, Opening
  <2>4. ~ (InText(job) /\ Texted(job, toGame, toVosh, armed, editing))
    BY <1>4 DEF Texted
  <2> QED
    BY <1>2, <2>2, <2>3, <2>4 DEF LandNow, Land
<1> QED
  BY <1>3, <1>4

\* What a read leaves of a banner it did not take, and what it took of one.
LEMMA BannerDrop ==
  ASSUME NEW v \in Seq(WriteType), NEW k \in 1 .. Len(v), Banner(v)
  PROVE  LET t == SubSeq(v, k + 1, Len(v)) IN
         /\ v[k].ends = "prompt" => Banner(t)
         /\ v[k].ends = "editor" => /\ Ends(t, {"editor"})
                                    /\ \E i \in 1 .. k : "banner" \in v[i].words
<1> DEFINE t == SubSeq(v, k + 1, Len(v))
<1>1. /\ Len(t) = Len(v) - k /\ Len(v) \in Nat
      /\ \A i \in 1 .. Len(t) : i + k \in 1 .. Len(v) /\ t[i] = v[i + k]
  <2>1. /\ Len(t) = Len(v) - k
        /\ \A i \in 1 .. Len(t) : i + k \in 1 .. Len(v) /\ t[i] = v[i + k]
    BY DropIs
  <2>2. Len(v) \in Nat
    OBVIOUS
  <2> QED
    BY <2>1, <2>2
<1> HIDE DEF t
<1>2. PICK n \in 1 .. Len(v) :
        /\ "banner" \in v[n].words
        /\ \A i \in 1 .. Len(v) : v[i].ends = IF i < n THEN "prompt" ELSE "editor"
  BY Zenon DEF Banner
<1>3. ASSUME v[k].ends = "prompt" PROVE Banner(t)
  <2>1. k < n
    BY <1>2, <1>3
  <2>2. n - k \in 1 .. Len(t) /\ t[n - k] = v[n]
    <3>1. n - k \in 1 .. Len(t) /\ (n - k) + k = n
      BY <1>1, <2>1
    <3> QED
      BY <1>1, <3>1
  <2>3. \A i \in 1 .. Len(t) : t[i].ends = IF i < n - k THEN "prompt" ELSE "editor"
    BY <1>1, <1>2, <2>1
  <2> QED
    BY <1>2, <2>2, <2>3 DEF Banner
<1>4. ASSUME v[k].ends = "editor"
      PROVE  Ends(t, {"editor"}) /\ \E i \in 1 .. k : "banner" \in v[i].words
  <2>1. n <= k /\ n \in 1 .. k
    BY <1>2, <1>4
  <2>2. \A i \in 1 .. Len(t) : ~ (i + k < n)
    BY <2>1
  <2>3. Ends(t, {"editor"})
    BY <1>1, <1>2, <2>2 DEF Ends
  <2> QED
    BY <1>2, <2>1, <2>3
<1> QED
  BY <1>3, <1>4 DEF t

LEMMA LandRead ==
  ASSUME Types, LandNow, Read
  PROVE  LandNow'
<1>1. waiting' = waiting /\ editing' = editing
  BY ReadIs DEF gameVars
<1>2. PICK k \in {1, 2}, lone \in Nat, r \in ReadType :
            /\ ReadOf(r, k)
            /\ toVosh' = SubSeq(toVosh, k + 1, Len(toVosh))
            /\ game' \in {"unknown", "prompt", "editor"}
            /\ \E a \in Arms \ {"kept"} :
                /\ a = IF r.ends = "editor" \/ armed = "off" THEN "off" ELSE "text"
                /\ Acts(IF UnderWay THEN JobReads(job, r, lone) ELSE Waits(job), TRUE, a)
  BY ReadsActs
<1> DEFINE a == IF r.ends = "editor" \/ armed = "off" THEN "off" ELSE "text"
<1>3. a \in Arms /\ a # "kept" /\ Acts(IF UnderWay THEN JobReads(job, r, lone) ELSE Waits(job), TRUE, a)
  BY <1>2
<1>4. armed = "off" => a = "off"
  OBVIOUS
<1> HIDE DEF a
<1>5. /\ toVosh \in Seq(WriteType) /\ toGame \in Seq(LineType)
      /\ k \in 1 .. Len(toVosh) /\ r.ends = toVosh[k].ends
      /\ \A i \in 1 .. k : toVosh[i].words \subseteq r.words
      /\ \A w \in r.words : \E i \in 1 .. k : w \in toVosh[i].words
      /\ r.ends \in {"editor", "prompt"}
  BY <1>2 DEF ReadOf, Types, ReadType
<1>6. /\ \A word : ~Carries(toVosh, word) => ~Carries(toVosh', word)
      /\ \A ends : Ends(toVosh, ends) => Ends(toVosh', ends)
  BY <1>2, <1>5, CarriesDrop, Zenon
<1>7. ~Carries(toVosh', "too long")
  BY <1>6 DEF LandNow, Land
<1>8. \A i \in 1 .. k : i \in 1 .. Len(toVosh)
  BY <1>5
<1>9. "too long" \notin r.words
  BY <1>5, <1>8 DEF LandNow, Land, Carries
<1>10. \A word : Carries(toVosh, word) => word \in r.words \/ Carries(toVosh', word)
  <2>1. SUFFICES ASSUME NEW word, NEW i \in 1 .. Len(toVosh), word \in toVosh[i].words
                 PROVE  word \in r.words \/ Carries(toVosh', word)
    BY Zenon DEF Carries
  <2>2. CASE i <= k
    <3>1. i \in 1 .. k
      BY <1>5, <2>2
    <3> QED
      BY <1>5, <2>1, <3>1
  <2>3. CASE i > k
    <3>1. /\ Len(toVosh') = Len(toVosh) - k /\ Len(toVosh) \in Nat
          /\ \A n \in 1 .. Len(toVosh') : toVosh'[n] = toVosh[n + k]
      <4> DEFINE t == SubSeq(toVosh, k + 1, Len(toVosh))
      <4>1. /\ Len(t) = Len(toVosh) - k
            /\ \A n \in 1 .. Len(t) : n + k \in 1 .. Len(toVosh) /\ t[n] = toVosh[n + k]
        BY <1>5, DropIs
      <4>2. Len(toVosh) \in Nat
        BY <1>5
      <4> HIDE DEF t
      <4>3. toVosh' = t
        BY <1>2 DEF t
      <4> QED
        BY <4>1, <4>2, <4>3
    <3>2. i - k \in 1 .. Len(toVosh') /\ (i - k) + k = i
      BY <1>5, <2>3, <3>1
    <3>3. toVosh'[i - k] = toVosh[i]
      BY <3>1, <3>2
    <3> QED
      BY <2>1, <3>2, <3>3 DEF Carries
  <2> QED
    BY <1>5, <2>2, <2>3
\* The token is still to come where it was.
<1>11. ASSUME OneToken(toGame, toVosh, armed) PROVE OneToken(toGame, toVosh', a)
  <2>1. toGame # <<>> \/ a # "off" => Ends(toVosh', {"prompt", "editor"})
    BY <1>4, <1>6, <1>11 DEF OneToken
  <2>2. \A i, n \in 1 .. Len(toVosh') :
            toVosh'[i].ends = "tick" /\ toVosh'[n].ends = "tick" => i = n
    <3> DEFINE t == SubSeq(toVosh, k + 1, Len(toVosh))
    <3>1. \A i \in 1 .. Len(t) : i + k \in 1 .. Len(toVosh) /\ t[i] = toVosh[i + k]
      BY <1>5, DropIs
    <3>2. \A i, n \in 1 .. Len(t) : i + k = n + k => i = n
      BY <1>5
    <3> HIDE DEF t
    <3>3. \A i, n \in 1 .. Len(t) : t[i].ends = "tick" /\ t[n].ends = "tick" => i = n
      BY <1>11, <3>1, <3>2, SMTT(60) DEF OneToken
    <3> QED
      BY <1>2, <3>3 DEF t
  <2> QED
    BY <1>4, <1>11, <2>1, <2>2 DEF OneToken
<1>12. CASE job = NoJob
  <2>1. Acts(Waits(job), TRUE, a)
    BY <1>3, <1>12 DEF UnderWay
  <2>2. job' = job /\ toGame' = toGame /\ armed' = a
    BY <1>3, <2>1, ActsWaits
  <2>3. CASE waiting # "none" /\ Before(toGame, toVosh, armed, editing)
    BY <1>1, <1>6, <1>7, <1>11, <2>2, <2>3 DEF LandNow, Land, Before
  <2>4. CASE waiting = "none" /\ Fits(toGame, editing)
    BY <1>1, <1>7, <1>12, <2>2, <2>4 DEF LandNow, Land
  <2> QED
    BY <1>12, <2>3, <2>4, Nowhere DEF LandNow, Land
<1>13. CASE job # NoJob
  <2> DEFINE q == JobReads(job, r, lone)
  <2>1. Acts(q, TRUE, a) /\ JobForm(job) /\ waiting = "none"
    BY <1>3, <1>13 DEF UnderWay, Types
  <2>2. \/ "too long" \in r.words /\ Over(q)
        \/ Stays(job, q) /\ (job.phase = "editor" => r.ends = "prompt")
        \/ InText(job) /\ (ToText(q) \/ ToLeave(q, {"leave"}))
        \/ /\ InText(job) /\ Stays(job, q) /\ r.ends = "editor"
           /\ \/ job.stage.do \in ShowStages /\ "listed" \notin r.words
              \/ job.stage.do = "clear" /\ "cleared" \notin r.words
        \/ AtOpen(job) /\ r.ends = "editor" /\ (ToText(q) \/ ToLeave(q, {"leave"}))
        \/ AtOpen(job) /\ r.ends = "editor" /\ "banner" \notin r.words /\ Over(q)
    BY <2>1, JobReadsIs
  <2> HIDE DEF q
  <2>3. ASSUME Moves(q) PROVE job' = q.job /\ toGame' = toGame \o q.out /\ armed' = a
    BY <2>1, <2>3, Moving, ActsGo
  <2>4. ASSUME Stays(job, q) PROVE job' = q.job /\ toGame' = toGame /\ armed' = a
    <3>1. toGame \o <<>> = toGame
      BY <1>5, ConcatEmptySeq
    <3>2. q.out = <<>>
      BY <2>4 DEF Stays
    <3> QED
      BY <2>3, <2>4, <3>1, <3>2, Moving
  <2>5. /\ AtBoard(job) => Before(toGame, toVosh, armed, editing)
        /\ AtOpen(job) => Opened(toGame, toVosh, armed, editing)
        /\ InText(job) => Texted(job, toGame, toVosh, armed, editing)
        /\ Leaving(job) => Fits(toGame, editing)
    BY <2>1, Places DEF LandNow, Land
  <2>6. CASE Stays(job, q) /\ (job.phase = "editor" => r.ends = "prompt")
    <3>1. job' = q.job /\ toGame' = toGame /\ armed' = a
      BY <2>4, <2>6
    <3>2. CASE AtBoard(job)
      <4>1. AtBoard(job')
        BY <2>1, <2>6, <3>1, <3>2, StaysPlace
      <4> QED
        BY <1>1, <1>6, <1>7, <1>11, <2>5, <3>1, <3>2, <4>1 DEF LandNow, Land, Before
    <3>3. CASE AtOpen(job)
      <4>1. AtOpen(job')
        BY <2>1, <2>6, <3>1, <3>3, StaysPlace
      <4>2. r.ends = "prompt"
        BY <2>6, <3>3 DEF AtOpen
      <4>3. Banner(toVosh) => Banner(toVosh')
        BY <1>2, <1>5, <4>2, BannerDrop
      <4>4. Opened(toGame, toVosh', a, editing)
        BY <1>4, <1>6, <1>11, <2>5, <3>3, <4>3 DEF Opened
      <4> QED
        BY <1>1, <1>7, <3>1, <4>1, <4>4 DEF LandNow, Land
    <3>4. CASE InText(job)
      <4>1. InText(job')
        BY <2>1, <2>6, <3>1, <3>4, StaysPlace
      <4>2. r.ends = "editor"
        BY <1>5, <2>5, <3>4 DEF Texted, Ends
      <4>3. job'.phase # "editor"
        BY <2>6, <3>1, <4>2 DEF Stays
      <4>4. Texted(job', toGame, toVosh', a, editing)
        BY <1>4, <1>6, <2>5, <3>4, <4>3 DEF Texted, Awaited
      <4> QED
        BY <1>1, <1>7, <3>1, <4>1, <4>4 DEF LandNow, Land
    <3>5. CASE Leaving(job)
      <4>1. Leaving(job')
        BY <2>1, <2>6, <3>1, <3>5, StaysPlace
      <4> QED
        BY <1>1, <1>7, <2>5, <3>1, <3>5, <4>1 DEF LandNow, Land
    <3> QED
      BY <2>1, <3>2, <3>3, <3>4, <3>5, Places
  <2>7. CASE InText(job) /\ (ToText(q) \/ ToLeave(q, {"leave"}))
    <3>1. job' = q.job /\ toGame' = toGame \o q.out /\ armed' = a
      BY <2>3, <2>7, Moving
    <3>2. editing /\ a = "off" /\ Ends(toVosh', {"editor"}) /\ Are(toGame, EditorLines \ {"leave"})
      BY <1>4, <1>6, <2>5, <2>7 DEF Texted
    <3> QED
      BY <1>1, <1>7, <2>7, <3>1, <3>2, LandText
  <2>8. CASE /\ InText(job) /\ Stays(job, q) /\ r.ends = "editor"
             /\ \/ job.stage.do \in ShowStages /\ "listed" \notin r.words
                \/ job.stage.do = "clear" /\ "cleared" \notin r.words
    <3>1. job' = q.job /\ toGame' = toGame /\ armed' = a
      BY <2>4, <2>8
    <3>2. InText(job') /\ job'.stage = job.stage /\ job'.phase = job.phase
      BY <2>1, <2>8, <3>1, StaysPlace DEF Stays
    <3>3. /\ editing /\ a = "off" /\ Ends(toVosh', {"editor"})
          /\ Are(toGame, EditorLines \ {"leave"}) /\ Awaited(job, toGame, toVosh)
      BY <1>4, <1>6, <2>5, <2>8 DEF Texted
    <3>4. "clear" \notin ShowStages
      BY DEF ShowStages
    <3>5. /\ \A do : Goes(toGame, do) => toGame # <<>>
          /\ \A word : Carries(toVosh', word) => toVosh' # <<>>
      <4>1. \A i \in 1 .. 0 : FALSE
        BY ONLY SMT
      <4>2. Len(<<>>) = 0
        OBVIOUS
      <4> QED
        BY <4>1, <4>2 DEF Goes, Carries
    <3>6. Awaited(job', toGame, toVosh')
      BY <1>10, <2>8, <3>2, <3>3, <3>4, <3>5 DEF Awaited
    <3> QED
      BY <1>1, <1>7, <3>1, <3>2, <3>3, <3>6 DEF LandNow, Land, Texted
  <2>9. ASSUME AtOpen(job), r.ends = "editor"
        PROVE  /\ editing /\ toGame = <<>> /\ a = "off" /\ Ends(toVosh', {"editor"})
               /\ "banner" \in r.words
    <3>1. toVosh[k].ends = "editor"
      BY <1>5, <2>9
    <3>2. ~Ends(toVosh, {"prompt", "tick"})
      BY <1>5, <3>1 DEF Ends
    <3>3. editing /\ toGame = <<>> /\ armed = "off" /\ Banner(toVosh)
      BY <2>5, <2>9, <3>2 DEF Opened
    <3>4. Ends(toVosh', {"editor"}) /\ \E i \in 1 .. k : "banner" \in toVosh[i].words
      BY <1>2, <1>5, <3>1, <3>3, BannerDrop
    <3> QED
      BY <1>4, <1>5, <3>3, <3>4
  <2>10. CASE AtOpen(job) /\ r.ends = "editor" /\ (ToText(q) \/ ToLeave(q, {"leave"}))
    <3>1. job' = q.job /\ toGame' = toGame \o q.out /\ armed' = "off"
      BY <2>3, <2>9, <2>10, Moving
    <3>2. Are(toGame, EditorLines \ {"leave"})
      BY <2>9, <2>10 DEF Are
    <3> QED
      BY <1>1, <1>7, <2>9, <2>10, <3>1, <3>2, LandText
  <2> QED
    BY <1>9, <2>2, <2>6, <2>7, <2>8, <2>9, <2>10
<1> QED
  BY <1>12, <1>13

-----------------------------------------------------------------------------
(* The theorem.                                                            *)

LEMMA LandInit == Init => LandInv
<1> SUFFICES ASSUME Init PROVE LandNow
  BY DEF LandInv
<1>1. job = NoJob /\ waiting = "none" /\ toGame = <<>> /\ toVosh = <<>> /\ ~editing
  BY DEF Init
<1>2. Fits(toGame, editing) /\ ~Carries(toVosh, "too long")
  BY <1>1 DEF Fits, Carries
<1> QED
  BY <1>1, <1>2 DEF LandNow, Land

LEMMA LandNext == Types /\ LandInv /\ [Next]_vars => LandInv'
<1> SUFFICES ASSUME Types, LandInv, [Next]_vars, calm', ~hung', link' PROVE LandNow'
  BY DEF LandInv
<1>1. CASE Drop
  BY <1>1 DEF Drop
<1>2. CASE Hang
  BY <1>2 DEF Hang
<1>3. CASE UNCHANGED vars
  BY <1>3 DEF vars, LandInv, LandNow, cardVars, gameVars
<1>4. ASSUME NEW kind \in Kinds, Start(kind) PROVE LandNow'
  BY <1>4, LandStart DEF LandInv, Start, gameVars
<1>5. CASE Stop
  BY <1>5, LandStop DEF LandInv, Stop, gameVars
<1>6. CASE StopWaiting
  BY <1>6, LandStopWaiting DEF LandInv, StopWaiting, gameVars
<1>7. CASE TypeLine
  BY <1>7, LandTypeLine DEF LandInv, TypeLine, gameVars
<1>8. CASE Automation
  BY <1>8, LandAutomation DEF LandInv, Automation, gameVars
<1>9. CASE Read
  BY <1>9, ReadIs, LandRead DEF LandInv, gameVars
<1>10. CASE ReadTick
  BY <1>10, LandReadTick DEF LandInv, ReadTick, gameVars
<1>11. CASE Fire
  BY <1>11, LandFire DEF LandInv, Fire, gameVars
<1>12. CASE Confirm
  BY <1>12, LandConfirm DEF LandInv, Confirm, gameVars
<1>13. CASE Expire
  BY <1>13, LandExpire DEF LandInv, Expire, gameVars
<1>14. CASE GameStep
  <2>1. PICK dos : GameReads(dos) /\ GameTypes /\ Answers(Head(toGame).do)
    BY <1>14, GameIs
  <2>2. calm /\ ~hung /\ link
    <3>1. calm' = calm \/ calm' = FALSE
      BY <2>1 DEF Answers, AnswersInEditor, AnswersAtPrompt, Overflows
    <3> QED
      BY <2>1, <3>1 DEF GameReads
  <2> QED
    BY <2>1, <2>2, LandGame DEF LandInv
<1>15. CASE Chat
  BY <1>15, ChatIs, LandChat DEF LandInv
<1> QED
  BY <1>1, <1>2, <1>3, <1>4, <1>5, <1>6, <1>7, <1>8, <1>9, <1>10, <1>11, <1>12, <1>13, <1>14,
     <1>15, Zenon DEF Next, CardStep

LEMMA LandEnough == Types /\ LandInv => LandsWhereMeant
<1> SUFFICES ASSUME Types, LandInv, calm, toGame # <<>>, ~hung
             PROVE  Head(toGame).do \in EditorLines <=> editing
  BY DEF LandsWhereMeant
<1>1. LandNow
  BY DEF LandInv, Types
<1>2. /\ Head(toGame) = toGame[1] /\ 1 \in 1 .. Len(toGame) /\ editing \in BOOLEAN
  BY TailIs DEF Types
<1>3. CASE Before(toGame, toVosh, armed, editing)
  BY <1>2, <1>3, PromptDeeds DEF Before, Are
<1>4. CASE Opened(toGame, toVosh, armed, editing)
  BY <1>2, <1>4, PromptDeeds DEF Opened, Are
<1>5. CASE Texted(job, toGame, toVosh, armed, editing)
  BY <1>2, <1>5 DEF Texted, Are
<1>6. CASE Fits(toGame, editing)
  <2>1. \A k \in 1 .. Len(toGame) : ~ (k < 1)
    OBVIOUS
  <2> QED
    BY <1>2, <1>6, <2>1 DEF Fits
<1> QED
  BY <1>1, <1>3, <1>4, <1>5, <1>6 DEF LandNow, Land

\* Each line the game reads is for where it is then: your text and the
\* editor's commands in the editor, all else at its prompt, what the hold
\* kept and what you type included, for every text and every job, however
\* late the card reads what the game said.
THEOREM LinesLand == Spec => []LandsWhereMeant
<1>1. Init => Types /\ LandInv
  BY TypesInit, LandInit
<1>2. (Types /\ LandInv) /\ [Next]_vars => (Types /\ LandInv)'
  BY TypesNext, LandNext
<1>3. Spec => [](Types /\ LandInv)
  BY <1>1, <1>2, PTL DEF Spec
<1> QED
  BY <1>3, LandEnough, PTL

-----------------------------------------------------------------------------
(* What the card says of a job that ended.                                 *)

\* Some member of a sequence is in M, at most one is, and none after one in
\* M is in N.
Has(s, M) == \E i \in 1 .. Len(s) : s[i] \in M
Once(s, M) == \A i, k \in 1 .. Len(s) : s[i] \in M /\ s[k] \in M => i = k
NoneAfter(s, M, N) == \A i, k \in 1 .. Len(s) : i < k /\ s[i] \in M => s[k] \notin N

Lined(dos) == {m \in LineType : m.do \in dos}
But(dos) == {m \in LineType : m.do \notin dos}

\* The commands whose answer the card goes on by, and the answers it goes on
\* by: a listing, that the board has no note, and that it was done.
Tellers == {"show", "board", "to", "subject", "readback", "post", "clear note"}
Tells == {"listed", "no note", "ok"}
Telling(words) == words \cap Tells # {}
Told == {m \in WriteType : Telling(m.words)}
Listings == {m \in WriteType : "listed" \in m.words}
Unlike(t) == {m \in WriteType : "listed" \in m.words /\ m.listing # t}
Oks == {m \in WriteType : "ok" \in m.words}
Spoken == {m \in WriteType : m.ends # "tick"}
Unkind == {m \in WriteType : m.ends # "tick" /\ "ok" \notin m.words}

\* What follows what in the jobs, and what they end with.
First(kind) == IF kind = "post" THEN "board" ELSE "open"
Final(kind) == IF kind = "read" THEN "leave" ELSE IF kind = "send" THEN "readback" ELSE "post"
Mends == {"replace", "delete", "send", "verify"}
Follows(kind, a, b) ==
    \/ a = "none" /\ b = First(kind)
    \/ a = "clear" /\ b = "send"
    \/ a \in Mends /\ b \in Mends
    \/ a = "verify" /\ b = "leave"
    \/ kind = "read" /\ ((a = "open" /\ b = "show") \/ (a = "show" /\ b = "leave"))
    \/ kind = "send" /\ ((a = "open" /\ b = "base") \/ (a = "base" /\ b = "clear"))
    \/ kind # "read" /\ a = "leave" /\ b = "readback"
    \/ kind = "post" /\ \/ a = "board" /\ b = "to"
                        \/ a = "to" /\ b = "subject"
                        \/ a = "subject" /\ b = "open"
                        \/ a = "open" /\ b = "clear"
                        \/ a = "readback" /\ b = "post"

Chain(s, kind) ==
    /\ \A i \in 1 .. Len(s) : i + 1 <= Len(s) => Follows(kind, s[i].do, s[i + 1].do)
    /\ s # <<>> => s[Len(s)].do = Final(kind)
Course(j) ==
    /\ Chain(j.stages, j.kind)
    /\ j.stages = <<>> => j.stage.do = Final(j.kind)
    /\ j.stages # <<>> => Follows(j.kind, j.stage.do, j.stages[1].do)

\* A job that ends early: it leaves the editor, clears the note, or both.
Clears(s) == Len(s) = 1 /\ s[1].do = "clear note"
Quits(j) ==
    /\ j.pending \in {"changed", "stopped", "refused", "failed"}
    /\ j.pending = "changed" => j.kind = "send"
    /\ \/ j.stage.do = "leave" /\ j.kind # "post" /\ j.stages = <<>>
       \/ j.stage.do = "leave" /\ j.kind = "post" /\ Clears(j.stages)
       \/ j.stage.do = "clear note" /\ j.kind = "post" /\ j.stages = <<>>

Shape(j) ==
    /\ IF j.pending = "none" THEN Course(j) ELSE Quits(j)
    /\ j.stage.do = "post" => j.postSent
    /\ j.kind = "post" /\ j.stage.do \notin {"none", "board", "to"} => j.started

\* One answer of those is out or in, the one to what the job asked last.
ToldOnce(j, g, v) ==
    /\ Once(g, Lined(Tellers)) /\ Once(v, Told)
    /\ ~Has(g, Lined(Tellers \ {Asked(j.stage)}))
    /\ Has(g, Lined(Tellers)) => ~Telling(j.words) /\ ~Has(v, Told)
    /\ Has(v, Told) => ~Telling(j.words)
    /\ Telling(j.words) \/ Has(v, Told) => j.stage.do \in ShowStages \cup Prompts

\* A listing that comes is of what the game holds: nothing that could change
\* it went out after the command that asks for it.
Rereads == ShowStages \cup {"readback"}
Hush(j) == IF j.stage.do = "readback" THEN {"command"} ELSE {"dot command"}
Reread(j, g, v, t, e) ==
    j.stage.do \in Rereads =>
        /\ NoneAfter(g, Lined(Tellers), But(Hush(j)))
        /\ ~Has(v, Unlike(t))
        /\ "listed" \in j.words => j.listing = t
        /\ "listed" \in j.words \/ Has(v, Listings) =>
            ~Has(g, But(Hush(j))) /\ (j.stage.do = "readback" => ~e)

\* A post is out once, after all is read back, and it posts your text.
Posting(j, g, v, t, e, p) ==
    /\ p \in {<<>>, <<Meant>>}
    /\ Has(g, Lined({"post"})) =>
        /\ p = <<>> /\ t = Meant /\ ~e
        /\ ~Has(g, But({"post", "command", "clear note"})) /\ Once(g, Lined({"post"}))
        /\ j = NoJob \/ j.stage.do \in {"post", "clear note"}
    /\ p # <<>> => j = NoJob \/ j.stage.do = "post" \/ j.pending # "none"
    /\ j.stage.do = "post" /\ ("ok" \in j.words \/ Has(v, Oks)) => p # <<>>

\* Before a job begins, nothing of an earlier one is left.
Fresh(j, w, d, g, v, t, n, p, c, l) ==
    /\ j # NoJob \/ w # "none" => d.result = "none"
    /\ d.result = "dropped" => ~l
    /\ j = NoJob /\ d.result = "none" =>
        /\ g = <<>> /\ p = <<>> /\ n # "card" /\ t \in {<<>>, <<Other>>}
        /\ ~Has(v, Told)
        /\ w # "none" /\ c => v = <<>>

\* Each command at the board has one answer, which says ok where it was done.
Done(s, n, p) == (s = "to" /\ n = "card") \/ (s = "post" /\ p # <<>>)
SaidOnce(j, g, v, n, p) ==
    /\ j.stage.do \in {"board", "to", "subject", "post"} =>
        /\ Once(v, Spoken)
        /\ g # <<>> => /\ Tail(g) = <<>> /\ Head(g).do = j.stage.do
                       /\ ~Has(v, Spoken) /\ j.words = {}
        /\ j.words # {} => ~Has(v, Spoken)
        /\ Done(j.stage.do, n, p) => /\ g = <<>> /\ ~Has(v, Unkind)
                                     /\ j.words # {} => "ok" \in j.words
        /\ j.stage.do = "post" /\ p # <<>> => n # "card"
    /\ j.kind = "post" /\ j.stage.do = "readback" =>
        /\ NoneAfter(g, Lined(Tellers), LineType) /\ NoneAfter(v, Listings, Spoken)
        /\ "listed" \in j.words \/ Has(v, Listings) => g = <<>>
        /\ "listed" \in j.words => ~Has(v, Spoken)

\* A note the card began goes with its clear.
Fields == Lined({"to", "subject"})
Clear == Lined({"clear note"})
OnBoard(n, g) == n = "card" \/ Has(g, Fields)
Noted(j, d, g, n, c, l) ==
    /\ NoneAfter(g, Clear, Fields)
    /\ j # NoJob /\ (j.kind # "post" \/ j.stage.do \in {"none", "board"}) => ~OnBoard(n, g)
    /\ c /\ OnBoard(n, g) =>
        /\ j.kind = "post" /\ j.pending # "none" => Has(g, Clear) \/ j.stages # <<>>
        /\ l /\ d.result \notin {"none"} \cup Abandons => Has(g, Clear)

\* What the game holds, and nothing out that changes it.
Still == {"open", "show", "leave", "readback", "command", "dot command", "clear note"}
Holds(j, d, g, t) ==
    /\ j.kind = "send" /\ j.pending = "none" /\ j.stage.do \in {"none", "open", "base"} =>
        t \in {<<>>, <<Other>>} /\ ~Has(g, But(Still))
    /\ j.kind = "send" /\ j.pending = "none" /\ j.stage.do \in {"leave", "readback"} =>
        t = Meant /\ ~Has(g, But(Still))
    /\ j.pending = "changed" \/ d.result = "changed" => t = <<Other>> /\ ~Has(g, But(Still))
    /\ d.result = "send" => t = Meant /\ ~Has(g, But(Still))

Sent(j, d, g, p) ==
    /\ j.pending # "none" => p = <<>> /\ ~Has(g, Lined({"post"}))
    /\ p # <<>> /\ d.result = "dropped" => d.postSent

ResultNow(j, w, d, g, v, t, e, n, p, c, l) ==
    /\ j # NoJob => Shape(j)
    /\ j # NoJob /\ j.pending = "none" => ToldOnce(j, g, v) /\ Reread(j, g, v, t, e)
    /\ Posting(j, g, v, t, e, p)
    /\ Fresh(j, w, d, g, v, t, n, p, c, l)
    /\ c /\ j.pending = "none" => SaidOnce(j, g, v, n, p)
    /\ Noted(j, d, g, n, c, l)
    /\ c => Holds(j, d, g, t) /\ Sent(j, d, g, p)
    /\ d.result = "posted" => p # <<>>

ResultInv ==
    ResultNow(job, waiting, done, toGame, toVosh, text, editing, note, posted, calm, link)

-----------------------------------------------------------------------------
(* What is in a sequence that grows or loses members.                      *)

\* An empty sequence has no member.
LEMMA HasNone == \A M : ~Has(<<>>, M)
  BY DEF Has

\* What two sequences have, one after the other.
LEMMA HasPut ==
  ASSUME NEW S, NEW a \in Seq(S), NEW b \in Seq(S), NEW M
  PROVE  Has(a \o b, M) <=> Has(a, M) \/ Has(b, M)
<1> DEFINE c == a \o b
<1>1. /\ c \in Seq(S) /\ Len(c) = Len(a) + Len(b) /\ Len(a) \in Nat /\ Len(b) \in Nat
      /\ \A i \in 1 .. Len(a) : i \in 1 .. Len(c) /\ c[i] = a[i]
      /\ \A i \in 1 .. Len(b) : Len(a) + i \in 1 .. Len(c) /\ c[Len(a) + i] = b[i]
      /\ \A i \in 1 .. Len(c) :
           \/ i \in 1 .. Len(a) /\ c[i] = a[i]
           \/ i - Len(a) \in 1 .. Len(b) /\ c[i] = b[i - Len(a)]
  OBVIOUS
<1> HIDE DEF c
<1>2. Has(c, M) <=> Has(a, M) \/ Has(b, M)
  BY <1>1 DEF Has
<1> QED
  BY <1>2 DEF c

LEMMA OncePut ==
  ASSUME NEW S, NEW a \in Seq(S), NEW b \in Seq(S), NEW M, Once(a, M), Once(b, M),
         ~(Has(a, M) /\ Has(b, M))
  PROVE  Once(a \o b, M)
<1> DEFINE c == a \o b
<1>1. /\ c \in Seq(S) /\ Len(c) = Len(a) + Len(b) /\ Len(a) \in Nat /\ Len(b) \in Nat
      /\ \A i \in 1 .. Len(c) :
           \/ i \in 1 .. Len(a) /\ c[i] = a[i]
           \/ i - Len(a) \in 1 .. Len(b) /\ c[i] = b[i - Len(a)]
  OBVIOUS
<1> HIDE DEF c
<1>2. ASSUME NEW i \in 1 .. Len(c), NEW k \in 1 .. Len(c), c[i] \in M, c[k] \in M PROVE i = k
  <2>1. CASE i \in 1 .. Len(a) /\ c[i] = a[i] /\ k \in 1 .. Len(a) /\ c[k] = a[k]
    BY <1>2, <2>1 DEF Once
  <2>2. CASE /\ i - Len(a) \in 1 .. Len(b) /\ c[i] = b[i - Len(a)]
             /\ k - Len(a) \in 1 .. Len(b) /\ c[k] = b[k - Len(a)]
    <3>1. i - Len(a) = k - Len(a)
      BY <1>2, <2>2 DEF Once
    <3> QED
      BY <1>1, <3>1
  <2>3. ASSUME NEW x \in 1 .. Len(a), NEW y \in 1 .. Len(b), a[x] \in M, b[y] \in M PROVE FALSE
    BY <2>3 DEF Has
  <2> QED
    BY <1>1, <1>2, <2>1, <2>2, <2>3
<1>3. Once(c, M)
  BY <1>2 DEF Once
<1> QED
  BY <1>3 DEF c

LEMMA NonePut ==
  ASSUME NEW S, NEW a \in Seq(S), NEW b \in Seq(S), NEW M, NEW N,
         NoneAfter(a, M, N), NoneAfter(b, M, N), ~(Has(a, M) /\ Has(b, N))
  PROVE  NoneAfter(a \o b, M, N)
<1> DEFINE c == a \o b
<1>1. /\ c \in Seq(S) /\ Len(c) = Len(a) + Len(b) /\ Len(a) \in Nat /\ Len(b) \in Nat
      /\ \A i \in 1 .. Len(c) :
           \/ i \in 1 .. Len(a) /\ c[i] = a[i]
           \/ i > Len(a) /\ i - Len(a) \in 1 .. Len(b) /\ c[i] = b[i - Len(a)]
  OBVIOUS
<1> HIDE DEF c
<1>2. ASSUME NEW i \in 1 .. Len(c), NEW k \in 1 .. Len(c), i < k, c[i] \in M, c[k] \in N PROVE FALSE
  <2>1. CASE i \in 1 .. Len(a) /\ c[i] = a[i] /\ k \in 1 .. Len(a) /\ c[k] = a[k]
    BY <1>2, <2>1 DEF NoneAfter
  <2>2. CASE /\ i - Len(a) \in 1 .. Len(b) /\ c[i] = b[i - Len(a)]
             /\ k - Len(a) \in 1 .. Len(b) /\ c[k] = b[k - Len(a)]
    <3>1. i - Len(a) < k - Len(a)
      BY <1>1, <1>2
    <3> QED
      BY <1>2, <2>2, <3>1 DEF NoneAfter
  <2>3. CASE i \in 1 .. Len(a) /\ c[i] = a[i] /\ k - Len(a) \in 1 .. Len(b) /\ c[k] = b[k - Len(a)]
    BY <1>2, <2>3 DEF Has
  <2>4. ~ (i > Len(a) /\ k \in 1 .. Len(a))
    BY <1>1, <1>2
  <2> QED
    BY <1>1, <1>2, <2>1, <2>2, <2>3, <2>4
<1>3. NoneAfter(c, M, N)
  BY <1>2 DEF NoneAfter
<1> QED
  BY <1>3 DEF c

\* A sequence of one.
LEMMA HasOne ==
  ASSUME NEW s, Len(s) = 1, NEW M
  PROVE  /\ Has(s, M) <=> s[1] \in M
         /\ Once(s, M) /\ \A N : NoneAfter(s, M, N)
  BY DEF Has, Once, NoneAfter

\* What is left of a sequence once its first members are taken.
LEMMA HasDrop ==
  ASSUME NEW S, NEW s \in Seq(S), NEW k \in 1 .. Len(s)
  PROVE  LET t == SubSeq(s, k + 1, Len(s)) IN
         /\ t \in Seq(S)
         /\ \A M : Has(t, M) => Has(s, M)
         /\ \A M : Once(s, M) => Once(t, M)
         /\ \A M, N : NoneAfter(s, M, N) => NoneAfter(t, M, N)
         /\ \A M : \A i \in 1 .. k : s[i] \in M =>
                /\ Has(s, M)
                /\ Once(s, M) => ~Has(t, M)
                /\ \A N : NoneAfter(s, M, N) => ~Has(t, N)
<1> DEFINE t == SubSeq(s, k + 1, Len(s))
<1>1. /\ t \in Seq(S) /\ Len(t) = Len(s) - k /\ Len(s) \in Nat /\ Len(t) \in Nat
      /\ \A i \in 1 .. Len(t) : i + k \in 1 .. Len(s) /\ t[i] = s[i + k]
  BY SMTT(30)
<1> HIDE DEF t
<1>2. \A M : Has(t, M) => Has(s, M)
  BY <1>1 DEF Has
<1>3. ASSUME NEW M, Once(s, M) PROVE Once(t, M)
  <2> SUFFICES ASSUME NEW a \in 1 .. Len(t), NEW b \in 1 .. Len(t), t[a] \in M, t[b] \in M
               PROVE  a = b
    BY DEF Once
  <2>1. a + k = b + k
    BY <1>1, <1>3 DEF Once
  <2> QED
    BY <1>1, <2>1
<1>4. ASSUME NEW M, NEW N, NoneAfter(s, M, N) PROVE NoneAfter(t, M, N)
  <2> SUFFICES ASSUME NEW a \in 1 .. Len(t), NEW b \in 1 .. Len(t), a < b, t[a] \in M
               PROVE  t[b] \notin N
    BY DEF NoneAfter
  <2>1. a + k < b + k
    BY <1>1
  <2> QED
    BY <1>1, <1>4, <2>1 DEF NoneAfter
<1>5. ASSUME NEW M, NEW i \in 1 .. k, s[i] \in M
      PROVE  Has(s, M) /\ (Once(s, M) => ~Has(t, M)) /\ \A N : NoneAfter(s, M, N) => ~Has(t, N)
  <2>1. i \in 1 .. Len(s)
    BY <1>1
  <2>2. Has(s, M)
    BY <1>5, <2>1 DEF Has
  <2>3. Once(s, M) => ~Has(t, M)
    <3> SUFFICES ASSUME Once(s, M), NEW a \in 1 .. Len(t), t[a] \in M PROVE FALSE
      BY DEF Has
    <3>1. a + k = i
      BY <1>1, <1>5, <2>1 DEF Once
    <3> QED
      BY <1>1, <3>1
  <2>4. \A N : NoneAfter(s, M, N) => ~Has(t, N)
    BY <1>1, <1>5, <2>1 DEF Has, NoneAfter
  <2> QED
    BY <2>2, <2>3, <2>4
<1> QED
  BY <1>1, <1>2, <1>3, <1>4, <1>5 DEF t

\* What is left of a sequence without its first member.
LEMMA HasTail ==
  ASSUME NEW S, NEW s \in Seq(S), s # <<>>
  PROVE  /\ Tail(s) \in Seq(S) /\ Head(s) \in S
         /\ \A M : Has(s, M) <=> Head(s) \in M \/ Has(Tail(s), M)
         /\ \A M : Once(s, M) => Once(Tail(s), M) /\ (Head(s) \in M => ~Has(Tail(s), M))
         /\ \A M, N : NoneAfter(s, M, N) =>
                NoneAfter(Tail(s), M, N) /\ (Head(s) \in M => ~Has(Tail(s), N))
<1> DEFINE t == Tail(s)
<1>1. /\ t \in Seq(S) /\ Len(t) = Len(s) - 1 /\ Len(s) \in Nat /\ Len(t) \in Nat
      /\ \A i \in 1 .. Len(t) : i + 1 \in 1 .. Len(s) /\ t[i] = s[i + 1]
      /\ Head(s) = s[1] /\ 1 \in 1 .. Len(s) /\ s[1] \in S
      /\ \A i \in 1 .. Len(s) : i = 1 \/ (i - 1 \in 1 .. Len(t) /\ s[i] = t[i - 1])
  OBVIOUS
<1> HIDE DEF t
<1>2. \A M : Has(s, M) <=> s[1] \in M \/ Has(t, M)
  BY <1>1 DEF Has
<1>3. \A M : Once(s, M) => Once(t, M) /\ (s[1] \in M => ~Has(t, M))
  BY <1>1 DEF Has, Once
<1>4. \A M, N : NoneAfter(s, M, N) => NoneAfter(t, M, N) /\ (s[1] \in M => ~Has(t, N))
  BY <1>1 DEF Has, NoneAfter
<1> QED
  BY <1>1, <1>2, <1>3, <1>4 DEF t

\* What a sequence has, it has of any set that holds more.
LEMMA HasMore ==
  ASSUME NEW s, NEW M, NEW N, M \subseteq N
  PROVE  Has(s, M) => Has(s, N)
  BY DEF Has

LEMMA LenZero ==
  ASSUME NEW S, NEW s \in Seq(S)
  PROVE  s = <<>> <=> Len(s) = 0
  OBVIOUS

\* Where nothing is in a set, nothing is twice or after another.
LEMMA NoneHas ==
  ASSUME NEW s, NEW M, ~Has(s, M)
  PROVE  Once(s, M) /\ \A N : NoneAfter(s, M, N) /\ NoneAfter(s, N, M)
  BY DEF Has, Once, NoneAfter

-----------------------------------------------------------------------------
(* What a step comes to for a job, and the stages it has left.             *)

\* The line that goes out for a stage, and the text where it is sent.
Calls(out, s) ==
    /\ out \in Seq(LineType)
    /\ IF s.do = "send" THEN ~Has(out, But({"text"}))
       ELSE Len(out) = 1 /\ out[1].do = Asked(s)

\* What a step comes to for a job: it goes on to its next stage, it begins to
\* end early, it is over, or it waits on.
GoesOn(j, r) ==
    /\ j.pending = "none" /\ r.job.pending = "none" /\ r.job.kind = j.kind
    /\ r.job.words = {} /\ r.job.stage.do # "none" /\ r.job.result = "none"
    /\ Shape(r.job) /\ Calls(r.out, r.job.stage)
    /\ Follows(j.kind, j.stage.do, r.job.stage.do)
    /\ Asked(j.stage) \in Tellers => Telling(j.words)
    /\ j.stage.do \in {"to", "subject"} => "ok" \in j.words
    /\ j.stage.do = "board" => "no note" \in j.words
    /\ j.stage.do \in Rereads => "listed" \in j.words
    /\ j.stage.do = "verify" /\ r.job.stage.do = "leave" => j.listing = Meant
    /\ j.stage.do = "readback" => j.listing = Meant

Quitting(j, r) ==
    /\ r.job.pending # "none" /\ r.job.kind = j.kind /\ r.job.result = "none"
    /\ Shape(r.job) /\ Calls(r.out, r.job.stage)
    /\ j.stage.do \in {"post", "clear note"} => r.job.stage.do = "clear note"
    /\ r.job.pending = "changed" /\ j.pending # "changed" =>
        /\ j.pending = "none" /\ j.kind = "send" /\ j.stage.do = "base"
        /\ "listed" \in j.words /\ j.listing # <<>>
    /\ j.stage.do = "post" => j.words # {} /\ "ok" \notin j.words

Bad == Results \ ({"none"} \cup Abandons)
Closing(j, r) ==
    /\ Over(r) /\ r.job.result # "dropped"
    /\ r.job.result = "send" => j.kind = "send" /\ j.pending = "none" /\ j.stage.do = "readback"
    /\ r.job.result = "changed" => j.pending = "changed"
    /\ r.job.result = "posted" => j.stage.do = "post" /\ "ok" \in j.words
    /\ r.job.result \in Bad =>
        \/ j.pending # "none" /\ j.stages = <<>>
        \/ j.kind # "post" \/ j.stage.do = "board"
        \/ j.stage.do = "to" /\ j.words # {} /\ "ok" \notin j.words
        \/ j.stage.do = "post" /\ j.words # {} /\ "ok" \in j.words

Idles(j, r) ==
    /\ r.job.stage = j.stage /\ r.job.stages = j.stages /\ r.job.kind = j.kind
    /\ r.job.pending = j.pending /\ r.job.started = j.started /\ r.job.result = j.result
    /\ r.job.postSent = j.postSent /\ r.job.words = j.words /\ r.job.listing = j.listing
    /\ r.out \in Seq(LineType) /\ ~Has(r.out, But({"text"}))
    /\ r.out # <<>> => j.stage.do = "send"

Fares(j, r) == GoesOn(j, r) \/ Quitting(j, r) \/ Closing(j, r) \/ Idles(j, r)

\* Where the text goes out, the job stays as it is.
LEMMA PumpedDoes ==
  ASSUME NEW j \in JobType
  PROVE  LET r == Pumped(j) IN
         /\ r.job.stage = j.stage /\ r.job.stages = j.stages /\ r.job.kind = j.kind
         /\ r.job.pending = j.pending /\ r.job.started = j.started /\ r.job.result = j.result
         /\ r.job.postSent = j.postSent /\ r.job.words = j.words /\ r.job.listing = j.listing
         /\ r.out \in Seq(LineType) /\ ~Has(r.out, But({"text"}))
<1> DEFINE k == Take(j)
           out == [i \in 1 .. k |-> Line("card", "text", 0, Wire(j.next + i - 1))]
<1>1. /\ Pumped(j).job = [j EXCEPT !.next = @ + k, !.flight = @ + k]
      /\ Pumped(j).out = out /\ out \in Seq(LineType)
  BY PumpedIs DEF Pumped, Then
<1>2. \A i \in 1 .. Len(out) : out[i].do = "text"
  <2>1. k \in Nat
    BY TakeIs
  <2> HIDE DEF k
  <2>2. Len(out) = k
    BY <2>1
  <2> QED
    BY <2>1, <2>2 DEF Line
<1> HIDE DEF out
<1>3. ~Has(out, But({"text"}))
  BY <1>2 DEF Has, But
<1> HIDE DEF k
<1> QED
  BY <1>1, <1>3 DEF JobType

\* Where a job takes its next stage, it is at it.
LEMMA AdvanceDoes ==
  ASSUME NEW j, Ready(j), j.stages # <<>>, Head(j.stages).do \in Deeds \ {"none"}
  PROVE  LET r == Advance(j) IN
         /\ r.job.stage = Head(j.stages) /\ r.job.stages = Tail(j.stages)
         /\ r.job.kind = j.kind /\ r.job.pending = j.pending /\ r.job.started = j.started
         /\ r.job.words = {} /\ r.job.result = "none"
         /\ r.job.postSent = (j.postSent \/ Head(j.stages).do = "post")
         /\ Calls(r.out, Head(j.stages))
<1> DEFINE s == Head(j.stages)
           at == [j EXCEPT !.stage = s, !.stages = Tail(@), !.words = {}, !.listing = <<>>]
<1>1. /\ j \in JobType /\ j.stages \in Seq(StageType) /\ s \in StageType
      /\ Tail(j.stages) \in Seq(StageType) /\ j.result = "none" /\ j.postSent \in BOOLEAN
      /\ s.do \in Deeds \ {"none"}
  BY DEF Ready, JobType
<1>2. /\ at \in JobType /\ at.stage = s /\ at.stages = Tail(j.stages) /\ at.kind = j.kind
      /\ at.result = j.result /\ at.pending = j.pending /\ at.started = j.started
      /\ at.words = {} /\ at.postSent = j.postSent
  <2>1. <<>> \in Seq(Kept) /\ {} \in SUBSET Words
    OBVIOUS
  <2> HIDE DEF s
  <2> QED
    BY <1>1, <2>1 DEF JobType
<1>3. CASE s.do = "send"
  <2> DEFINE to == [at EXCEPT !.phase = "sending", !.next = j.from, !.flight = 0]
  <2>1. Advance(j) = Pumped(to)
    BY <1>3 DEF Advance
  <2>2. Sends(j.stages)
    BY <1>1, <1>3 DEF Sends
  <2>3. j.from \in 1 .. Lines + 1 /\ 0 \in 0 .. InFlight
    BY <2>2 DEF Ready, InFlight
  <2> HIDE DEF s, at
  <2>4. /\ to \in JobType /\ to.stage = at.stage /\ to.stages = at.stages /\ to.kind = at.kind
        /\ to.result = at.result /\ to.pending = at.pending /\ to.started = at.started
        /\ to.words = at.words /\ to.postSent = at.postSent
    BY <1>2, <2>3 DEF JobType
  <2> HIDE DEF to
  <2>5. Calls(Pumped(to).out, s)
    BY <1>3, <2>4, PumpedDoes DEF Calls
  <2> QED
    BY <1>1, <1>2, <1>3, <2>1, <2>4, <2>5, PumpedDoes DEF s
<1>4. CASE s.do # "send"
  <2> DEFINE to == [at EXCEPT !.phase = IF s.do \in EditorStages THEN "editor" ELSE "tick",
                              !.inEditor = StaysOpen(j, s),
                              !.postSent = @ \/ s.do = "post"]
  <2>1. Advance(j) = Then(to, <<CommandOf(s)>>)
    BY <1>4 DEF Advance
  <2>2. Calls(<<CommandOf(s)>>, s)
    <3>1. Single(<<CommandOf(s)>>, {Asked(s)})
      BY <1>1, <1>4, SingleIs
    <3> HIDE DEF s
    <3> QED
      BY <1>4, <3>1 DEF Single, Calls
  <2> HIDE DEF s, at
  <2>3. /\ to.stage = at.stage /\ to.stages = at.stages /\ to.kind = at.kind
        /\ to.result = at.result /\ to.pending = at.pending /\ to.started = at.started
        /\ to.words = at.words /\ to.postSent = (at.postSent \/ s.do = "post")
    BY <1>2 DEF JobType
  <2> HIDE DEF to
  <2>4. Advance(j).job = to /\ Advance(j).out = <<CommandOf(s)>>
    BY <2>1 DEF Then
  <2> QED
    BY <1>1, <1>2, <2>2, <2>3, <2>4 DEF s
<1> QED
  BY <1>3, <1>4

\* What is left of a chain is one.
LEMMA ChainTail ==
  ASSUME NEW s \in Seq(StageType), NEW kind, Chain(s, kind), s # <<>>
  PROVE  /\ Chain(Tail(s), kind)
         /\ Tail(s) = <<>> => Head(s).do = Final(kind)
         /\ Tail(s) # <<>> => Follows(kind, Head(s).do, Tail(s)[1].do)
<1> DEFINE t == Tail(s)
<1>1. /\ t \in Seq(StageType) /\ Len(t) = Len(s) - 1 /\ Len(s) \in Nat \ {0} /\ Head(s) = s[1]
      /\ \A i \in 1 .. Len(t) : i + 1 \in 1 .. Len(s) /\ t[i] = s[i + 1]
  OBVIOUS
<1> HIDE DEF t
<1>6. t = <<>> <=> Len(s) = 1
  <2>1. t = <<>> <=> Len(t) = 0
    BY <1>1, LenZero, Zenon
  <2> QED
    BY <1>1, <2>1
<1>2. \A i \in 1 .. Len(t) : i + 1 <= Len(t) => Follows(kind, t[i].do, t[i + 1].do)
  <2> SUFFICES ASSUME NEW i \in 1 .. Len(t), i + 1 <= Len(t) PROVE Follows(kind, t[i].do, t[i + 1].do)
    OBVIOUS
  <2>1. i + 1 \in 1 .. Len(s) /\ i + 2 <= Len(s) /\ t[i] = s[i + 1] /\ t[i + 1] = s[i + 2]
    BY <1>1
  <2> QED
    BY <2>1 DEF Chain
<1>3. t # <<>> => t[Len(t)].do = Final(kind)
  BY <1>1 DEF Chain
<1>4. t = <<>> => Head(s).do = Final(kind)
  BY <1>1, <1>6 DEF Chain
<1>5. t # <<>> => Follows(kind, Head(s).do, t[1].do)
  <2> SUFFICES ASSUME t # <<>> PROVE Follows(kind, Head(s).do, t[1].do)
    OBVIOUS
  <2>1. 1 \in 1 .. Len(s) /\ 1 + 1 <= Len(s) /\ t[1] = s[2] /\ Head(s) = s[1]
    BY <1>1, <1>6
  <2> QED
    BY <2>1 DEF Chain
<1> QED
  BY <1>2, <1>3, <1>4, <1>5 DEF Chain, t

\* On to the next stage of a job that runs its course.
LEMMA OnIs ==
  ASSUME NEW j, Ready(j), j.stages # <<>>, Course(j), j.pending = "none",
         j.kind = "post" /\ j.stage.do \notin {"none", "board"} => j.started
  PROVE  LET r == Advance(j) IN
         /\ r.job.pending = "none" /\ r.job.kind = j.kind /\ r.job.words = {}
         /\ r.job.stage.do # "none" /\ r.job.result = "none"
         /\ Shape(r.job) /\ Calls(r.out, r.job.stage)
         /\ Follows(j.kind, j.stage.do, r.job.stage.do)
<1> DEFINE s == Head(j.stages)
           r == Advance(j)
<1>1. j.stages \in Seq(StageType) /\ s = j.stages[1] /\ s \in StageType /\ j.kind \in Kinds
  BY DEF Ready, JobType
<1>2. Follows(j.kind, j.stage.do, s.do) /\ Chain(j.stages, j.kind)
  BY <1>1 DEF Course
<1>3. s.do \in Deeds \ {"none"}
  BY <1>1, <1>2 DEF StageType, Follows, First, Mends
<1>4. /\ r.job.stage = s /\ r.job.stages = Tail(j.stages)
      /\ r.job.kind = j.kind /\ r.job.pending = j.pending /\ r.job.started = j.started
      /\ r.job.words = {} /\ r.job.result = "none"
      /\ r.job.postSent = (j.postSent \/ s.do = "post")
      /\ Calls(r.out, s)
  BY <1>3, AdvanceDoes
<1>5. /\ Chain(Tail(j.stages), j.kind)
      /\ Tail(j.stages) = <<>> => s.do = Final(j.kind)
      /\ Tail(j.stages) # <<>> => Follows(j.kind, s.do, Tail(j.stages)[1].do)
  BY <1>1, <1>2, ChainTail
<1> HIDE DEF r, s
<1>6. Course(r.job)
  BY <1>4, <1>5 DEF Course
<1>7. j.kind = "post" /\ s.do \notin {"none", "board", "to"} => j.started
  BY <1>2 DEF Follows, First, Mends
<1>8. Shape(r.job)
  BY <1>4, <1>6, <1>7 DEF Shape
<1> QED
  BY <1>2, <1>3, <1>4, <1>8 DEF r, s

\* A job that ends early goes on to leave the editor or to clear the note.
Leaves(s) == Len(s) = 1 /\ s[1].do = "leave"
LeavesClears(s) == Len(s) = 2 /\ s[1].do = "leave" /\ s[2].do = "clear note"
\* A job that quits asks for what is left.
LEMMA QuitIs ==
  ASSUME NEW j, Ready(j), j.pending \in {"changed", "stopped", "refused", "failed"},
         j.pending = "changed" => j.kind = "send",
         \/ j.kind # "post" /\ Leaves(j.stages)
         \/ j.kind = "post" /\ j.started /\ (LeavesClears(j.stages) \/ Clears(j.stages))
  PROVE  LET r == Advance(j) IN
         /\ r.job.pending = j.pending /\ r.job.kind = j.kind /\ r.job.result = "none"
         /\ r.job.stage = j.stages[1]
         /\ Shape(r.job) /\ Calls(r.out, r.job.stage)
<1> DEFINE s == Head(j.stages)
           r == Advance(j)
<1>1. /\ j.stages \in Seq(StageType) /\ j.stages # <<>> /\ s = j.stages[1]
      /\ s.do \in {"leave", "clear note"}
  <2>1. j.stages \in Seq(StageType)
    BY DEF Ready, JobType
  <2>2. Len(j.stages) \in {1, 2} /\ j.stages[1].do \in {"leave", "clear note"}
    BY DEF Leaves, LeavesClears, Clears
  <2>3. j.stages # <<>>
    <3>1. j.stages = <<>> <=> Len(j.stages) = 0
      BY <2>1, LenZero, Zenon
    <3>2. ~ (0 \in {1, 2})
      OBVIOUS
    <3> QED
      BY <2>2, <3>1, <3>2, Zenon
  <2>4. Head(j.stages) = j.stages[1]
    BY <2>1, <2>3
  <2> QED
    BY <2>1, <2>2, <2>3, <2>4
<1>2. s.do \in Deeds \ {"none"}
  BY <1>1 DEF Deeds, Prompts
<1>3. /\ r.job.stage = s /\ r.job.stages = Tail(j.stages)
      /\ r.job.kind = j.kind /\ r.job.pending = j.pending /\ r.job.started = j.started
      /\ r.job.result = "none"
      /\ Calls(r.out, s)
  BY <1>1, <1>2, AdvanceDoes
<1>4. Quits(r.job)
  <2> DEFINE t == Tail(j.stages)
  <2>1. /\ Len(t) = Len(j.stages) - 1 /\ t \in Seq(StageType)
        /\ \A i \in 1 .. Len(t) : t[i] = j.stages[i + 1]
    BY <1>1, TailIs, Zenon
  <2> HIDE DEF t
  <2>2. LeavesClears(j.stages) => Clears(t)
    <3> SUFFICES ASSUME LeavesClears(j.stages) PROVE Clears(t)
      OBVIOUS
    <3>3. Len(t) = 2 - 1
      BY <2>1, Zenon DEF LeavesClears
    <3>1. Len(t) = 1 /\ 1 \in 1 .. Len(t)
      BY <3>3
    <3>2. t[1] = j.stages[2]
      BY <2>1, <3>1
    <3> QED
      BY <3>1, <3>2 DEF LeavesClears, Clears
  <2>3. Len(j.stages) = 1 => t = <<>>
    <3>1. t = <<>> <=> Len(t) = 0
      BY <2>1, LenZero, Zenon
    <3> QED
      BY <2>1, <3>1
  <2>4. r.job.stages = t
    BY <1>3 DEF t
  <2> HIDE DEF r, s
  <2> QED
    BY <1>1, <1>3, <2>2, <2>3, <2>4 DEF Quits, Leaves, LeavesClears, Clears
<1> HIDE DEF r
<1>5. Shape(r.job)
  BY <1>1, <1>3, <1>4 DEF Shape
<1> QED
  BY <1>1, <1>3, <1>5 DEF r

\* What a job ends early with.
LEMMA PlansAre ==
  /\ Leaves(Plan(<<"leave">>)) /\ Clears(Plan(<<"clear note">>))
  /\ LeavesClears(Plan(<<"leave", "clear note">>))
<1>1. /\ <<"leave">> \in Seq(Deeds) /\ <<"clear note">> \in Seq(Deeds)
      /\ <<"leave", "clear note">> \in Seq(Deeds)
  BY DEF Deeds, Prompts
<1>2. Leaves(Plan(<<"leave">>))
  <2>1. Len(<<"leave">>) = 1 /\ 1 \in 1 .. 1 /\ <<"leave">>[1] = "leave"
    OBVIOUS
  <2> QED
    BY <1>1, <2>1, PlanIs DEF Leaves
<1>3. Clears(Plan(<<"clear note">>))
  <2>1. Len(<<"clear note">>) = 1 /\ 1 \in 1 .. 1 /\ <<"clear note">>[1] = "clear note"
    OBVIOUS
  <2> QED
    BY <1>1, <2>1, PlanIs DEF Clears
<1>4. LeavesClears(Plan(<<"leave", "clear note">>))
  <2> DEFINE l == <<"leave", "clear note">>
  <2>1. Len(l) = 2 /\ 1 \in 1 .. 2 /\ 2 \in 1 .. 2 /\ l[1] = "leave" /\ l[2] = "clear note"
    OBVIOUS
  <2>2. l \in Seq(Deeds)
    BY <1>1
  <2> HIDE DEF l
  <2> QED
    BY <2>1, <2>2, PlanIs DEF LeavesClears, l
<1> QED
  BY <1>2, <1>3, <1>4

\* What a job of this shape ends early with.
LEMMA EndingQuits ==
  ASSUME NEW j \in JobType, j.kind \in Kinds, j.result = "none",
         NEW result \in {"changed", "stopped", "refused", "failed"},
         NEW l \in Seq(Endings),
         result = "changed" => j.kind = "send",
         \/ j.kind # "post" /\ Leaves(Plan(l))
         \/ j.kind = "post" /\ j.started /\ (LeavesClears(Plan(l)) \/ Clears(Plan(l)))
  PROVE  LET r == Ending(j, result, l) IN
         /\ r.job.pending = result /\ r.job.kind = j.kind /\ r.job.result = "none"
         /\ r.job.stage = Plan(l)[1]
         /\ Shape(r.job) /\ Calls(r.out, r.job.stage)
<1> DEFINE k == [j EXCEPT !.pending = result, !.stages = Plan(l), !.phase = "idle"]
<1>1. result \in Results
  BY DEF Results
<1>2. Ready(k) /\ Ending(j, result, l) = Advance(k)
  BY <1>1, EndingReady
<1>3. k.pending = result /\ k.kind = j.kind /\ k.stages = Plan(l) /\ k.started = j.started
  BY DEF JobType
<1> HIDE DEF k
<1>4. /\ Advance(k).job.pending = k.pending /\ Advance(k).job.kind = k.kind
      /\ Advance(k).job.result = "none" /\ Advance(k).job.stage = k.stages[1]
      /\ Shape(Advance(k).job) /\ Calls(Advance(k).out, Advance(k).job.stage)
  BY <1>2, <1>3, QuitIs
<1> QED
  BY <1>2, <1>3, <1>4

-----------------------------------------------------------------------------
(* What a job goes on to when it has its answer.                           *)

\* A mend goes before what was left, and it does not begin with leaving.
LEMMA MendChain ==
  ASSUME NEW h \in Seq(Kept), NEW s \in Seq(StageType), NEW kind, s # <<>>,
         Chain(s, kind), Follows(kind, "verify", s[1].do)
  PROVE  LET w == Mend(h) \o s IN
         w # <<>> /\ w[1].do \in Mends /\ Chain(w, kind)
<1>1. PICK a \in Seq(StageType) :
        /\ Mend(h) = a \o <<Stage("verify")>>
        /\ Are(a, {"replace", "delete", "send"})
  BY MendIs
<1> DEFINE v == <<Stage("verify")>>
           m == Mend(h)
           w == m \o s
<1>2. Stage("verify") \in StageType /\ Stage("verify").do = "verify"
  BY Numbers DEF Stage, StageType, Kept, Other, Deeds, InEdits, ShowStages
<1>3. v \in Seq(StageType) /\ Len(v) = 1 /\ v[1].do = "verify"
  BY <1>2, SeqOne
<1>4. m = a \o v
  BY <1>1
<1> HIDE DEF v, m
<1>5. /\ m \in Seq(StageType) /\ Len(m) = Len(a) + 1 /\ Len(a) \in Nat
      /\ \A i \in 1 .. Len(a) : m[i] = a[i]
      /\ m[Len(a) + 1] = v[1]
      /\ \A i \in 1 .. Len(m) : i \in 1 .. Len(a) \/ i = Len(a) + 1
  BY <1>3, <1>4, ConcatOne
<1>6. \A i \in 1 .. Len(m) : m[i].do \in Mends
  BY <1>1, <1>3, <1>5 DEF Are, Mends
<1>7. m[Len(m)].do = "verify"
  BY <1>3, <1>5
<1>8. /\ w \in Seq(StageType) /\ Joined(m, s, w)
  BY <1>5, ConcatIs, Zenon
<1> HIDE DEF w
<1>9. Len(w) = Len(m) + Len(s) /\ Len(m) \in Nat /\ Len(s) \in Nat /\ Len(m) > 0 /\ Len(s) > 0
  <2>1. Len(w) = Len(m) + Len(s) /\ Len(m) \in Nat /\ Len(s) \in Nat
    BY <1>8 DEF Joined
  <2>2. s = <<>> <=> Len(s) = 0
    BY LenZero, Zenon
  <2> QED
    BY <1>5, <2>1, <2>2
<1>10. w # <<>>
  <2>1. w = <<>> <=> Len(w) = 0
    BY <1>8, LenZero, Zenon
  <2> QED
    BY <1>9, <2>1
<1>11. w[1].do \in Mends
  <2>1. 1 \in 1 .. Len(m)
    BY <1>9
  <2>2. w[1] = m[1]
    BY <1>8, <2>1 DEF Joined
  <2> QED
    BY <1>6, <2>1, <2>2
<1>12. ASSUME NEW i \in 1 .. Len(w), i + 1 <= Len(w)
       PROVE  Follows(kind, w[i].do, w[i + 1].do)
  <2>1. CASE i < Len(m)
    <3>1. i \in 1 .. Len(m) /\ i + 1 \in 1 .. Len(m)
      BY <1>9, <2>1
    <3>2. w[i] = m[i] /\ w[i + 1] = m[i + 1]
      BY <1>8, <3>1 DEF Joined
    <3>3. w[i].do \in Mends /\ w[i + 1].do \in Mends
      BY <1>6, <3>1, <3>2
    <3> QED
      BY <3>3 DEF Follows
  <2>2. CASE i = Len(m)
    <3>1. i \in 1 .. Len(m) /\ 1 \in 1 .. Len(s) /\ i + 1 = Len(m) + 1
      BY <1>9, <2>2
    <3>2. w[i] = m[Len(m)] /\ w[i + 1] = s[1]
      BY <1>8, <2>2, <3>1 DEF Joined
    <3>3. w[i].do = "verify"
      BY <1>7, <3>2
    <3> QED
      BY <3>2, <3>3
  <2>3. CASE i > Len(m)
    <3> DEFINE k == i - Len(m)
    <3>1. k \in 1 .. Len(s) /\ k + 1 \in 1 .. Len(s) /\ k + 1 <= Len(s)
          /\ Len(m) + k = i /\ Len(m) + (k + 1) = i + 1
      BY <1>9, <1>12, <2>3
    <3> HIDE DEF k
    <3>2. w[Len(m) + k] = s[k] /\ w[Len(m) + (k + 1)] = s[k + 1]
      BY <1>8, <3>1, Zenon DEF Joined
    <3>3. Follows(kind, s[k].do, s[k + 1].do)
      BY <3>1, Zenon DEF Chain
    <3> QED
      BY <3>1, <3>2, <3>3
  <2> QED
    BY <1>9, <2>1, <2>2, <2>3
<1>13. w[Len(w)].do = Final(kind)
  <2>1. Len(s) \in 1 .. Len(s)
    BY <1>9
  <2>2. w[Len(m) + Len(s)] = s[Len(s)]
    BY <1>8, <2>1, Zenon DEF Joined
  <2> QED
    BY <1>9, <2>2 DEF Chain
<1> QED
  BY <1>10, <1>11, <1>12, <1>13 DEF Chain, w, m

\* The last stage of two chains is the one of the second.
LEMMA EndsWith ==
  ASSUME NEW j \in JobType, NEW result
  PROVE  End(j, result).job.result = result /\ End(j, result).out = <<>>
  BY DEF End, Waits, Then, JobType

\* A job in the editor runs its course.
LEMMA CourseIs ==
  ASSUME NEW j, JobForm(j), Shape(j), j.stage.do \notin {"leave", "clear note"}
  PROVE  /\ j.pending = "none" /\ Course(j)
         /\ j.kind = "post" /\ j.stage.do \notin {"none", "board", "to"} => j.started
         /\ j.stage.do # "none"
<1>1. j.stage.do # "none"
  BY DEF JobForm, AtBoard, AtOpen, InText, Leaving, Prompts, InEdits, ShowStages
<1> QED
  BY <1>1 DEF Shape, Quits

\* A job whose stages are all done is over.
LEMMA FinishCloses ==
  ASSUME NEW j \in JobType, j.kind \in Kinds, Shape(j), j.stages = <<>>,
         j.pending = "none" => j.stage.do = "leave"
  PROVE  Closing(j, Finish(j))
<1>1. Over(Finish(j))
  BY FinishOver
<1>2. CASE j.pending # "none"
  <2>1. Finish(j).job.result = j.pending
    BY <1>2, EndsWith DEF Finish
  <2>2. j.pending \in {"changed", "stopped", "refused", "failed"}
    BY <1>2 DEF Shape, Quits
  <2> QED
    BY <1>1, <1>2, <2>1, <2>2 DEF Closing
<1>3. CASE j.pending = "none"
  <2>1. j.kind = "read"
    BY <1>3, Numbers DEF Shape, Course, Final
  <2>2. Finish(j).job.result = "read"
    BY <1>3, <2>1, EndsWith DEF Finish
  <2> QED
    BY <1>1, <2>1, <2>2 DEF Closing, Bad
<1> QED
  BY <1>2, <1>3

\* A listing that comes: the job mends, goes on, or ends early.
LEMMA ShownDoes ==
  ASSUME NEW j, JobForm(j), InText(j), Shape(j), j.stage.do \in ShowStages, "listed" \in j.words
  PROVE  GoesOn(j, Shown(j)) \/ Quitting(j, Shown(j))
<1> DEFINE r == Shown(j)
<1>1. /\ Ready(j) /\ j \in JobType /\ j.kind \in Kinds /\ j.result = "none"
      /\ Inside(j.stages) /\ j.stages \in Seq(StageType) /\ j.listing \in Seq(Kept)
      /\ j.mends \in 0 .. MaxMends
  BY FormReady DEF JobForm, InText, JobType
<1>2. /\ j.pending = "none" /\ Course(j) /\ (j.kind = "post" => j.started)
  BY CourseIs DEF ShowStages
<1>3. j.stages # <<>>
  BY <1>1, InsideHead
<1>4. /\ Asked(j.stage) = "show" /\ Telling(j.words)
      /\ j.stage.do \notin {"to", "subject", "board", "readback", "post", "clear note"}
  BY DEF Asked, Telling, Tells, ShowStages
<1>5. ASSUME j.stage.do = "verify" => j.listing = Meant
      PROVE  GoesOn(j, Advance(j))
  <2>1. LET q == Advance(j) IN
         /\ q.job.pending = "none" /\ q.job.kind = j.kind /\ q.job.words = {}
         /\ q.job.stage.do # "none" /\ q.job.result = "none"
         /\ Shape(q.job) /\ Calls(q.out, q.job.stage)
         /\ Follows(j.kind, j.stage.do, q.job.stage.do)
    BY <1>1, <1>2, <1>3, OnIs
  <2> QED
    BY <1>2, <1>4, <1>5, <2>1 DEF GoesOn
<1>6. ASSUME NEW result \in {"changed", "failed"}, NEW l \in Seq(Endings),
             result = "changed" => j.kind = "send" /\ j.stage.do = "base" /\ j.listing # <<>>,
             \/ j.kind # "post" /\ Leaves(Plan(l))
             \/ j.kind = "post" /\ LeavesClears(Plan(l))
      PROVE  Quitting(j, Ending(j, result, l))
  <2>1. LET q == Ending(j, result, l) IN
         /\ q.job.pending = result /\ q.job.kind = j.kind /\ q.job.result = "none"
         /\ Shape(q.job) /\ Calls(q.out, q.job.stage)
    BY <1>1, <1>2, <1>6, EndingQuits
  <2> QED
    BY <1>2, <1>4, <1>6, <2>1 DEF Quitting
<1>7. CASE j.stage.do = "show"
  <2>1. r = Advance(j)
    BY <1>7 DEF Shown
  <2> QED
    BY <1>5, <1>7, <2>1
<1>8. CASE j.stage.do = "base"
  <2>1. r = IF j.listing = <<>> THEN Advance(j) ELSE Ending(j, "changed", <<"leave">>)
    BY <1>8 DEF Shown
  <2>2. j.kind = "send"
    BY <1>2, <1>3, <1>8 DEF Course, Follows, Mends
  <2> QED
    BY <1>5, <1>6, <1>8, <2>1, <2>2, PlansEnd, PlansAre
<1>9. CASE j.stage.do = "verify"
  <2> DEFINE k == [j EXCEPT !.mends = @ + 1, !.from = Len(j.listing) + 1,
                            !.stages = Mend(j.listing) \o @]
  <2>1. r = IF j.listing = Meant THEN Advance(j)
            ELSE IF j.mends = MaxMends THEN FailInEditor(j, "failed")
            ELSE Advance(k)
    BY <1>9 DEF Shown
  <2>2. Quitting(j, FailInEditor(j, "failed"))
    <3>1. CASE j.kind = "post"
      <4>1. FailInEditor(j, "failed") = Ending(j, "failed", <<"leave", "clear note">>)
        BY <3>1 DEF FailInEditor
      <4> QED
        BY <1>6, <3>1, <4>1, PlansEnd, PlansAre
    <3>2. CASE j.kind # "post"
      <4>1. FailInEditor(j, "failed") = Ending(j, "failed", <<"leave">>)
        BY <3>2 DEF FailInEditor
      <4> QED
        BY <1>6, <3>2, <4>1, PlansEnd, PlansAre
    <3> QED
      BY <3>1, <3>2
  <2>3. ASSUME j.mends # MaxMends PROVE GoesOn(j, Advance(k))
    <3> DEFINE h == j.listing
               s == Mend(h) \o j.stages
               n == Len(h) + 1
    <3>1. ~ Sends(j.stages)
      BY <1>9 DEF JobForm, Resends
    <3>2. /\ s \in Seq(StageType) /\ SendsFirst(s)
          /\ Sends(s) => Len(h) < Lines
      BY <1>1, <3>1, MendForm
    <3>3. s # <<>> /\ s[1].do \in Mends /\ Chain(s, j.kind)
      <4>1. Chain(j.stages, j.kind) /\ Follows(j.kind, "verify", j.stages[1].do)
        BY <1>2, <1>3, <1>9 DEF Course
      <4> QED
        BY <1>1, <1>3, <4>1, MendChain
    <3>4. n \in Nat \ {0} /\ (Sends(s) => n \in 1 .. Lines + 1)
      BY <1>1, <3>2, Numbers
    <3>5. j.mends + 1 \in 0 .. MaxMends
      BY <1>1, <2>3 DEF MaxMends
    <3>6. k = [j EXCEPT !.mends = @ + 1, !.from = n, !.stages = s]
      OBVIOUS
    <3> HIDE DEF s, n, h, k
    <3>7. /\ k \in JobType /\ k.kind = j.kind /\ k.result = j.result /\ k.stages = s
          /\ k.from = n /\ k.pending = j.pending /\ k.stage = j.stage /\ k.started = j.started
      BY <1>1, <3>2, <3>4, <3>5, <3>6 DEF JobType
    <3>8. Ready(k)
      BY <1>1, <3>2, <3>4, <3>7 DEF Ready
    <3>9. Course(k)
      <4>1. Follows(j.kind, "verify", s[1].do)
        BY <3>3 DEF Follows, Mends
      <4> QED
        BY <1>9, <3>3, <3>7, <4>1 DEF Course
    <3>10. LET q == Advance(k) IN
           /\ q.job.pending = "none" /\ q.job.kind = k.kind /\ q.job.words = {}
           /\ q.job.stage.do # "none" /\ q.job.result = "none"
           /\ Shape(q.job) /\ Calls(q.out, q.job.stage)
           /\ Follows(k.kind, k.stage.do, q.job.stage.do)
      BY <1>2, <3>3, <3>7, <3>8, <3>9, OnIs
    <3>11. Advance(k).job.stage.do \in Mends
      <4>1. Head(k.stages) = s[1] /\ s[1].do \in Deeds \ {"none"}
        BY <3>2, <3>3, <3>7 DEF Mends, Deeds, InEdits, ShowStages
      <4>2. Advance(k).job.stage = Head(k.stages)
        BY <3>3, <3>7, <3>8, <4>1, AdvanceDoes
      <4> QED
        BY <3>3, <4>1, <4>2
    <3>12. Advance(k).job.stage.do # "leave"
      BY <3>11 DEF Mends
    <3> QED
      BY <1>2, <1>4, <3>7, <3>10, <3>12 DEF GoesOn
  <2> HIDE DEF k, r
  <2>4. GoesOn(j, r) \/ Quitting(j, r)
    BY <1>5, <2>1, <2>2, <2>3, Zenon
  <2> QED
    BY <2>4 DEF r
<1> QED
  BY <1>7, <1>8, <1>9 DEF ShowStages

-----------------------------------------------------------------------------
(* What each answer comes to.                                              *)

\* An answer of the editor.
LEMMA EditorAnsweredDoes ==
  ASSUME NEW j, JobForm(j), j.phase = "editor", Shape(j)
  PROVE  Fares(j, EditorAnswered(j))
<1> DEFINE r == EditorAnswered(j)
<1>1. /\ Ready(j) /\ j \in JobType /\ j.kind \in Kinds /\ j.result = "none"
      /\ j.stages \in Seq(StageType)
  BY FormReady DEF JobForm, JobType
<1>2. AtOpen(j) \/ InText(j)
  BY EditorAnsweredIs
<1>3. /\ Inside(j.stages) /\ j.stages # <<>>
      /\ j.stage.do \in {"open"} \cup (InEdits \ {"send"})
  BY <1>1, <1>2, InsideHead DEF AtOpen, InText
<1>4. /\ j.pending = "none" /\ Course(j) /\ (j.kind = "post" => j.started)
      /\ j.stage.do \notin {"board", "to", "subject", "leave", "readback", "post", "clear note"}
  BY <1>3, CourseIs DEF InEdits, ShowStages
<1>5. ASSUME NEW k, Ready(k), k.stages = j.stages, k.stage = j.stage, k.kind = j.kind,
             k.pending = j.pending, k.started = j.started, j.stage.do \notin ShowStages
      PROVE  GoesOn(j, Advance(k))
  <2>1. Course(k)
    BY <1>4, <1>5 DEF Course
  <2>2. LET q == Advance(k) IN
         /\ q.job.pending = "none" /\ q.job.kind = k.kind /\ q.job.words = {}
         /\ q.job.stage.do # "none" /\ q.job.result = "none"
         /\ Shape(q.job) /\ Calls(q.out, q.job.stage)
         /\ Follows(k.kind, k.stage.do, q.job.stage.do)
    BY <1>3, <1>4, <1>5, <2>1, OnIs
  <2>3. Asked(j.stage) \notin Tellers /\ j.stage.do \notin Rereads /\ j.stage.do # "verify"
    BY <1>3, <1>4, <1>5 DEF Asked, Tellers, Rereads, InEdits, ShowStages
  <2> QED
    BY <1>4, <1>5, <2>2, <2>3 DEF GoesOn
<1>6. Idles(j, Waits(j))
  <2>1. <<>> \in Seq(LineType) /\ ~Has(<<>>, But({"text"}))
    BY HasNone
  <2> QED
    BY <2>1 DEF Idles, Waits, Then
<1>7. CASE j.stage.do = "open"
  <2> DEFINE k == [j EXCEPT !.inEditor = TRUE]
  <2>1. r = IF "banner" \in j.words THEN Advance(k) ELSE End(j, "busy")
    BY <1>7 DEF EditorAnswered, ShowStages
  <2>2. /\ k \in JobType /\ k.kind = j.kind /\ k.result = j.result /\ k.stages = j.stages
        /\ k.from = j.from /\ k.stage = j.stage /\ k.pending = j.pending /\ k.started = j.started
    BY <1>1 DEF JobType
  <2> HIDE DEF k
  <2>3. Ready(k)
    BY <1>1, <2>2 DEF Ready
  <2>4. GoesOn(j, Advance(k))
    BY <1>5, <1>7, <2>2, <2>3 DEF ShowStages
  <2>5. Closing(j, End(j, "busy"))
    <3>1. "busy" \in Results \ {"none"}
      BY DEF Results
    <3>2. Over(End(j, "busy")) /\ End(j, "busy").job.result = "busy"
      BY <1>1, <3>1, EndOver, EndsWith
    <3> QED
      BY <3>2 DEF Closing, Bad, Abandons
  <2> QED
    BY <2>1, <2>4, <2>5 DEF Fares
<1>8. CASE j.stage.do \in ShowStages
  <2>1. r = IF "listed" \in j.words THEN Shown(j) ELSE Waits(j)
    BY <1>8 DEF EditorAnswered, ShowStages
  <2>2. InText(j)
    BY <1>2, <1>8 DEF AtOpen, ShowStages
  <2>3. "listed" \in j.words => GoesOn(j, Shown(j)) \/ Quitting(j, Shown(j))
    BY <1>8, <2>2, ShownDoes
  <2> QED
    BY <1>6, <2>1, <2>3 DEF Fares
<1>9. CASE j.stage.do # "open" /\ j.stage.do \notin ShowStages
  <2>1. r = IF j.stage.do = "clear" /\ "cleared" \notin j.words THEN Waits(j) ELSE Advance(j)
    BY <1>9 DEF EditorAnswered
  <2>2. GoesOn(j, Advance(j))
    BY <1>1, <1>5, <1>9
  <2> QED
    BY <1>6, <2>1, <2>2 DEF Fares
<1> QED
  BY <1>7, <1>8, <1>9

\* A note the card began goes with its clear, and a job of another kind ends.
LEMMA ClearThenDoes ==
  ASSUME NEW j, JobForm(j), Shape(j), NEW k \in JobType, k.kind = j.kind, k.result = "none",
         k.started = j.started, NEW result \in {"failed", "refused"},
         j.stage.do \in {"subject", "readback", "post"},
         j.stage.do = "post" => j.words # {} /\ "ok" \notin j.words
  PROVE  Fares(j, ClearThen(k, result))
<1>1. j.kind \in Kinds
  BY DEF JobForm
<1>2. j.pending = "none" /\ (j.kind = "post" => j.started)
  BY CourseIs
<1>3. CASE j.kind = "post"
  <2>1. ClearThen(k, result) = Ending(k, result, <<"clear note">>)
    BY <1>3 DEF ClearThen
  <2>2. LET r == Ending(k, result, <<"clear note">>) IN
        /\ r.job.pending = result /\ r.job.kind = k.kind /\ r.job.result = "none"
        /\ r.job.stage = Plan(<<"clear note">>)[1]
        /\ Shape(r.job) /\ Calls(r.out, r.job.stage)
    <3>1. result \in {"changed", "stopped", "refused", "failed"} /\ result # "changed"
      OBVIOUS
    <3> DEFINE l == <<"clear note">>
    <3>2. l \in Seq(Endings) /\ Clears(Plan(l))
      BY PlansEnd, PlansAre
    <3>3. k.kind \in Kinds /\ k.kind = "post" /\ k.started
      BY <1>1, <1>2, <1>3
    <3> HIDE DEF l
    <3>4. LET r == Ending(k, result, l) IN
        /\ r.job.pending = result /\ r.job.kind = k.kind /\ r.job.result = "none"
        /\ r.job.stage = Plan(l)[1]
        /\ Shape(r.job) /\ Calls(r.out, r.job.stage)
      BY <3>1, <3>2, <3>3, EndingQuits
    <3> QED
      BY <3>4 DEF l
  <2>3. Plan(<<"clear note">>)[1].do = "clear note"
    BY PlansAre DEF Clears
  <2>4. result # "none" /\ result # "changed"
    OBVIOUS
  <2> QED
    BY <2>1, <2>2, <2>3, <2>4 DEF Fares, Quitting
<1>4. CASE j.kind # "post"
  <2>1. ClearThen(k, result) = End(k, result)
    BY <1>4 DEF ClearThen
  <2>2. result \in Results \ {"none"}
    BY DEF Results
  <2>3. Over(End(k, result)) /\ End(k, result).job.result = result
    BY <2>2, EndOver, EndsWith
  <2> QED
    BY <1>4, <2>1, <2>3 DEF Fares, Closing
<1> QED
  BY <1>3, <1>4

\* An answer at the prompt.
LEMMA AnsweredDoes ==
  ASSUME NEW j, JobForm(j), j.phase = "tick", Shape(j),
         j.stage.do # "leave" => j.words # {}
  PROVE  Fares(j, Answered(j))
<1> DEFINE r == Answered(j)
<1>1. /\ Ready(j) /\ j \in JobType /\ j.kind \in Kinds /\ j.result = "none"
      /\ j.stages \in Seq(StageType) /\ j.stage.do \in Prompts \cup {"leave"}
  BY FormReady DEF JobForm, JobType, AtBoard, AtOpen, InText, Leaving
<1>2. j.stage.do \notin {"leave", "clear note"} =>
        /\ j.pending = "none" /\ Course(j)
        /\ j.kind = "post" /\ j.stage.do \notin {"board", "to"} => j.started
  BY CourseIs
<1>3. ASSUME NEW k, Ready(k), k.stages = j.stages, k.stage = j.stage, k.kind = j.kind,
             k.pending = j.pending, j.pending = "none", Course(j), j.stages # <<>>,
             k.kind = "post" /\ k.stage.do # "board" => k.started,
             Asked(j.stage) \in Tellers => Telling(j.words),
             j.stage.do \in {"to", "subject"} => "ok" \in j.words,
             j.stage.do = "board" => "no note" \in j.words,
             j.stage.do = "readback" => "listed" \in j.words /\ j.listing = Meant
      PROVE  GoesOn(j, Advance(k))
  <2>1. Course(k)
    BY <1>3 DEF Course
  <2>2. LET q == Advance(k) IN
         /\ q.job.pending = "none" /\ q.job.kind = k.kind /\ q.job.words = {}
         /\ q.job.stage.do # "none" /\ q.job.result = "none"
         /\ Shape(q.job) /\ Calls(q.out, q.job.stage)
         /\ Follows(k.kind, k.stage.do, q.job.stage.do)
    BY <1>3, <2>1, OnIs
  <2>3. j.stage.do \notin ShowStages
    BY <1>1 DEF Prompts, ShowStages
  <2> QED
    BY <1>3, <2>2, <2>3 DEF GoesOn, Rereads, ShowStages
<1>4. ASSUME NEW result \in Results \ {"none"}
      PROVE  Over(End(j, result)) /\ End(j, result).job.result = result
  BY <1>1, EndOver, EndsWith
<1>5. /\ j.stage.do \in {"board", "to", "subject", "readback"} => j.stages # <<>> \/ j.kind = "send"
      /\ j.stage.do \in {"board", "to", "subject"} => j.stages # <<>>
      /\ j.stage.do = "readback" /\ j.kind # "send" => j.stages # <<>>
  BY <1>2 DEF Course, Final
<1>6. Asked(j.stage) = j.stage.do
  BY <1>1 DEF Asked, Prompts, ShowStages
<1>7. CASE j.stage.do = "leave"
  <2>1. r = Advance(j)
    BY <1>7 DEF Answered
  <2>2. CASE j.stages = <<>>
    <3>1. r = Finish(j)
      BY <2>1, <2>2 DEF Advance
    <3> QED
      BY <1>1, <1>7, <2>2, <3>1, FinishCloses DEF Fares
  <2>3. CASE j.stages # <<>> /\ j.pending = "none"
    <3>1. Course(j) /\ (j.kind = "post" => j.started)
      BY <1>7, <2>3 DEF Shape
    <3>2. GoesOn(j, Advance(j))
      BY <1>1, <1>3, <1>6, <1>7, <2>3, <3>1 DEF Tellers
    <3> QED
      BY <2>1, <3>2 DEF Fares
  <2>4. CASE j.stages # <<>> /\ j.pending # "none"
    <3>1. j.pending \in {"changed", "stopped", "refused", "failed"} /\ (j.pending = "changed" => j.kind = "send")
          /\ j.kind = "post" /\ Clears(j.stages) /\ j.started
      BY <1>7, <2>4 DEF Shape, Quits
    <3>2. LET q == Advance(j) IN
         /\ q.job.pending = j.pending /\ q.job.kind = j.kind /\ q.job.result = "none"
         /\ q.job.stage = j.stages[1]
         /\ Shape(q.job) /\ Calls(q.out, q.job.stage)
      BY <1>1, <3>1, QuitIs
    <3>3. Quitting(j, Advance(j))
      BY <1>7, <2>4, <3>1, <3>2 DEF Quitting
    <3> QED
      BY <2>1, <3>3 DEF Fares
  <2> QED
    BY <2>2, <2>3, <2>4
<1>8. CASE j.stage.do = "board"
  <2>1. r = IF "no note" \in j.words THEN Advance(j)
            ELSE End(j, IF "listed" \in j.words THEN "same note" ELSE "failed")
    BY <1>8 DEF Answered
  <2>2. "no note" \in j.words => GoesOn(j, Advance(j))
    BY <1>1, <1>2, <1>3, <1>5, <1>8 DEF Telling, Tells
  <2>3. ASSUME NEW result \in {"same note", "failed"} PROVE Closing(j, End(j, result))
    <3>1. result \in Results \ {"none"}
      BY DEF Results
    <3> QED
      BY <1>4, <1>8, <3>1 DEF Closing
  <2> QED
    BY <2>1, <2>2, <2>3 DEF Fares
<1>9. CASE j.stage.do = "to"
  <2> DEFINE k == [j EXCEPT !.started = TRUE]
  <2>1. r = IF "ok" \in j.words THEN Advance(k) ELSE End(j, "refused")
    BY <1>9 DEF Answered
  <2>2. /\ k \in JobType /\ k.kind = j.kind /\ k.result = j.result /\ k.stages = j.stages
        /\ k.from = j.from /\ k.stage = j.stage /\ k.pending = j.pending /\ k.started = TRUE
    BY <1>1 DEF JobType
  <2> HIDE DEF k
  <2>3. Ready(k)
    BY <1>1, <2>2 DEF Ready
  <2>4. "ok" \in j.words => GoesOn(j, Advance(k))
    BY <1>2, <1>3, <1>5, <1>9, <2>2, <2>3 DEF Telling, Tells
  <2>5. "ok" \notin j.words => Closing(j, End(j, "refused"))
    <3>1. "refused" \in Results \ {"none"}
      BY DEF Results
    <3> QED
      BY <1>4, <1>9, <3>1 DEF Closing
  <2> QED
    BY <2>1, <2>4, <2>5 DEF Fares
<1>10. CASE j.stage.do = "subject"
  <2>1. r = IF "ok" \in j.words THEN Advance(j) ELSE ClearThen(j, "refused")
    BY <1>10 DEF Answered
  <2>2. "ok" \in j.words => GoesOn(j, Advance(j))
    BY <1>1, <1>2, <1>3, <1>5, <1>10 DEF Telling, Tells
  <2>3. Fares(j, ClearThen(j, "refused"))
    BY <1>1, <1>10, ClearThenDoes
  <2> QED
    BY <2>1, <2>2, <2>3 DEF Fares
<1>11. CASE j.stage.do = "readback"
  <2>1. r = IF j.kind = "send" THEN End(j, "send")
            ELSE IF "listed" \in j.words /\ j.listing = Meant THEN Advance(j)
            ELSE ClearThen(j, "failed")
    BY <1>11 DEF Answered
  <2>2. j.kind = "send" => Closing(j, End(j, "send"))
    <3>1. "send" \in Results \ {"none"}
      BY DEF Results
    <3> QED
      BY <1>2, <1>4, <1>11, <3>1 DEF Closing, Bad
  <2>3. j.kind # "send" /\ "listed" \in j.words /\ j.listing = Meant => GoesOn(j, Advance(j))
    BY <1>1, <1>2, <1>3, <1>5, <1>11 DEF Telling, Tells
  <2>4. Fares(j, ClearThen(j, "failed"))
    BY <1>1, <1>11, ClearThenDoes
  <2> QED
    BY <2>1, <2>2, <2>3, <2>4 DEF Fares
<1>12. CASE j.stage.do = "post"
  <2> DEFINE k == [j EXCEPT !.postSent = FALSE]
  <2>1. r = IF "ok" \in j.words THEN End(j, "posted") ELSE ClearThen(k, "refused")
    BY <1>12 DEF Answered
  <2>2. k \in JobType /\ k.kind = j.kind /\ k.result = j.result /\ k.started = j.started
    BY <1>1 DEF JobType
  <2> HIDE DEF k
  <2>3. "ok" \notin j.words => Fares(j, ClearThen(k, "refused"))
    BY <1>1, <1>12, <2>2, ClearThenDoes
  <2>4. "ok" \in j.words => Closing(j, End(j, "posted"))
    <3>1. "posted" \in Results \ {"none"}
      BY DEF Results
    <3> QED
      BY <1>4, <1>12, <3>1 DEF Closing, Bad
  <2> QED
    BY <2>1, <2>3, <2>4 DEF Fares
<1>13. CASE j.stage.do = "clear note"
  <2>1. r = Finish(j)
    BY <1>13 DEF Answered
  <2>2. j.pending # "none"
    BY <1>13 DEF Shape, Course, Final, Follows, Mends
  <2>3. j.stages = <<>>
    BY <1>13, <2>2 DEF Shape, Quits
  <2> QED
    BY <1>1, <2>1, <2>2, <2>3, FinishCloses DEF Fares
<1> QED
  BY <1>1, <1>7, <1>8, <1>9, <1>10, <1>11, <1>12, <1>13 DEF Prompts

-----------------------------------------------------------------------------
(* What a tick, a read, a stop and a beginning come to.                    *)

\* A job that waits stays as it is.
LEMMA WaitsIdles == ASSUME NEW j PROVE Idles(j, Waits(j))
<1>1. <<>> \in Seq(LineType) /\ ~Has(<<>>, But({"text"}))
  BY HasNone
<1> QED
  BY <1>1 DEF Idles, Waits, Then

\* A job reads of another what a step comes to, where the two have the same
\* stages, kind and words.
Same(j, k) ==
    /\ k.stage = j.stage /\ k.stages = j.stages /\ k.kind = j.kind /\ k.pending = j.pending
    /\ k.started = j.started /\ k.postSent = j.postSent /\ k.result = j.result
    /\ k.words = j.words /\ k.listing = j.listing

LEMMA SameFares ==
  ASSUME NEW j, NEW k, Same(j, k), NEW r, Fares(k, r)
  PROVE  Fares(j, r)
<1>1. ASSUME GoesOn(k, r) PROVE GoesOn(j, r)
  <2>1. /\ k.stage = j.stage /\ k.kind = j.kind /\ k.pending = j.pending
        /\ k.words = j.words /\ k.listing = j.listing
    BY DEF Same
  <2>2. /\ Follows(j.kind, j.stage.do, r.job.stage.do)
        /\ Asked(j.stage) \in Tellers => Telling(j.words)
    BY <1>1, <2>1, Zenon DEF GoesOn
  <2>3. /\ k.stage.do \in {"to", "subject"} => "ok" \in k.words
        /\ k.stage.do = "board" => "no note" \in k.words
        /\ k.stage.do \in Rereads => "listed" \in k.words
        /\ k.stage.do = "verify" /\ r.job.stage.do = "leave" => k.listing = Meant
        /\ k.stage.do = "readback" => k.listing = Meant
    BY <1>1, Zenon DEF GoesOn
  <2>4. /\ k.pending = "none" /\ r.job.pending = "none" /\ r.job.kind = k.kind
        /\ r.job.words = {} /\ r.job.stage.do # "none" /\ r.job.result = "none"
        /\ Shape(r.job) /\ Calls(r.out, r.job.stage)
    BY <1>1, Zenon DEF GoesOn
  <2>5. /\ j.stage.do \in {"to", "subject"} => "ok" \in j.words
        /\ j.stage.do = "board" => "no note" \in j.words
        /\ j.stage.do \in Rereads => "listed" \in j.words
        /\ j.stage.do = "verify" /\ r.job.stage.do = "leave" => j.listing = Meant
        /\ j.stage.do = "readback" => j.listing = Meant
    BY <2>1, <2>3
  <2>6. /\ j.pending = "none" /\ r.job.pending = "none" /\ r.job.kind = j.kind
        /\ r.job.words = {} /\ r.job.stage.do # "none" /\ r.job.result = "none"
        /\ Shape(r.job) /\ Calls(r.out, r.job.stage)
    BY <2>1, <2>4
  <2> QED
    BY <2>2, <2>5, <2>6, Zenon DEF GoesOn
<1>2. Quitting(k, r) => Quitting(j, r)
  BY DEF Same, Quitting
<1>3. Closing(k, r) => Closing(j, r)
  BY DEF Same, Closing
<1>4. Idles(k, r) => Idles(j, r)
  BY DEF Same, Idles
<1> QED
  BY <1>1, <1>2, <1>3, <1>4 DEF Fares

LEMMA SameShape ==
  ASSUME NEW j, NEW k, k.stage = j.stage, k.stages = j.stages, k.kind = j.kind,
         k.pending = j.pending, k.started = j.started, k.postSent = j.postSent
  PROVE  Shape(j) => Shape(k)
BY DEF Shape, Course, Quits

\* One that ends with no clear of the note.
LEMMA EndCloses ==
  ASSUME NEW j, NEW k \in JobType,
         NEW result \in Abandons
  PROVE  Closing(j, End(k, result))
<1>1. result \in Results \ {"none"}
  BY DEF Results, Abandons
<1>2. Over(End(k, result)) /\ End(k, result).job.result = result
  BY <1>1, EndOver, EndsWith
<1> QED
  BY <1>2 DEF Closing, Bad, Abandons

\* A tick of the job comes to one of the four.
LEMMA JobTickDoes ==
  ASSUME NEW j, JobForm(j), Shape(j)
  PROVE  Fares(j, JobTick(j))
<1> DEFINE k == [j EXCEPT !.inEditor = FALSE]
<1>1. j \in JobType /\ j.phase \in {"tick", "editor", "sending"}
  BY DEF JobForm, AtBoard, AtOpen, InText, Leaving
<1>2. k \in JobType /\ Same(j, k) /\ k.phase = j.phase /\ k.from = j.from /\ k.inEditor = FALSE
  BY <1>1 DEF JobType, Same
<1> HIDE DEF k
<1>3. CASE j.phase = "tick"
  <2>1. JobTick(j) = IF StillWaits(j) THEN Waits(j) ELSE Answered(k)
    BY <1>3 DEF JobTick, k
  <2>2. CASE StillWaits(j)
    <3>1. JobTick(j) = Waits(j)
      BY <2>1, <2>2
    <3> QED
      BY <3>1, WaitsIdles DEF Fares
  <2>3. CASE ~ StillWaits(j)
    <3>1. ~ j.inEditor
      BY <1>3 DEF JobForm, AtBoard, AtOpen, InText, Leaving
    <3>2. Alike(j, k)
      BY <1>1, <1>2, <3>1 DEF Alike, Same, JobType
    <3>3. JobForm(k)
      BY <1>2, <3>2, FormKept
    <3>4. Shape(k)
      BY <1>2, SameShape DEF Same
    <3>5. k.stage.do # "leave" => k.words # {}
      BY <1>2, <1>3, <2>3 DEF StillWaits, Same
    <3>6. Fares(k, Answered(k))
      BY <1>2, <1>3, <3>3, <3>4, <3>5, AnsweredDoes
    <3>7. JobTick(j) = Answered(k)
      BY <2>1, <2>3
    <3> QED
      BY <1>2, <3>6, <3>7, SameFares
  <2> QED
    BY <2>2, <2>3
<1>4. CASE j.phase \in {"editor", "sending"}
  <2>1. JobTick(j) = End(k, "no editor") \/ JobTick(j) = End(k, "closed")
    BY <1>4 DEF JobTick, k
  <2>2. Closing(j, End(k, "no editor")) /\ Closing(j, End(k, "closed"))
    BY <1>2, EndCloses DEF Abandons
  <2> QED
    BY <2>1, <2>2 DEF Fares
<1> QED
  BY <1>1, <1>3, <1>4

\* More lines of the text, or the next stage after them.
LEMMA PumpDoes ==
  ASSUME NEW j, JobForm(j), j.phase = "sending", Shape(j), NEW f \in 0 .. InFlight
  PROVE  Fares(j, Pump([j EXCEPT !.flight = f]))
<1> DEFINE k == [j EXCEPT !.flight = f]
           i == [k EXCEPT !.phase = "idle"]
<1>1. j \in JobType /\ j.stage.do = "send" /\ j.kind \in Kinds /\ Ready(j) /\ Inside(j.stages)
  BY FormReady DEF JobForm, AtBoard, AtOpen, InText, Leaving
<1>2. k \in JobType /\ Same(j, k) /\ k.from = j.from
  BY <1>1 DEF JobType, Same
<1>3. i \in JobType /\ Same(j, i) /\ i.from = j.from
  BY <1>1 DEF JobType, Same
<1>4. Pump(k) = IF k.next > Lines /\ k.flight = 0 THEN Advance(i) ELSE Pumped(k)
  BY DEF Pump
<1> HIDE DEF i, k
<1>5. Idles(j, Pumped(k))
  <2>1. LET r == Pumped(k) IN
         /\ r.job.stage = k.stage /\ r.job.stages = k.stages /\ r.job.kind = k.kind
         /\ r.job.pending = k.pending /\ r.job.started = k.started /\ r.job.result = k.result
         /\ r.job.postSent = k.postSent /\ r.job.words = k.words /\ r.job.listing = k.listing
         /\ r.out \in Seq(LineType) /\ ~Has(r.out, But({"text"}))
    BY <1>2, PumpedDoes
  <2> QED
    BY <1>1, <1>2, <2>1 DEF Idles, Same
<1>6. GoesOn(i, Advance(i))
  <2>1. j.pending = "none" /\ Course(j) /\ (j.kind = "post" => j.started)
    BY <1>1, CourseIs
  <2>2. i.stages # <<>>
    BY <1>1, <1>3, InsideHead DEF Same, JobType
  <2>3. Ready(i)
    BY <1>1, <1>3 DEF Ready, Same
  <2>4. Course(i) /\ i.pending = "none" /\ (i.kind = "post" => i.started) /\ i.stage.do = "send"
    BY <1>1, <1>3, <2>1 DEF Course, Same
  <2>5. LET r == Advance(i) IN
         /\ r.job.pending = "none" /\ r.job.kind = i.kind /\ r.job.words = {}
         /\ r.job.stage.do # "none" /\ r.job.result = "none"
         /\ Shape(r.job) /\ Calls(r.out, r.job.stage)
         /\ Follows(i.kind, i.stage.do, r.job.stage.do)
    BY <2>2, <2>3, <2>4, OnIs
  <2>6. Asked(i.stage) \notin Tellers /\ i.stage.do \notin Rereads
    BY <2>4 DEF Asked, Tellers, Rereads, ShowStages
  <2> QED
    BY <2>4, <2>5, <2>6 DEF GoesOn
<1>7. Fares(j, Advance(i))
  BY <1>3, <1>6, SameFares DEF Fares
<1>8. Fares(j, Pump(k))
  BY <1>4, <1>5, <1>7 DEF Fares
<1> QED
  BY <1>8 DEF k

\* A read comes to one of the four.
LEMMA ReadsDoes ==
  ASSUME NEW j, JobForm(j), Shape(j), NEW r \in ReadType, NEW lone \in Nat
  PROVE  LET k == Gathers(j, r) IN
         /\ JobForm(k) /\ Shape(k) /\ Fares(k, JobReads(j, r, lone))
<1> DEFINE k == Gathers(j, r)
           q == JobReads(j, r, lone)
<1>1. k \in JobType /\ Alike(j, k)
  BY GathersIs
<1>2. JobForm(k) /\ j \in JobType
  BY <1>1, FormKept DEF JobForm
<1>3. /\ k.pending = j.pending /\ k.started = j.started /\ k.postSent = j.postSent
      /\ j.phase \notin {"tick", "editor"} => k = j
  BY <1>2 DEF Gathers, JobType
<1>4. Shape(k)
  BY <1>1, <1>3, SameShape DEF Alike
<1>5. Fares(k, q)
  <2>1. CASE "too long" \in r.words /\ j.inEditor
    <3> DEFINE i == [j EXCEPT !.inEditor = FALSE]
    <3>1. q = End(i, "too long")
      BY <2>1 DEF JobReads
    <3>2. i \in JobType
      BY <1>2 DEF JobType
    <3> HIDE DEF i, k, q
    <3>3. Closing(k, End(i, "too long"))
      BY <3>2, EndCloses DEF Abandons
    <3> QED
      BY <3>1, <3>3 DEF Fares
  <2>2. CASE ~("too long" \in r.words /\ j.inEditor) /\ j.phase = "sending"
    <3> DEFINE f == IF lone < j.flight THEN j.flight - lone ELSE 0
    <3>1. q = Pump([j EXCEPT !.flight = f])
      BY <2>2 DEF JobReads
    <3>2. f \in 0 .. InFlight
      BY <1>2 DEF JobType, InFlight
    <3> HIDE DEF f, k, q
    <3>3. Fares(j, q)
      BY <2>2, <3>1, <3>2, PumpDoes
    <3> QED
      BY <1>3, <2>2, <3>3
  <2>3. CASE ~("too long" \in r.words /\ j.inEditor) /\ j.phase # "sending"
    <3>1. (q = EditorAnswered(k) /\ j.phase = "editor") \/ q = Waits(k)
      BY <2>3 DEF JobReads
    <3> HIDE DEF k, q
    <3>2. j.phase = "editor" => Fares(k, EditorAnswered(k))
      BY <1>1, <1>2, <1>4, EditorAnsweredDoes DEF Alike
    <3>3. Fares(k, Waits(k))
      BY WaitsIdles DEF Fares
    <3> QED
      BY <3>1, <3>2, <3>3
  <2> QED
    BY <2>1, <2>2, <2>3
<1> QED
  BY <1>2, <1>4, <1>5

\* A stop ends the job or begins to; one that comes as the note begins may
\* leave it.
LEMMA StoppedDoes ==
  ASSUME NEW j, JobForm(j), Shape(j), ~j.postSent
  PROVE  LET r == Stopped(j) IN
         \/ Quitting(j, r) \/ Closing(j, r)
         \/ j.stage.do = "to" /\ Over(r) /\ r.job.result = "stopped"
<1> DEFINE r == Stopped(j)
           s == StopStages(j)
<1>1. j \in JobType /\ j.kind \in Kinds /\ j.result = "none"
  BY DEF JobForm
<1>2. j.stage.do # "post"
  BY DEF Shape
<1>3. InText(j) <=> j.inEditor
  BY DEF JobForm, AtBoard, AtOpen, InText, Leaving
<1>4. j.kind = "post" /\ j.stage.do \notin {"none", "board", "to"} => j.started
  BY DEF Shape
<1>5. j.inEditor => j.stage.do \in InEdits
  BY <1>3 DEF InText, InEdits
<1>6. j.stage.do # "none"
  BY DEF JobForm, AtBoard, AtOpen, InText, Leaving, Prompts, InEdits, ShowStages
<1>7. ASSUME NEW l \in Seq(Endings), r = Ending(j, "stopped", l),
             \/ j.kind # "post" /\ Leaves(Plan(l)) /\ j.stage.do # "clear note"
             \/ /\ j.kind = "post" /\ j.started
                /\ (LeavesClears(Plan(l)) /\ j.stage.do # "clear note") \/ Clears(Plan(l))
      PROVE  Quitting(j, r)
  <2> DEFINE q == Ending(j, "stopped", l)
  <2>1. /\ q.job.pending = "stopped" /\ q.job.kind = j.kind /\ q.job.result = "none"
        /\ q.job.stage = Plan(l)[1]
        /\ Shape(q.job) /\ Calls(q.out, q.job.stage)
    <3>1. "stopped" \in {"changed", "stopped", "refused", "failed"} /\ "stopped" # "changed"
      OBVIOUS
    <3> QED
      BY <1>1, <1>7, <3>1, EndingQuits
  <2>2. j.stage.do = "clear note" => q.job.stage.do = "clear note"
    BY <1>7, <2>1 DEF Clears
  <2>3. r = q
    BY <1>7
  <2> HIDE DEF r, q
  <2> QED
    BY <1>2, <2>1, <2>2, <2>3 DEF Quitting
<1>8. CASE j.inEditor /\ j.kind = "post"
  <2> DEFINE l == <<"leave", "clear note">>
  <2>1. s = <<"leave">> \o <<"clear note">>
    BY <1>8 DEF StopStages
  <2>2. s = l
    BY <2>1, JoinOne, Zenon
  <2>3. s # <<>>
    BY <2>2, NoneOne, Zenon
  <2>4. l \in Seq(Endings) /\ LeavesClears(Plan(l))
    BY PlansEnd, PlansAre
  <2>5. j.started /\ j.stage.do # "clear note"
    BY <1>4, <1>5, <1>8 DEF InEdits, ShowStages
  <2>6. r = Ending(j, "stopped", s)
    BY <2>3 DEF Stopped
  <2> HIDE DEF l, s, r
  <2>7. Quitting(j, r)
    BY <1>7, <1>8, <2>2, <2>4, <2>5, <2>6
  <2> QED
    BY <2>7 DEF r
<1>9. CASE j.inEditor /\ j.kind # "post"
  <2> DEFINE l == <<"leave">>
  <2>1. s = l
    BY <1>9 DEF StopStages
  <2>2. s # <<>>
    BY <2>1
  <2>3. l \in Seq(Endings) /\ Leaves(Plan(l))
    BY PlansEnd, PlansAre
  <2>4. j.stage.do # "clear note"
    BY <1>5, <1>9 DEF InEdits, ShowStages
  <2>5. r = Ending(j, "stopped", s)
    BY <2>2 DEF Stopped
  <2> HIDE DEF l, s, r
  <2>6. Quitting(j, r)
    BY <1>7, <1>9, <2>1, <2>3, <2>4, <2>5
  <2> QED
    BY <2>6 DEF r
<1>10. CASE ~j.inEditor /\ j.kind = "post" /\ j.started
  <2> DEFINE l == <<"clear note">>
  <2>1. s = <<>> \o l
    BY <1>10 DEF StopStages
  <2>2. s = l
    BY <2>1, JoinOne, Zenon
  <2>3. s # <<>>
    BY <2>2, NoneOne, Zenon
  <2>4. l \in Seq(Endings) /\ Clears(Plan(l))
    BY PlansEnd, PlansAre
  <2>5. r = Ending(j, "stopped", s)
    BY <2>3 DEF Stopped
  <2> HIDE DEF l, s, r
  <2>6. Quitting(j, r)
    BY <1>7, <1>10, <2>2, <2>4, <2>5
  <2> QED
    BY <2>6 DEF r
<1>11. CASE ~j.inEditor /\ ~ (j.kind = "post" /\ j.started)
  <2>1. s = <<>> \o <<>>
    BY <1>11 DEF StopStages
  <2>2. s = <<>>
    BY <2>1
  <2>3. r = End(j, "stopped")
    BY <2>2 DEF Stopped
  <2>4. "stopped" \in Results \ {"none"}
    BY DEF Results
  <2>5. Over(r) /\ r.job.result = "stopped"
    BY <1>1, <2>3, <2>4, EndOver, EndsWith
  <2> HIDE DEF r, s
  <2>6. j.kind # "post" \/ j.stage.do \in {"board", "to"}
    BY <1>4, <1>6, <1>11
  <2>7. \/ Closing(j, r)
        \/ j.stage.do = "to" /\ Over(r) /\ r.job.result = "stopped"
    BY <2>5, <2>6 DEF Closing
  <2> QED
    BY <2>7 DEF r
<1> QED
  BY <1>1, <1>8, <1>9, <1>10, <1>11 DEF JobType

\* The stages of each kind are a chain.
LEMMA Chains ==
  ASSUME NEW kind \in Kinds
  PROVE  /\ Chain(Stages(kind), kind) /\ Stages(kind) # <<>>
         /\ Head(Stages(kind)).do = First(kind)
<1>1. ASSUME NEW p \in Seq(StageType), NEW n \in Nat \ {0}, Len(p) = n,
             p[1].do = First(kind), p[n].do = Final(kind),
             \A i \in 1 .. n - 1 : Follows(kind, p[i].do, p[i + 1].do)
      PROVE  Chain(p, kind) /\ p # <<>> /\ Head(p).do = First(kind)
  <2>1. p # <<>> /\ Head(p) = p[1]
    BY <1>1
  <2>2. ASSUME NEW i \in 1 .. n, i + 1 <= n PROVE Follows(kind, p[i].do, p[i + 1].do)
    <3>1. i \in 1 .. n - 1
      BY <1>1, <2>2
    <3> QED
      BY <1>1, <3>1
  <2> QED
    BY <1>1, <2>1, <2>2 DEF Chain
<1>2. CASE kind = "read"
  <2> DEFINE l == <<"open", "show", "leave">>
             p == Plan(l)
  <2>1. Stages(kind) = p
    BY <1>2 DEF Stages
  <2>2. {"open", "show", "leave"} \subseteq Deeds
    BY DEF Deeds, Prompts, InEdits, ShowStages
  <2>3. /\ l \in Seq(Deeds) /\ Len(l) = 3
        /\ l[1] = "open" /\ l[2] = "show" /\ l[3] = "leave"
    BY <2>2, Seq3
  <2> HIDE DEF l
  <2>4. p \in Seq(StageType) /\ Len(p) = 3 /\ \A i \in 1 .. 3 : p[i].do = l[i]
    BY <2>3, PlanIs
  <2> HIDE DEF p
  <2>5. \A i \in 1 .. 3 - 1 : Follows(kind, p[i].do, p[i + 1].do)
    <3> SUFFICES ASSUME NEW i \in 1 .. 3 - 1 PROVE Follows(kind, p[i].do, p[i + 1].do)
      OBVIOUS
    <3>1. i \in 1 .. 3 /\ i + 1 \in 1 .. 3
      OBVIOUS
    <3>2. Follows(kind, l[i], l[i + 1])
      BY <1>2, <2>3 DEF Follows, First, Mends
    <3> QED
      BY <2>4, <3>1, <3>2
  <2>6. p[1].do = First(kind) /\ p[3].do = Final(kind)
    <3>1. 1 \in 1 .. 3 /\ 3 \in 1 .. 3
      OBVIOUS
    <3> QED
      BY <1>2, <2>3, <2>4, <3>1 DEF First, Final
  <2>7. 3 \in Nat \ {0}
    OBVIOUS
  <2> QED
    BY <1>1, <2>1, <2>4, <2>5, <2>6, <2>7
<1>3. CASE kind = "send"
  <2> DEFINE l == <<"open", "base", "clear", "send", "verify", "leave", "readback">>
             p == Plan(l)
  <2>1. Stages(kind) = p
    BY <1>3 DEF Stages
  <2>2. {"open", "base", "clear", "send", "verify", "leave", "readback"} \subseteq Deeds
    BY DEF Deeds, Prompts, InEdits, ShowStages
  <2>3. /\ l \in Seq(Deeds) /\ Len(l) = 7
        /\ l[1] = "open" /\ l[2] = "base" /\ l[3] = "clear" /\ l[4] = "send"
        /\ l[5] = "verify" /\ l[6] = "leave" /\ l[7] = "readback"
    BY <2>2, Seq7
  <2> HIDE DEF l
  <2>4. p \in Seq(StageType) /\ Len(p) = 7 /\ \A i \in 1 .. 7 : p[i].do = l[i]
    BY <2>3, PlanIs
  <2> HIDE DEF p
  <2>5. \A i \in 1 .. 7 - 1 : Follows(kind, p[i].do, p[i + 1].do)
    <3> SUFFICES ASSUME NEW i \in 1 .. 7 - 1 PROVE Follows(kind, p[i].do, p[i + 1].do)
      OBVIOUS
    <3>1. i \in 1 .. 7 /\ i + 1 \in 1 .. 7
      OBVIOUS
    <3>2. Follows(kind, l[i], l[i + 1])
      BY <1>3, <2>3 DEF Follows, First, Mends
    <3> QED
      BY <2>4, <3>1, <3>2
  <2>6. p[1].do = First(kind) /\ p[7].do = Final(kind)
    <3>1. 1 \in 1 .. 7 /\ 7 \in 1 .. 7
      OBVIOUS
    <3> QED
      BY <1>3, <2>3, <2>4, <3>1 DEF First, Final
  <2>7. 7 \in Nat \ {0}
    OBVIOUS
  <2> QED
    BY <1>1, <2>1, <2>4, <2>5, <2>6, <2>7
<1>4. CASE kind = "post"
  <2> DEFINE l == <<"board", "to", "subject", "open", "clear", "send", "verify", "leave", "readback", "post">>
             p == Plan(l)
  <2>1. Stages(kind) = p
    BY <1>4 DEF Stages
  <2>2. {"board", "to", "subject", "open", "clear", "send", "verify", "leave", "readback", "post"} \subseteq Deeds
    BY DEF Deeds, Prompts, InEdits, ShowStages
  <2>3. /\ l \in Seq(Deeds) /\ Len(l) = 10
        /\ l[1] = "board" /\ l[2] = "to" /\ l[3] = "subject" /\ l[4] = "open"
        /\ l[5] = "clear" /\ l[6] = "send" /\ l[7] = "verify" /\ l[8] = "leave"
        /\ l[9] = "readback" /\ l[10] = "post"
    BY <2>2, Seq10
  <2> HIDE DEF l
  <2>4. p \in Seq(StageType) /\ Len(p) = 10 /\ \A i \in 1 .. 10 : p[i].do = l[i]
    BY <2>3, PlanIs
  <2> HIDE DEF p
  <2>5. \A i \in 1 .. 10 - 1 : Follows(kind, p[i].do, p[i + 1].do)
    <3> SUFFICES ASSUME NEW i \in 1 .. 10 - 1 PROVE Follows(kind, p[i].do, p[i + 1].do)
      OBVIOUS
    <3>1. i \in 1 .. 10 /\ i + 1 \in 1 .. 10
      OBVIOUS
    <3>2. Follows(kind, l[i], l[i + 1])
      BY <1>4, <2>3 DEF Follows, First, Mends
    <3> QED
      BY <2>4, <3>1, <3>2
  <2>6. p[1].do = First(kind) /\ p[10].do = Final(kind)
    <3>1. 1 \in 1 .. 10 /\ 10 \in 1 .. 10
      OBVIOUS
    <3> QED
      BY <1>4, <2>3, <2>4, <3>1 DEF First, Final
  <2>7. 10 \in Nat \ {0}
    OBVIOUS
  <2> QED
    BY <1>1, <2>1, <2>4, <2>5, <2>6, <2>7
<1> QED
  BY <1>2, <1>3, <1>4, Numbers

\* A job that begins is one that goes on from no stage.
LEMMA NewDoes ==
  ASSUME NEW kind \in Kinds
  PROVE  LET j == New(kind) IN
         /\ j.stage.do = "none" /\ j.kind = kind /\ j.words = {} /\ j.pending = "none"
         /\ j.result = "none" /\ j # NoJob
         /\ Shape(j) /\ GoesOn(j, Advance(j))
<1> DEFINE s == Stages(kind)
           j == [NoJob EXCEPT !.kind = kind, !.stages = s]
           r == Advance(j)
<1>1. New(kind) = j
  BY DEF New
<1>2. /\ s \in Seq(StageType) /\ SendsFirst(s) /\ Chain(s, kind) /\ s # <<>>
      /\ Head(s).do = First(kind)
  BY StagesIs, Chains
<1> HIDE DEF s
<1>3. /\ j \in JobType /\ j.kind = kind /\ j.stages = s /\ j.result = "none"
      /\ ~j.inEditor /\ j.from = 1 /\ j.stage.do = "none" /\ j.words = {}
      /\ j.pending = "none"
  BY <1>2, NoJobIs DEF JobType, NoJob, NoStage, Stage
<1>4. j # NoJob
  BY <1>3, Numbers DEF NoJob
<1> HIDE DEF j
<1>5. Ready(j)
  <2>1. 1 \in 1 .. Lines + 1
    BY Numbers
  <2> QED
    BY <1>2, <1>3, <2>1 DEF Ready
<1>6. Course(j)
  <2>1. Head(s) = s[1]
    BY <1>2
  <2> QED
    BY <1>2, <1>3, <2>1 DEF Course, Follows
<1>7. Shape(j)
  BY <1>3, <1>6 DEF Shape
<1>8. /\ r.job.pending = "none" /\ r.job.kind = j.kind /\ r.job.words = {}
      /\ r.job.stage.do # "none" /\ r.job.result = "none"
      /\ Shape(r.job) /\ Calls(r.out, r.job.stage)
      /\ Follows(j.kind, j.stage.do, r.job.stage.do)
  BY <1>2, <1>3, <1>5, <1>6, OnIs
<1>9. Asked(j.stage) \notin Tellers /\ j.stage.do \notin Rereads
  BY <1>3 DEF Asked, Tellers, Rereads, ShowStages
<1> HIDE DEF r
<1>10. GoesOn(j, r)
  BY <1>3, <1>8, <1>9 DEF GoesOn
<1> QED
  BY <1>1, <1>3, <1>4, <1>7, <1>10 DEF r

-----------------------------------------------------------------------------
(* The invariant of the results where a job goes on.                       *)

\* Lines by what they do.
LEMMA HasLined ==
  ASSUME NEW s, NEW A, NEW B, A \subseteq B
  PROVE  /\ Has(s, Lined(A)) => Has(s, Lined(B))
         /\ Has(s, But(B)) => Has(s, But(A))
  BY DEF Has, Lined, But

LEMMA HasKind ==
  ASSUME NEW v
  PROVE  /\ Has(v, Oks) => Has(v, Told)
         /\ Has(v, Listings) => Has(v, Told)
         /\ \A t : Has(v, Unlike(t)) => Has(v, Listings)
         /\ Has(v, Unkind) => Has(v, Spoken)
<1>1. /\ Oks \subseteq Told /\ Listings \subseteq Told
  BY DEF Oks, Told, Listings, Telling, Tells
<1>2. \A t : Unlike(t) \subseteq Listings
  BY DEF Unlike, Listings
<1>3. Unkind \subseteq Spoken
  BY DEF Unkind, Spoken
<1> QED
  BY <1>1, <1>2, <1>3 DEF Has

\* What goes out for a stage.
Out(s) == IF s.do = "send" THEN "text" ELSE Asked(s)

LEMMA OutIs ==
  ASSUME NEW s, NEW out, Calls(out, s)
  PROVE  /\ out \in Seq(LineType)
         /\ \A dos : Has(out, Lined(dos)) => Out(s) \in dos
         /\ \A dos : Has(out, But(dos)) => Out(s) \notin dos
         /\ s.do # "send" => /\ Len(out) = 1 /\ out[1].do = Out(s)
                             /\ \A M : Once(out, M)
                             /\ \A M, N : NoneAfter(out, M, N)
<1>1. out \in Seq(LineType)
  BY DEF Calls
<1>2. \A i \in 1 .. Len(out) : out[i].do = Out(s)
  <2>1. \A i \in 1 .. Len(out) : out[i] \in LineType
    BY <1>1
  <2> QED
    BY <2>1 DEF Calls, Out, Has, But
<1>3. /\ \A dos : Has(out, Lined(dos)) => Out(s) \in dos
      /\ \A dos : Has(out, But(dos)) => Out(s) \notin dos
  BY <1>2 DEF Has, Lined, But
<1>4. ASSUME s.do # "send"
      PROVE  /\ Len(out) = 1 /\ out[1].do = Out(s)
             /\ \A M : Once(out, M)
             /\ \A M, N : NoneAfter(out, M, N)
  <2>1. Len(out) = 1 /\ out[1].do = Out(s)
    BY <1>4 DEF Calls, Out
  <2> QED
    BY <2>1, HasOne
<1> QED
  BY <1>1, <1>3, <1>4

\* A job that goes on has the answer it asked for, and no other is to come.
LEMMA Consumed ==
  ASSUME NEW j, j.stage \in StageType, NEW g, NEW v, NEW r, GoesOn(j, r), ToldOnce(j, g, v)
  PROVE  ~Has(g, Lined(Tellers)) /\ ~Has(v, Told)
<1>1. CASE Asked(j.stage) \in Tellers
  BY <1>1 DEF GoesOn, ToldOnce
<1>2. CASE Asked(j.stage) \notin Tellers
  <2>1. Tellers \ {Asked(j.stage)} = Tellers
    BY <1>2
  <2>2. j.stage.do \notin ShowStages \cup Prompts
    BY <1>2 DEF Asked, Tellers, ShowStages, Prompts
  <2> QED
    BY <2>1, <2>2, Zenon DEF ToldOnce
<1> QED
  BY <1>1, <1>2

\* What follows a stage that asks.
LEMMA FollowsIs ==
  ASSUME NEW kind \in Kinds, NEW a, NEW b, Follows(kind, a, b)
  PROVE  /\ b \in Deeds \ {"none", "clear note"}
         /\ b = "post" => a = "readback" /\ kind = "post"
         /\ b = "board" => a = "none" /\ kind = "post"
         /\ b = "to" => a = "board" /\ kind = "post"
         /\ b = "subject" => a = "to" /\ kind = "post"
         /\ b = "readback" => a = "leave"
         /\ kind = "send" /\ b = "open" => a = "none"
         /\ kind = "send" /\ b = "base" => a = "open"
         /\ kind = "send" /\ b = "leave" => a = "verify"
         /\ a # "post"
BY Numbers DEF Follows, First, Mends, Deeds, Prompts, InEdits, ShowStages

\* A job that goes on keeps what its results rest on.
LEMMA GoesOnKeeps ==
  ASSUME NEW j \in JobType, j # NoJob, j.kind \in Kinds, NEW r, r.job \in JobType, GoesOn(j, r),
         NEW w, NEW w2, NEW d, NEW g \in Seq(LineType), NEW v \in Seq(WriteType), NEW t,
         NEW e, NEW n, NEW p, NEW c \in BOOLEAN, NEW c2 \in BOOLEAN,
         NEW l, ResultNow(j, w, d, g, v, t, e, n, p, c, l), c2 => c,
         j.stage.do = "none" => g = <<>> /\ (c => v = <<>>)
  PROVE  ResultNow(r.job, w2, d, g \o r.out, v, t, e, n, p, c2, l)
<1> DEFINE k == r.job
           out == r.out
           G == g \o out
           a == j.stage.do
           b == k.stage.do
           o == Out(k.stage)
<1>1. /\ j.pending = "none" /\ k.pending = "none" /\ k.kind = j.kind
      /\ k.words = {} /\ b # "none" /\ k.result = "none"
      /\ Shape(k) /\ Calls(out, k.stage) /\ Follows(j.kind, a, b)
      /\ Asked(j.stage) \in Tellers => Telling(j.words)
      /\ a \in {"to", "subject"} => "ok" \in j.words
      /\ a = "board" => "no note" \in j.words
      /\ a \in Rereads => "listed" \in j.words
      /\ a = "verify" /\ b = "leave" => j.listing = Meant
      /\ a = "readback" => j.listing = Meant
  BY DEF GoesOn
<1>2. /\ Shape(j) /\ ToldOnce(j, g, v) /\ Reread(j, g, v, t, e) /\ Posting(j, g, v, t, e, p)
      /\ Fresh(j, w, d, g, v, t, n, p, c, l) /\ (c => SaidOnce(j, g, v, n, p))
      /\ Noted(j, d, g, n, c, l) /\ (c => Holds(j, d, g, t) /\ Sent(j, d, g, p))
      /\ d.result = "posted" => p # <<>>
  BY <1>1 DEF ResultNow
<1>3. ~Has(g, Lined(Tellers)) /\ ~Has(v, Told)
  BY <1>2, Consumed DEF JobType
<1>4. k # NoJob /\ d.result = "none"
  <2>1. k # NoJob
    <3>1. NoJob.stage.do = "none"
      BY DEF NoJob, NoStage, Stage
    <3> QED
      BY <1>1, <3>1
  <2> QED
    BY <1>2, <2>1 DEF Fresh
<1>5. /\ out \in Seq(LineType)
      /\ \A dos : Has(out, Lined(dos)) => o \in dos
      /\ \A dos : Has(out, But(dos)) => o \notin dos
      /\ b # "send" => /\ Len(out) = 1 /\ out[1].do = o
                       /\ \A M : Once(out, M)
                       /\ \A M, N : NoneAfter(out, M, N)
  BY <1>1, OutIs
<1>6. /\ b \in Deeds \ {"none", "clear note"}
      /\ b = "post" => a = "readback" /\ k.kind = "post"
      /\ b = "board" => a = "none" /\ k.kind = "post"
      /\ b = "to" => a = "board" /\ k.kind = "post"
      /\ b = "subject" => a = "to" /\ k.kind = "post"
      /\ b = "readback" => a = "leave"
      /\ k.kind = "send" /\ b = "open" => a = "none"
      /\ k.kind = "send" /\ b = "base" => a = "open"
      /\ k.kind = "send" /\ b = "leave" => a = "verify"
      /\ a # "post"
  <2> HIDE DEF a, b, k
  <2>1. Follows(k.kind, a, b) /\ k.kind \in Kinds
    BY <1>1
  <2> QED
    BY <2>1, FollowsIs, Zenon
<1>7. \A M : Has(G, M) <=> Has(g, M) \/ Has(out, M)
  BY <1>5, HasPut
<1>8. G \in Seq(LineType)
  BY <1>5
<1>9. /\ o = IF b = "send" THEN "text" ELSE IF b \in ShowStages THEN "show" ELSE b
      /\ Asked(k.stage) = IF b \in ShowStages THEN "show" ELSE b
      /\ Asked(j.stage) = IF a \in ShowStages THEN "show" ELSE a
  BY DEF Out, Asked
<1>10. /\ ~Has(v, Oks) /\ ~Has(v, Listings) /\ ~Has(v, Unlike(t))
  BY <1>3, HasKind
<1>11. ~Telling(k.words)
  BY <1>1 DEF Telling
<1> HIDE DEF k, G, out, a, b, o
<1>12. ToldOnce(k, G, v)
  <2>1. Once(G, Lined(Tellers))
    <3>1. Once(g, Lined(Tellers))
      BY <1>2 DEF ToldOnce
    <3>2. Once(out, Lined(Tellers))
      <4>1. CASE b # "send"
        BY <1>5, <4>1
      <4>2. CASE b = "send"
        <5>1. ~Has(out, Lined(Tellers))
          BY <1>5, <1>9, <4>2 DEF Tellers
        <5> QED
          BY <5>1, NoneHas
      <4> QED
        BY <4>1, <4>2
    <3> QED
      BY <1>3, <1>5, <3>1, <3>2, OncePut DEF G
  <2>2. Once(v, Told)
    BY <1>2 DEF ToldOnce
  <2>3. ~Has(G, Lined(Tellers \ {Asked(k.stage)}))
    <3>1. ~Has(g, Lined(Tellers \ {Asked(k.stage)}))
      BY <1>3, HasLined
    <3>2. o \notin Tellers \ {Asked(k.stage)}
      BY <1>9 DEF Tellers
    <3> QED
      BY <1>5, <1>7, <3>1, <3>2
  <2> QED
    BY <1>3, <1>11, <2>1, <2>2, <2>3 DEF ToldOnce
<1>13. Reread(k, G, v, t, e)
  <2> SUFFICES ASSUME b \in Rereads PROVE Reread(k, G, v, t, e)
    BY DEF Reread, b
  <2>1. b # "send"
    BY DEF Rereads, ShowStages
  <2>2. NoneAfter(G, Lined(Tellers), But(Hush(k)))
    <3>1. NoneAfter(g, Lined(Tellers), But(Hush(k)))
      BY <1>3, NoneHas
    <3> QED
      BY <1>3, <1>5, <2>1, <3>1, NonePut DEF G
  <2> QED
    BY <1>1, <1>10, <2>2 DEF Reread
<1>14. /\ p # <<>> => k.stage.do = "post"
       /\ a # "none" => p = <<>>
  <2>1. p = <<>>
    BY <1>1, <1>2, <1>6 DEF Posting, a
  <2> QED
    BY <2>1
<1>15. Posting(k, G, v, t, e, p)
  <2>1. p = <<>>
    BY <1>1, <1>2, <1>6 DEF Posting, a
  <2>2. ~Has(g, Lined({"post"}))
    BY <1>3, HasLined DEF Tellers
  <2>3. ASSUME Has(G, Lined({"post"}))
        PROVE  /\ t = Meant /\ ~e /\ b = "post"
               /\ ~Has(G, But({"post", "command", "clear note"})) /\ Once(G, Lined({"post"}))
    <3>1. Has(out, Lined({"post"}))
      BY <1>7, <2>2, <2>3
    <3>2. o \in {"post"}
      BY <1>5, <3>1
    <3>3. b = "post" /\ a = "readback"
      BY <1>6, <1>9, <3>2
    <3>4. /\ "listed" \in j.words /\ j.listing = Meant /\ j.listing = t
          /\ ~Has(g, But({"command"})) /\ ~e
      BY <1>1, <1>2, <3>3 DEF Reread, Rereads, Hush, a
    <3>5. ~Has(g, But({"post", "command", "clear note"}))
      BY <3>4, HasLined
    <3>6. ~Has(out, But({"post", "command", "clear note"}))
      BY <1>5, <3>2
    <3>7. Once(G, Lined({"post"}))
      <4>1. Once(out, Lined({"post"}))
        BY <1>5, <3>3
      <4>2. Once(g, Lined({"post"}))
        BY <2>2, NoneHas
      <4> QED
        BY <1>5, <2>2, <4>1, <4>2, OncePut DEF G
    <3> QED
      BY <1>7, <3>3, <3>4, <3>5, <3>6, <3>7
  <2> QED
    BY <1>1, <1>10, <2>1, <2>3 DEF Posting, b
<1>16. Fresh(k, w2, d, G, v, t, n, p, c2, l)
  BY <1>4 DEF Fresh
<1>17. c2 => SaidOnce(k, G, v, n, p)
  <2> SUFFICES ASSUME c2 PROVE SaidOnce(k, G, v, n, p)
    OBVIOUS
  <2>1. SaidOnce(j, g, v, n, p)
    BY <1>2
  <2>2. ASSUME b \in {"board", "to", "subject", "post"}
        PROVE  /\ Once(v, Spoken) /\ ~Has(v, Spoken)
               /\ G # <<>> => Tail(G) = <<>> /\ Head(G).do = b
               /\ ~Done(b, n, p) /\ (b = "post" => p = <<>>)
    <3>1. g = <<>> /\ ~Has(v, Spoken)
      <4>1. CASE a = "none"
        <5>1. g = <<>> /\ v = <<>>
          BY <4>1 DEF a
        <5> QED
          BY <5>1, HasNone
      <4>2. CASE a \in {"board", "to"}
        <5>1. j.words # {}
          BY <1>1, <4>2
        <5> QED
          BY <2>1, <4>2, <5>1 DEF SaidOnce, a
      <4>3. CASE a = "readback"
        <5>1. "listed" \in j.words
          BY <1>1, <4>3 DEF Rereads
        <5>2. j.kind = "post"
          BY <1>1, <1>6, <2>2, <4>3
        <5> QED
          BY <2>1, <4>3, <5>1, <5>2 DEF SaidOnce, a
      <4> QED
        BY <1>6, <2>2, <4>1, <4>2, <4>3
    <3>2. G = out
      BY <1>5, <3>1 DEF G
    <3>3. Len(out) = 1 /\ out[1].do = b
      BY <1>5, <1>9, <2>2 DEF ShowStages
    <3>4. Tail(out) = <<>> /\ Head(out) = out[1]
      <4>1. out # <<>>
        <5>1. out = <<>> <=> Len(out) = 0
          BY <1>5, LenZero, Zenon
        <5> QED
          BY <3>3, <5>1
      <4>2. Tail(out) \in Seq(LineType) /\ Len(Tail(out)) = Len(out) - 1 /\ Head(out) = out[1]
        BY <1>5, <4>1, TailIs, Zenon
      <4>3. Tail(out) = <<>> <=> Len(Tail(out)) = 0
        BY <4>2, LenZero, Zenon
      <4> QED
        BY <3>3, <4>2, <4>3
    <3>5. ~Done(b, n, p) /\ (b = "post" => p = <<>>)
      <4>1. b = "to" => n # "card"
        BY <1>2, <1>4, <1>6 DEF Noted, OnBoard, a
      <4>2. b = "post" => p = <<>>
        BY <1>6, <1>14
      <4> QED
        BY <4>1, <4>2 DEF Done
    <3> QED
      BY <3>1, <3>2, <3>3, <3>4, <3>5, NoneHas
  <2>3. ASSUME k.kind = "post", b = "readback"
        PROVE  NoneAfter(G, Lined(Tellers), LineType) /\ NoneAfter(v, Listings, Spoken)
    <3>1. NoneAfter(g, Lined(Tellers), LineType) /\ NoneAfter(v, Listings, Spoken)
      BY <1>3, <1>10, NoneHas
    <3> QED
      BY <1>3, <1>5, <2>3, <3>1, NonePut DEF G
  <2> QED
    BY <1>1, <1>10, <2>2, <2>3 DEF SaidOnce, b
<1>18. Noted(k, d, G, n, c2, l)
  <2>1. ~Has(g, Clear)
    BY <1>3, HasLined DEF Clear, Tellers
  <2>2. NoneAfter(G, Clear, Fields)
    <3>1. NoneAfter(g, Clear, Fields)
      BY <2>1, NoneHas
    <3>2. NoneAfter(out, Clear, Fields)
      <4>1. CASE b # "send"
        BY <1>5, <4>1
      <4>2. CASE b = "send"
        <5>1. ~Has(out, Clear)
          BY <1>5, <1>9, <4>2 DEF Clear
        <5> QED
          BY <5>1, NoneHas
      <4> QED
        BY <4>1, <4>2
    <3> QED
      BY <1>5, <2>1, <3>1, <3>2, NonePut DEF G
  <2>3. k.kind # "post" \/ b \in {"none", "board"} => ~OnBoard(n, G)
    <3> SUFFICES ASSUME k.kind # "post" \/ b \in {"none", "board"} PROVE ~OnBoard(n, G)
      OBVIOUS
    <3>1. ~OnBoard(n, g)
      BY <1>1, <1>2, <1>6 DEF Noted, a
    <3>2. o \notin {"to", "subject"}
      BY <1>6, <1>9
    <3>3. ~Has(out, Fields)
      BY <1>5, <3>2 DEF Fields
    <3> QED
      BY <1>7, <3>1, <3>3 DEF OnBoard
  <2> QED
    BY <1>1, <1>4, <2>2, <2>3 DEF Noted, b
<1>19. c2 => Holds(k, d, G, t)
  <2> SUFFICES ASSUME c2 PROVE Holds(k, d, G, t)
    OBVIOUS
  <2>1. Holds(j, d, g, t)
    BY <1>2
  <2>2. ASSUME k.kind = "send", b \in {"none", "open", "base"}
        PROVE  t \in {<<>>, <<Other>>} /\ ~Has(G, But(Still))
    <3>1. t \in {<<>>, <<Other>>} /\ ~Has(g, But(Still))
      <4>1. a \in {"none", "open"} /\ j.kind = "send"
        BY <1>1, <1>6, <2>2
      <4> QED
        BY <1>1, <2>1, <4>1 DEF Holds, a
    <3>2. ~Has(out, But(Still))
      BY <1>1, <1>5, <1>9, <2>2 DEF Still, ShowStages
    <3> QED
      BY <1>7, <3>1, <3>2
  <2>3. ASSUME k.kind = "send", b \in {"leave", "readback"}
        PROVE  t = Meant /\ ~Has(G, But(Still))
    <3>1. ~Has(out, But(Still))
      BY <1>5, <1>9, <2>3 DEF Still, ShowStages
    <3>2. CASE b = "readback"
      <4>1. t = Meant /\ ~Has(g, But(Still))
        BY <1>1, <1>6, <2>1, <2>3, <3>2 DEF Holds, a
      <4> QED
        BY <1>7, <3>1, <4>1
    <3>3. CASE b = "leave"
      <4>1. a = "verify"
        BY <1>6, <2>3, <3>3
      <4>2. /\ "listed" \in j.words /\ j.listing = Meant /\ j.listing = t
            /\ ~Has(g, But({"dot command"}))
        BY <1>1, <1>2, <3>3, <4>1 DEF Reread, Rereads, ShowStages, Hush, a
      <4>3. ~Has(g, But(Still))
        BY <4>2, HasLined DEF Still
      <4> QED
        BY <1>7, <3>1, <4>2, <4>3
    <3> QED
      BY <2>3, <3>2, <3>3
  <2> QED
    BY <1>1, <1>4, <2>2, <2>3 DEF Holds, b
<1>20. c2 => Sent(k, d, G, p)
  BY <1>1, <1>4 DEF Sent
<1>21. d.result = "posted" => p # <<>>
  BY <1>2
<1> QED
  BY <1>1, <1>12, <1>13, <1>15, <1>16, <1>17, <1>18, <1>19, <1>20, <1>21 DEF ResultNow, k, G, out

-----------------------------------------------------------------------------
(* The invariant of the results where a job ends, early or not.            *)

\* A job that begins to end early keeps it.
LEMMA QuittingKeeps ==
  ASSUME NEW j \in JobType, j # NoJob, j.stage.do # "none", NEW r, r.job \in JobType,
         Quitting(j, r),
         NEW w, NEW w2, NEW d, NEW g \in Seq(LineType), NEW v \in Seq(WriteType), NEW t,
         NEW e, NEW n, NEW p, NEW c \in BOOLEAN, NEW c2 \in BOOLEAN,
         NEW l, ResultNow(j, w, d, g, v, t, e, n, p, c, l), c2 => c
  PROVE  ResultNow(r.job, w2, d, g \o r.out, v, t, e, n, p, c2, l)
<1> DEFINE k == r.job
           out == r.out
           G == g \o out
           a == j.stage.do
           b == k.stage.do
<1>1. /\ k.pending # "none" /\ k.kind = j.kind /\ k.result = "none"
      /\ Shape(k) /\ Calls(out, k.stage)
      /\ a \in {"post", "clear note"} => b = "clear note"
      /\ k.pending = "changed" /\ j.pending # "changed" =>
            /\ j.pending = "none" /\ j.kind = "send" /\ a = "base"
            /\ "listed" \in j.words /\ j.listing # <<>>
      /\ a = "post" => j.words # {} /\ "ok" \notin j.words
  BY DEF Quitting
<1>2. /\ Shape(j) /\ Posting(j, g, v, t, e, p)
      /\ j.pending = "none" => Reread(j, g, v, t, e)
      /\ Fresh(j, w, d, g, v, t, n, p, c, l)
      /\ c /\ j.pending = "none" => SaidOnce(j, g, v, n, p)
      /\ Noted(j, d, g, n, c, l) /\ (c => Holds(j, d, g, t) /\ Sent(j, d, g, p))
      /\ d.result = "posted" => p # <<>>
  BY DEF ResultNow
<1>3. Quits(k)
  BY <1>1 DEF Shape
<1>4. b \in {"leave", "clear note"} /\ b # "send" /\ Out(k.stage) = b /\ b # "post"
  BY <1>3 DEF Quits, Out, Asked, ShowStages
<1>5. k # NoJob /\ d.result = "none"
  <2>1. NoJob.stage.do = "none"
    BY DEF NoJob, NoStage, Stage
  <2> QED
    BY <1>2, <1>4, <2>1 DEF Fresh
<1>6. /\ out \in Seq(LineType)
      /\ \A dos : Has(out, Lined(dos)) => b \in dos
      /\ \A dos : Has(out, But(dos)) => b \notin dos
      /\ \A M : Once(out, M)
      /\ \A M, N : NoneAfter(out, M, N)
      /\ Len(out) = 1 /\ out[1].do = b
  BY <1>1, <1>4, OutIs
<1>7. \A M : Has(G, M) <=> Has(g, M) \/ Has(out, M)
  BY <1>6, HasPut
<1>8. k.pending = "changed" => k.kind = "send" /\ b = "leave"
  BY <1>3 DEF Quits
<1>9. k.kind = "post" => k.stages # <<>> \/ b = "clear note"
  <2> SUFFICES ASSUME k.kind = "post", b = "leave", k.stages = <<>> PROVE FALSE
    BY <1>4
  <2>1. Len(k.stages) = 1
    BY <1>3 DEF Quits, Clears
  <2> QED
    BY <2>1
<1> HIDE DEF k, out, G, a, b
<1>10. ~Has(out, Lined({"post"})) /\ ~Has(out, Fields)
  BY <1>4, <1>6 DEF Fields
<1>11. Has(G, Lined({"post"})) => Has(g, Lined({"post"}))
  BY <1>7, <1>10
<1>12. Posting(k, G, v, t, e, p)
  <2>1. ASSUME Has(G, Lined({"post"}))
        PROVE  /\ p = <<>> /\ t = Meant /\ ~e /\ b = "clear note"
               /\ ~Has(G, But({"post", "command", "clear note"})) /\ Once(G, Lined({"post"}))
    <3>1. /\ p = <<>> /\ t = Meant /\ ~e /\ a \in {"post", "clear note"}
          /\ ~Has(g, But({"post", "command", "clear note"})) /\ Once(g, Lined({"post"}))
      BY <1>2, <1>11, <2>1 DEF Posting, a
    <3>2. b = "clear note"
      BY <1>1, <3>1
    <3>3. ~Has(out, But({"post", "command", "clear note"}))
      BY <1>6, <3>2
    <3>4. Once(G, Lined({"post"}))
      BY <1>6, <1>10, <3>1, OncePut DEF G
    <3> QED
      BY <1>7, <3>1, <3>2, <3>3, <3>4
  <2>2. p \in {<<>>, <<Meant>>}
    BY <1>2 DEF Posting
  <2> QED
    BY <1>1, <1>4, <2>1, <2>2 DEF Posting, b
<1>13. Fresh(k, w2, d, G, v, t, n, p, c2, l)
  BY <1>5 DEF Fresh
<1>14. Noted(k, d, G, n, c2, l)
  <2>1. NoneAfter(G, Clear, Fields)
    <3>1. NoneAfter(g, Clear, Fields)
      BY <1>2 DEF Noted
    <3> QED
      BY <1>6, <1>10, <3>1, NonePut DEF G
  <2>2. k.kind # "post" => ~OnBoard(n, G)
    <3>1. k.kind # "post" => ~OnBoard(n, g)
      BY <1>1, <1>2 DEF Noted
    <3> QED
      BY <1>7, <1>10, <3>1 DEF OnBoard
  <2>3. k.kind = "post" => Has(G, Clear) \/ k.stages # <<>>
    <3>1. b = "clear note" => Has(out, Clear)
      <4>1. out[1] \in LineType /\ 1 \in 1 .. Len(out)
        <5>1. Len(out) \in Nat /\ \A i \in 1 .. Len(out) : out[i] \in LineType
          BY <1>6, SeqAt, Zenon
        <5>2. Len(out) = 1 => 1 \in 1 .. Len(out)
          OBVIOUS
        <5> QED
          BY <1>6, <5>1, <5>2
      <4> QED
        BY <1>6, <4>1 DEF Has, Clear, Lined
    <3> QED
      BY <1>7, <1>9, <3>1
  <2> QED
    BY <1>4, <1>5, <2>1, <2>2, <2>3 DEF Noted, b
<1>15. c2 => Holds(k, d, G, t)
  <2> SUFFICES ASSUME c2, k.pending = "changed" PROVE t = <<Other>> /\ ~Has(G, But(Still))
    BY <1>1, <1>5 DEF Holds
  <2>1. Holds(j, d, g, t)
    BY <1>2
  <2>2. ~Has(out, But(Still))
    BY <1>4, <1>6 DEF Still
  <2>3. t = <<Other>> /\ ~Has(g, But(Still))
    <3>1. CASE j.pending = "changed"
      BY <2>1, <3>1 DEF Holds
    <3>2. CASE j.pending # "changed"
      <4>1. /\ j.pending = "none" /\ j.kind = "send" /\ a = "base"
            /\ "listed" \in j.words /\ j.listing # <<>>
        BY <1>1, <2>1, <3>2
      <4>2. t \in {<<>>, <<Other>>} /\ ~Has(g, But(Still))
        BY <2>1, <4>1 DEF Holds, a
      <4>3. j.listing = t
        BY <1>2, <4>1 DEF Reread, Rereads, ShowStages, a
      <4> QED
        BY <4>1, <4>2, <4>3
    <3> QED
      BY <3>1, <3>2
  <2> QED
    BY <1>7, <2>2, <2>3
<1>16. c2 => Sent(k, d, G, p)
  <2> SUFFICES ASSUME c2 PROVE p = <<>> /\ ~Has(G, Lined({"post"}))
    BY <1>5 DEF Sent
  <2>1. CASE j.pending # "none"
    <3>1. p = <<>> /\ ~Has(g, Lined({"post"}))
      BY <1>2, <2>1 DEF Sent
    <3> QED
      BY <1>11, <3>1
  <2>2. CASE j.pending = "none" /\ a = "post"
    <3>1. SaidOnce(j, g, v, n, p)
      BY <1>2, <2>2
    <3>2. g = <<>> /\ ~Done("post", n, p)
      BY <1>1, <2>2, <3>1 DEF SaidOnce, a
    <3>3. ~Has(g, Lined({"post"}))
      BY <3>2, HasNone
    <3> QED
      BY <1>11, <3>2, <3>3 DEF Done
  <2>3. CASE j.pending = "none" /\ a # "post"
    <3>1. a # "clear note"
      BY <1>2, <2>3 DEF Shape, Course, Final, Follows, Mends, First, a
    <3> QED
      BY <1>2, <1>11, <2>3, <3>1 DEF Posting, a
  <2> QED
    BY <2>1, <2>2, <2>3
<1> QED
  BY <1>1, <1>2, <1>12, <1>13, <1>14, <1>15, <1>16 DEF ResultNow, k, G, out

\* The job is over: what the hold kept may follow.
LEMMA ClosingKeeps ==
  ASSUME NEW j \in JobType, j # NoJob, j.stage.do # "none", NEW r,
         NEW w, NEW d, NEW d2, NEW g \in Seq(LineType), NEW v \in Seq(WriteType), NEW t,
         NEW e, NEW n, NEW p, NEW c \in BOOLEAN, NEW c2 \in BOOLEAN,
         NEW l, ResultNow(j, w, d, g, v, t, e, n, p, c, l), c2 => c,
         Closing(j, r) \/ (~c2 /\ Over(r) /\ r.job.result = "stopped"),
         NEW out \in Seq(LineType), ~Has(out, But({"command"})), d2.result = r.job.result
  PROVE  ResultNow(NoJob, "none", d2, g \o out, v, t, e, n, p, c2, l)
<1> DEFINE G == g \o out
           a == j.stage.do
           b == d2.result
<1>1. /\ b \notin {"none", "dropped"}
      /\ b = "posted" => a = "post" /\ "ok" \in j.words
      /\ c2 => Closing(j, r)
  BY DEF Closing, Over
<1>2. /\ Shape(j) /\ Posting(j, g, v, t, e, p)
      /\ c /\ j.pending = "none" => SaidOnce(j, g, v, n, p)
      /\ Noted(j, d, g, n, c, l) /\ (c => Holds(j, d, g, t) /\ Sent(j, d, g, p))
  BY DEF ResultNow
<1>3. \A M : Has(G, M) <=> Has(g, M) \/ Has(out, M)
  BY HasPut
<1>4. /\ ~Has(out, Lined({"post"})) /\ ~Has(out, Fields)
      /\ ~Has(out, But(Still)) /\ ~Has(out, But({"post", "command", "clear note"}))
  <2>1. Lined({"post"}) \subseteq But({"command"}) /\ Fields \subseteq But({"command"})
    BY DEF Lined, But, Fields
  <2>2. But(Still) \subseteq But({"command"})
        /\ But({"post", "command", "clear note"}) \subseteq But({"command"})
    BY DEF But, Still
  <2> QED
    BY <2>1, <2>2, HasMore, Zenon
<1>5. /\ NoJob.stage.do = "none" /\ NoJob.kind = "none" /\ NoJob.pending = "none"
      /\ NoJob.words = {}
  BY DEF NoJob, NoStage, Stage
<1> HIDE DEF G, a, b
<1>6. Posting(NoJob, G, v, t, e, p)
  <2>1. p \in {<<>>, <<Meant>>}
    BY <1>2 DEF Posting
  <2>2. ASSUME Has(G, Lined({"post"}))
        PROVE  /\ p = <<>> /\ t = Meant /\ ~e
               /\ ~Has(G, But({"post", "command", "clear note"})) /\ Once(G, Lined({"post"}))
    <3>1. /\ p = <<>> /\ t = Meant /\ ~e
          /\ ~Has(g, But({"post", "command", "clear note"})) /\ Once(g, Lined({"post"}))
      BY <1>2, <1>3, <1>4, <2>2 DEF Posting
    <3>2. Once(out, Lined({"post"}))
      BY <1>4, NoneHas
    <3>3. Once(G, Lined({"post"}))
      BY <1>4, <3>1, <3>2, OncePut DEF G
    <3> QED
      BY <1>3, <1>4, <3>1, <3>3
  <2> QED
    BY <1>5, <2>1, <2>2 DEF Posting
<1>7. Fresh(NoJob, "none", d2, G, v, t, n, p, c2, l)
  BY <1>1 DEF Fresh, b
<1>8. SaidOnce(NoJob, G, v, n, p)
  BY <1>5 DEF SaidOnce
<1>9. OnBoard(n, G) <=> OnBoard(n, g)
  BY <1>3, <1>4 DEF OnBoard
<1>10. Noted(NoJob, d2, G, n, c2, l)
  <2>1. NoneAfter(G, Clear, Fields)
    <3>1. NoneAfter(g, Clear, Fields)
      BY <1>2 DEF Noted
    <3>2. NoneAfter(out, Clear, Fields)
      BY <1>4, NoneHas
    <3> QED
      BY <1>4, <3>1, <3>2, NonePut DEF G
  <2>2. ASSUME c2, OnBoard(n, G), b \notin {"none"} \cup Abandons
        PROVE  Has(G, Clear)
    <3>1. \/ j.pending # "none" /\ j.stages = <<>>
          \/ j.kind # "post" \/ a = "board"
          \/ a = "to" /\ j.words # {} /\ "ok" \notin j.words
          \/ a = "post" /\ j.words # {} /\ "ok" \in j.words
      <4>1. b \in Results
        BY <1>1 DEF Closing, Over, JobType, b
      <4>2. b \in Bad
        BY <2>2, <4>1 DEF Bad
      <4> QED
        BY <1>1, <2>2, <4>2 DEF Closing, a, b
    <3>2. j.kind = "post" /\ a # "board"
      BY <1>2, <1>9, <2>2 DEF Noted, a
    <3>3. CASE j.pending # "none" /\ j.stages = <<>>
      <4>1. Has(g, Clear)
        BY <1>2, <1>9, <2>2, <3>2, <3>3 DEF Noted
      <4> QED
        BY <1>3, <4>1
    <3>4. CASE j.pending = "none" /\ a = "to" /\ j.words # {} /\ "ok" \notin j.words
      <4>1. SaidOnce(j, g, v, n, p)
        BY <1>2, <2>2, <3>4
      <4>2. g = <<>> /\ ~Done("to", n, p)
        BY <3>4, <4>1 DEF SaidOnce, a
      <4>3. ~OnBoard(n, g)
        BY <4>2, HasNone DEF OnBoard, Done
      <4> QED
        BY <1>9, <2>2, <4>3
    <3>5. a \in {"to", "post"} => j.pending = "none"
      BY <1>2 DEF Shape, Quits, a
    <3>6. CASE j.pending = "none" /\ a = "post" /\ j.words # {} /\ "ok" \in j.words
      <4>1. SaidOnce(j, g, v, n, p)
        BY <1>2, <2>2, <3>6
      <4>2. p # <<>>
        BY <1>2, <3>6 DEF Posting, a
      <4>3. g = <<>> /\ n # "card"
        BY <3>6, <4>1, <4>2 DEF SaidOnce, Done, a
      <4>4. ~OnBoard(n, g)
        BY <4>3, HasNone DEF OnBoard
      <4> QED
        BY <1>9, <2>2, <4>4
    <3> QED
      BY <3>1, <3>2, <3>3, <3>4, <3>5, <3>6
  <2> QED
    BY <1>5, <2>1, <2>2 DEF Noted, b
<1>11. c2 => Holds(NoJob, d2, G, t)
  <2> SUFFICES ASSUME c2 PROVE Holds(NoJob, d2, G, t)
    OBVIOUS
  <2>1. Holds(j, d, g, t) /\ Closing(j, r)
    BY <1>1, <1>2
  <2>2. b = "send" => t = Meant /\ ~Has(g, But(Still))
    BY <2>1 DEF Closing, Holds, b
  <2>3. b = "changed" => t = <<Other>> /\ ~Has(g, But(Still))
    BY <2>1 DEF Closing, Holds, b
  <2> QED
    BY <1>3, <1>4, <1>5, <2>2, <2>3 DEF Holds, b
<1>12. Sent(NoJob, d2, G, p)
  BY <1>1, <1>5 DEF Sent, b
<1>13. b = "posted" => p # <<>>
  BY <1>1, <1>2 DEF Posting, a
<1> QED
  BY <1>5, <1>6, <1>7, <1>8, <1>10, <1>11, <1>12, <1>13 DEF ResultNow, G, b

\* The same job, as far as what it says goes.
LEMMA SameKeeps ==
  ASSUME NEW j, NEW k, j # NoJob, k # NoJob, k.stage = j.stage, k.stages = j.stages, k.kind = j.kind,
         k.pending = j.pending, k.started = j.started, k.postSent = j.postSent,
         k.words = j.words, k.listing = j.listing,
         NEW w, NEW w2, NEW d, NEW g, NEW v, NEW t,
         NEW e, NEW n, NEW p, NEW c \in BOOLEAN, NEW c2 \in BOOLEAN,
         NEW l, ResultNow(j, w, d, g, v, t, e, n, p, c, l), c2 => c
  PROVE  ResultNow(k, w2, d, g, v, t, e, n, p, c2, l)
<1>1. Shape(j) => Shape(k)
  BY SameShape
<1>2. Course(j) <=> Course(k)
  BY DEF Course
<1>3. ToldOnce(j, g, v) => ToldOnce(k, g, v)
  BY DEF ToldOnce
<1>4. Reread(j, g, v, t, e) => Reread(k, g, v, t, e)
  BY DEF Reread, Hush
<1>5. Posting(j, g, v, t, e, p) => Posting(k, g, v, t, e, p)
  BY DEF Posting
<1>6. Fresh(j, w, d, g, v, t, n, p, c, l) => Fresh(k, w2, d, g, v, t, n, p, c2, l)
  BY DEF Fresh
<1>7. SaidOnce(j, g, v, n, p) => SaidOnce(k, g, v, n, p)
  BY DEF SaidOnce
<1>8. Noted(j, d, g, n, c, l) => Noted(k, d, g, n, c2, l)
  BY DEF Noted
<1>9. Holds(j, d, g, t) => Holds(k, d, g, t)
  BY DEF Holds
<1>10. Sent(j, d, g, p) => Sent(k, d, g, p)
  BY DEF Sent
<1> QED
  BY <1>1, <1>3, <1>4, <1>5, <1>6, <1>7, <1>8, <1>9, <1>10 DEF ResultNow

-----------------------------------------------------------------------------
(* The invariant of the results where a job waits.                         *)

\* Lines that ask for nothing: your text, and what you type.
Quiet(j, out, x, c) ==
    /\ out \in Seq(LineType) /\ x \in {"text", "command", "dot command"}
    /\ ~Has(out, But({x}))
    /\ x = "text" => j.stage.do = "send"
    /\ x = "dot command" => j.stage.do \notin Prompts
    /\ j.stage.do \in Rereads => x \in Hush(j)
    /\ c => /\ j.stage.do \notin {"board", "to", "subject", "post"}
            /\ ~(j.kind = "post" /\ j.stage.do = "readback")

\* Lines that ask for nothing keep it.
LEMMA QuietKeeps ==
  ASSUME NEW j \in JobType, j # NoJob, j.stage.do # "none",
         NEW w, NEW d, NEW g \in Seq(LineType), NEW v \in Seq(WriteType), NEW t,
         NEW e, NEW n, NEW p, NEW c \in BOOLEAN, NEW c2 \in BOOLEAN,
         NEW l, ResultNow(j, w, d, g, v, t, e, n, p, c, l), c2 => c,
         NEW out, NEW x, Quiet(j, out, x, c2)
  PROVE  ResultNow(j, w, d, g \o out, v, t, e, n, p, c2, l)
<1> USE DEF Quiet
<1> DEFINE G == g \o out
           a == j.stage.do
<1>1. /\ Shape(j) /\ Posting(j, g, v, t, e, p)
      /\ j.pending = "none" => ToldOnce(j, g, v) /\ Reread(j, g, v, t, e)
      /\ Fresh(j, w, d, g, v, t, n, p, c, l)
      /\ Noted(j, d, g, n, c, l) /\ (c => Holds(j, d, g, t) /\ Sent(j, d, g, p))
      /\ d.result = "posted" => p # <<>>
  BY DEF ResultNow
<1>2. \A M : Has(G, M) <=> Has(g, M) \/ Has(out, M)
  BY HasPut
<1>3. \A M : M \subseteq But({x}) => ~Has(out, M)
  BY HasMore
<1>4. /\ Lined(Tellers) \subseteq But({x}) /\ Lined({"post"}) \subseteq But({x})
      /\ Fields \subseteq But({x}) /\ Clear \subseteq But({x})
      /\ \A y : Lined(Tellers \ {y}) \subseteq But({x})
      /\ \A dos : x \in dos => But(dos) \subseteq But({x})
  BY DEF Lined, But, Tellers, Fields, Clear
<1>5. /\ ~Has(out, Lined(Tellers)) /\ ~Has(out, Lined({"post"})) /\ ~Has(out, Fields)
      /\ ~Has(out, Clear)
      /\ \A y : ~Has(out, Lined(Tellers \ {y}))
      /\ \A dos : x \in dos => ~Has(out, But(dos))
  BY <1>3, <1>4, Zenon
<1>6. d.result = "none"
  BY <1>1 DEF Fresh
<1>7. \A M, N : ~Has(out, M) /\ NoneAfter(g, M, N) /\ ~(Has(g, M) /\ Has(out, N)) => NoneAfter(G, M, N)
  <2> SUFFICES ASSUME NEW M, NEW N, ~Has(out, M), NoneAfter(g, M, N), ~(Has(g, M) /\ Has(out, N))
               PROVE  NoneAfter(G, M, N)
    BY Zenon
  <2>1. NoneAfter(out, M, N)
    BY NoneHas
  <2> QED
    BY <2>1, NonePut
<1>8. \A M : ~Has(out, M) /\ Once(g, M) => Once(G, M)
  <2> SUFFICES ASSUME NEW M, ~Has(out, M), Once(g, M) PROVE Once(G, M)
    BY Zenon
  <2>1. Once(out, M)
    BY NoneHas
  <2> QED
    BY <2>1, OncePut
<1> HIDE DEF G, a
<1>9. ASSUME j.pending = "none" PROVE ToldOnce(j, G, v)
  BY <1>1, <1>2, <1>5, <1>8, <1>9 DEF ToldOnce
<1>10. ASSUME j.pending = "none" PROVE Reread(j, G, v, t, e)
  BY <1>1, <1>2, <1>5, <1>7, <1>10 DEF Reread
<1>11. Posting(j, G, v, t, e, p)
  <2>1. ASSUME Has(G, Lined({"post"}))
        PROVE  /\ p = <<>> /\ t = Meant /\ ~e /\ a \in {"post", "clear note"}
               /\ ~Has(G, But({"post", "command", "clear note"})) /\ Once(G, Lined({"post"}))
    <3>1. /\ p = <<>> /\ t = Meant /\ ~e /\ a \in {"post", "clear note"}
          /\ ~Has(g, But({"post", "command", "clear note"})) /\ Once(g, Lined({"post"}))
      BY <1>1, <1>2, <1>5, <2>1 DEF Posting, a
    <3>2. x = "command"
      BY <3>1 DEF Prompts, a
    <3>3. ~Has(out, But({"post", "command", "clear note"}))
      BY <1>5, <3>2
    <3> QED
      BY <1>2, <1>5, <1>8, <3>1, <3>3
  <2> QED
    BY <1>1, <2>1 DEF Posting, a
<1>12. Fresh(j, w, d, G, v, t, n, p, c2, l)
  BY <1>1 DEF Fresh
<1>13. c2 => SaidOnce(j, G, v, n, p)
  BY DEF SaidOnce
<1>14. Noted(j, d, G, n, c2, l)
  <2>1. OnBoard(n, G) <=> OnBoard(n, g)
    BY <1>2, <1>5 DEF OnBoard
  <2>2. NoneAfter(G, Clear, Fields)
    BY <1>1, <1>5, <1>7 DEF Noted
  <2> QED
    BY <1>1, <1>2, <2>1, <2>2 DEF Noted
<1>15. c2 => Holds(j, d, G, t)
  <2> SUFFICES ASSUME c2 PROVE Holds(j, d, G, t)
    OBVIOUS
  <2>1. Holds(j, d, g, t)
    BY <1>1
  <2>2. CASE x # "text"
    <3>1. x \in Still
      BY <2>2 DEF Still
    <3>2. ~Has(out, But(Still))
      BY <1>5, <3>1
    <3> QED
      BY <1>2, <2>1, <3>2 DEF Holds
  <2>3. CASE x = "text"
    <3>1. a = "send"
      BY <2>3 DEF a
    <3>2. j.pending # "changed"
      BY <1>1, <3>1 DEF Shape, Quits, a
    <3> QED
      BY <1>6, <3>1, <3>2 DEF Holds, a
  <2> QED
    BY <2>2, <2>3
<1>16. c2 => Sent(j, d, G, p)
  BY <1>1, <1>2, <1>5 DEF Sent
<1> QED
  BY <1>1, <1>9, <1>10, <1>11, <1>12, <1>13, <1>14, <1>15, <1>16 DEF ResultNow, G

\* Whatever a step of the card comes to for its job.
LEMMA IdlesKeeps ==
  ASSUME NEW j \in JobType, j # NoJob, j.stage.do # "none", NEW r, Idles(j, r), r.job \in JobType,
         NEW w, NEW w2, NEW d, NEW g \in Seq(LineType), NEW v \in Seq(WriteType), NEW t,
         NEW e, NEW n, NEW p, NEW c \in BOOLEAN, NEW c2 \in BOOLEAN,
         NEW l, ResultNow(j, w, d, g, v, t, e, n, p, c, l), c2 => c
  PROVE  ResultNow(r.job, w2, d, g \o r.out, v, t, e, n, p, c2, l)
<1> DEFINE k == r.job
           out == r.out
<1>1. /\ k.stage = j.stage /\ k.stages = j.stages /\ k.kind = j.kind
      /\ k.pending = j.pending /\ k.started = j.started
      /\ k.postSent = j.postSent /\ k.words = j.words /\ k.listing = j.listing
      /\ out \in Seq(LineType) /\ ~Has(out, But({"text"}))
      /\ out # <<>> => j.stage.do = "send"
  BY DEF Idles
<1>2. k # NoJob
  <2>1. NoJob.stage.do = "none"
    BY DEF NoJob, NoStage, Stage
  <2> QED
    BY <1>1, <2>1
<1> HIDE DEF k, out
<1>3. ResultNow(j, w, d, g \o out, v, t, e, n, p, c, l)
  <2>1. CASE out = <<>>
    <3>1. g \o out = g
      BY <2>1
    <3> QED
      BY <3>1
  <2>2. CASE out # <<>>
    <3>1. j.stage.do = "send"
      BY <1>1, <2>2
    <3>2. /\ j.stage.do \notin Rereads /\ j.stage.do # "readback"
          /\ j.stage.do \notin {"board", "to", "subject", "post"}
      BY <3>1 DEF Rereads, ShowStages
    <3> DEFINE x == "text"
    <3>3. /\ x \in {"text", "command", "dot command"} /\ ~Has(out, But({x}))
          /\ x # "dot command" /\ (x = "text" => j.stage.do = "send") /\ (c => c)
      BY <1>1, <3>1
    <3> HIDE DEF x
    <3>4. Quiet(j, out, x, c)
      BY <1>1, <3>2, <3>3 DEF Quiet
    <3> QED
      BY <3>4, QuietKeeps
  <2> QED
    BY <2>1, <2>2
<1>4. ResultNow(k, w2, d, g \o out, v, t, e, n, p, c2, l)
  <2> DEFINE G == g \o out
  <2> HIDE DEF G
  <2>1. ResultNow(j, w, d, G, v, t, e, n, p, c, l)
    BY <1>3 DEF G
  <2>2. ResultNow(k, w2, d, G, v, t, e, n, p, c2, l)
    BY <1>1, <1>2, <2>1, SameKeeps
  <2> QED
    BY <2>2 DEF G
<1> QED
  BY <1>4 DEF k, out

-----------------------------------------------------------------------------
(* What a read takes off.                                                  *)

\* What the card read is off the way.
LEMMA DropKeeps ==
  ASSUME NEW j, NEW v \in Seq(WriteType), NEW k \in 1 .. Len(v),
         NEW w, NEW d, NEW g \in Seq(LineType), NEW t,
         NEW e, NEW n, NEW p, NEW c,
         NEW l, ResultNow(j, w, d, g, v, t, e, n, p, c, l)
  PROVE  ResultNow(j, w, d, g, SubSeq(v, k + 1, Len(v)), t, e, n, p, c, l)
<1> DEFINE T == SubSeq(v, k + 1, Len(v))
<1>1. /\ \A M : Has(T, M) => Has(v, M)
      /\ \A M : Once(v, M) => Once(T, M)
      /\ \A M, N : NoneAfter(v, M, N) => NoneAfter(T, M, N)
  BY HasDrop
<1>2. v # <<>>
  BY ONLY k \in 1 .. Len(v)
<1> HIDE DEF T
<1>3. ToldOnce(j, g, v) => ToldOnce(j, g, T)
  BY <1>1 DEF ToldOnce
<1>4. Reread(j, g, v, t, e) => Reread(j, g, T, t, e)
  BY <1>1 DEF Reread
<1>5. Posting(j, g, v, t, e, p) => Posting(j, g, T, t, e, p)
  BY <1>1 DEF Posting
<1>6. Fresh(j, w, d, g, v, t, n, p, c, l) => Fresh(j, w, d, g, T, t, n, p, c, l)
  BY <1>1, <1>2 DEF Fresh
<1>7. SaidOnce(j, g, v, n, p) => SaidOnce(j, g, T, n, p)
  BY <1>1 DEF SaidOnce
<1> QED
  BY <1>3, <1>4, <1>5, <1>6, <1>7 DEF ResultNow, T

\* What the job gathers of it.
LEMMA GatherKeeps ==
  ASSUME NEW j, j # NoJob, NEW q, q # NoJob, q.stage = j.stage, q.stages = j.stages,
         q.kind = j.kind, q.pending = j.pending, q.started = j.started,
         q.postSent = j.postSent,
         NEW v \in Seq(WriteType), NEW k \in 1 .. Len(v), NEW words, q.words = j.words \cup words,
         \A i \in 1 .. k : v[i].ends # "tick" /\ v[i].words \subseteq words,
         \A x \in words : \E i \in 1 .. k : x \in v[i].words,
         "listed" \in words =>
            \E i \in 1 .. k : "listed" \in v[i].words /\ v[i].listing = q.listing,
         "listed" \notin words => q.listing = j.listing,
         NEW w, NEW w2, NEW d, NEW g \in Seq(LineType), NEW t,
         NEW e, NEW n, NEW p, NEW c,
         NEW l, ResultNow(j, w, d, g, v, t, e, n, p, c, l)
  PROVE  ResultNow(q, w2, d, g, SubSeq(v, k + 1, Len(v)), t, e, n, p, c, l)
<1> DEFINE T == SubSeq(v, k + 1, Len(v))
<1>1. /\ \A M : Has(T, M) => Has(v, M)
      /\ \A M : Once(v, M) => Once(T, M)
      /\ \A M, N : NoneAfter(v, M, N) => NoneAfter(T, M, N)
      /\ \A M : \A i \in 1 .. k : v[i] \in M =>
            /\ Has(v, M)
            /\ Once(v, M) => ~Has(T, M)
            /\ \A N : NoneAfter(v, M, N) => ~Has(T, N)
  BY HasDrop
<1>2. /\ \A i \in 1 .. k : i \in 1 .. Len(v) /\ v[i] \in WriteType
      /\ 1 \in 1 .. k
  OBVIOUS
<1> HIDE DEF T
<1>3. Shape(j) => Shape(q)
  BY SameShape
<1>4. Telling(words) => \E i \in 1 .. k : v[i] \in Told
  BY <1>2 DEF Telling, Told
<1>5. Telling(q.words) <=> Telling(j.words) \/ Telling(words)
  BY DEF Telling
<1>6. "listed" \in words => \E i \in 1 .. k : v[i] \in Listings /\ v[i].listing = q.listing
  BY <1>2 DEF Listings
<1>7. ToldOnce(j, g, v) => ToldOnce(q, g, T)
  BY <1>1, <1>4, <1>5 DEF ToldOnce
<1>8. ASSUME Reread(j, g, v, t, e) PROVE Reread(q, g, T, t, e)
  <2> SUFFICES ASSUME j.stage.do \in Rereads PROVE Reread(q, g, T, t, e)
    BY DEF Reread
  <2>1. "listed" \in q.words => q.listing = t
    <3>1. CASE "listed" \in words
      <4>1. PICK i \in 1 .. k : v[i] \in Listings /\ v[i].listing = q.listing
        BY <1>6, <3>1
      <4>2. ~Has(v, Unlike(t))
        BY <1>8 DEF Reread
      <4>3. v[i] \notin Unlike(t)
        BY <1>2, <4>2 DEF Has
      <4> QED
        BY <4>1, <4>3 DEF Listings, Unlike
    <3>2. CASE "listed" \notin words
      BY <1>8, <3>2 DEF Reread
    <3> QED
      BY <3>1, <3>2
  <2>2. "listed" \in q.words \/ Has(T, Listings) => "listed" \in j.words \/ Has(v, Listings)
    BY <1>1, <1>6
  <2> QED
    BY <1>1, <1>8, <2>1, <2>2 DEF Reread, Hush
<1>9. ASSUME Posting(j, g, v, t, e, p) PROVE Posting(q, g, T, t, e, p)
  <2>1. "ok" \in words => Has(v, Oks)
    <3> SUFFICES ASSUME "ok" \in words PROVE Has(v, Oks)
      OBVIOUS
    <3>1. PICK i \in 1 .. k : "ok" \in v[i].words
      OBVIOUS
    <3> QED
      BY <1>2, <3>1 DEF Has, Oks
  <2> QED
    BY <1>1, <1>9, <2>1 DEF Posting
<1>10. Fresh(j, w, d, g, v, t, n, p, c, l) => Fresh(q, w2, d, g, T, t, n, p, c, l)
  BY DEF Fresh
<1>11. ASSUME SaidOnce(j, g, v, n, p) PROVE SaidOnce(q, g, T, n, p)
  <2>1. v[1] \in Spoken /\ Has(v, Spoken)
    BY <1>1, <1>2 DEF Spoken
  <2>2. ASSUME q.stage.do \in {"board", "to", "subject", "post"}
        PROVE  /\ Once(T, Spoken) /\ g = <<>> /\ ~Has(T, Spoken)
               /\ Done(q.stage.do, n, p) => /\ ~Has(T, Unkind)
                                            /\ q.words # {} => "ok" \in q.words
               /\ q.stage.do = "post" /\ p # <<>> => n # "card"
    <3>1. g = <<>> /\ Once(v, Spoken) /\ j.words = {}
      BY <1>11, <2>1, <2>2 DEF SaidOnce
    <3>2. Once(T, Spoken) /\ ~Has(T, Spoken)
      BY <1>1, <1>2, <2>1, <3>1
    <3>3. ASSUME Done(q.stage.do, n, p) PROVE ~Has(T, Unkind) /\ "ok" \in q.words
      <4>1. ~Has(v, Unkind)
        BY <1>11, <2>2, <3>3 DEF SaidOnce
      <4>2. v[1] \notin Unkind
        BY <1>2, <4>1 DEF Has
      <4>3. "ok" \in v[1].words
        BY <1>2, <4>2 DEF Unkind
      <4> QED
        BY <1>1, <1>2, <4>1, <4>3
    <3>4. q.stage.do = "post" /\ p # <<>> => n # "card"
      BY <1>11, <2>2 DEF SaidOnce
    <3> QED
      BY <3>1, <3>2, <3>3, <3>4
  <2>3. ASSUME q.kind = "post", q.stage.do = "readback"
        PROVE  /\ NoneAfter(g, Lined(Tellers), LineType) /\ NoneAfter(T, Listings, Spoken)
               /\ "listed" \in q.words \/ Has(T, Listings) => g = <<>>
               /\ "listed" \in q.words => ~Has(T, Spoken)
    <3>1. /\ NoneAfter(g, Lined(Tellers), LineType) /\ NoneAfter(v, Listings, Spoken)
          /\ "listed" \in j.words \/ Has(v, Listings) => g = <<>>
          /\ "listed" \notin j.words
      BY <1>11, <2>1, <2>3 DEF SaidOnce
    <3>2. "listed" \in words => Has(v, Listings) /\ ~Has(T, Spoken)
      BY <1>1, <1>6, <3>1
    <3> QED
      BY <1>1, <3>1, <3>2
  <2> QED
    BY <2>2, <2>3 DEF SaidOnce
<1>12. /\ Noted(j, d, g, n, c, l) => Noted(q, d, g, n, c, l)
       /\ Holds(j, d, g, t) => Holds(q, d, g, t)
       /\ Sent(j, d, g, p) => Sent(q, d, g, p)
  BY DEF Noted, Holds, Sent
<1> QED
  BY <1>3, <1>7, <1>8, <1>9, <1>10, <1>11, <1>12 DEF ResultNow, T

-----------------------------------------------------------------------------
(* The invariant of the results where the game says something.             *)

\* What a step of the game says: one write, with its tick or without.
Ones(m) == {<<m>>, <<Tick, m>>, <<m, Tick>>, <<Tick>>}

\* One write, with its tick or without.
LEMMA OnesAre ==
  ASSUME NEW m \in WriteType, NEW w, w \in Ones(m)
  PROVE  /\ w \in Seq(WriteType)
         /\ \A M : Tick \notin M => Once(w, M) /\ (Has(w, M) => m \in M)
         /\ \A M, N : Tick \notin M /\ Tick \notin N => NoneAfter(w, M, N)
<1>1. Tick \in WriteType
  BY TickIs
<1>2. \/ w = <<m>> \/ w = <<Tick, m>> \/ w = <<m, Tick>> \/ w = <<Tick>>
  BY DEF Ones
<1> HIDE DEF Ones
<1>3. /\ w \in Seq(WriteType) /\ Len(w) \in {1, 2} /\ w[1] \in {m, Tick}
      /\ Len(w) = 2 => w[2] \in {m, Tick} /\ (w[1] = Tick \/ w[2] = Tick)
  <2>1. CASE w = <<m>>
    BY <2>1, OneIs
  <2>2. CASE w = <<Tick>>
    BY <1>1, <2>2, OneIs
  <2>3. CASE w = <<m, Tick>>
    BY <1>1, <2>3, TwoIs
  <2>4. CASE w = <<Tick, m>>
    BY <1>1, <2>4, TwoIs
  <2> QED
    BY <1>2, <2>1, <2>2, <2>3, <2>4
<1>4. \A i \in 1 .. Len(w) : i = 1 \/ (i = 2 /\ Len(w) = 2)
  <2> HIDE DEF Tick
  <2>1. Len(w) = 1 \/ Len(w) = 2
    BY <1>3
  <2> QED
    BY <2>1, SMTT(60)
<1>5. ASSUME NEW M, Tick \notin M PROVE Once(w, M) /\ (Has(w, M) => m \in M)
  <2>1. Has(w, M) => m \in M
    BY <1>3, <1>4, <1>5 DEF Has
  <2>2. Once(w, M)
    BY <1>3, <1>4, <1>5 DEF Once
  <2> QED
    BY <2>1, <2>2
<1>6. ASSUME NEW M, NEW N, Tick \notin M, Tick \notin N PROVE NoneAfter(w, M, N)
  BY <1>3, <1>4, <1>6 DEF NoneAfter
<1> QED
  BY <1>3, <1>5, <1>6

\* A tick tells nothing.
LEMMA TickNot ==
  /\ Tick \notin Told /\ Tick \notin Spoken /\ Tick \notin Listings /\ Tick \notin Unkind
  /\ Tick \notin Oks /\ \A t : Tick \notin Unlike(t)
BY TickIs DEF Told, Telling, Spoken, Listings, Unkind, Oks, Unlike

\* A step of the game, as far as what the card says goes: of the line do it
\* says m, and the text, the editor, the note and the notes posted change.
Play(do, m, t, t2, e, e2, n, n2, p, p2) ==
    /\ m \in WriteType
    /\ Telling(m.words) => do \in Tellers
    /\ "listed" \in m.words =>
        /\ m.listing = t /\ t2 = t /\ do \in {"show", "board", "readback"}
        /\ do # "show" => ~e2
    /\ do = "post" /\ "ok" \in m.words => p2 # <<>>
    /\ p2 # p => do = "post" /\ p2 = Append(p, t) /\ "ok" \in m.words /\ n2 # "card"
    /\ n2 = "card" => n = "card" \/ (do \in {"to", "subject"} /\ "ok" \in m.words)
    /\ do = "clear note" /\ ~e => n2 # "card"
    /\ do \in {"command", "clear note"} /\ ~e => t2 = t /\ ~e2
    /\ do = "dot command" => t2 = t
    /\ (do \in EditorLines <=> e) /\ do \in Still => t2 = t

\* A step of the game keeps what the results rest on.
LEMMA PlayKeeps ==
  ASSUME NEW j \in JobType,
         NEW w, NEW d, NEW g \in Seq(LineType), g # <<>>, NEW v \in Seq(WriteType),
         NEW m, NEW o, o \in Ones(m), NEW t, NEW t2, NEW e, NEW e2,
         NEW n, NEW n2, NEW p, NEW p2, NEW c \in BOOLEAN, NEW c2 \in BOOLEAN,
         NEW l, d.result # "dropped",
         ResultNow(j, w, d, g, v, t, e, n, p, c, l), c2 => c,
         Play(Head(g).do, m, t, t2, e, e2, n, n2, p, p2),
         c2 => (Head(g).do \in EditorLines <=> e)
  PROVE  ResultNow(j, w, d, Tail(g), v \o o, t2, e2, n2, p2, c2, l)
<1> DEFINE h == Head(g)
           G == Tail(g)
           V == v \o o
           a == j.stage.do
<1>1. /\ j # NoJob => Shape(j)
      /\ j # NoJob /\ j.pending = "none" => ToldOnce(j, g, v) /\ Reread(j, g, v, t, e)
      /\ Posting(j, g, v, t, e, p) /\ Fresh(j, w, d, g, v, t, n, p, c, l)
      /\ c /\ j.pending = "none" => SaidOnce(j, g, v, n, p)
      /\ Noted(j, d, g, n, c, l) /\ (c => Holds(j, d, g, t) /\ Sent(j, d, g, p))
      /\ d.result = "posted" => p # <<>>
  BY DEF ResultNow
<1>2. /\ G \in Seq(LineType) /\ h \in LineType
      /\ \A M : Has(g, M) <=> h \in M \/ Has(G, M)
      /\ \A M : Once(g, M) => Once(G, M) /\ (h \in M => ~Has(G, M))
      /\ \A M, N : NoneAfter(g, M, N) => NoneAfter(G, M, N) /\ (h \in M => ~Has(G, N))
  BY HasTail
<1>3. /\ m \in WriteType
      /\ Telling(m.words) => h.do \in Tellers
      /\ "listed" \in m.words =>
            /\ m.listing = t /\ t2 = t /\ h.do \in {"show", "board", "readback"}
            /\ h.do # "show" => ~e2
      /\ h.do = "post" /\ "ok" \in m.words => p2 # <<>>
      /\ p2 # p => h.do = "post" /\ p2 = Append(p, t) /\ "ok" \in m.words /\ n2 # "card"
      /\ n2 = "card" => n = "card" \/ (h.do \in {"to", "subject"} /\ "ok" \in m.words)
      /\ h.do = "clear note" /\ ~e => n2 # "card"
      /\ h.do \in {"command", "clear note"} /\ ~e => t2 = t /\ ~e2
      /\ h.do = "dot command" => t2 = t
      /\ (h.do \in EditorLines <=> e) /\ h.do \in Still => t2 = t
  BY DEF Play
<1>4. c2 => (h.do \in EditorLines <=> e)
  OBVIOUS
<1>5. /\ o \in Seq(WriteType)
      /\ \A M : Tick \notin M => Once(o, M) /\ (Has(o, M) => m \in M)
      /\ \A M, N : Tick \notin M /\ Tick \notin N => NoneAfter(o, M, N)
  BY <1>3, OnesAre
<1>6. \A M : Has(V, M) <=> Has(v, M) \/ Has(o, M)
  BY <1>5, HasPut
<1> HIDE DEF h, G, V, a
<1>7. \A dos : (h \in Lined(dos) <=> h.do \in dos) /\ (h \in But(dos) <=> h.do \notin dos)
  BY <1>2 DEF Lined, But
<1>8. /\ m \in Told <=> Telling(m.words)
      /\ m \in Listings <=> "listed" \in m.words
      /\ m \in Oks <=> "ok" \in m.words
      /\ \A x : m \in Unlike(x) <=> "listed" \in m.words /\ m.listing # x
      /\ m \in Unkind => "ok" \notin m.words
      /\ "listed" \in m.words \/ "ok" \in m.words => Telling(m.words)
  BY <1>3 DEF Told, Listings, Oks, Unlike, Unkind, Telling, Tells
<1>9. /\ Has(o, Told) => Telling(m.words) /\ h.do \in Tellers
      /\ Has(o, Listings) => "listed" \in m.words
      /\ Has(o, Oks) => "ok" \in m.words
      /\ \A x : Has(o, Unlike(x)) => "listed" \in m.words /\ m.listing # x
      /\ Has(o, Unkind) => "ok" \notin m.words
  BY <1>3, <1>5, <1>8, TickNot
<1>10. p # <<>> => p2 # <<>>
  <2>1. p \in {<<>>, <<Meant>>}
    BY <1>1 DEF Posting
  <2> QED
    BY <1>3, <2>1
<1>11. j # NoJob \/ d.result # "none"
  BY <1>1 DEF Fresh
<1>12. ASSUME j # NoJob, j.pending = "none" PROVE ToldOnce(j, G, V)
  <2>1. ToldOnce(j, g, v)
    BY <1>1, <1>12
  <2>2. Has(o, Told) => Has(g, Lined(Tellers)) /\ ~Has(G, Lined(Tellers)) /\ h.do = Asked(j.stage)
    <3> SUFFICES ASSUME Has(o, Told)
                 PROVE  Has(g, Lined(Tellers)) /\ ~Has(G, Lined(Tellers)) /\ h.do = Asked(j.stage)
      OBVIOUS
    <3>1. h \in Lined(Tellers)
      BY <1>7, <1>9
    <3>2. h \notin Lined(Tellers \ {Asked(j.stage)})
      BY <1>2, <2>1 DEF ToldOnce
    <3> QED
      BY <1>2, <1>7, <2>1, <3>1, <3>2 DEF ToldOnce
  <2>3. Once(V, Told)
    <3>1. Once(v, Told) /\ Once(o, Told) /\ ~(Has(v, Told) /\ Has(o, Told))
      BY <1>5, <2>1, <2>2, TickNot DEF ToldOnce
    <3> QED
      BY <1>5, <3>1, OncePut DEF V
  <2>4. Has(o, Told) => j.stage.do \in ShowStages \cup Prompts
    <3>1. Has(o, Told) => Asked(j.stage) \in Tellers
      BY <1>9, <2>2
    <3>2. Asked(j.stage) = "show" => j.stage.do \in ShowStages \cup Prompts
      BY DEF Asked, ShowStages, Prompts
    <3>3. Asked(j.stage) \in Tellers /\ Asked(j.stage) # "show" => j.stage.do \in ShowStages \cup Prompts
      BY DEF Asked, ShowStages, Prompts, Tellers
    <3> QED
      BY <3>1, <3>2, <3>3
  <2>5. Has(G, Lined(Tellers)) => Has(g, Lined(Tellers)) /\ ~Has(o, Told)
    BY <1>2, <2>2
  <2>6. ~Has(G, Lined(Tellers \ {Asked(j.stage)}))
    BY <1>2, <2>1 DEF ToldOnce
  <2>7. Once(G, Lined(Tellers))
    BY <1>2, <2>1 DEF ToldOnce
  <2> QED
    BY <1>6, <2>1, <2>2, <2>3, <2>4, <2>5, <2>6, <2>7 DEF ToldOnce
<1>13. ASSUME j # NoJob, j.pending = "none" PROVE Reread(j, G, V, t2, e2)
  <2> SUFFICES ASSUME a \in Rereads PROVE Reread(j, G, V, t2, e2)
    BY DEF Reread, a
  <2>1. /\ NoneAfter(g, Lined(Tellers), But(Hush(j)))
        /\ ~Has(v, Unlike(t))
        /\ "listed" \in j.words => j.listing = t
        /\ "listed" \in j.words \/ Has(v, Listings) =>
            ~Has(g, But(Hush(j))) /\ (a = "readback" => ~e)
    BY <1>1, <1>13 DEF Reread, a
  <2>2. ToldOnce(j, g, v)
    BY <1>1, <1>13
  <2>3. "listed" \in j.words \/ Has(v, Listings) =>
            /\ ~Has(G, But(Hush(j))) /\ t2 = t /\ (a = "readback" => ~e2)
    <3> SUFFICES ASSUME "listed" \in j.words \/ Has(v, Listings)
                 PROVE  ~Has(G, But(Hush(j))) /\ t2 = t /\ (a = "readback" => ~e2)
      OBVIOUS
    <3>1. ~Has(G, But(Hush(j))) /\ h.do \in Hush(j) /\ (a = "readback" => ~e)
      BY <1>2, <1>7, <2>1
    <3> QED
      BY <1>3, <3>1 DEF Hush, a
  <2>4. Has(o, Listings) =>
            /\ ~Has(G, But(Hush(j))) /\ t2 = t /\ m.listing = t /\ (a = "readback" => ~e2)
    <3> SUFFICES ASSUME Has(o, Listings)
                 PROVE  ~Has(G, But(Hush(j))) /\ t2 = t /\ m.listing = t /\ (a = "readback" => ~e2)
      OBVIOUS
    <3>1. /\ "listed" \in m.words /\ m.listing = t /\ t2 = t
          /\ h.do \in {"show", "board", "readback"} /\ (h.do # "show" => ~e2)
      BY <1>3, <1>9
    <3>2. h \in Lined(Tellers)
      BY <1>7, <3>1 DEF Tellers
    <3>3. h \notin Lined(Tellers \ {Asked(j.stage)})
      BY <1>2, <2>2 DEF ToldOnce
    <3>4. h.do = Asked(j.stage)
      BY <1>7, <3>2, <3>3
    <3>5. a = "readback" => h.do # "show"
      BY <3>4 DEF Asked, ShowStages, a
    <3> QED
      BY <1>2, <2>1, <3>1, <3>2, <3>5
  <2>5. ~Has(V, Unlike(t2))
    <3>1. CASE t2 = t
      BY <1>6, <1>9, <2>1, <2>4, <3>1, HasKind
    <3>2. CASE t2 # t
      <4>1. ~Has(v, Listings) /\ ~Has(o, Listings)
        BY <2>3, <2>4, <3>2
      <4> QED
        BY <1>6, <4>1, HasKind
    <3> QED
      BY <3>1, <3>2
  <2>6. NoneAfter(G, Lined(Tellers), But(Hush(j)))
    BY <1>2, <2>1
  <2> QED
    BY <1>6, <2>1, <2>3, <2>4, <2>5, <2>6 DEF Reread, a
<1>14. Posting(j, G, V, t2, e2, p2)
  <2>1. ASSUME h.do = "post"
        PROVE  p = <<>> /\ t = Meant /\ (j = NoJob \/ a \in {"post", "clear note"}) /\ ~Has(G, Lined({"post"}))
    <3>1. h \in Lined({"post"})
      BY <1>7, <2>1
    <3>2. Has(g, Lined({"post"}))
      BY <1>2, <3>1
    <3> QED
      BY <1>1, <1>2, <3>1, <3>2 DEF Posting, a
  <2>2. p2 \in {<<>>, <<Meant>>}
    <3>1. p \in {<<>>, <<Meant>>}
      BY <1>1 DEF Posting
    <3>2. p2 # p => p2 = Append(<<>>, Meant)
      BY <1>3, <2>1
    <3>3. Append(<<>>, Meant) = <<Meant>>
      OBVIOUS
    <3> QED
      BY <3>1, <3>2, <3>3
  <2>3. ASSUME Has(G, Lined({"post"}))
        PROVE  /\ p2 = <<>> /\ t2 = Meant /\ ~e2
               /\ ~Has(G, But({"post", "command", "clear note"})) /\ Once(G, Lined({"post"}))
               /\ j = NoJob \/ a \in {"post", "clear note"}
    <3>1. Has(g, Lined({"post"}))
      BY <1>2, <2>3
    <3>2. /\ p = <<>> /\ t = Meant /\ ~e
          /\ ~Has(g, But({"post", "command", "clear note"})) /\ Once(g, Lined({"post"}))
          /\ j = NoJob \/ a \in {"post", "clear note"}
      BY <1>1, <3>1 DEF Posting, a
    <3>3. h.do # "post"
      BY <2>1, <2>3
    <3>4. h \notin But({"post", "command", "clear note"})
      BY <1>2, <3>2
    <3>5. h.do \in {"post", "command", "clear note"}
      BY <1>7, <3>4
    <3>6. h.do \in {"command", "clear note"}
      BY <3>3, <3>5
    <3> QED
      BY <1>2, <1>3, <3>2, <3>6
  <2>4. p2 # <<>> => j = NoJob \/ a = "post" \/ j.pending # "none"
    <3>1. p # <<>> => j = NoJob \/ a = "post" \/ j.pending # "none"
      BY <1>1 DEF Posting, a
    <3>2. j # NoJob /\ a = "clear note" => j.pending # "none"
      BY <1>1 DEF Shape, Course, Final, Follows, Mends, First, a
    <3> QED
      BY <1>3, <2>1, <3>1, <3>2
  <2>5. ASSUME a = "post", "ok" \in j.words \/ Has(V, Oks) PROVE p2 # <<>>
    <3>1. CASE "ok" \in j.words \/ Has(v, Oks)
      BY <1>1, <1>10, <2>5, <3>1 DEF Posting, a
    <3>2. CASE Has(o, Oks)
      <4>1. j # NoJob
        BY <2>5 DEF NoJob, NoStage, Stage, a
      <4>2. j.pending = "none"
        BY <1>1, <2>5, <4>1 DEF Shape, Quits, a
      <4>3. "ok" \in m.words /\ h.do \in Tellers
        BY <1>3, <1>8, <1>9, <3>2
      <4>4. Asked(j.stage) = "post"
        BY <2>5 DEF Asked, ShowStages, a
      <4>5. h \notin Lined(Tellers \ {Asked(j.stage)})
        BY <1>1, <1>2, <4>1, <4>2 DEF ToldOnce
      <4>6. h.do = "post"
        BY <1>7, <4>3, <4>4, <4>5
      <4> QED
        BY <1>3, <4>3, <4>6
    <3> QED
      BY <1>6, <2>5, <3>1, <3>2
  <2> QED
    BY <2>2, <2>3, <2>4, <2>5 DEF Posting, a
<1>15. Fresh(j, w, d, G, V, t2, n2, p2, c2, l)
  BY <1>1, <1>11 DEF Fresh
<1>16. ASSUME c2, j.pending = "none" PROVE SaidOnce(j, G, V, n2, p2)
  <2>1. SaidOnce(j, g, v, n, p)
    BY <1>1, <1>16
  <2>2. Once(o, Spoken) /\ NoneAfter(o, Listings, Spoken)
    BY <1>5, TickNot
  <2>3. ASSUME a \in {"board", "to", "subject", "post"}
        PROVE  /\ Once(V, Spoken) /\ G = <<>> /\ j.words = {}
               /\ Done(a, n2, p2) => ~Has(V, Unkind)
               /\ a = "post" /\ p2 # <<>> => n2 # "card"
    <3>1. G = <<>> /\ h.do = a /\ ~Has(v, Spoken) /\ j.words = {} /\ ~Done(a, n, p)
      BY <2>1, <2>3 DEF SaidOnce, a, h, G
    <3>2. Once(V, Spoken)
      <4>1. Once(v, Spoken)
        BY <3>1, NoneHas
      <4> QED
        BY <1>5, <2>2, <3>1, <4>1, OncePut DEF V
    <3>3. ~Has(v, Unkind)
      BY <3>1, HasKind
    <3>4. Done(a, n2, p2) => "ok" \in m.words
      BY <1>3, <3>1 DEF Done
    <3>5. a = "post" /\ p2 # <<>> => n2 # "card"
      BY <1>3, <3>1 DEF Done
    <3> QED
      BY <1>6, <1>9, <3>1, <3>2, <3>3, <3>4, <3>5
  <2>4. ASSUME j.kind = "post", a = "readback"
        PROVE  /\ NoneAfter(G, Lined(Tellers), LineType) /\ NoneAfter(V, Listings, Spoken)
               /\ "listed" \in j.words \/ Has(V, Listings) => G = <<>>
               /\ "listed" \notin j.words
    <3>1. /\ NoneAfter(g, Lined(Tellers), LineType)
          /\ "listed" \notin j.words /\ ~Has(v, Listings)
      BY <2>1, <2>4 DEF SaidOnce, a
    <3>2. NoneAfter(V, Listings, Spoken)
      <4>1. NoneAfter(v, Listings, Spoken)
        BY <3>1, NoneHas
      <4> QED
        BY <1>5, <2>2, <3>1, <4>1, NonePut DEF V
    <3>3. Has(V, Listings) => G = <<>>
      <4> SUFFICES ASSUME Has(V, Listings) PROVE G = <<>>
        OBVIOUS
      <4>1. h.do \in Tellers
        BY <1>3, <1>6, <1>8, <1>9, <3>1
      <4>2. ~Has(G, LineType)
        BY <1>2, <1>7, <3>1, <4>1
      <4>3. \A i \in 1 .. Len(G) : G[i] \in LineType
        BY <1>2, SeqAt
      <4>4. Len(G) \in Nat /\ (G = <<>> <=> Len(G) = 0)
        BY <1>2, LenZero, SeqAt, Zenon
      <4> QED
        BY <4>2, <4>3, <4>4 DEF Has
    <3> QED
      BY <1>2, <3>1, <3>2, <3>3
  <2> QED
    BY <2>3, <2>4 DEF SaidOnce, a
<1>17. Noted(j, d, G, n2, c2, l)
  <2>1. NoneAfter(g, Clear, Fields)
    BY <1>1 DEF Noted
  <2>2. OnBoard(n2, G) => OnBoard(n, g)
    <3>1. h.do \in {"to", "subject"} => Has(g, Fields)
      BY <1>2, <1>7 DEF Fields
    <3> QED
      BY <1>2, <1>3, <3>1 DEF OnBoard
  <2>3. ASSUME c2, OnBoard(n2, G), Has(g, Clear) PROVE Has(G, Clear)
    <3> SUFFICES ASSUME h \in Clear PROVE FALSE
      BY <1>2, <2>3
    <3>1. h.do = "clear note" /\ ~Has(G, Fields)
      <4>1. h.do = "clear note"
        BY <1>2 DEF Clear, Lined
      <4>2. h \in Clear => ~Has(G, Fields)
        BY <1>2, <2>1
      <4> QED
        BY <4>1, <4>2
    <3>2. ~e
      BY <1>4, <2>3, <3>1 DEF EditorLines
    <3> QED
      BY <1>3, <2>3, <3>1, <3>2 DEF OnBoard
  <2>4. NoneAfter(G, Clear, Fields)
    BY <1>2, <2>1
  <2> QED
    BY <1>1, <2>2, <2>3, <2>4 DEF Noted
<1>18. ASSUME c2 PROVE Holds(j, d, G, t2)
  <2>1. ~Has(g, But(Still)) => t2 = t /\ ~Has(G, But(Still))
    BY <1>2, <1>3, <1>4, <1>7, <1>18
  <2> QED
    BY <1>1, <1>18, <2>1 DEF Holds
<1>19. ASSUME c2 PROVE Sent(j, d, G, p2)
  <2>1. j.pending # "none" => p2 = <<>> /\ ~Has(G, Lined({"post"}))
    <3> SUFFICES ASSUME j.pending # "none" PROVE p2 = <<>> /\ ~Has(G, Lined({"post"}))
      OBVIOUS
    <3>1. p = <<>> /\ ~Has(g, Lined({"post"}))
      BY <1>1, <1>19 DEF Sent
    <3>2. h.do # "post"
      BY <1>2, <1>7, <3>1
    <3> QED
      BY <1>2, <1>3, <3>1, <3>2
  <2>2. d.result # "dropped"
    BY <1>1 DEF Fresh
  <2> QED
    BY <2>1, <2>2 DEF Sent
<1> QED
  BY <1>1, <1>10, <1>12, <1>13, <1>14, <1>15, <1>16, <1>17, <1>18, <1>19 DEF ResultNow, G, V

\* The game says something of its own.
LEMMA ChatKeeps ==
  ASSUME NEW j \in JobType,
         NEW w, NEW d, NEW g \in Seq(LineType), NEW v \in Seq(WriteType),
         NEW m \in WriteType, m.words \subseteq {"chat"}, NEW o, o \in Ones(m), NEW t,
         NEW e, NEW n, NEW p, NEW c \in BOOLEAN, NEW c2 \in BOOLEAN, NEW l,
         ResultNow(j, w, d, g, v, t, e, n, p, c, l), c2 => c,
         c2 => /\ w = "none" /\ j.stage.do \notin {"board", "to", "subject", "post"}
               /\ j.kind = "post" /\ j.stage.do = "readback" => e
  PROVE  ResultNow(j, w, d, g, v \o o, t, e, n, p, c2, l)
<1> DEFINE V == v \o o
<1>1. /\ j # NoJob /\ j.pending = "none" => ToldOnce(j, g, v) /\ Reread(j, g, v, t, e)
      /\ Posting(j, g, v, t, e, p) /\ Fresh(j, w, d, g, v, t, n, p, c, l)
      /\ c /\ j.pending = "none" => SaidOnce(j, g, v, n, p)
      /\ Noted(j, d, g, n, c, l)
  BY DEF ResultNow
<1>2. /\ o \in Seq(WriteType)
      /\ \A M : Tick \notin M => Once(o, M) /\ (Has(o, M) => m \in M)
      /\ \A M, N : Tick \notin M /\ Tick \notin N => NoneAfter(o, M, N)
  BY OnesAre
<1>3. /\ m \notin Told /\ m \notin Listings /\ m \notin Oks /\ \A x : m \notin Unlike(x)
  BY DEF Told, Telling, Tells, Listings, Oks, Unlike
<1>4. /\ ~Has(o, Told) /\ ~Has(o, Listings) /\ ~Has(o, Oks) /\ \A x : ~Has(o, Unlike(x))
  BY <1>2, <1>3, TickNot
<1>5. \A M : Has(V, M) <=> Has(v, M) \/ Has(o, M)
  BY <1>2, HasPut
<1>6. Once(v, Told) => Once(V, Told)
  <2>1. Once(o, Told)
    BY <1>4, NoneHas
  <2> QED
    BY <1>2, <1>4, <2>1, OncePut
<1> HIDE DEF V
<1>7. ToldOnce(j, g, v) => ToldOnce(j, g, V)
  BY <1>4, <1>5, <1>6 DEF ToldOnce
<1>8. Reread(j, g, v, t, e) => Reread(j, g, V, t, e)
  BY <1>4, <1>5 DEF Reread
<1>9. Posting(j, g, V, t, e, p)
  BY <1>1, <1>4, <1>5 DEF Posting
<1>10. Fresh(j, w, d, g, V, t, n, p, c2, l)
  BY <1>1, <1>4, <1>5 DEF Fresh
<1>11. ASSUME c2, j.pending = "none" PROVE SaidOnce(j, g, V, n, p)
  <2> SUFFICES ASSUME j.kind = "post", j.stage.do = "readback" PROVE SaidOnce(j, g, V, n, p)
    BY <1>11 DEF SaidOnce
  <2>1. j # NoJob
    BY DEF NoJob
  <2>2. e /\ SaidOnce(j, g, v, n, p) /\ Reread(j, g, v, t, e)
    BY <1>1, <1>11, <2>1
  <2>3. ~Has(v, Listings) /\ "listed" \notin j.words /\ NoneAfter(g, Lined(Tellers), LineType)
    BY <2>2 DEF Reread, Rereads, SaidOnce
  <2>4. ~Has(V, Listings)
    BY <1>4, <1>5, <2>3
  <2>5. NoneAfter(V, Listings, Spoken)
    BY <2>4, NoneHas
  <2> QED
    BY <2>3, <2>4, <2>5 DEF SaidOnce
<1>12. Noted(j, d, g, n, c2, l)
  BY <1>1 DEF Noted
<1> QED
  BY <1>7, <1>8, <1>9, <1>10, <1>11, <1>12 DEF ResultNow, V

-----------------------------------------------------------------------------
(* Each step of the game.                                                  *)

\* What a step of the game says, of what tells the card anything.
Says(words, listing) ==
    \E m \in WriteType : \E o \in Ones(m) :
        /\ \A x \in Tells : x \in m.words <=> x \in words
        /\ m.listing = listing /\ toVosh' = toVosh \o o

\* What the game says in the editor.
LEMMA InEditorSays ==
  ASSUME Types, NEW words \in SUBSET Words, NEW listing \in Seq(Kept), SaysInEditor(words, listing)
  PROVE  Says(words, listing) /\ editing' = TRUE /\ calm' = calm
<1>1. editing' = TRUE /\ calm' = calm /\ toVosh \in Seq(WriteType)
  BY DEF SaysInEditor, Types
<1>2. PICK more \in {{}, {"chat"}} : toVosh' = Append(toVosh, Said(words \cup more, listing, "editor"))
  <2>1. CASE toVosh' = Append(toVosh, Said(words, listing, "editor"))
    <3>1. words \cup {} = words
      OBVIOUS
    <3> QED
      BY <2>1, <3>1
  <2>2. CASE toVosh' = Append(toVosh, Said(words \cup {"chat"}, listing, "editor"))
    BY <2>2
  <2> QED
    BY <2>1, <2>2 DEF SaysInEditor
<1>3. PICK m \in WriteType : m = Said(words \cup more, listing, "editor")
  BY SaidIs DEF Words
<1>4. m.listing = listing /\ m.words = words \cup more
  BY <1>3 DEF Said
<1>5. \A x \in Tells : x \in m.words <=> x \in words
  BY <1>4 DEF Tells
<1>6. toVosh' = toVosh \o <<m>>
  BY <1>1, <1>2, <1>3, OneIs
<1>7. <<m>> \in Ones(m)
  BY DEF Ones
<1> QED
  BY <1>1, <1>4, <1>5, <1>6, <1>7 DEF Says

\* What the game says at its prompt.
LEMMA AtPromptSays ==
  ASSUME Types, NEW words \in SUBSET Words, NEW listing \in Seq(Kept), SaysAtPrompt(words, listing)
  PROVE  Says(words, listing) /\ editing' = FALSE /\ calm' = calm
<1>1. editing' = FALSE /\ calm' = calm /\ toVosh \in Seq(WriteType)
  BY DEF SaysAtPrompt, Types
<1> DEFINE m == Said(words, listing, "prompt")
<1>2. m \in WriteType /\ m.words = words
  BY SaidIs
<1>3. m.listing = listing
  BY DEF Said
<1>4. \A x \in Tells : x \in m.words <=> x \in words
  BY <1>2
<1>5. \/ toVosh' = toVosh \o <<Tick, m>> \/ toVosh' = toVosh \o <<m, Tick>>
      \/ toVosh' = Append(toVosh, Tick)
  BY DEF SaysAtPrompt
<1> HIDE DEF m
<1>6. Append(toVosh, Tick) = toVosh \o <<Tick>>
  BY <1>1, TickIs, OneIs
<1>7. <<Tick, m>> \in Ones(m) /\ <<m, Tick>> \in Ones(m) /\ <<Tick>> \in Ones(m)
  BY DEF Ones
<1>8. \E o \in Ones(m) : toVosh' = toVosh \o o
  BY <1>5, <1>6, <1>7
<1> QED
  BY <1>1, <1>2, <1>3, <1>4, <1>8 DEF Says

\* A step of the game as the card's results see it.
Plays ==
    \E m \in WriteType : \E o \in Ones(m) :
        /\ Play(Head(toGame).do, m, text, text', editing, editing', note, note', posted, posted')
        /\ toVosh' = toVosh \o o

\* What it says and does fits the line do it reads.
Tallies(do, words, listing) ==
    /\ Telling(words) => do \in Tellers
    /\ "listed" \in words =>
        /\ listing = text /\ text' = text /\ do \in {"show", "board", "readback"}
        /\ do # "show" => ~editing'
    /\ do = "post" /\ "ok" \in words => posted' # <<>>
    /\ posted' # posted => do = "post" /\ posted' = Append(posted, text) /\ "ok" \in words /\ note' # "card"
    /\ note' = "card" => note = "card" \/ (do \in {"to", "subject"} /\ "ok" \in words)
    /\ do = "clear note" /\ ~editing => note' # "card"
    /\ do \in {"command", "clear note"} /\ ~editing => text' = text /\ ~editing'
    /\ do = "dot command" => text' = text
    /\ (do \in EditorLines <=> editing) /\ do \in Still => text' = text

\* What the game says and does, put together.
LEMMA SaysPlays ==
  ASSUME NEW words, NEW listing, Says(words, listing), Tallies(Head(toGame).do, words, listing)
  PROVE  Plays
<1> DEFINE do == Head(toGame).do
<1>5. PICK m \in WriteType : \E o \in Ones(m) :
        /\ \A x \in Tells : x \in m.words <=> x \in words
        /\ m.listing = listing /\ toVosh' = toVosh \o o
  BY DEF Says
<1>1. PICK o \in Ones(m) :
        /\ \A x \in Tells : x \in m.words <=> x \in words
        /\ m.listing = listing /\ toVosh' = toVosh \o o
  BY <1>5
<1>2. Telling(m.words) <=> Telling(words)
  BY <1>1 DEF Telling
<1>3. ("listed" \in m.words <=> "listed" \in words) /\ ("ok" \in m.words <=> "ok" \in words)
  BY <1>1 DEF Tells
<1>4. Play(do, m, text, text', editing, editing', note, note', posted, posted')
  <2> HIDE DEF do
  <2>1. Tallies(do, words, listing)
    BY DEF do
  <2>2. Play(do, m, text, text', editing, editing', note, note', posted, posted')
    BY <1>1, <1>2, <1>3, <2>1 DEF Play, Tallies
  <2> QED
    BY <2>2 DEF do
<1> QED
  BY <1>1, <1>4 DEF Plays

\* Each line the game reads is such a step.
LEMMA PlaysTakes ==
  ASSUME Types, EditorTakes
  PROVE  Plays /\ calm' = calm
<1>1. GameReads({"text"} \cup PromptLines) /\ editing /\ UNCHANGED <<note, posted>>
  BY DEF EditorTakes
<1>2. Head(toGame).do \in {"text"} \cup PromptLines /\ toVosh \in Seq(WriteType)
  BY <1>1, HeadIs DEF Types
<1>3. Says({}, <<>>) /\ editing' = TRUE /\ calm' = calm
  <2>1. ASSUME SaysInEditor({}, <<>>) PROVE Says({}, <<>>) /\ editing' = TRUE /\ calm' = calm
    BY <2>1, InEditorSays, NoWords
  <2>2. ASSUME toVosh' = Append(toVosh, Said({}, <<>>, "editor")), UNCHANGED <<editing, calm>>
        PROVE  Says({}, <<>>) /\ editing' = TRUE /\ calm' = calm
    <3>1. PICK m \in WriteType : m = Said({}, <<>>, "editor")
      BY NoWords, SaidIs
    <3>2. m.words = {} /\ m.listing = <<>>
      BY <3>1 DEF Said
    <3>3. toVosh' = toVosh \o <<m>>
      BY <1>2, <2>2, <3>1, OneIs
    <3>4. <<m>> \in Ones(m)
      BY DEF Ones
    <3> QED
      BY <1>1, <2>2, <3>2, <3>3, <3>4 DEF Says
  <2> QED
    BY <2>1, <2>2 DEF EditorTakes
<1>4. ~(Head(toGame).do \in EditorLines <=> editing) \/ Head(toGame).do \notin Still
  BY <1>1, <1>2, Apart DEF Still
<1>5. Head(toGame).do # "dot command"
  BY <1>2 DEF PromptLines
<1> QED
  <2>1. Tallies(Head(toGame).do, {}, <<>>)
    BY <1>1, <1>3, <1>4, <1>5 DEF Telling, Tallies
  <2> QED
    BY <1>1, <1>3, <1>4, <1>5, <2>1, SaysPlays

LEMMA PlaysOverflows ==
  ASSUME Types, EditorOverflows
  PROVE  Plays /\ calm' = FALSE
<1>1. /\ GameReads({"text"}) /\ editing /\ calm' = FALSE /\ editing' = FALSE
      /\ toVosh' = toVosh \o <<Said({"too long"}, <<>>, "prompt"), Tick>>
      /\ UNCHANGED <<text, note, posted>>
  BY DEF EditorOverflows
<1>2. Head(toGame).do = "text"
  BY <1>1 DEF GameReads
<1> DEFINE m == Said({"too long"}, <<>>, "prompt")
<1>3. m \in WriteType /\ m.words = {"too long"}
  BY NoWords, SaidIs DEF Words
<1>4. m.listing = <<>>
  BY DEF Said
<1> HIDE DEF m
<1>5. <<m, Tick>> \in Ones(m) /\ toVosh' = toVosh \o <<m, Tick>>
  BY <1>1 DEF Ones, m
<1>6. Says({"too long"}, <<>>)
  BY <1>3, <1>4, <1>5 DEF Says
<1>7. ~Telling({"too long"})
  BY DEF Telling, Tells
<1> QED
  <2>1. Tallies(Head(toGame).do, {"too long"}, <<>>)
    BY <1>1, <1>2, <1>6, <1>7 DEF Tallies
  <2> QED
    BY <1>1, <1>2, <1>6, <1>7, <2>1, SaysPlays

LEMMA PlaysShows ==
  ASSUME Types, EditorShows
  PROVE  Plays /\ calm' = calm
<1>1. GameReads({"show"}) /\ editing /\ SaysInEditor({"listed"}, text) /\ UNCHANGED <<text, note, posted>>
  BY DEF EditorShows
<1>2. Head(toGame).do = "show" /\ text \in Seq(Kept)
  BY <1>1 DEF GameReads, Types
<1>3. Says({"listed"}, text) /\ editing' = TRUE /\ calm' = calm
  BY <1>1, <1>2, InEditorSays DEF Words
<1> QED
  <2>1. Tallies(Head(toGame).do, {"listed"}, text)
    BY <1>1, <1>2, <1>3 DEF Tellers, Tallies
  <2> QED
    BY <1>1, <1>2, <1>3, <2>1, SaysPlays

LEMMA PlaysClears ==
  ASSUME Types, EditorClears
  PROVE  Plays /\ calm' = calm
<1>1. GameReads({"clear"}) /\ editing /\ SaysInEditor({"cleared"}, <<>>) /\ UNCHANGED <<note, posted>>
  BY DEF EditorClears
<1>2. Head(toGame).do = "clear"
  BY <1>1 DEF GameReads
<1>3. Says({"cleared"}, <<>>) /\ editing' = TRUE /\ calm' = calm
  BY <1>1, NoWords, InEditorSays DEF Words
<1>4. ~Telling({"cleared"})
  BY DEF Telling, Tells
<1> QED
  <2>1. Tallies(Head(toGame).do, {"cleared"}, <<>>)
    BY <1>1, <1>2, <1>3, <1>4 DEF Still, Tallies
  <2> QED
    BY <1>1, <1>2, <1>3, <1>4, <2>1, SaysPlays

LEMMA PlaysMends ==
  ASSUME Types, EditorMends
  PROVE  Plays /\ calm' = calm
<1>1. GameReads({"replace", "delete"}) /\ editing /\ SaysInEditor({}, <<>>) /\ UNCHANGED <<note, posted>>
  BY DEF EditorMends
<1>2. Head(toGame).do \in {"replace", "delete"}
  BY <1>1 DEF GameReads
<1>3. Says({}, <<>>) /\ editing' = TRUE /\ calm' = calm
  BY <1>1, NoWords, InEditorSays
<1> QED
  <2>1. Tallies(Head(toGame).do, {}, <<>>)
    BY <1>1, <1>2, <1>3 DEF Still, Telling, Tallies
  <2> QED
    BY <1>1, <1>2, <1>3, <2>1, SaysPlays

LEMMA PlaysRuns ==
  ASSUME Types, EditorRuns
  PROVE  Plays /\ calm' = calm
<1>1. GameReads({"dot command"}) /\ editing /\ SaysInEditor({"words"}, <<>>) /\ UNCHANGED <<text, note, posted>>
  BY DEF EditorRuns
<1>2. Head(toGame).do = "dot command"
  BY <1>1 DEF GameReads
<1>3. Says({"words"}, <<>>) /\ editing' = TRUE /\ calm' = calm
  BY <1>1, NoWords, InEditorSays DEF Words
<1>4. ~Telling({"words"})
  BY DEF Telling, Tells
<1> QED
  <2>1. Tallies(Head(toGame).do, {"words"}, <<>>)
    BY <1>1, <1>2, <1>3, <1>4 DEF Tallies
  <2> QED
    BY <1>1, <1>2, <1>3, <1>4, <2>1, SaysPlays

LEMMA PlaysCloses ==
  ASSUME Types, EditorCloses
  PROVE  Plays /\ calm' = calm
<1>1. GameReads({"leave"}) /\ editing /\ SaysAtPrompt({}, <<>>) /\ UNCHANGED <<text, note, posted>>
  BY DEF EditorCloses
<1>2. Head(toGame).do = "leave"
  BY <1>1 DEF GameReads
<1>3. Says({}, <<>>) /\ editing' = FALSE /\ calm' = calm
  BY <1>1, NoWords, AtPromptSays
<1> QED
  <2>1. Tallies(Head(toGame).do, {}, <<>>)
    BY <1>1, <1>2, <1>3 DEF Telling, Tallies
  <2> QED
    BY <1>1, <1>2, <1>3, <2>1, SaysPlays

LEMMA PlaysOpens ==
  ASSUME Types, Opens
  PROVE  Plays /\ calm' = calm
<1>1. GameReads({"open"}) /\ ~editing /\ UNCHANGED <<text, note, posted>>
  BY DEF Opens
<1>2. Head(toGame).do = "open"
  BY <1>1 DEF GameReads
<1>3. ~Telling({"banner"}) /\ ~Telling({"no"})
  BY DEF Telling, Tells
<1>4. CASE SaysInEditor({"banner"}, <<>>)
  <2>1. Says({"banner"}, <<>>) /\ editing' = TRUE /\ calm' = calm
    BY <1>4, NoWords, InEditorSays DEF Words
  <2> QED
    <3>1. Tallies(Head(toGame).do, {"banner"}, <<>>)
      BY <1>1, <1>2, <1>3, <2>1 DEF Tallies
    <3> QED
      BY <1>1, <1>2, <1>3, <2>1, <3>1, SaysPlays
<1>5. CASE SaysAtPrompt({"no"}, <<>>)
  <2>1. Says({"no"}, <<>>) /\ editing' = FALSE /\ calm' = calm
    BY <1>5, NoWords, AtPromptSays DEF Words
  <2> QED
    <3>1. Tallies(Head(toGame).do, {"no"}, <<>>)
      BY <1>1, <1>2, <1>3, <2>1 DEF Tallies
    <3> QED
      BY <1>1, <1>2, <1>3, <2>1, <3>1, SaysPlays
<1> QED
  BY <1>4, <1>5 DEF Opens

LEMMA PlaysNote ==
  ASSUME Types, ShowsNote
  PROVE  Plays /\ calm' = calm
<1>1. GameReads({"board", "readback"}) /\ ~editing /\ UNCHANGED <<text, note, posted>>
  BY DEF ShowsNote
<1>2. Head(toGame).do \in {"board", "readback"} /\ text \in Seq(Kept)
  BY <1>1 DEF GameReads, Types
<1>3. CASE SaysAtPrompt({"no note"}, <<>>)
  <2>1. Says({"no note"}, <<>>) /\ editing' = FALSE /\ calm' = calm
    BY <1>3, NoWords, AtPromptSays DEF Words
  <2> QED
    <3>1. Tallies(Head(toGame).do, {"no note"}, <<>>)
      BY <1>1, <1>2, <2>1 DEF Tellers, Tallies
    <3> QED
      BY <1>1, <1>2, <2>1, <3>1, SaysPlays
<1>4. CASE SaysAtPrompt({"listed"}, text)
  <2>1. Says({"listed"}, text) /\ editing' = FALSE /\ calm' = calm
    BY <1>2, <1>4, AtPromptSays DEF Words
  <2> QED
    <3>1. Tallies(Head(toGame).do, {"listed"}, text)
      BY <1>1, <1>2, <2>1 DEF Tellers, Tallies
    <3> QED
      BY <1>1, <1>2, <2>1, <3>1, SaysPlays
<1> QED
  BY <1>3, <1>4 DEF ShowsNote

LEMMA PlaysField ==
  ASSUME Types, SetsField
  PROVE  Plays /\ calm' = calm
<1>1. GameReads({"to", "subject"}) /\ ~editing /\ UNCHANGED posted
  BY DEF SetsField
<1>2. Head(toGame).do \in {"to", "subject"}
  BY <1>1 DEF GameReads
<1>3. CASE SaysAtPrompt({"ok"}, <<>>)
  <2>1. Says({"ok"}, <<>>) /\ editing' = FALSE /\ calm' = calm
    BY <1>3, NoWords, AtPromptSays DEF Words
  <2> QED
    <3>1. Tallies(Head(toGame).do, {"ok"}, <<>>)
      BY <1>1, <1>2, <2>1 DEF Tellers, Still, Tallies
    <3> QED
      BY <1>1, <1>2, <2>1, <3>1, SaysPlays
<1>4. CASE SaysAtPrompt({"no"}, <<>>) /\ UNCHANGED <<note, text>>
  <2>1. Says({"no"}, <<>>) /\ editing' = FALSE /\ calm' = calm
    BY <1>4, NoWords, AtPromptSays DEF Words
  <2>2. ~Telling({"no"})
    BY DEF Telling, Tells
  <2> QED
    <3>1. Tallies(Head(toGame).do, {"no"}, <<>>)
      BY <1>1, <1>2, <1>4, <2>1, <2>2 DEF Tallies
    <3> QED
      BY <1>1, <1>2, <1>4, <2>1, <2>2, <3>1, SaysPlays
<1> QED
  BY <1>3, <1>4 DEF SetsField

LEMMA PlaysClearsNote ==
  ASSUME Types, ClearsNote
  PROVE  Plays /\ calm' = calm
<1>1. /\ GameReads({"clear note"}) /\ ~editing /\ note' = "none" /\ SaysAtPrompt({"ok"}, <<>>)
      /\ UNCHANGED <<text, posted>>
  BY DEF ClearsNote
<1>2. Head(toGame).do = "clear note"
  BY <1>1 DEF GameReads
<1>3. Says({"ok"}, <<>>) /\ editing' = FALSE /\ calm' = calm
  BY <1>1, NoWords, AtPromptSays DEF Words
<1> QED
  <2>1. Tallies(Head(toGame).do, {"ok"}, <<>>)
    BY <1>1, <1>2, <1>3 DEF Tellers, Tallies
  <2> QED
    BY <1>1, <1>2, <1>3, <2>1, SaysPlays

LEMMA PlaysPosts ==
  ASSUME Types, Posts, posted \in {<<>>, <<Meant>>}
  PROVE  Plays /\ calm' = calm
<1>1. GameReads({"post"}) /\ ~editing /\ UNCHANGED text
  BY DEF Posts
<1>2. Head(toGame).do = "post"
  BY <1>1 DEF GameReads
<1>3. CASE note' = "none" /\ posted' = Append(posted, text) /\ SaysAtPrompt({"ok"}, <<>>)
  <2>1. Says({"ok"}, <<>>) /\ editing' = FALSE /\ calm' = calm
    BY <1>3, NoWords, AtPromptSays DEF Words
  <2>2. posted' # <<>>
    BY <1>3
  <2> QED
    <3>1. Tallies(Head(toGame).do, {"ok"}, <<>>)
      BY <1>1, <1>2, <1>3, <2>1, <2>2 DEF Tellers, Tallies
    <3> QED
      BY <1>1, <1>2, <1>3, <2>1, <2>2, <3>1, SaysPlays
<1>4. CASE SaysAtPrompt({"no"}, <<>>) /\ UNCHANGED <<note, posted>>
  <2>1. Says({"no"}, <<>>) /\ editing' = FALSE /\ calm' = calm
    BY <1>4, NoWords, AtPromptSays DEF Words
  <2>2. ~Telling({"no"})
    BY DEF Telling, Tells
  <2> QED
    <3>1. Tallies(Head(toGame).do, {"no"}, <<>>)
      BY <1>1, <1>2, <1>4, <2>1, <2>2 DEF Tallies
    <3> QED
      BY <1>1, <1>2, <1>4, <2>1, <2>2, <3>1, SaysPlays
<1> QED
  BY <1>3, <1>4 DEF Posts

LEMMA PlaysCommand ==
  ASSUME Types, RunsCommand
  PROVE  Plays /\ calm' = calm
<1>1. GameReads({"command"} \cup EditorLines) /\ ~editing /\ SaysAtPrompt({"words"}, <<>>) /\ UNCHANGED <<text, note, posted>>
  BY DEF RunsCommand
<1>2. Head(toGame).do \in {"command"} \cup EditorLines
  BY <1>1 DEF GameReads
<1>3. Says({"words"}, <<>>) /\ editing' = FALSE /\ calm' = calm
  BY <1>1, NoWords, AtPromptSays DEF Words
<1>4. ~Telling({"words"})
  BY DEF Telling, Tells
<1>5. Head(toGame).do # "clear note"
  BY <1>2 DEF EditorLines
<1> QED
  <2>1. Tallies(Head(toGame).do, {"words"}, <<>>)
    BY <1>1, <1>2, <1>3, <1>4, <1>5 DEF Tallies
  <2> QED
    BY <1>1, <1>2, <1>3, <1>4, <1>5, <2>1, SaysPlays

\* Whatever the game reads, it is such a step.
LEMMA GamePlays ==
  ASSUME Types, GameStep, posted \in {<<>>, <<Meant>>}
  PROVE  /\ Plays /\ (calm' => calm) /\ link /\ ~hung /\ toGame # <<>> /\ toGame' = Tail(toGame)
         /\ UNCHANGED <<cardVars, hung, link>>
<1>1. Plays /\ (calm' => calm)
  <2>1. CASE EditorTakes
    BY <2>1, PlaysTakes
  <2>2. CASE EditorOverflows
    BY <2>2, PlaysOverflows
  <2>3. CASE EditorShows
    BY <2>3, PlaysShows
  <2>4. CASE EditorClears
    BY <2>4, PlaysClears
  <2>5. CASE EditorMends
    BY <2>5, PlaysMends
  <2>6. CASE EditorRuns
    BY <2>6, PlaysRuns
  <2>7. CASE EditorCloses
    BY <2>7, PlaysCloses
  <2>8. CASE Opens
    BY <2>8, PlaysOpens
  <2>9. CASE ShowsNote
    BY <2>9, PlaysNote
  <2>10. CASE SetsField
    BY <2>10, PlaysField
  <2>11. CASE ClearsNote
    BY <2>11, PlaysClearsNote
  <2>12. CASE Posts
    BY <2>12, PlaysPosts
  <2>13. CASE RunsCommand
    BY <2>13, PlaysCommand
  <2> QED
    BY <2>1, <2>2, <2>3, <2>4, <2>5, <2>6, <2>7, <2>8, <2>9, <2>10, <2>11, <2>12, <2>13 DEF GameStep
<1>2. PICK dos : GameReads(dos)
  BY GameIs
<1> QED
  BY <1>1, <1>2 DEF GameReads

\* A step of the game.
LEMMA ResultGame ==
  ASSUME Types, LandInv, ResultInv, GameStep
  PROVE  ResultInv'
<1>1. /\ job \in JobType /\ toGame \in Seq(LineType) /\ toVosh \in Seq(WriteType)
      /\ editing \in BOOLEAN /\ calm \in BOOLEAN /\ link \in BOOLEAN /\ posted \in {<<>>, <<Meant>>}
  BY NoJobIs DEF Types, JobForm, ResultInv, ResultNow, Posting
<1>2. /\ Plays /\ (calm' => calm) /\ link /\ ~hung /\ toGame # <<>> /\ toGame' = Tail(toGame)
      /\ UNCHANGED <<cardVars, hung, link>>
  BY <1>1, GamePlays
<1>3. editing' \in BOOLEAN /\ calm' \in BOOLEAN
  BY TypesGameStep DEF Types
<1>4. calm' => (Head(toGame).do \in EditorLines <=> editing)
  BY <1>2, LandEnough DEF LandsWhereMeant
<1>8. PICK m \in WriteType : \E o \in Ones(m) :
        /\ Play(Head(toGame).do, m, text, text', editing, editing', note, note', posted, posted')
        /\ toVosh' = toVosh \o o
  BY <1>2 DEF Plays
<1>5. PICK o \in Ones(m) :
        /\ Play(Head(toGame).do, m, text, text', editing, editing', note, note', posted, posted')
        /\ toVosh' = toVosh \o o
  BY <1>8
<1>6. ResultNow(job, waiting, done, toGame, toVosh, text, editing, note, posted, calm, link)
  BY <1>2 DEF ResultInv
<1>9. done.result # "dropped"
  BY <1>2, <1>6 DEF ResultNow, Fresh
<1>10. toGame # <<>> /\ (calm' => calm)
  BY <1>2
<1>7. ResultNow(job, waiting, done, Tail(toGame), toVosh \o o, text', editing', note', posted', calm', link)
  BY <1>1, <1>3, <1>4, <1>5, <1>6, <1>9, <1>10, PlayKeeps
<1> QED
  BY <1>2, <1>5, <1>7 DEF ResultInv, cardVars

-----------------------------------------------------------------------------
(* Each step of the card.                                                  *)

\* A job under way is at a stage.
LEMMA StageIs ==
  ASSUME NEW j, JobForm(j)
  PROVE  j.stage.do # "none" /\ j \in JobType /\ j # NoJob /\ j.kind \in Kinds /\ j.result = "none"
<1>1. j.stage.do # "none"
  BY DEF JobForm, AtBoard, AtOpen, InText, Leaving, Prompts, InEdits, ShowStages
<1> QED
  BY <1>1, NotForm DEF JobForm

\* Where the card acts for a job, and what it says before holds of the job as
\* the step takes it.
LEMMA ActsKeeps ==
  ASSUME Types, NEW j \in JobType, j # NoJob, j.kind \in Kinds, j.result = "none",
         NEW r, NEW h, NEW a, Acts(r, h, a), Moves(r) \/ Over(r),
         Fares(j, r) \/ (~calm' /\ Over(r) /\ r.job.result = "stopped"),
         j.stage.do = "none" => GoesOn(j, r) /\ toGame = <<>> /\ (calm => toVosh' = <<>>),
         ResultNow(j, waiting, done, toGame, toVosh', text, editing, note, posted, calm, link),
         toVosh' \in Seq(WriteType), calm' \in BOOLEAN, calm' => calm, waiting' = "none",
         UNCHANGED <<gameVars, link>>
  PROVE  ResultInv'
<1>1. toGame \in Seq(LineType) /\ calm \in BOOLEAN /\ held \in Nat
  BY DEF Types
<1>2. text' = text /\ editing' = editing /\ note' = note /\ posted' = posted /\ link' = link
  BY DEF gameVars
<1>3. ASSUME r.job.result = "none", ~Over(r),
             ResultNow(r.job, "none", done, toGame \o r.out, toVosh', text, editing, note, posted, calm', link)
      PROVE  ResultInv'
  <2>1. job' = r.job /\ toGame' = toGame \o r.out /\ done' = done
    BY <1>3, ActsGo
  <2> QED
    BY <1>2, <1>3, <2>1 DEF ResultInv
<1>4. Moves(r) => r.job \in JobType /\ r.job.result = "none" /\ ~Over(r)
  BY Moving DEF Moves, JobForm
<1>5. CASE GoesOn(j, r)
  <2>1. Moves(r)
    BY <1>5 DEF GoesOn, Over
  <2>2. j.stage.do = "none" => toGame = <<>> /\ (calm => toVosh' = <<>>)
    OBVIOUS
  <2>3. ResultNow(r.job, "none", done, toGame \o r.out, toVosh', text, editing, note, posted, calm', link)
    BY <1>1, <1>4, <1>5, <2>1, <2>2, GoesOnKeeps, ZenonT(60)
  <2> QED
    BY <1>3, <1>4, <2>1, <2>3
<1>6. CASE Quitting(j, r) /\ ~GoesOn(j, r)
  <2>1. Moves(r)
    BY <1>6 DEF Quitting, Over
  <2>2. j.stage.do # "none"
    BY <1>6
  <2>3. ResultNow(r.job, "none", done, toGame \o r.out, toVosh', text, editing, note, posted, calm', link)
    BY <1>1, <1>4, <1>6, <2>1, <2>2, QuittingKeeps
  <2> QED
    BY <1>3, <1>4, <2>1, <2>3
<1>7. CASE Idles(j, r) /\ ~GoesOn(j, r)
  <2>1. Moves(r)
    BY <1>7 DEF Idles, Over
  <2>2. j.stage.do # "none"
    BY <1>7
  <2>3. ResultNow(r.job, "none", done, toGame \o r.out, toVosh', text, editing, note, posted, calm', link)
    BY <1>1, <1>4, <1>7, <2>1, <2>2, IdlesKeeps
  <2> QED
    BY <1>3, <1>4, <2>1, <2>3
<1>8. CASE (Closing(j, r) \/ (~calm' /\ Over(r) /\ r.job.result = "stopped")) /\ ~GoesOn(j, r)
  <2>1. Over(r)
    BY <1>8 DEF Closing
  <2>2. j.stage.do # "none"
    BY <1>8
  <2>3. job' = NoJob /\ toGame' = toGame \o Flush
    BY <1>1, <2>1, ActsOver
  <2>4. done'.result = r.job.result
    BY <2>1 DEF Acts, Over
  <2>5. Flush \in Seq(LineType) /\ ~Has(Flush, But({"command"}))
    BY <1>1, FlushIs DEF Has, But, Are
  <2>6. Closing(j, r) \/ (~calm' /\ Over(r) /\ r.job.result = "stopped")
    BY <1>8
  <2>7. ResultNow(NoJob, "none", done', toGame \o Flush, toVosh', text, editing, note, posted, calm', link)
    BY <1>1, <2>2, <2>4, <2>5, <2>6, ClosingKeeps
  <2> QED
    BY <1>2, <2>3, <2>7 DEF ResultInv
<1> QED
  BY <1>5, <1>6, <1>7, <1>8 DEF Fares

\* A job that begins finds nothing of an earlier one.
LEMMA NewKeeps ==
  ASSUME NEW kind \in Kinds, NEW w, NEW w2, NEW d, d.result = "none", NEW g, NEW v, NEW t,
         NEW e, NEW n, NEW p, NEW c, NEW l, ResultNow(NoJob, w, d, g, v, t, e, n, p, c, l)
  PROVE  ResultNow(New(kind), w2, d, g, v, t, e, n, p, c, l) /\ g = <<>>
<1> DEFINE j == New(kind)
<1>1. /\ j.stage.do = "none" /\ j.kind = kind /\ j.words = {} /\ j.pending = "none"
      /\ j.result = "none" /\ j # NoJob /\ Shape(j)
  BY NewDoes
<1>2. /\ g = <<>> /\ p = <<>> /\ n # "card" /\ t \in {<<>>, <<Other>>} /\ ~Has(v, Told)
  BY DEF ResultNow, Fresh
<1>3. \A M : ~Has(g, M)
  BY <1>2, HasNone
<1> HIDE DEF j
<1>4. ~Telling(j.words)
  BY <1>1 DEF Telling
<1>5. ToldOnce(j, g, v)
  <2>1. Once(g, Lined(Tellers)) /\ Once(v, Told)
    BY <1>2, <1>3, NoneHas
  <2> QED
    BY <1>2, <1>3, <1>4, <2>1 DEF ToldOnce
<1>6. Reread(j, g, v, t, e) /\ SaidOnce(j, g, v, n, p)
  BY <1>1 DEF Reread, Rereads, ShowStages, SaidOnce
<1>7. Posting(j, g, v, t, e, p) /\ Fresh(j, w2, d, g, v, t, n, p, c, l)
  BY <1>1, <1>2, <1>3 DEF Posting, Fresh
<1>8. Noted(j, d, g, n, c, l)
  <2>1. NoneAfter(g, Clear, Fields)
    BY <1>3, NoneHas
  <2> QED
    BY <1>2, <1>3, <2>1 DEF Noted, OnBoard
<1>9. Holds(j, d, g, t) /\ Sent(j, d, g, p)
  BY <1>1, <1>2, <1>3 DEF Holds, Sent
<1> QED
  BY <1>1, <1>2, <1>5, <1>6, <1>7, <1>8, <1>9 DEF ResultNow, j

\* A job that begins takes its first stage.
LEMMA NewMoves ==
  ASSUME NEW kind \in Kinds
  PROVE  New(kind) \in JobType /\ Moves(Advance(New(kind)))
<1>1. Moves(Advance(New(kind)))
  BY NewIs, Moving
<1>2. New(kind) \in JobType
  BY NoJobIs, StagesIs DEF New, JobType
<1> QED
  BY <1>1, <1>2

\* A job begins.
LEMMA ResultBegins ==
  ASSUME Types, ResultInv, job = NoJob, done.result = "none", NEW kind \in Kinds, NEW h, NEW a,
         Acts(Advance(New(kind)), h, a), calm => toVosh = <<>>,
         waiting' = "none", UNCHANGED <<toVosh, gameVars, link, calm>>
  PROVE  ResultInv'
<1> DEFINE j == New(kind)
<1>1. /\ ResultNow(j, waiting, done, toGame, toVosh, text, editing, note, posted, calm, link)
      /\ toGame = <<>>
  BY NewKeeps DEF ResultInv
<1>2. j # NoJob /\ j.stage.do = "none" /\ j.kind \in Kinds /\ j.result = "none" /\ GoesOn(j, Advance(j))
  BY NewDoes
<1>3. j \in JobType /\ Moves(Advance(j))
  BY NewMoves
<1>4. toVosh' = toVosh /\ toVosh' \in Seq(WriteType) /\ calm' = calm /\ calm' \in BOOLEAN
  BY DEF Types
<1> HIDE DEF j
<1>5. Acts(Advance(j), h, a)
  BY DEF j
<1>6. Fares(j, Advance(j)) /\ (Moves(Advance(j)) \/ Over(Advance(j)))
  BY <1>2, <1>3 DEF Fares
<1>7. ResultNow(j, waiting, done, toGame, toVosh', text, editing, note, posted, calm, link)
  BY <1>1, <1>4
<1>8. (calm => toVosh' = <<>>) /\ (calm' => calm)
  BY <1>4
<1> QED
  BY <1>1, <1>2, <1>3, <1>4, <1>5, <1>6, <1>7, <1>8, ActsKeeps

\* Each step of the card.
LEMMA ResultStart ==
  ASSUME Types, ResultInv, NEW kind \in Kinds, Start(kind)
  PROVE  ResultInv'
<1>1. /\ job = NoJob /\ done.result = "none" /\ toVosh = <<>>
      /\ UNCHANGED <<game, toVosh, gameVars, link, calm, left>>
  BY DEF Start, UnderWay
<1>2. CASE Acts(Advance(New(kind)), heard, armed) /\ waiting' = "none"
  <2>1. UNCHANGED <<toVosh, gameVars, link, calm>>
    BY <1>1
  <2> QED
    BY <1>1, <1>2, <2>1, ResultBegins
<1>4. CASE waiting' = kind /\ UNCHANGED <<job, done, armed, held, heard, toGame>>
  <2>1. ResultNow(NoJob, waiting, done, toGame, toVosh, text, editing, note, posted, calm, link)
    BY <1>1 DEF ResultInv
  <2>2. ResultNow(NoJob, kind, done, toGame, toVosh, text, editing, note, posted, calm, link)
    BY <1>1, <2>1 DEF ResultNow, Fresh
  <2>3. /\ job' = NoJob /\ waiting' = kind /\ done' = done /\ toGame' = toGame /\ toVosh' = toVosh
        /\ text' = text /\ editing' = editing /\ note' = note /\ posted' = posted
        /\ calm' = calm /\ link' = link
    BY <1>1, <1>4 DEF gameVars
  <2> QED
    BY <2>2, <2>3 DEF ResultInv
<1> QED
  BY <1>2, <1>4 DEF Start

LEMMA ResultStop ==
  ASSUME Types, ResultInv, Stop
  PROVE  ResultInv'
<1>1. /\ JobForm(job) /\ Acts(Stopped(job), heard, armed)
      /\ calm' = (calm /\ job.stage.do \notin {"to", "open"})
      /\ UNCHANGED <<waiting, game, toVosh, gameVars, link>> /\ waiting = "none"
  BY StopIs
<1>2. ~job.postSent
  BY DEF Stop
<1>3. ResultNow(job, waiting, done, toGame, toVosh, text, editing, note, posted, calm, link)
  BY DEF ResultInv
<1>4. /\ job.stage.do # "none" /\ job \in JobType /\ job # NoJob /\ job.kind \in Kinds /\ job.result = "none"
  BY <1>1, StageIs
<1>5. Shape(job)
  BY <1>3, <1>4 DEF ResultNow
<1>6. Moves(Stopped(job)) \/ Over(Stopped(job))
  BY <1>1, StoppedIs, Moving
<1>7. Fares(job, Stopped(job)) \/ (~calm' /\ Over(Stopped(job)) /\ Stopped(job).job.result = "stopped")
  BY <1>1, <1>2, <1>5, StoppedDoes DEF Fares
<1>8. /\ toVosh' = toVosh /\ toVosh \in Seq(WriteType) /\ calm \in BOOLEAN /\ waiting' = "none"
      /\ UNCHANGED <<gameVars, link>>
  BY <1>1 DEF Types
<1>9. calm' \in BOOLEAN /\ (calm' => calm) /\ toVosh' \in Seq(WriteType)
  BY <1>1, <1>8
<1>10. ResultNow(job, waiting, done, toGame, toVosh', text, editing, note, posted, calm, link)
  BY <1>3, <1>8
<1>11. Acts(Stopped(job), heard, armed)
  BY <1>1
<1> QED
  BY <1>4, <1>6, <1>7, <1>8, <1>9, <1>10, <1>11, ActsKeeps

LEMMA ResultConfirm ==
  ASSUME Types, ResultInv, Confirm
  PROVE  ResultInv'
<1>1. /\ JobForm(job) /\ job.phase = "sending"
      /\ UNCHANGED <<waiting, game, toVosh, gameVars, link, calm, left>>
  BY ConfirmIs
<1>2. PICK n \in 1 .. job.flight : Acts(Pump([job EXCEPT !.flight = @ - n]), heard, armed)
  BY DEF Confirm
<1>3. PICK f \in 0 .. InFlight : Acts(Pump([job EXCEPT !.flight = f]), heard, armed)
  <2>1. job.flight - n \in 0 .. InFlight
    BY <1>1 DEF JobForm, JobType, InFlight
  <2> QED
    BY <1>2, <2>1
<1> DEFINE r == Pump([job EXCEPT !.flight = f])
<1>4. ResultNow(job, waiting, done, toGame, toVosh, text, editing, note, posted, calm, link)
  BY DEF ResultInv
<1>5. /\ job.stage.do # "none" /\ job \in JobType /\ job # NoJob /\ job.kind \in Kinds /\ job.result = "none"
  BY <1>1, StageIs
<1>6. Shape(job)
  BY <1>4, <1>5 DEF ResultNow
<1>7. Moves(r) \/ Over(r)
  BY <1>1, PumpIs, Moving
<1>8. Fares(job, r)
  BY <1>1, <1>6, PumpDoes
<1>9. /\ toVosh' = toVosh /\ toVosh' \in Seq(WriteType) /\ calm' \in BOOLEAN /\ (calm' => calm)
      /\ waiting' = "none" /\ UNCHANGED <<gameVars, link>>
  BY <1>1, <1>5 DEF Types
<1>10. ResultNow(job, waiting, done, toGame, toVosh', text, editing, note, posted, calm, link)
  BY <1>4, <1>9
<1> HIDE DEF r
<1>11. Acts(r, heard, armed)
  BY <1>3 DEF r
<1> QED
  BY <1>5, <1>7, <1>8, <1>9, <1>10, <1>11, ActsKeeps

LEMMA ResultExpire ==
  ASSUME Types, ResultInv, Expire
  PROVE  ResultInv'
<1>1. /\ JobForm(job) /\ Acts(End(job, "silent"), heard, armed) /\ Over(End(job, "silent"))
      /\ UNCHANGED <<waiting, game, toVosh, gameVars, link, calm, left>>
  BY ExpireIs
<1> DEFINE r == End(job, "silent")
<1>4. ResultNow(job, waiting, done, toGame, toVosh, text, editing, note, posted, calm, link)
  BY DEF ResultInv
<1>5. /\ job.stage.do # "none" /\ job \in JobType /\ job # NoJob /\ job.kind \in Kinds /\ job.result = "none"
  BY <1>1, StageIs
<1>8. Fares(job, r)
  BY <1>5, EndCloses DEF Fares, Abandons
<1>9. /\ toVosh' = toVosh /\ toVosh' \in Seq(WriteType) /\ calm' \in BOOLEAN /\ (calm' => calm)
      /\ waiting' = "none" /\ UNCHANGED <<gameVars, link>>
  BY <1>1, <1>5 DEF Types
<1>10. ResultNow(job, waiting, done, toGame, toVosh', text, editing, note, posted, calm, link)
  BY <1>4, <1>9
<1> HIDE DEF r
<1>11. Acts(r, heard, armed) /\ Over(r)
  BY <1>1 DEF r
<1> QED
  BY <1>5, <1>8, <1>9, <1>10, <1>11, ActsKeeps

LEMMA ResultFire ==
  ASSUME Types, ResultInv, Fire
  PROVE  ResultInv'
<1>1. UNCHANGED <<game, toVosh, gameVars, link, calm, left>>
  BY DEF Fire
<1>2. ResultNow(job, waiting, done, toGame, toVosh, text, editing, note, posted, calm, link)
  BY DEF ResultInv
<1>3. CASE UnderWay
  <2> DEFINE r == JobTick(job)
  <2>1. PICK a : Acts(r, heard, a)
    BY <1>3 DEF Fire
  <2>2. JobForm(job) /\ waiting' = waiting /\ waiting = "none"
    BY <1>3 DEF UnderWay, Types, Fire
  <2>3. /\ job.stage.do # "none" /\ job \in JobType /\ job # NoJob /\ job.kind \in Kinds /\ job.result = "none"
    BY <2>2, StageIs
  <2>4. Shape(job)
    BY <1>2, <2>3 DEF ResultNow
  <2>5. Fares(job, r) /\ (Moves(r) \/ Over(r))
    BY <2>2, <2>4, JobTickDoes, JobTickMoves
  <2>6. /\ toVosh' = toVosh /\ toVosh' \in Seq(WriteType) /\ calm' \in BOOLEAN /\ (calm' => calm)
        /\ waiting' = "none" /\ UNCHANGED <<gameVars, link>>
    BY <1>1, <2>2 DEF Types
  <2>7. ResultNow(job, waiting, done, toGame, toVosh', text, editing, note, posted, calm, link)
    BY <1>2, <2>6
  <2> HIDE DEF r
  <2> QED
    BY <2>1, <2>3, <2>5, <2>6, <2>7, ActsKeeps
<1>4. CASE ~UnderWay /\ waiting = "none"
  <2>1. Acts(Waits(job), heard, "off") /\ waiting' = "none"
    BY <1>4 DEF Fire
  <2>2. job' = job /\ toGame' = toGame /\ done' = done
    BY <2>1, ActsWaits DEF Arms
  <2> QED
    BY <1>1, <1>2, <1>4, <2>1, <2>2 DEF ResultInv, gameVars
<1>5. CASE ~UnderWay /\ waiting # "none"
  <2>1. Acts(Advance(New(waiting)), heard, "off") /\ waiting' = "none" /\ waiting \in Kinds
    BY <1>5 DEF Fire, Types
  <2>2. job = NoJob
    BY <1>5 DEF UnderWay
  <2>3. done.result = "none" /\ (calm => toVosh = <<>>)
    BY <1>2, <1>5, <2>2 DEF ResultNow, Fresh
  <2>4. UNCHANGED <<toVosh, gameVars, link, calm>>
    BY <1>1
  <2> QED
    BY <2>1, <2>2, <2>3, <2>4, ResultBegins
<1> QED
  BY <1>3, <1>4, <1>5

LEMMA ResultStopWaiting ==
  ASSUME Types, ResultInv, StopWaiting
  PROVE  ResultInv'
<1>1. /\ job = NoJob /\ waiting # "none" /\ waiting' = "none" /\ done' = [done EXCEPT !.result = "stopped"]
      /\ UNCHANGED <<job, toGame, toVosh, gameVars, link, calm>>
  BY DEF StopWaiting, Types
<1>2. ResultNow(NoJob, waiting, done, toGame, toVosh, text, editing, note, posted, calm, link)
  BY <1>1 DEF ResultInv
<1>3. /\ toGame = <<>> /\ posted = <<>> /\ note # "card"
  BY <1>1, <1>2 DEF ResultNow, Fresh
<1>4. done'.result = "stopped"
  BY <1>1 DEF Types, DoneType
<1>5. NoJob.kind = "none" /\ NoJob.pending = "none" /\ NoJob.stage.do = "none" /\ NoJob.words = {}
  BY DEF NoJob, NoStage, Stage
<1>6. \A M : ~Has(toGame, M)
  BY <1>3, HasNone
<1> HIDE DEF NoJob
<1>7. Posting(NoJob, toGame, toVosh, text, editing, posted)
  BY <1>2 DEF ResultNow
<1>8. Fresh(NoJob, "none", done', toGame, toVosh, text, note, posted, calm, link)
  BY <1>4 DEF Fresh
<1>9. SaidOnce(NoJob, toGame, toVosh, note, posted)
  BY <1>5 DEF SaidOnce
<1>10. Noted(NoJob, done', toGame, note, calm, link)
  <2>1. NoneAfter(toGame, Clear, Fields)
    BY <1>6, NoneHas
  <2> QED
    BY <1>3, <1>6, <2>1 DEF Noted, OnBoard
<1>11. Holds(NoJob, done', toGame, text) /\ Sent(NoJob, done', toGame, posted)
  BY <1>3, <1>4, <1>5, <1>6 DEF Holds, Sent
<1>12. ResultNow(NoJob, "none", done', toGame, toVosh, text, editing, note, posted, calm, link)
  BY <1>4, <1>7, <1>8, <1>9, <1>10, <1>11 DEF ResultNow
<1>13. /\ job' = NoJob /\ toGame' = toGame /\ toVosh' = toVosh /\ text' = text /\ editing' = editing
       /\ note' = note /\ posted' = posted /\ calm' = calm /\ link' = link
  BY <1>1 DEF gameVars
<1> QED
  BY <1>1, <1>12, <1>13 DEF ResultInv

LEMMA ResultDrop ==
  ASSUME Types, ResultInv, Drop
  PROVE  ResultInv'
<1>1. /\ link /\ ~link' /\ job' = NoJob /\ waiting' = "none" /\ toGame' = <<>> /\ toVosh' = <<>>
      /\ done' = (IF UnderWay \/ waiting # "none"
                  THEN [result |-> "dropped", postSent |-> job.postSent] ELSE done)
      /\ UNCHANGED <<gameVars, calm>>
  BY DEF Drop
<1>2. /\ job # NoJob => Shape(job)
      /\ Posting(job, toGame, toVosh, text, editing, posted)
      /\ Fresh(job, waiting, done, toGame, toVosh, text, note, posted, calm, link)
      /\ calm => Holds(job, done, toGame, text) /\ Sent(job, done, toGame, posted)
      /\ done.result = "posted" => posted # <<>>
  BY DEF ResultInv, ResultNow
<1>3. NoJob.kind = "none" /\ NoJob.pending = "none" /\ NoJob.stage.do = "none" /\ NoJob.words = {}
  BY DEF NoJob, NoStage, Stage
<1>4. \A M : ~Has(<<>>, M)
  BY HasNone
<1>5. \/ done'.result = "dropped" /\ done'.postSent = job.postSent /\ (job # NoJob \/ waiting # "none")
      \/ done' = done /\ job = NoJob /\ waiting = "none"
  <2>1. CASE UnderWay \/ waiting # "none"
    <3>1. done' = [result |-> "dropped", postSent |-> job.postSent]
      BY <1>1, <2>1
    <3>2. done'.result = "dropped" /\ done'.postSent = job.postSent
      BY <3>1
    <3>3. job # NoJob \/ waiting # "none"
      BY <2>1 DEF UnderWay
    <3> QED
      BY <3>2, <3>3
  <2>2. CASE ~(UnderWay \/ waiting # "none")
    BY <1>1, <2>2 DEF UnderWay
  <2> QED
    BY <2>1, <2>2
<1>6. done.result # "dropped"
  BY <1>1, <1>2 DEF Fresh
<1> HIDE DEF NoJob
<1>7. Posting(NoJob, <<>>, <<>>, text, editing, posted)
  BY <1>2, <1>3, <1>4 DEF Posting
<1>8. Fresh(NoJob, "none", done', <<>>, <<>>, text, note, posted, calm, FALSE)
  <2>1. done'.result = "none" => note # "card" /\ text \in {<<>>, <<Other>>} /\ posted = <<>>
    BY <1>2, <1>5 DEF Fresh
  <2> QED
    BY <1>4, <2>1 DEF Fresh
<1>9. SaidOnce(NoJob, <<>>, <<>>, note, posted)
  BY <1>3 DEF SaidOnce
<1>10. Noted(NoJob, done', <<>>, note, calm, FALSE)
  BY <1>3, <1>4, NoneHas DEF Noted
<1>11. ASSUME calm PROVE Holds(NoJob, done', <<>>, text) /\ Sent(NoJob, done', <<>>, posted)
  <2>1. Holds(NoJob, done', <<>>, text)
    BY <1>2, <1>3, <1>4, <1>5, <1>11 DEF Holds
  <2>2. posted # <<>> /\ done'.result = "dropped" => done'.postSent
    <3> SUFFICES ASSUME posted # <<>>, done'.result = "dropped" PROVE done'.postSent
      OBVIOUS
    <3>1. done'.postSent = job.postSent /\ (job # NoJob \/ waiting # "none")
      BY <1>5, <1>6
    <3>2. job # NoJob
      BY <1>2, <3>1 DEF Fresh
    <3>3. job.pending = "none"
      BY <1>2, <1>11 DEF Sent
    <3>4. job.stage.do = "post"
      BY <1>2, <3>2, <3>3 DEF Posting
    <3>5. job.postSent
      BY <1>2, <3>2, <3>4 DEF Shape
    <3> QED
      BY <3>1, <3>5
  <2> QED
    BY <1>3, <1>4, <2>1, <2>2 DEF Sent
<1>12. done'.result = "posted" => posted # <<>>
  BY <1>2, <1>5
<1>13. ResultNow(NoJob, "none", done', <<>>, <<>>, text, editing, note, posted, calm, FALSE)
  BY <1>3, <1>7, <1>8, <1>9, <1>10, <1>11, <1>12 DEF ResultNow
<1>14. text' = text /\ editing' = editing /\ note' = note /\ posted' = posted /\ calm' = calm /\ link' = FALSE
  <2>1. link' = FALSE
    BY DEF Drop
  <2> QED
    BY <1>1, <2>1 DEF gameVars
<1>15. job' = NoJob /\ waiting' = "none" /\ toGame' = <<>> /\ toVosh' = <<>>
  BY <1>1
<1> QED
  BY <1>13, <1>14, <1>15 DEF ResultInv

LEMMA ResultReadTick ==
  ASSUME Types, ResultInv, ReadTick
  PROVE  ResultInv'
<1>1. /\ toVosh # <<>> /\ toVosh' = Tail(toVosh)
      /\ UNCHANGED <<job, waiting, done, toGame, gameVars, link, calm>>
  BY DEF ReadTick
<1>2. toVosh \in Seq(WriteType) /\ toGame \in Seq(LineType) /\ calm \in BOOLEAN
  BY DEF Types
<1>3. 1 \in 1 .. Len(toVosh)
  BY <1>1, <1>2
<1>4. toVosh' = SubSeq(toVosh, 1 + 1, Len(toVosh))
  BY <1>1, <1>2, TailIsSubSeq
<1>5. ResultNow(job, waiting, done, toGame, toVosh, text, editing, note, posted, calm, link)
  BY DEF ResultInv
<1>6. ResultNow(job, waiting, done, toGame, SubSeq(toVosh, 1 + 1, Len(toVosh)), text, editing, note, posted, calm, link)
  BY <1>2, <1>3, <1>5, DropKeeps
<1> QED
  BY <1>1, <1>4, <1>6 DEF ResultInv, gameVars

LEMMA ResultRead ==
  ASSUME Types, ResultInv, Read
  PROVE  ResultInv'
<1>1. UNCHANGED <<waiting, gameVars, link, calm, left>>
  BY ReadIs
<1>2. PICK k \in {1, 2}, lone \in Nat, r \in ReadType :
        /\ ReadOf(r, k)
        /\ toVosh' = SubSeq(toVosh, k + 1, Len(toVosh))
        /\ \E a \in Arms \ {"kept"} :
            Acts(IF UnderWay THEN JobReads(job, r, lone) ELSE Waits(job), TRUE, a)
  BY ReadsActs
<1>3. PICK a \in Arms \ {"kept"} :
        Acts(IF UnderWay THEN JobReads(job, r, lone) ELSE Waits(job), TRUE, a)
  BY <1>2
<1>4. ResultNow(job, waiting, done, toGame, toVosh, text, editing, note, posted, calm, link)
  BY DEF ResultInv
<1>5. /\ toVosh \in Seq(WriteType) /\ toGame \in Seq(LineType) /\ calm \in BOOLEAN
      /\ k \in 1 .. Len(toVosh)
  BY <1>2 DEF Types, ReadOf
<1>6. toVosh' \in Seq(WriteType)
  BY <1>2, <1>5, DropIs
<1>7. ResultNow(job, waiting, done, toGame, toVosh', text, editing, note, posted, calm, link)
      \/ (UnderWay /\ job.phase \in {"tick", "editor"})
  <2>1. ResultNow(job, waiting, done, toGame, SubSeq(toVosh, k + 1, Len(toVosh)), text, editing, note, posted, calm, link)
    BY <1>4, <1>5, DropKeeps
  <2> QED
    BY <1>2, <2>1
<1>8. CASE UnderWay
  <2>1. JobForm(job) /\ waiting = "none"
    BY <1>8 DEF UnderWay, Types
  <2>2. Shape(job)
    BY <1>4, <2>1, StageIs DEF ResultNow
  <2> DEFINE q == Gathers(job, r)
             x == JobReads(job, r, lone)
  <2>3. JobForm(q) /\ Fares(q, x) /\ (Moves(x) \/ Over(x))
    BY <2>1, <2>2, ReadsDoes, JobReadsMoves
  <2>4. /\ q.stage.do # "none" /\ q \in JobType /\ q # NoJob /\ q.kind \in Kinds /\ q.result = "none"
    BY <2>3, StageIs
  <2>5. /\ waiting' = "none" /\ calm' \in BOOLEAN /\ (calm' => calm) /\ UNCHANGED <<gameVars, link>>
    BY <1>1, <1>5, <2>1
  <2>6. Acts(x, TRUE, a)
    BY <1>3, <1>8
  <2>7. ResultNow(q, waiting, done, toGame, toVosh', text, editing, note, posted, calm, link)
    <3>1. CASE job.phase \notin {"tick", "editor"}
      <4>1. q = job
        BY <3>1 DEF Gathers
      <4> QED
        BY <1>7, <3>1, <4>1
    <3>2. CASE job.phase \in {"tick", "editor"}
      <4>1. job # NoJob /\ job \in JobType
        BY <2>1, StageIs
      <4>2. /\ q.stage = job.stage /\ q.stages = job.stages /\ q.kind = job.kind
            /\ q.pending = job.pending /\ q.started = job.started /\ q.postSent = job.postSent
            /\ q.words = job.words \cup r.words
            /\ q.listing = IF "listed" \in r.words THEN r.listing ELSE job.listing
        BY <3>2, <4>1 DEF Gathers, JobType
      <4>3. /\ \A i \in 1 .. k : toVosh[i].ends # "tick" /\ toVosh[i].words \subseteq r.words
            /\ \A y \in r.words : \E i \in 1 .. k : y \in toVosh[i].words
            /\ "listed" \in r.words =>
                \E i \in 1 .. k : "listed" \in toVosh[i].words /\ toVosh[i].listing = r.listing
        BY <1>2 DEF ReadOf
      <4> HIDE DEF q
      <4>4. "listed" \in r.words =>
                \E i \in 1 .. k : "listed" \in toVosh[i].words /\ toVosh[i].listing = q.listing
        BY <4>2, <4>3
      <4>5. "listed" \notin r.words => q.listing = job.listing
        BY <4>2
      <4>6. ResultNow(q, waiting, done, toGame, SubSeq(toVosh, k + 1, Len(toVosh)), text, editing, note, posted, calm, link)
        BY <1>4, <1>5, <2>4, <4>1, <4>2, <4>3, <4>4, <4>5, GatherKeeps, Zenon
      <4> QED
        BY <1>2, <4>6
    <3> QED
      BY <3>1, <3>2
  <2> HIDE DEF q, x
  <2> QED
    BY <1>6, <2>3, <2>4, <2>5, <2>6, <2>7, ActsKeeps
<1>9. CASE ~UnderWay
  <2>1. Acts(Waits(job), TRUE, a) /\ a \in Arms /\ a # "kept"
    BY <1>3, <1>9
  <2>2. job' = job /\ toGame' = toGame /\ done' = done
    BY <2>1, ActsWaits
  <2>3. ResultNow(job, waiting, done, toGame, toVosh', text, editing, note, posted, calm, link)
    BY <1>7, <1>9
  <2> QED
    BY <1>1, <2>2, <2>3 DEF ResultInv, gameVars
<1> QED
  BY <1>8, <1>9

-----------------------------------------------------------------------------
(* What else happens, and the theorem.                                     *)

\* Before the editor of a post opens, the job has the line that opens it ahead.
LEMMA BoardStands ==
  ASSUME NEW j, JobForm(j), Shape(j)
  PROVE  /\ j.stage.do \in {"board", "to", "subject"} => AtBoard(j)
         /\ j.stage.do = "post" => j.kind = "post" /\ j.pending = "none" /\ Leaving(j)
<1> DEFINE a == j.stage.do
           s == j.stages
<1>1. j.kind \in Kinds /\ (j.pending = "none" => Course(j))
      /\ (j.pending # "none" => Quits(j))
      /\ (AtBoard(j) \/ AtOpen(j) \/ InText(j) \/ Leaving(j)) /\ s \in Seq(StageType)
  BY DEF JobForm, Shape, JobType
<1>2. a \in {"board", "to", "subject", "post"} => j.pending = "none"
  BY <1>1 DEF Quits
<1>3. a \in {"board", "to", "subject", "post"} => ~AtOpen(j) /\ ~InText(j)
  BY DEF AtOpen, InText, InEdits, ShowStages
<1>4. ASSUME a \in {"board", "to", "subject"} PROVE ~Past(s)
  <2>1. Chain(s, j.kind) /\ (s = <<>> => a = Final(j.kind)) /\ (s # <<>> => Follows(j.kind, a, s[1].do))
    BY <1>1, <1>2, <1>4 DEF Course
  <2>2. s # <<>> /\ Len(s) \in Nat /\ Len(s) # 0
    <3>1. s # <<>>
      BY <1>4, <2>1 DEF Final
    <3> QED
      BY <1>1, <3>1
  <2>3. /\ \A i \in 1 .. Len(s) : i + 1 <= Len(s) => Follows(j.kind, s[i].do, s[i + 1].do)
        /\ s[Len(s)].do = Final(j.kind)
    BY <2>1, <2>2 DEF Chain
  <2>4. s[Len(s)].do \notin {"to", "subject", "board"}
    BY <2>3 DEF Final
  <2>5. \A i \in 1 .. Len(s) : s[i].do = "subject" => i + 1 \in 1 .. Len(s) /\ s[i + 1].do = "open"
    <3> SUFFICES ASSUME NEW i \in 1 .. Len(s), s[i].do = "subject"
                 PROVE  i + 1 \in 1 .. Len(s) /\ s[i + 1].do = "open"
      OBVIOUS
    <3>1. i + 1 \in 1 .. Len(s)
      BY <2>2, <2>4
    <3>2. Follows(j.kind, s[i].do, s[i + 1].do)
      BY <2>3, <3>1
    <3> QED
      BY <3>1, <3>2 DEF Follows, First, Mends
  <2>6. \A i \in 1 .. Len(s) : s[i].do = "to" => i + 1 \in 1 .. Len(s) /\ s[i + 1].do = "subject"
    <3> SUFFICES ASSUME NEW i \in 1 .. Len(s), s[i].do = "to"
                 PROVE  i + 1 \in 1 .. Len(s) /\ s[i + 1].do = "subject"
      OBVIOUS
    <3>1. i + 1 \in 1 .. Len(s)
      BY <2>2, <2>4
    <3>2. Follows(j.kind, s[i].do, s[i + 1].do)
      BY <2>3, <3>1
    <3> QED
      BY <3>1, <3>2 DEF Follows, First, Mends
  <2>7. s[1].do \in {"to", "subject", "open"}
    BY <1>4, <2>1, <2>2 DEF Follows, First, Mends
  <2>8. \E i \in 1 .. Len(s) : s[i].do = "open"
    <3>1. 1 \in 1 .. Len(s)
      BY <2>2
    <3> QED
      BY <2>5, <2>6, <2>7, <3>1
  <2> QED
    BY <2>8 DEF Past, Prompts
<1>5. ASSUME a = "post" PROVE j.kind = "post" /\ ~AtBoard(j)
  <2>1. (s = <<>> => a = Final(j.kind)) /\ (s # <<>> => Follows(j.kind, a, s[1].do))
    BY <1>1, <1>2, <1>5 DEF Course
  <2>2. ~Follows(j.kind, a, s[1].do)
    BY <1>5 DEF Follows, First, Mends
  <2>3. s = <<>> /\ j.kind = "post"
    BY <1>1, <1>5, <2>1, <2>2, WriterAssumption DEF Final, WriterAssumption
  <2> QED
    BY <2>3 DEF AtBoard, Outside
<1>6. a \in {"board", "to", "subject"} => ~Leaving(j)
  BY <1>4 DEF Leaving
<1> QED
  BY <1>1, <1>2, <1>3, <1>5, <1>6

\* What you type asks for nothing.
LEMMA ResultTypeLine ==
  ASSUME Types, ResultInv, TypeLine
  PROVE  ResultInv'
<1> DEFINE out == <<Typed>>
<1>1. /\ job # NoJob /\ calm' = (calm /\ ~Misreads) /\ toGame' = Append(toGame, Typed)
      /\ UNCHANGED <<cardVars, toVosh, gameVars, link>>
  BY DEF TypeLine, UnderWay
<1>2. JobForm(job) /\ calm \in BOOLEAN /\ toGame \in Seq(LineType) /\ toVosh \in Seq(WriteType)
  BY <1>1 DEF Types
<1>3. job.stage.do # "none" /\ job \in JobType
  BY <1>2, StageIs
<1>4. Shape(job) /\ ResultNow(job, waiting, done, toGame, toVosh, text, editing, note, posted, calm, link)
  BY <1>1 DEF ResultInv, ResultNow
<1>5. /\ Typed \in LineType
      /\ Typed.do = IF job.inEditor THEN "dot command" ELSE "command"
  BY TypedIs
<1>6. out \in Seq(LineType) /\ toGame' = toGame \o out /\ ~Has(out, But({Typed.do}))
  <2>1. out \in Seq(LineType) /\ Len(out) = 1 /\ out[1] = Typed /\ toGame' = toGame \o out
        /\ \A i \in 1 .. 1 : i = 1
    BY <1>1, <1>2, <1>5, OneIs
  <2> HIDE DEF out
  <2> QED
    BY <1>5, <2>1 DEF Has, But
<1>7. calm' => /\ job.stage.do \notin {"board", "to", "subject", "post"}
               /\ ~(job.kind = "post" /\ job.stage.do = "readback")
  <2> SUFFICES ASSUME ~Misreads
               PROVE  /\ job.stage.do \notin {"board", "to", "subject", "post"}
                      /\ ~(job.kind = "post" /\ job.stage.do = "readback")
    BY <1>1
  <2>1. ~Opening /\ ~(job.kind = "post" /\ job.stage.do \in {"readback", "post"})
    BY DEF Misreads
  <2>2. ~AtBoard(job)
    BY <1>2, <2>1, OpensYet
  <2> QED
    BY <1>2, <1>4, <2>1, <2>2, BoardStands
<1>8. Quiet(job, out, Typed.do, calm')
  <2>1. Typed.do = "dot command" => job.stage.do \notin Prompts
    BY <1>2, <1>5 DEF JobForm, AtBoard, AtOpen, InText, Leaving, InEdits, ShowStages, Prompts
  <2>2. job.stage.do \in Rereads => Typed.do \in Hush(job)
    BY <1>2, <1>5 DEF JobForm, AtBoard, AtOpen, InText, Leaving, InEdits, ShowStages, Prompts, Rereads, Hush
  <2> HIDE DEF out
  <2> QED
    BY <1>5, <1>6, <1>7, <2>1, <2>2 DEF Quiet
<1> HIDE DEF out
<1>9. calm' \in BOOLEAN /\ (calm' => calm)
  BY <1>1, <1>2
<1>10. ResultNow(job, waiting, done, toGame \o out, toVosh, text, editing, note, posted, calm', link)
  BY <1>1, <1>2, <1>3, <1>4, <1>8, <1>9, QuietKeeps, Zenon
<1>11. job' = job /\ waiting' = waiting /\ done' = done /\ toVosh' = toVosh /\ text' = text
       /\ editing' = editing /\ note' = note /\ posted' = posted /\ link' = link
  BY <1>1 DEF cardVars, gameVars
<1> QED
  BY <1>6, <1>10, <1>11 DEF ResultInv

\* What the game says unasked, the card takes for no answer.
LEMMA ChatFits ==
  ASSUME Types, LandInv, ResultInv, Chat, calm'
  PROVE  /\ waiting = "none" /\ job.stage.do \notin {"board", "to", "subject", "post"}
         /\ job.kind = "post" /\ job.stage.do = "readback" => editing
<1>1. calm /\ ~hung /\ link /\ (editing \/ ~Misreads)
  BY DEF Chat
<1>2. LandNow
  BY <1>1 DEF LandInv
<1>3. job # NoJob => JobForm(job) /\ Shape(job)
  BY DEF Types, ResultInv, ResultNow
<1>4. job.stage.do \in {"board", "to", "subject", "post"} => job # NoJob
  BY DEF NoJob, NoStage, Stage
<1>5. waiting # "none" => job = NoJob
  BY DEF Types
<1>6. CASE ~Misreads
  <2>1. waiting = "none" /\ ~Opening /\ ~(job.kind = "post" /\ job.stage.do \in {"readback", "post"})
    BY <1>6 DEF Misreads, Opening
  <2>2. job # NoJob => ~AtBoard(job)
    BY <1>3, <2>1, OpensYet
  <2> QED
    BY <1>3, <1>4, <2>1, <2>2, BoardStands
<1>7. CASE editing
  <2>1. ~Before(toGame, toVosh, armed, editing)
    BY <1>7 DEF Before
  <2>2. waiting = "none"
    <3> SUFFICES ASSUME waiting # "none" PROVE FALSE
      OBVIOUS
    <3>1. NoJob.stage.do = "none" /\ ~NoJob.inEditor /\ NoJob.phase = "idle"
      BY DEF NoJob, NoStage, Stage
    <3>2. ~AtOpen(job) /\ ~InText(job) /\ ~Leaving(job)
      BY <1>5, <3>1 DEF AtOpen, InText, Leaving
    <3> QED
      BY <1>2, <2>1, <3>2 DEF LandNow, Land
  <2>3. job.stage.do \notin {"board", "to", "subject"}
    <3> SUFFICES ASSUME job.stage.do \in {"board", "to", "subject"} PROVE FALSE
      OBVIOUS
    <3>1. AtBoard(job) /\ job # NoJob
      BY <1>3, <1>4, BoardStands
    <3>2. ~AtOpen(job) /\ ~InText(job) /\ ~Leaving(job)
      BY <3>1 DEF AtBoard, AtOpen, InText, Leaving, Outside, Past, Prompts
    <3> QED
      BY <1>2, <2>1, <3>1, <3>2 DEF LandNow, Land
  <2>4. job.stage.do # "post"
    <3> SUFFICES ASSUME job.stage.do = "post" PROVE FALSE
      OBVIOUS
    <3>1. job # NoJob /\ job.pending = "none" /\ Leaving(job)
      BY <1>3, <1>4, BoardStands
    <3>2. ~AtBoard(job) /\ ~AtOpen(job) /\ ~InText(job)
      <4>1. ~AtOpen(job) /\ ~InText(job)
        BY DEF AtOpen, InText, InEdits, ShowStages
      <4>2. ~AtBoard(job)
        BY <3>1 DEF Leaving, AtBoard, Outside, Past, Prompts
      <4> QED
        BY <4>1, <4>2
    <3>3. Fits(toGame, editing)
      BY <1>2, <2>1, <2>2, <3>1, <3>2 DEF LandNow, Land
    <3>4. PICK i \in 1 .. Len(toGame) : toGame[i].do = "leave"
      BY <1>7, <3>3 DEF Fits, Goes
    <3>5. SaidOnce(job, toGame, toVosh, note, posted)
      BY <1>1, <3>1 DEF ResultInv, ResultNow
    <3>6. toGame \in Seq(LineType)
      BY DEF Types
    <3>7. toGame # <<>>
      BY <3>4
    <3>8. Tail(toGame) = <<>> /\ Head(toGame).do = "post"
      BY <3>5, <3>7 DEF SaidOnce
    <3>9. Len(toGame) = 1 /\ Head(toGame) = toGame[1]
      <4> DEFINE rest == Tail(toGame)
      <4>1. /\ Len(rest) = Len(toGame) - 1 /\ Head(toGame) = toGame[1]
            /\ rest \in Seq(LineType) /\ rest = <<>>
        BY <3>6, <3>7, <3>8
      <4> HIDE DEF rest
      <4>2. Len(rest) = 0
        BY <4>1, LenZero
      <4> QED
        <5>1. Len(toGame) \in Nat
          BY <3>6
        <5> QED
          BY <4>1, <4>2, <5>1
    <3> QED
      BY <3>4, <3>8, <3>9
  <2> QED
    BY <1>7, <2>2, <2>3, <2>4
<1> QED
  BY <1>1, <1>6, <1>7

\* What the game says of its own tells the card nothing.
LEMMA ResultChat ==
  ASSUME Types, LandInv, ResultInv, Chat
  PROVE  ResultInv'
<1>1. /\ calm' = (calm /\ (editing \/ ~Misreads))
      /\ UNCHANGED <<cardVars, toGame, gameVars, link>>
  BY DEF Chat
<1>2. \E m \in WriteType : m.words \subseteq {"chat"} /\ \E o \in Ones(m) : toVosh' = toVosh \o o
  <2>1. \A ends \in {"editor", "prompt"} :
          Said({"chat"}, <<>>, ends) \in WriteType /\ Said({"chat"}, <<>>, ends).words = {"chat"}
    <3> DEFINE words == {"chat"}
    <3>1. words \in SUBSET Words
      BY DEF Words
    <3> HIDE DEF words
    <3>2. ASSUME NEW ends \in {"editor", "prompt", "tick"}
          PROVE  Said(words, <<>>, ends) \in WriteType /\ Said(words, <<>>, ends).words = words
      <4>1. <<>> \in Seq(Kept)
        BY NoWords
      <4> QED
        BY <3>1, <4>1, SaidIs
    <3> QED
      BY <3>2 DEF words
  <2>2. CASE editing
    <3>1. PICK m \in WriteType : m = Said({"chat"}, <<>>, "editor") /\ m.words = {"chat"}
      BY <2>1
    <3>2. toVosh' = Append(toVosh, m)
      BY <2>2, <3>1 DEF Chat
    <3>3. toVosh' = toVosh \o <<m>> /\ <<m>> \in Ones(m)
      BY <3>2, OneIs DEF Types, Ones
    <3> QED
      BY <3>1, <3>3
  <2>3. CASE ~editing
    <3>1. PICK m \in WriteType : m = Said({"chat"}, <<>>, "prompt") /\ m.words = {"chat"}
      BY <2>1
    <3>2. toVosh' = toVosh \o <<Tick, m>> \/ toVosh' = toVosh \o <<m, Tick>>
      BY <2>3, <3>1 DEF Chat
    <3>3. <<Tick, m>> \in Ones(m) /\ <<m, Tick>> \in Ones(m)
      BY DEF Ones
    <3> QED
      BY <3>1, <3>2, <3>3
  <2> QED
    BY <2>2, <2>3
<1>3. PICK m \in WriteType : m.words \subseteq {"chat"} /\ \E o \in Ones(m) : toVosh' = toVosh \o o
  BY <1>2
<1>4. PICK o \in Ones(m) : toVosh' = toVosh \o o
  BY <1>3
<1>5. /\ job \in JobType /\ toGame \in Seq(LineType) /\ toVosh \in Seq(WriteType)
  BY NoJobIs DEF Types, JobForm
<1>6. calm \in BOOLEAN /\ calm' \in BOOLEAN /\ (calm' => calm)
  BY <1>1 DEF Types
<1>7. calm' => /\ waiting = "none" /\ job.stage.do \notin {"board", "to", "subject", "post"}
               /\ job.kind = "post" /\ job.stage.do = "readback" => editing
  BY ChatFits
<1>8. ResultNow(job, waiting, done, toGame, toVosh, text, editing, note, posted, calm, link)
  BY DEF ResultInv
<1>9. ResultNow(job, waiting, done, toGame, toVosh \o o, text, editing, note, posted, calm', link)
  BY <1>3, <1>5, <1>6, <1>7, <1>8, ChatKeeps, Zenon
<1>10. job' = job /\ waiting' = waiting /\ done' = done /\ toGame' = toGame /\ text' = text
       /\ editing' = editing /\ note' = note /\ posted' = posted /\ link' = link
  BY <1>1 DEF cardVars, gameVars
<1> QED
  BY <1>4, <1>9, <1>10 DEF ResultInv

\* The invariant of the results holds at first, and every step keeps it.
LEMMA ResultInit == Init => ResultInv
<1> SUFFICES ASSUME Init PROVE ResultInv
  OBVIOUS
<1>1. /\ job = NoJob /\ waiting = "none" /\ done.result = "none"
      /\ toGame = <<>> /\ toVosh = <<>> /\ text \in {<<>>, <<Other>>} /\ note # "card"
      /\ posted = <<>>
  BY DEF Init
<1>2. NoJob.kind = "none" /\ NoJob.pending = "none" /\ NoJob.stage.do = "none" /\ NoJob.words = {}
  BY DEF NoJob, NoStage, Stage
<1>3. \A M : ~Has(<<>>, M)
  BY HasNone
<1> HIDE DEF NoJob
<1>4. Posting(job, toGame, toVosh, text, editing, posted)
  BY <1>1, <1>2, <1>3 DEF Posting
<1>5. Fresh(job, waiting, done, toGame, toVosh, text, note, posted, calm, link)
  BY <1>1, <1>3 DEF Fresh
<1>6. SaidOnce(job, toGame, toVosh, note, posted)
  BY <1>1, <1>2 DEF SaidOnce
<1>7. Noted(job, done, toGame, note, calm, link)
  BY <1>1, <1>2, <1>3, NoneHas DEF Noted, OnBoard
<1>8. Holds(job, done, toGame, text) /\ Sent(job, done, toGame, posted)
  BY <1>1, <1>2, <1>3 DEF Holds, Sent
<1> QED
  BY <1>1, <1>4, <1>5, <1>6, <1>7, <1>8 DEF ResultInv, ResultNow

LEMMA ResultNext == Types /\ LandInv /\ ResultInv /\ [Next]_vars => ResultInv'
<1> SUFFICES ASSUME Types, LandInv, ResultInv, [Next]_vars PROVE ResultInv'
  OBVIOUS
<1>1. ASSUME UNCHANGED <<job, waiting, done, toGame, toVosh, text, editing, note, posted, calm, link>>
      PROVE  ResultInv'
  BY <1>1 DEF ResultInv
<1>2. CASE UNCHANGED vars
  BY <1>1, <1>2 DEF vars, cardVars, gameVars
<1>3. CASE Automation
  BY <1>1, <1>3 DEF Automation, gameVars
<1>4. CASE Hang
  BY <1>1, <1>4 DEF Hang, cardVars
<1>5. ASSUME NEW kind \in Kinds, Start(kind) PROVE ResultInv'
  BY <1>5, ResultStart
<1>6. CASE CardStep
  BY <1>6, ResultRead, ResultReadTick, ResultFire, ResultConfirm, ResultExpire DEF CardStep
<1> QED
  BY <1>2, <1>3, <1>4, <1>5, <1>6, ResultStop, ResultStopWaiting, ResultTypeLine, ResultDrop,
     ResultGame, ResultChat, Zenon DEF Next

\* It says all the results promise.
LEMMA ResultEnough == ResultInv => ResultTrue
<1> SUFFICES ASSUME ResultInv PROVE ResultTrue
  OBVIOUS
<1>1. /\ Posting(job, toGame, toVosh, text, editing, posted)
      /\ Noted(job, done, toGame, note, calm, link)
      /\ calm => Holds(job, done, toGame, text) /\ Sent(job, done, toGame, posted)
      /\ done.result = "posted" => posted # <<>>
  BY DEF ResultInv, ResultNow
<1>2. (\A i \in DOMAIN posted : posted[i] = Meant) /\ Len(posted) <= 1
  <2>1. posted = <<>> \/ posted = <<Meant>>
    BY <1>1 DEF Posting
  <2> HIDE DEF Meant
  <2>2. CASE posted = <<>>
    BY <2>2
  <2>3. CASE posted = <<Meant>>
    BY <2>3
  <2> QED
    BY <2>1, <2>2, <2>3
<1>3. ASSUME calm, link, toGame = <<>>, done.result \notin {"none"} \cup Abandons, note = "card"
      PROVE  FALSE
  <2>1. Has(toGame, Clear)
    BY <1>1, <1>3 DEF Noted, OnBoard
  <2> QED
    BY <1>3, <2>1, HasNone
<1>4. calm => /\ done.result = "send" => text = Meant
              /\ done.result = "changed" => text = <<Other>>
              /\ posted # <<>> /\ done.result = "dropped" => done.postSent
  BY <1>1 DEF Holds, Sent
<1> QED
  BY <1>1, <1>2, <1>3, <1>4 DEF ResultTrue

\* What the card says of a job that ended is so, for every text, every job
\* and every order in which lines, answers, chat, your own typing, a stop
\* and the end of the session come: at most one note is posted and it is
\* your text; and while nothing came that the card takes for another answer,
\* a text it calls sent is what the game holds, one it calls changed is the
\* other writer's and untouched, a note it calls posted is posted, one
\* posted as the session ended is said to have been sent off, and after any
\* end but those of Abandons no note of the card's is left once its lines are
\* read.  At those, where the game refused the editor (told as Refused), the
\* editor closed or the game fell silent (told as Failed), another editor was
\* open or the text had no room, nothing is promised of the note.
THEOREM ResultsHold == Spec => []ResultTrue
<1>1. Init => Types /\ LandInv /\ ResultInv
  BY TypesInit, LandInit, ResultInit
<1>2. (Types /\ LandInv /\ ResultInv) /\ [Next]_vars => (Types /\ LandInv /\ ResultInv)'
  BY TypesNext, LandNext, ResultNext
<1>3. Spec => [](Types /\ LandInv /\ ResultInv)
  BY <1>1, <1>2, PTL DEF Spec
<1> QED
  BY <1>3, ResultEnough, PTL

====
