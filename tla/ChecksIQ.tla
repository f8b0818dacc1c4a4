------------------------------ MODULE ChecksIQ -------------------------------
(***************************************************************************)
(* The two questions that test a model's wits (modeldetect/checks_iq.go,   *)
(* iq_extract.go): a puzzle whose answer is a number, and a drawing that   *)
(* moves.  A streamed answer is a sequence of events; its text a sequence  *)
(* of lines, each reduced to what the code finds in it:                    *)
(*   [form, n]  "format" (the line that was asked for), "sum" (a format    *)
(*              line whose number goes on as a calculation), "boxed",      *)
(*              "phrase", "words"                                          *)
(*   "fence", "other" (a fence of another language), "still", "moving"     *)
(*              (whole documents), "half" (one that is begun), "words"     *)
(***************************************************************************)
EXTENDS CheckResults, Sequences

CandyAnswer == 21
TailLines   == 5     \* answerTailLines

(***************************************************************************)
(* The reply                                                               *)
(***************************************************************************)
Texts(events) ==
    LET lines == SelectSeq(events, LAMBDA e : e.type = "text")
    IN [i \in DOMAIN lines |-> lines[i].line]

StopReason(events) ==
    LET at == {i \in DOMAIN events : events[i].type = "message_delta"}
    IN IF at = {} THEN "" ELSE events[CHOOSE i \in at : \A j \in at : j <= i].stop

Happens(events, type) == \E i \in DOMAIN events : events[i].type = type

\* The end alone.
CompleteAtStop(events) == Happens(events, "message_stop")

\* Whole where the stream has ended and no error is in it.
Complete(events) == Happens(events, "message_stop") /\ ~Happens(events, "error")

Assemble(events) ==
    [lines |-> Texts(events), truncated |-> StopReason(events) = "max_tokens",
     complete |-> Complete(events)]

(***************************************************************************)
(* The number                                                              *)
(***************************************************************************)
LastAnswer(lines, form) ==
    LET at == {i \in DOMAIN lines : lines[i].form = form}
    IN IF at = {} THEN {} ELSE {lines[CHOOSE i \in at : \A j \in at : j <= i].n}

Tail5(lines) ==
    SubSeq(lines, IF Len(lines) > TailLines THEN Len(lines) - TailLines + 1 ELSE 1, Len(lines))

\* The form asked for anywhere, else one of two others near the end: at most one number.
FinalAnswer(lines) ==
    IF LastAnswer(lines, "format") # {} THEN LastAnswer(lines, "format")
    ELSE IF LastAnswer(Tail5(lines), "boxed") # {} THEN LastAnswer(Tail5(lines), "boxed")
    ELSE LastAnswer(Tail5(lines), "phrase")

OnLastLine(lines) ==
    IF lines = <<>> THEN {} ELSE LastAnswer(<<lines[Len(lines)]>>, "format")

\* An answer that was cut off read like any other.
CandyAnyEnd(reply, r) ==
    IF reply # "ok" \/ ~r.complete THEN "inconclusive"
    ELSE IF FinalAnswer(r.lines) = {CandyAnswer} THEN "passed" ELSE "suspicious"

Candy(reply, r) ==
    LET got == IF r.truncated THEN OnLastLine(r.lines) ELSE FinalAnswer(r.lines)
    IN IF reply # "ok" \/ ~r.complete \/ (r.truncated /\ got = {}) THEN "inconclusive"
       ELSE IF got = {CandyAnswer} THEN "passed" ELSE "suspicious"

(***************************************************************************)
(* The drawing                                                             *)
(***************************************************************************)
Fences(lines) == {i \in DOMAIN lines : lines[i] \in {"fence", "other"}}

\* A fence opens a block where an even number of them came before.
Opens(lines, i) == Cardinality({j \in Fences(lines) : j < i}) % 2 = 0

Blocks(lines) ==
    {b \in Fences(lines) \X Fences(lines) :
        /\ b[1] < b[2] /\ Opens(lines, b[1]) /\ lines[b[1]] = "fence"
        /\ \A j \in Fences(lines) : ~(b[1] < j /\ j < b[2])}

\* From the first beginning to the last end.
Document(lines) ==
    LET ends == {i \in DOMAIN lines : lines[i] \in {"still", "moving"}}
    IN IF ends = {} THEN "none"
       ELSE IF \E i \in ends : lines[i] = "moving" THEN "moving" ELSE "still"

InBlock(lines, b) == Document(SubSeq(lines, b[1] + 1, b[2] - 1))

\* One that moves before one that does not; nothing where the last block is open.
ExtractDocument(lines) ==
    LET found == {InBlock(lines, b) : b \in Blocks(lines)} \ {"none"}
    IN IF "moving" \in found THEN "moving"
       ELSE IF found # {} THEN "still"
       ELSE IF Cardinality(Fences(lines)) % 2 = 1 THEN "none"
       ELSE Document(lines)

Pelican(reply, r) ==
    IF reply # "ok" \/ ~r.complete THEN "inconclusive"
    ELSE IF ExtractDocument(r.lines) = "moving" THEN "passed"
    ELSE IF r.truncated THEN "inconclusive" ELSE "suspicious"
=============================================================================
