----------------------------- MODULE MCPipeText -----------------------------
(***************************************************************************)
(* Bounds for PipeText.  The framework's seed lines are written with the  *)
(* line grammar, for every state and value of up to two characters taken *)
(* from a letter, a space, the brackets and the quote, and for a "-"      *)
(* deletion; each line may follow a blank line or a space and end in a    *)
(* space, a CR, or nothing before the newline, or lack its newline.        *)
(***************************************************************************)
EXTENDS PipeText

\* 128 in the code; 2 makes short lines grow the buffer several times.
MCInitialCapacity == 2

MCChars == {"a", SP, "[", "]", QUOTE}

MCTexts == {<<>>} \cup {<<c>> : c \in MCChars} \cup {<<c, d>> : c, d \in MCChars}

\* What the framework writes for a point value.
Line(pv) ==
    IF pv.state = DEL THEN pv.name \o <<SP>> \o pv.stamp \o <<SP, "-">>
    ELSE _pointValueToBuffer(pv, EmptyBuffer).at

MCValues ==
    {PV(<<"n">>, <<"t">>, state, value) :
        state \in {NONE} \cup MCTexts, value \in {NONE} \cup MCTexts}
    \cup {PV(<<"n">>, <<"t">>, DEL, NONE)}

MCSent ==
    {[pv |-> pv, line |-> before \o Line(pv) \o after] :
        pv \in MCValues,
        before \in {<<>>, <<LF>>, <<SP>>},
        after \in {<<LF>>, <<SP, LF>>, <<CR, LF>>, <<>>}}
=============================================================================
