------------------------------ MODULE PipeText ------------------------------
(***************************************************************************)
(* The point value line of lib/impl/rvpf_pipe.c at the character level:   *)
(* _nextLine reads a line of stdin into the request's control buffer,      *)
(* _nextField and _fillPointValue cut it into a point value, and           *)
(* _pointValueToBuffer writes a point value back into the same buffer     *)
(* for the response.  The buffer grows through _expandBuffer.              *)
(*                                                                         *)
(* A character is a one-character string; NUL, CR and LF stand for '\0',  *)
(* '\r' and '\n'.  A buffer is its content at[0 .. limit) (a sequence),    *)
(* its capacity, and whether a write went past the capacity.  The          *)
(* DELETED text of _deletedState is one character that is none of the     *)
(* special ones.                                                           *)
(*                                                                         *)
(* The exchange checked here is the seed result of an engine request: the *)
(* framework writes the seed line, the process reads it, and the process  *)
(* writes it back when the response counts it (rvpf_pipe_endEngineRequest *)
(* with a summary above 0), where the framework reads it with the same    *)
(* grammar.                                                                *)
(***************************************************************************)
EXTENDS Integers, Sequences, SequencesExt

CONSTANTS
    INITIAL_CONTROL_BUFFER_CAPACITY,   \* 128 in the code
    Sent                               \* the seed lines the framework may write

NUL == "NUL"
CR == "CR"
LF == "LF"
SP == " "
QUOTE == "\""
DELETED == <<"DELETED">>

\* isspace() of the characters that occur.
IsSpace(c) == c \in {SP, CR, LF}

\* A NULL string, and a state equal to _deletedState: sequences, as the
\* strings are, of a character that never occurs in a line.
NONE == <<"NULL">>
DEL == <<"_deletedState">>

PV(name, stamp, state, value) ==
    [name |-> name, stamp |-> stamp, state |-> state, value |-> value]

EmptyBuffer ==
    [at |-> <<>>, limit |-> 0, capacity |-> INITIAL_CONTROL_BUFFER_CAPACITY, over |-> FALSE]

_resetBuffer(b) == [b EXCEPT !.at = <<>>, !.limit = 0]

\* Mutant: the capacity grows to what is needed, without the doubling.
_expandBufferNoDouble(b, size) ==
    IF size > b.capacity - b.limit
    THEN [b EXCEPT !.capacity = IF size < b.capacity THEN b.capacity ELSE size]
    ELSE b

\* _expandBuffer: at least doubles the capacity when size bytes do not fit.
_expandBuffer(b, size) ==
    IF size > b.capacity - b.limit
    THEN LET s == IF size < b.capacity THEN b.capacity ELSE size
         IN [b EXCEPT !.capacity = s + s]
    ELSE b

\* The '\0' written at at[limit]: past the capacity is an overflow.
Terminated(b) == [b EXCEPT !.over = @ \/ b.limit >= b.capacity]

Stored(b, c) == [b EXCEPT !.at = Append(@, c), !.limit = @ + 1]

_charToBuffer(c, b) == Terminated(Stored(_expandBuffer(b, 2), c))

_stringToBuffer(text, b) ==
    LET e == _expandBuffer(b, Len(text) + 1)
    IN Terminated([e EXCEPT !.at = @ \o text, !.limit = @ + Len(text)])

(***************************************************************************)
(* _nextLine on the rest of stdin: CRs are dropped, leading white space is *)
(* skipped, trailing white space is cut at the newline, and blank lines    *)
(* are skipped.  At EOF the characters read are lost and NULL returned.    *)
(***************************************************************************)
RECURSIVE _trimTrailing(_)
_trimTrailing(b) ==
    IF b.limit > 0 /\ IsSpace(b.at[b.limit])
    THEN _trimTrailing([b EXCEPT !.at = SubSeq(@, 1, b.limit - 1), !.limit = @ - 1])
    ELSE b

RECURSIVE _readLine(_, _)
_readLine(b, in) ==
    IF in = <<>> THEN [line |-> FALSE, buf |-> _resetBuffer(b), rest |-> in]
    ELSE LET c == Head(in) IN
         IF c = LF
         THEN LET t == _trimTrailing(b) IN
              IF t.limit > 0 THEN [line |-> TRUE, buf |-> Terminated(t), rest |-> Tail(in)]
              ELSE _readLine(t, Tail(in))
         ELSE IF c # CR /\ (b.limit > 0 \/ ~IsSpace(c))
         THEN _readLine(Stored(_expandBuffer(b, 2), c), Tail(in))
         ELSE _readLine(b, Tail(in))

_nextLine(b, in) == _readLine(_resetBuffer(b), in)

(***************************************************************************)
(* _nextField from the position pos (0-based, as in C): past the NUL that  *)
(* ended the previous field and the spaces, to the next space, which it    *)
(* overwrites with NUL; the last field runs to the end of the line.  mark  *)
(* is -1 for NULL.                                                         *)
(***************************************************************************)
Ch(b, i) == IF i < b.limit THEN b.at[i + 1] ELSE NUL

RECURSIVE SkipSpaces(_, _)
SkipSpaces(b, i) == IF Ch(b, i) = SP THEN SkipSpaces(b, i + 1) ELSE i

RECURSIVE FieldEnd(_, _)
FieldEnd(b, i) == IF Ch(b, i) \in {SP, NUL} THEN i ELSE FieldEnd(b, i + 1)

\* The C string at i.
RECURSIVE Str(_, _)
Str(b, i) == IF Ch(b, i) = NUL THEN <<>> ELSE <<Ch(b, i)>> \o Str(b, i + 1)

\* Mutant: the NUL that ended the previous field is not stepped over.
_nextFieldAtNul(b, pos, last) ==
    IF pos >= b.limit THEN [mark |-> -1, pos |-> pos, buf |-> b]
    ELSE LET mark == SkipSpaces(b, pos)
             end == IF last THEN mark ELSE FieldEnd(b, mark)
         IN [mark |-> mark, pos |-> end,
             buf |-> IF ~last /\ end < b.limit
                     THEN [b EXCEPT !.at[end + 1] = NUL] ELSE b]

_nextField(b, pos, last) ==
    IF pos >= b.limit THEN [mark |-> -1, pos |-> pos, buf |-> b]
    ELSE LET mark == SkipSpaces(b, IF Ch(b, pos) = NUL THEN pos + 1 ELSE pos)
             end == IF last THEN mark ELSE FieldEnd(b, mark)
         IN [mark |-> mark, pos |-> end,
             buf |-> IF ~last /\ end < b.limit
                     THEN [b EXCEPT !.at[end + 1] = NUL] ELSE b]

(***************************************************************************)
(* The loops of _fillPointValue over the line, from the character after   *)
(* the opening '[' or '"'.  In the state, "[]" stands for ']' and "]["     *)
(* for '['; the state ends at a ']' followed by anything but '[', and the *)
(* character after that ']' and the spaces after it are skipped.  In the  *)
(* value, '""' stands for '"', and the closing '"' must end the line.     *)
(* ok is FALSE where the code warns "Invalid format" and returns.          *)
(***************************************************************************)
RECURSIVE StateLoop(_, _, _, _, _)
StateLoop(b, next, left, right, acc) ==
    LET c == Ch(b, next) IN
    IF c = NUL
    THEN [ok |-> right, text |-> acc, next |-> next]
    ELSE IF right
    THEN IF c = "[" THEN StateLoop(b, next + 1, left, FALSE, Append(acc, "["))
         ELSE [ok |-> TRUE, text |-> acc, next |-> SkipSpaces(b, next + 1)]
    ELSE IF left
    THEN IF c = "]" THEN StateLoop(b, next + 1, FALSE, right, Append(acc, "]"))
         ELSE [ok |-> FALSE, text |-> acc, next |-> next]
    ELSE IF c = "[" THEN StateLoop(b, next + 1, TRUE, right, acc)
    ELSE IF c = "]" THEN StateLoop(b, next + 1, left, TRUE, acc)
    ELSE StateLoop(b, next + 1, left, right, Append(acc, c))

RECURSIVE ValueLoop(_, _, _, _)
ValueLoop(b, next, quote, acc) ==
    LET c == Ch(b, next) IN
    IF c = NUL THEN [ok |-> quote, text |-> acc]
    ELSE IF quote
    THEN IF c = QUOTE THEN ValueLoop(b, next + 1, FALSE, Append(acc, QUOTE))
         ELSE [ok |-> FALSE, text |-> acc]
    ELSE IF c = QUOTE THEN ValueLoop(b, next + 1, TRUE, acc)
    ELSE ValueLoop(b, next + 1, quote, Append(acc, c))

\* The value field at index field: quoted, "-" for deleted, or ignored.
ValueField(b, field, pv) ==
    IF Ch(b, field) = QUOTE
    THEN LET v == ValueLoop(b, field + 1, FALSE, <<>>)
         IN IF v.ok THEN [pv EXCEPT !.value = v.text] ELSE pv
    ELSE IF Ch(b, field) = "-" THEN [pv EXCEPT !.state = DEL]
    ELSE pv

(***************************************************************************)
(* _fillPointValue on the line _nextLine left in b: the point name, the    *)
(* stamp (an error when required and missing), then the rest of the line:  *)
(* a bracketed state, then a quoted value or "-".  error is a call of      *)
(* rvpf_pipe_error, which longjmps out of the request.                     *)
(***************************************************************************)
_fillPointValue(b, stampRequired) ==
    LET f1 == _nextField(b, 0, FALSE)
        f2 == _nextField(f1.buf, f1.pos, FALSE)
        f3 == _nextField(f2.buf, f2.pos, TRUE)
        named == PV(Str(f1.buf, f1.mark), NONE, NONE, NONE)
        stamped == [named EXCEPT !.stamp = Str(f2.buf, f2.mark)]
        s == StateLoop(f3.buf, f3.mark + 1, FALSE, FALSE, <<>>)
    IN IF f1.mark < 0 \/ (f2.mark < 0 /\ stampRequired)
       THEN [error |-> TRUE, pv |-> named, buf |-> f2.buf]
       ELSE IF f2.mark < 0 THEN [error |-> FALSE, pv |-> named, buf |-> f2.buf]
       ELSE IF f3.mark < 0 THEN [error |-> FALSE, pv |-> stamped, buf |-> f3.buf]
       ELSE IF Ch(f3.buf, f3.mark) # "["
       THEN [error |-> FALSE, pv |-> ValueField(f3.buf, f3.mark, stamped), buf |-> f3.buf]
       ELSE IF ~s.ok THEN [error |-> FALSE, pv |-> stamped, buf |-> f3.buf]
       ELSE [error |-> FALSE, buf |-> f3.buf,
             pv |-> ValueField(f3.buf, s.next, [stamped EXCEPT !.state = s.text])]

(***************************************************************************)
(* _pointValueToBuffer: the name, a space and the stamp; the state in      *)
(* brackets with ']' written before each '[' and '[' before each ']'; the  *)
(* value in quotes with each '"' doubled.  _deletedState is written as its *)
(* text.                                                                   *)
(***************************************************************************)
\* Mutant: the state characters are written without their escapes.
StateCharUnescaped(b, c) == _charToBuffer(c, b)

StateChar(b, c) ==
    _charToBuffer(c, CASE c = "[" -> _charToBuffer("]", b)
                       [] c = "]" -> _charToBuffer("[", b)
                       [] OTHER -> b)

ValueChar(b, c) == _charToBuffer(c, IF c = QUOTE THEN _charToBuffer(QUOTE, b) ELSE b)

StateText(state) == IF state = DEL THEN DELETED ELSE state

_pointValueToBuffer(pv, b) ==
    LET b1 == _stringToBuffer(pv.stamp, _charToBuffer(SP, _stringToBuffer(pv.name, b)))
        b2 == IF pv.state = NONE THEN b1
              ELSE _charToBuffer("]", FoldLeft(StateChar, _stringToBuffer(<<SP, "[">>, b1),
                                               StateText(pv.state)))
    IN IF pv.value = NONE THEN b2
       ELSE _charToBuffer(QUOTE, FoldLeft(ValueChar, _stringToBuffer(<<SP, QUOTE>>, b2),
                                          pv.value))
-----------------------------------------------------------------------------
VARIABLES
    sent,       \* the seed line the framework wrote, and the point value it means
    stdin,      \* the characters of stdin not read yet
    buf,        \* the request's control buffer
    result,     \* the seed result the process parsed
    out,        \* the seed result line the process wrote
    parsed,     \* what the framework reads in that line
    phase       \* "receive", "respond", "read", "done", or "exited"

vars == <<sent, stdin, buf, result, out, parsed, phase>>

Init ==
    /\ sent \in Sent
    /\ stdin = sent.line
    /\ buf = EmptyBuffer
    /\ result = NONE /\ out = <<>> /\ parsed = NONE
    /\ phase = "receive"

(***************************************************************************)
(* rvpf_pipe_nextEngineRequest reading the seed: _nextLine(buffer, true)  *)
(* and _fillPointValue(result, buffer, true).  EOF or a missing field is  *)
(* rvpf_pipe_error, which ends the process.                                *)
(***************************************************************************)
ReceiveSeed ==
    /\ phase = "receive"
    /\ LET r == _nextLine(buf, stdin)
           f == _fillPointValue(r.buf, TRUE)
       IN /\ IF ~r.line \/ f.error
             THEN /\ phase' = "exited"
                  /\ buf' = IF r.line THEN f.buf ELSE r.buf
                  /\ UNCHANGED result
             ELSE /\ result' = f.pv /\ buf' = f.buf /\ phase' = "respond"
          /\ stdin' = r.rest
    /\ UNCHANGED <<sent, out, parsed>>

(***************************************************************************)
(* rvpf_pipe_endEngineRequest writing the seed result: _pointValueToBuffer *)
(* into the reset control buffer, then _flushBuffer, which writes the line *)
(* to stdout and resets the buffer.                                        *)
(***************************************************************************)
RespondSeed ==
    /\ phase = "respond"
    /\ LET b == _pointValueToBuffer(result, _resetBuffer(buf))
       IN /\ out' = b.at
          /\ buf' = _resetBuffer(b)
    /\ phase' = "read"
    /\ UNCHANGED <<sent, stdin, result, parsed>>

\* The framework reads the line with the grammar the process reads with.
FrameworkRead ==
    /\ phase = "read"
    /\ LET r == _nextLine(EmptyBuffer, out \o <<LF>>)
       IN parsed' = _fillPointValue(r.buf, TRUE).pv
    /\ phase' = "done"
    /\ UNCHANGED <<sent, stdin, buf, result, out>>

Next == ReceiveSeed \/ RespondSeed \/ FrameworkRead

Spec == Init /\ [][Next]_vars
-----------------------------------------------------------------------------
\* A text is a C string of line characters; a field cut by _nextField is
\* not empty.
Text == Seq(STRING \ {NUL, CR, LF})
PointValue ==
    [name : Text \ {<<>>}, stamp : Text \ {<<>>},
     state : Text \cup {NONE, DEL}, value : Text \cup {NONE}]

TypeOK ==
    /\ phase \in {"receive", "respond", "read", "done", "exited"}
    /\ buf.limit = Len(buf.at) /\ buf.capacity \in Nat /\ buf.over \in BOOLEAN
    /\ phase \in {"respond", "read", "done"} => result \in PointValue
    /\ phase = "done" => parsed \in PointValue

(***************************************************************************)
(* The seed round trip.  The process reads the point value the framework  *)
(* wrote, whatever spaces and CRs surround the line; and the line          *)
(* _pointValueToBuffer writes back reads as the same point value: the      *)
(* bracket and quote escapes of the writer are the ones the parser undoes. *)
(* A deleted seed is left out of the second half: it is written back as   *)
(* the state text DELETED, which reads as a state, not as a deletion.     *)
(***************************************************************************)
SeedRoundTrip ==
    /\ phase \in {"respond", "read", "done"} => result = sent.pv
    /\ phase = "done" /\ result.state # DEL => parsed = result

(***************************************************************************)
(* Every write into the control buffer, the terminating NUL included,     *)
(* stays within the capacity _expandBuffer grew it to.                     *)
(***************************************************************************)
NoOverflow == ~buf.over
=============================================================================
