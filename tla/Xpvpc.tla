------------------------------- MODULE Xpvpc -------------------------------
(***************************************************************************)
(* The XPVPC client of lib/impl/rvpf_xpvpc.c over the RVPF_SSL stream of   *)
(* module SslStream, with the server at the other end of the connection.   *)
(*                                                                         *)
(* ctx is the rvpf_xpvpc_context: status latch, document id counter, the   *)
(* count of point values in the open batch, and the text composed in the   *)
(* buffer and not yet sent (buffer[0 .. position)), as a sequence of       *)
(* tokens: a batch header, a value, the batch end, a login document, or    *)
(* the remains of a reply line the buffer was not rewound past.            *)
(*                                                                         *)
(* A call runs atomically up to the point where it blocks in _receiveLine  *)
(* for the acknowledgement (pc.stage = "await"); VerifyResponse is the     *)
(* return of that read, and the Resume actions are the rest of the call    *)
(* that issued the flush or login (pc.next).                               *)
(***************************************************************************)
EXTENDS Integers, Sequences, SequencesExt, Functions

CONSTANTS
    MaxId,          \* bound on the document id counter
    MaxValues,      \* bound on the point values the user sends
    MaxSessions,    \* bound on calls of rvpf_xpvpc_open
    AutoFlushChoices, \* arguments of rvpf_xpvpc_setAutoFlush
    Misbehave,      \* the server may send duplicate or malformed replies
    Lifecycle       \* the user sends values only once logged in

ASSUME MaxId \in Nat /\ MaxValues \in Nat /\ MaxSessions \in Nat
ASSUME AutoFlushChoices \subseteq Nat
ASSUME Misbehave \in BOOLEAN /\ Lifecycle \in BOOLEAN

VARIABLES
    ctx,        \* the context fields status, id, pending, text
    autoFlush,  \* the file-level _autoFlush, shared by every context
    ssl, conn,  \* the RVPF_SSL context and its connection
    pc,         \* where the user's current call is
    session,    \* number of rvpf_xpvpc_open calls so far (connection name)
    nextVal,    \* last point value handed to rvpf_xpvpc_sendValue
    received,   \* documents the server has read, in order
    acked,      \* values whose batch the client saw acknowledged
    inflight,   \* values in the document awaiting its acknowledgement
    loggedIn    \* a login was acknowledged on the current connection

vars == <<ctx, autoFlush, ssl, conn, pc, session, nextVal, received,
          acked, inflight, loggedIn>>

Ssl == INSTANCE SslStream

\* rvpf_xpvpc.h status codes.
OK == 0
ILLEGAL_STATE == 1
ILLEGAL_ARG == 2
INTERNAL_ERROR == 3
UNEXPECTED_RESPONSE == 4
MISMATCHED_ID == 5
UNKNOWN_ERROR == 6
XpvpcCodes == 0..6

\* Text tokens: "<messages id='n' flush='yes'>", one value element,
\* "</messages>", a login document, bytes left from a reply line.
Hdr(n) == [t |-> "hdr", n |-> n]
Val(v) == [t |-> "val", n |-> v]
End == [t |-> "end", n |-> 0]
Login(n) == [t |-> "login", n |-> n]
Junk == [t |-> "junk", n |-> 0]
Tokens == {Hdr(n) : n \in 1..MaxId} \cup {Val(v) : v \in 1..MaxValues}
            \cup {End, Junk} \cup {Login(n) : n \in 1..MaxId}

\* Reply lines: "<done ref='n'/>", a line not starting "<done ref='", and a
\* line starting "<done ref='n" that does not end "'/>".
Done(n) == [t |-> "done", n |-> n]
Garbage == [t |-> "garbage", n |-> 0]
Prefix(n) == [t |-> "prefix", n |-> n]

ValuesIn(text) == {text[i].n : i \in {j \in DOMAIN text : text[j].t = "val"}}

Idle == [stage |-> "idle", next |-> "ret", arg |-> 0, flush |-> FALSE]
Disposed == [stage |-> "disposed", next |-> "ret", arg |-> 0, flush |-> FALSE]
ResumeWith(next, arg) == [stage |-> "resume", next |-> next, arg |-> arg, flush |-> FALSE]

Init ==
    /\ ctx = [status |-> OK, id |-> 0, pending |-> 0, text |-> <<>>]
    /\ autoFlush = 0
    /\ Ssl!SslInit
    /\ pc = Idle
    /\ session = 0
    /\ nextVal = 0
    /\ received = <<>>
    /\ acked = {}
    /\ inflight = {}
    /\ loggedIn = FALSE

rvpf_xpvpc_failed == ctx.status # OK \/ Ssl!rvpf_ssl_failed

rvpf_xpvpc_succeeded == ~rvpf_xpvpc_failed

rvpf_xpvpc_isOpen == Ssl!rvpf_ssl_isOpen

Ghost == <<session, nextVal, received, acked, loggedIn>>

(***************************************************************************)
(* _sendText of the composed text, then the start of _verifyResponse:      *)
(* _receiveLine rewinds the buffer (position = 0) and blocks on the read.  *)
(***************************************************************************)
SendText(c, next, arg, isFlush, text) ==
    /\ Ssl!rvpf_ssl_send(text)
    /\ ctx' = [c EXCEPT !.text = <<>>]
    /\ inflight' = ValuesIn(text)
    /\ pc' = [stage |-> "await", next |-> next, arg |-> arg, flush |-> isFlush]

(***************************************************************************)
(* rvpf_xpvpc_flush on context value c, then continue with next.  The      *)
(* batch end is appended and the batch sent only when values are pending.  *)
(***************************************************************************)
rvpf_xpvpc_flush(c, next, arg) ==
    CASE c.status # OK \/ Ssl!rvpf_ssl_failed ->
            /\ ctx' = c
            /\ pc' = ResumeWith(next, arg)
            /\ UNCHANGED <<ssl, conn, inflight>>
      [] ~rvpf_xpvpc_isOpen ->
            /\ ctx' = [c EXCEPT !.status = ILLEGAL_STATE]
            /\ pc' = ResumeWith(next, arg)
            /\ UNCHANGED <<ssl, conn, inflight>>
      [] c.pending > 0 -> SendText(c, next, arg, TRUE, c.text \o <<End>>)
      [] OTHER ->
            /\ ctx' = c
            /\ pc' = ResumeWith(next, arg)
            /\ UNCHANGED <<ssl, conn, inflight>>

\* rvpf_xpvpc_clearError: _resetText rewinds the buffer.
rvpf_xpvpc_clearError ==
    /\ ctx' = [ctx EXCEPT !.text = <<>>, !.pending = 0, !.status = OK]
    /\ Ssl!rvpf_ssl_clearError

\* The call returns to the user.
Return == pc' = Idle

(***************************************************************************)
(* User calls.  Each starts from an idle user; the bounds MaxId,           *)
(* MaxValues and MaxSessions stop the counters.                            *)
(***************************************************************************)

\* Mutant: open stores the RVPF_SSL code in the XPVPC status.
OpenStoringSslCode(addressOk) ==
    /\ pc = Idle
    /\ session < MaxSessions
    /\ IF rvpf_xpvpc_isOpen
       THEN /\ ctx' = [ctx EXCEPT !.status = ILLEGAL_STATE]
            /\ UNCHANGED <<ssl, conn, session, loggedIn>>
       ELSE /\ Ssl!rvpf_ssl_open(addressOk)
            /\ ctx' = [ctx EXCEPT !.status = ssl'.status]
            /\ session' = session + 1
            /\ loggedIn' = FALSE
    /\ Return
    /\ UNCHANGED <<autoFlush, nextVal, received, acked, inflight>>

\* rvpf_xpvpc_open: the SSL status is the call's result.
rvpf_xpvpc_open(addressOk) ==
    /\ pc = Idle
    /\ session < MaxSessions
    /\ IF rvpf_xpvpc_isOpen
       THEN /\ ctx' = [ctx EXCEPT !.status = ILLEGAL_STATE]
            /\ UNCHANGED <<ssl, conn, session, loggedIn>>
       ELSE /\ ctx' = [ctx EXCEPT !.status = OK]
            /\ Ssl!rvpf_ssl_open(addressOk)
            /\ session' = session + 1
            /\ loggedIn' = FALSE
    /\ Return
    /\ UNCHANGED <<autoFlush, nextVal, received, acked, inflight>>

\* rvpf_ssl_setTrust on the context's SSL context, as the test driver does.
SetTrust ==
    /\ pc = Idle
    /\ Ssl!rvpf_ssl_setTrust
    /\ UNCHANGED <<ctx, autoFlush, pc, inflight>> /\ UNCHANGED Ghost

ClearError ==
    /\ pc = Idle
    /\ rvpf_xpvpc_clearError
    /\ UNCHANGED <<autoFlush, pc, inflight>> /\ UNCHANGED Ghost

\* rvpf_xpvpc_login: flushes the open batch, then sends the login document.
rvpf_xpvpc_login ==
    /\ pc = Idle
    /\ ctx.id < MaxId
    /\ CASE rvpf_xpvpc_failed ->
                Return /\ UNCHANGED <<ctx, ssl, conn, inflight>>
         [] ~rvpf_xpvpc_isOpen ->
                /\ ctx' = [ctx EXCEPT !.status = ILLEGAL_STATE]
                /\ Return /\ UNCHANGED <<ssl, conn, inflight>>
         [] OTHER -> rvpf_xpvpc_flush(ctx, "login", 0)
    /\ UNCHANGED autoFlush /\ UNCHANGED Ghost

(***************************************************************************)
(* rvpf_xpvpc_sendValue; valid is "point and stamp are not NULL".  The     *)
(* batch header with a fresh id opens the batch when none is pending.      *)
(***************************************************************************)
rvpf_xpvpc_sendValue(valid) ==
    /\ pc = Idle
    /\ ctx.pending > 0 \/ ctx.id < MaxId
    /\ nextVal < MaxValues
    /\ Lifecycle => loggedIn
    /\ CASE rvpf_xpvpc_failed ->
                Return /\ UNCHANGED <<ctx, ssl, conn, inflight, nextVal>>
         [] ~rvpf_xpvpc_isOpen ->
                /\ ctx' = [ctx EXCEPT !.status = ILLEGAL_STATE]
                /\ Return /\ UNCHANGED <<ssl, conn, inflight, nextVal>>
         [] ~valid ->
                /\ ctx' = [ctx EXCEPT !.status = ILLEGAL_ARG]
                /\ Return /\ UNCHANGED <<ssl, conn, inflight, nextVal>>
         [] OTHER ->
                LET id == IF ctx.pending = 0 THEN ctx.id + 1 ELSE ctx.id
                    header == IF ctx.pending = 0 THEN <<Hdr(id)>> ELSE <<>>
                    c == [ctx EXCEPT !.id = id,
                                     !.text = @ \o header \o <<Val(nextVal + 1)>>,
                                     !.pending = @ + 1]
                IN /\ nextVal' = nextVal + 1
                   /\ IF autoFlush > 0 /\ c.pending >= autoFlush
                      THEN rvpf_xpvpc_flush(c, "ret", 0)
                      ELSE ctx' = c /\ Return /\ UNCHANGED <<ssl, conn, inflight>>
    /\ UNCHANGED <<autoFlush, session, received, acked, loggedIn>>

Flush ==
    /\ pc = Idle
    /\ rvpf_xpvpc_flush(ctx, "ret", 0)
    /\ UNCHANGED autoFlush /\ UNCHANGED Ghost

(***************************************************************************)
(* rvpf_xpvpc_close, and rvpf_xpvpc_dispose which closes then frees the    *)
(* context (next = "dispose").  An open context that failed is closed      *)
(* with only its status reset: the pending count and the text stay.        *)
(***************************************************************************)
CloseCall(next) ==
    /\ pc = Idle
    /\ CASE ~rvpf_xpvpc_isOpen ->
                /\ rvpf_xpvpc_clearError
                /\ pc' = IF next = "dispose" THEN Disposed ELSE Idle
                /\ UNCHANGED <<conn, inflight>>
         [] rvpf_xpvpc_succeeded -> rvpf_xpvpc_flush(ctx, next, 0)
         [] OTHER ->
                /\ ctx' = [ctx EXCEPT !.status = OK]
                /\ pc' = ResumeWith(next, 0)
                /\ UNCHANGED <<ssl, conn, inflight>>
    /\ UNCHANGED autoFlush /\ UNCHANGED Ghost

rvpf_xpvpc_close == CloseCall("close")

rvpf_xpvpc_dispose == CloseCall("dispose")

\* rvpf_xpvpc_setAutoFlush: flushes an open context, then sets the global.
rvpf_xpvpc_setAutoFlush(n) ==
    /\ pc = Idle
    /\ IF rvpf_xpvpc_isOpen
       THEN rvpf_xpvpc_flush(ctx, "autoFlush", n) /\ UNCHANGED autoFlush
       ELSE autoFlush' = n /\ Return /\ UNCHANGED <<ctx, ssl, conn, inflight>>
    /\ UNCHANGED Ghost

(***************************************************************************)
(* The end of _verifyResponse(expectedId = ctx.id).  A reply of the        *)
(* form "<done ref='n'/>" succeeds when n is the id and otherwise fails    *)
(* MISMATCHED_ID, both rewinding the buffer; any other reply fails         *)
(* UNEXPECTED_RESPONSE where _match stopped, so the buffer keeps the       *)
(* matched part of a line that began like an acknowledgement.  A flush     *)
(* then clears the pending count whatever the outcome.                     *)
(***************************************************************************)
\* Mutant: the received id is parsed but not compared.
VerifyStatusAnyRef(line) ==
    CASE line.t = "done" -> OK
      [] OTHER -> UNEXPECTED_RESPONSE

VerifyStatus(line) ==
    CASE line.t = "done" -> IF line.n = ctx.id THEN OK ELSE MISMATCHED_ID
      [] OTHER -> UNEXPECTED_RESPONSE

Verified(status, text) ==
    /\ ctx' = [ctx EXCEPT !.status = status, !.text = text,
                          !.pending = IF pc.flush THEN 0 ELSE @]
    /\ pc' = [pc EXCEPT !.stage = "resume"]
    /\ acked' = IF status = OK THEN acked \cup inflight ELSE acked
    /\ loggedIn' = (loggedIn \/ (status = OK /\ ~pc.flush))
    /\ UNCHANGED <<autoFlush, session, nextVal, received, inflight>>

VerifyResponse ==
    /\ pc.stage = "await"
    /\ \/ \* the send failed: rvpf_ssl_receive returns at once
          /\ Ssl!rvpf_ssl_failed
          /\ Verified(UNEXPECTED_RESPONSE, <<>>)
          /\ UNCHANGED <<ssl, conn>>
       \/ /\ conn.down # <<>>
          /\ LET line == Head(conn.down)
             IN /\ Ssl!SslReceiveLine(line)
                /\ Verified(VerifyStatus(line),
                            IF line.t = "prefix" THEN <<Junk>> ELSE <<>>)
       \/ /\ Ssl!SslReceiveClosed
          /\ Verified(UNEXPECTED_RESPONSE, <<>>)

\* Mutant: login composes its document with the id of the last one.
ResumeLoginSameId ==
    /\ pc.stage = "resume" /\ pc.next = "login"
    /\ IF ctx.status = OK
       THEN SendText(ctx, "ret", 0, FALSE, ctx.text \o <<Login(ctx.id)>>)
       ELSE Return /\ UNCHANGED <<ctx, ssl, conn, inflight>>
    /\ UNCHANGED autoFlush /\ UNCHANGED Ghost

\* Mutant: _receiveLine reads even when the status latch kept the login
\* document from being sent.
ResumeLoginAwaitsUnsent ==
    /\ pc.stage = "resume" /\ pc.next = "login"
    /\ LET c == [ctx EXCEPT !.id = @ + 1]
       IN IF c.status = OK
          THEN SendText(c, "ret", 0, FALSE, c.text \o <<Login(c.id)>>)
          ELSE /\ ctx' = c
               /\ pc' = [stage |-> "await", next |-> "ret", arg |-> 0, flush |-> FALSE]
               /\ UNCHANGED <<ssl, conn, inflight>>
    /\ UNCHANGED autoFlush /\ UNCHANGED Ghost

\* The rest of rvpf_xpvpc_flush's caller once the flush has returned.
ResumeReturn ==
    /\ pc.stage = "resume" /\ pc.next = "ret"
    /\ Return
    /\ UNCHANGED <<ctx, autoFlush, ssl, conn, inflight>> /\ UNCHANGED Ghost

\* rvpf_xpvpc_login after its flush: the id is incremented even when the
\* status latch stops the document from being composed and sent.
ResumeLogin ==
    /\ pc.stage = "resume" /\ pc.next = "login"
    /\ LET c == [ctx EXCEPT !.id = @ + 1]
       IN IF c.status = OK
          THEN SendText(c, "ret", 0, FALSE, c.text \o <<Login(c.id)>>)
          ELSE ctx' = c /\ Return /\ UNCHANGED <<ssl, conn, inflight>>
    /\ UNCHANGED autoFlush /\ UNCHANGED Ghost

ResumeClose ==
    /\ pc.stage = "resume" /\ pc.next = "close"
    /\ Ssl!rvpf_ssl_close
    /\ Return
    /\ loggedIn' = FALSE
    /\ UNCHANGED <<ctx, autoFlush, inflight, session, nextVal, received, acked>>

ResumeDispose ==
    /\ pc.stage = "resume" /\ pc.next = "dispose"
    /\ Ssl!rvpf_ssl_close
    /\ pc' = Disposed
    /\ loggedIn' = FALSE
    /\ UNCHANGED <<ctx, autoFlush, inflight, session, nextVal, received, acked>>

ResumeAutoFlush ==
    /\ pc.stage = "resume" /\ pc.next = "autoFlush"
    /\ autoFlush' = pc.arg
    /\ Return
    /\ UNCHANGED <<ctx, ssl, conn, inflight>> /\ UNCHANGED Ghost

Resume == ResumeReturn \/ ResumeLogin \/ ResumeClose \/ ResumeDispose \/ ResumeAutoFlush

(***************************************************************************)
(* The server reads whole documents off the connection in order: a login, *)
(* or a batch header, its values and the batch end.  It records the       *)
(* document and replies with one line; a misbehaving server may also send *)
(* a duplicate acknowledgement, a garbage line, or a truncated one.  A    *)
(* stream that does not start with a document makes it drop the           *)
(* connection.  The server may also drop the connection at any time,      *)
(* losing what it has not read.                                            *)
(***************************************************************************)
IsEnd(tok) == tok.t = "end"

ReplyChoices(n) ==
    {<<Done(n)>>} \cup
        (IF Misbehave THEN {<<Done(n), Done(n)>>, <<Garbage>>, <<Prefix(n)>>} ELSE {})

ServerDrop == conn' = [conn EXCEPT !.state = "closed", !.up = <<>>]

ServerRead ==
    /\ conn.state = "up"
    /\ conn.up # <<>>
    /\ LET up == conn.up
           first == Head(up)
           k == IF first.t = "login" THEN 1 ELSE SelectInSeq(up, IsEnd)
           wellFormed == first.t = "login"
                         \/ (first.t = "hdr" /\ k > 0 /\ \A i \in 2..k-1 : up[i].t = "val")
           incomplete == first.t = "hdr" /\ k = 0 /\ \A i \in 2..Len(up) : up[i].t = "val"
       IN /\ ~incomplete
          /\ IF wellFormed
             THEN /\ received' = Append(received,
                        [kind |-> first.t, id |-> first.n, session |-> session,
                         vals |-> [i \in 1..k-2 |-> up[i+1].n]])
                  /\ \E reply \in ReplyChoices(first.n) :
                        conn' = [conn EXCEPT !.up = SubSeq(up, k+1, Len(up)),
                                             !.down = @ \o reply]
             ELSE ServerDrop /\ UNCHANGED received
    /\ UNCHANGED <<ctx, autoFlush, ssl, pc, session, nextVal, acked, inflight, loggedIn>>

ServerClose ==
    /\ conn.state = "up"
    /\ ServerDrop
    /\ UNCHANGED <<ctx, autoFlush, ssl, pc, inflight>> /\ UNCHANGED Ghost

Next ==
    \/ \E ok \in BOOLEAN : rvpf_xpvpc_open(ok)
    \/ SetTrust
    \/ ClearError
    \/ rvpf_xpvpc_login
    \/ \E valid \in BOOLEAN : rvpf_xpvpc_sendValue(valid)
    \/ Flush
    \/ rvpf_xpvpc_close
    \/ rvpf_xpvpc_dispose
    \/ \E n \in AutoFlushChoices : rvpf_xpvpc_setAutoFlush(n)
    \/ VerifyResponse
    \/ Resume
    \/ ServerRead
    \/ ServerClose

(***************************************************************************)
(* A call blocked on the read returns once the reply or the end of stream  *)
(* is there, and a call runs on to its return: the user's thread is not    *)
(* starved.  The server is assumed to keep reading: the client has no      *)
(* receive timeout, so nothing else brings a blocked call back.            *)
(***************************************************************************)
Fairness ==
    /\ WF_vars(VerifyResponse)
    /\ WF_vars(Resume)
    /\ WF_vars(ServerRead)

Spec == Init /\ [][Next]_vars /\ Fairness

-----------------------------------------------------------------------------
(* Properties. *)

\* The values the server accepted, in the order it read them.
Delivered == FlattenSeq([i \in DOMAIN received |-> received[i].vals])

TypeOK ==
    /\ ctx \in [status : XpvpcCodes, id : 0..MaxId, pending : 0..MaxValues,
                text : Seq(Tokens)]
    /\ Ssl!SslTypeOK
    /\ autoFlush \in {0} \cup AutoFlushChoices
    /\ pc.stage \in {"idle", "await", "resume", "disposed"}
    /\ pc.next \in {"ret", "login", "close", "dispose", "autoFlush"}
    /\ session \in 0..MaxSessions
    /\ nextVal \in 0..MaxValues
    /\ acked \subseteq 1..MaxValues /\ inflight \subseteq 1..MaxValues
    /\ loggedIn \in BOOLEAN

(***************************************************************************)
(* A flush that returns OK means the server read the batch: the id check  *)
(* of _verifyResponse stops a stale or duplicated acknowledgement left on *)
(* the connection from passing for the one of the batch just sent.        *)
(***************************************************************************)
AckedDelivered == acked \subseteq Range(Delivered)

(***************************************************************************)
(* The documents the server reads carry strictly increasing ids, across  *)
(* connections: login and the lazy batch header both pre-increment the    *)
(* one counter, and a batch left over from an earlier connection was      *)
(* numbered before the login that follows it.                             *)
(***************************************************************************)
DocumentIdsIncrease ==
    \A i \in 1..Len(received) - 1 : received[i].id < received[i+1].id

(***************************************************************************)
(* Every call the user makes returns: a flush or login blocked in         *)
(* _receiveLine gets its reply or sees the connection end.                *)
(***************************************************************************)
CallsReturn == pc.stage \in {"await", "resume"} ~> pc.stage \in {"idle", "disposed"}

(***************************************************************************)
(* What the client writes to the connection is a sequence of documents:   *)
(* the server never finds bytes that do not start one.                    *)
(***************************************************************************)
StreamStartsWithDocument ==
    conn.up # <<>> => Head(conn.up).t \in {"hdr", "login"}
=============================================================================
