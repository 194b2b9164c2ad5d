----------------------------- MODULE SslStream -----------------------------
(***************************************************************************)
(* The RVPF_SSL byte stream of lib/impl/rvpf_ssl.c, SSL_ENABLED build.     *)
(*                                                                         *)
(* ssl  is the rvpf_ssl_context: its latched status code, whether a BIO    *)
(*      is open, and whether a trust store was configured (which makes     *)
(*      open require a peer certificate).                                  *)
(* conn is the TCP connection the context drives: "none" when no socket    *)
(*      exists, "up" while the server reads, "closed" once the server has  *)
(*      shut its side.  up is the byte stream towards the server, as a     *)
(*      sequence of the tokens the client wrote; down holds the reply      *)
(*      lines the server wrote and the client has not read yet.            *)
(*                                                                         *)
(* The operators are the actions' parts that rvpf_ssl_* functions perform; *)
(* the XPVPC client composes them.  Byte contents are opaque here.         *)
(***************************************************************************)
EXTENDS Integers, Sequences

VARIABLES ssl, conn

\* rvpf_ssl.h status codes.
SSL_OK == 0
SSL_ASK_ERR == 1
SSL_ILLEGAL_STATE == 2
SSL_ILLEGAL_ARG == 3
SSL_INTERNAL_ERROR == 4
SSL_SERVER_CLOSED == 5
SSL_BAD_ADDRESS == 6
SSL_UNKNOWN_HOST == 7
SSL_UNTRUSTED_HOST == 8
SSL_UNKNOWN_ERROR == 9
SslCodes == 0..9

NoConn == [state |-> "none", up |-> <<>>, down |-> <<>>]

SslInit ==
    /\ ssl = [status |-> SSL_OK, open |-> FALSE, verified |-> FALSE]
    /\ conn = NoConn

rvpf_ssl_succeeded == ssl.status = SSL_OK

rvpf_ssl_failed == ssl.status # SSL_OK

rvpf_ssl_isOpen == ssl.open

\* The value rvpf_ssl_status returns: the status code negated.
rvpf_ssl_status == -ssl.status

rvpf_ssl_clearError ==
    /\ ssl' = [ssl EXCEPT !.status = SSL_OK]
    /\ UNCHANGED conn

(***************************************************************************)
(* rvpf_ssl_setTrust: when no error is latched, creates the SSL_CTX        *)
(* (SSL_CTX_new may fail with ASK_ERR) and records the trust locations.    *)
(***************************************************************************)
rvpf_ssl_setTrust ==
    /\ IF rvpf_ssl_succeeded
       THEN \/ ssl' = [ssl EXCEPT !.verified = TRUE]
            \/ ssl' = [ssl EXCEPT !.status = SSL_ASK_ERR]
       ELSE UNCHANGED ssl
    /\ UNCHANGED conn

(***************************************************************************)
(* The outcomes of the connect/handshake sequence of rvpf_ssl_open once    *)
(* the address parsed: BIO_do_connect, loading the trust and certificate   *)
(* files, SSL_connect all fail with ASK_ERR; a verified session whose      *)
(* peer shows no certificate fails with UNTRUSTED_HOST.                    *)
(***************************************************************************)
ConnectOutcomes ==
    {SSL_OK, SSL_ASK_ERR} \cup (IF ssl.verified THEN {SSL_UNTRUSTED_HOST} ELSE {})

(***************************************************************************)
(* rvpf_ssl_open on a context that is not open (the caller checks).  The   *)
(* status is reset, a bad "[host]:port" latches BAD_ADDRESS, and any       *)
(* failure of the connection sequence closes the BIO again.               *)
(***************************************************************************)
rvpf_ssl_open(addressOk) ==
    IF ~addressOk
    THEN /\ ssl' = [ssl EXCEPT !.status = SSL_BAD_ADDRESS]
         /\ UNCHANGED conn
    ELSE \E outcome \in ConnectOutcomes :
            /\ ssl' = [ssl EXCEPT !.status = outcome, !.open = (outcome = SSL_OK)]
            /\ conn' = IF outcome = SSL_OK
                       THEN [state |-> "up", up |-> <<>>, down |-> <<>>]
                       ELSE NoConn

\* rvpf_ssl_close: frees the SSL session and BIO; the status is kept.
rvpf_ssl_close ==
    /\ ssl' = [ssl EXCEPT !.open = FALSE]
    /\ conn' = NoConn

(***************************************************************************)
(* rvpf_ssl_send of a whole text (the caller loops over partial writes).   *)
(* Short-circuits when an error is latched.  Writing to a connection the   *)
(* server has closed either still succeeds locally (the bytes are lost)    *)
(* or fails: -1 latches ASK_ERR, any other non-positive count              *)
(* INTERNAL_ERROR.                                                         *)
(***************************************************************************)
rvpf_ssl_send(text) ==
    CASE rvpf_ssl_failed -> UNCHANGED <<ssl, conn>>
      [] conn.state = "up" ->
            /\ conn' = [conn EXCEPT !.up = @ \o text]
            /\ UNCHANGED ssl
      [] OTHER ->
            \/ UNCHANGED <<ssl, conn>>
            \/ /\ \E code \in {SSL_ASK_ERR, SSL_INTERNAL_ERROR} :
                    ssl' = [ssl EXCEPT !.status = code]
               /\ UNCHANGED conn

(***************************************************************************)
(* rvpf_ssl_receive returning data: the first reply line waiting.  The     *)
(* caller keeps only the first line of what one read returned, so replies  *)
(* that arrived in the same read are dropped with it.                      *)
(***************************************************************************)
SslReceiveLine(line) ==
    /\ rvpf_ssl_succeeded
    /\ conn.down # <<>>
    /\ line = Head(conn.down)
    /\ \/ conn' = [conn EXCEPT !.down = Tail(@)]
       \/ /\ Len(conn.down) > 1
          /\ conn' = [conn EXCEPT !.down = <<>>]
    /\ UNCHANGED ssl

(***************************************************************************)
(* rvpf_ssl_receive on a connection the server closed, nothing left to     *)
(* read: SSL_read returns 0 (SERVER_CLOSED) or -1 on an unclean shutdown   *)
(* (ASK_ERR).                                                              *)
(***************************************************************************)
SslReceiveClosed ==
    /\ rvpf_ssl_succeeded
    /\ conn.state = "closed"
    /\ conn.down = <<>>
    /\ \E code \in {SSL_SERVER_CLOSED, SSL_ASK_ERR} :
            ssl' = [ssl EXCEPT !.status = code]
    /\ UNCHANGED conn

SslTypeOK ==
    /\ ssl \in [status : SslCodes, open : BOOLEAN, verified : BOOLEAN]
    /\ conn.state \in {"none", "up", "closed"}
    /\ ssl.open <=> conn.state # "none"
=============================================================================
