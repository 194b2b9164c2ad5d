------------------------------ MODULE MCXpvpc ------------------------------
(* The XPVPC client, its TLS stream and a server, instantiated for TLC. *)
EXTENDS Xpvpc

\* Four documents: enough for a login, two batches and a retried login.
MCMaxId == 4
\* Two values: a batch of two, or one batch each side of a failure.
MCMaxValues == 2
\* Two connections: a close and a reopen.
MCMaxSessions == 2
MCAutoFlushChoices == {0, 2}
=============================================================================
