------------------------------- MODULE RvpfLog -------------------------------
(***************************************************************************)
(* The process-wide log of lib/impl/rvpf_log.c: the level that decides     *)
(* which records are written, and the stream they are written to.          *)
(*                                                                         *)
(* logLevel   _level, the threshold: a record of level l is written when   *)
(*            logLevel >= l;                                               *)
(* levelSet   _levelSet: a call of rvpf_log_setLevel has set the level;    *)
(* logFile    _logFile: "stderr", or "file" when a file rvpf_log_open      *)
(*            opened is the log.  NULL, the initial value, is "stderr":    *)
(*            _log replaces it by stderr and rvpf_log_close skips both;    *)
(* env        getenv("RVPF_LOG_LEVEL") through atoi, fixed for the         *)
(*            process: [set |-> FALSE] when the variable is absent;        *)
(* levelCalls the arguments of every rvpf_log_setLevel call so far, in     *)
(*            order (a history variable: no code reads it).                *)
(*                                                                         *)
(* The record count _logged and the text of the records are not modelled: *)
(* no code of the repository reads rvpf_log_getLogged.                     *)
(***************************************************************************)
EXTENDS Integers, Sequences

LOCAL INSTANCE SequencesExt

CONSTANT EnvLevels   \* the values the environment variable may give

VARIABLES logLevel, levelSet, logFile, env, levelCalls

\* RVPF_LOG_Level of rvpf_log.h.
RVPF_LOG_LEVEL_NONE == 0
RVPF_LOG_LEVEL_FATAL == 1
RVPF_LOG_LEVEL_ERROR == 2
RVPF_LOG_LEVEL_WARN == 3
RVPF_LOG_LEVEL_DEBUG == 5
RVPF_LOG_LEVEL_TRACE == 6
RVPF_LOG_LEVEL_ALL == 7

_DEFAULT_LOG_LEVEL == RVPF_LOG_LEVEL_WARN

\* The branch of rvpf_log_setLevel for a level that is not negative: a
\* level above ALL is ignored.
SetKnown(s, level) ==
    IF level <= RVPF_LOG_LEVEL_ALL THEN [level |-> level, set |-> TRUE] ELSE s

\* A mutant of rvpf_log_setLevel: the environment is read on every
\* negative call, not only while no level was set.
SetLevelEveryNegative(s, level) ==
    IF level < RVPF_LOG_LEVEL_NONE
    THEN LET l == IF env.set THEN env.value ELSE -level
         IN IF l >= RVPF_LOG_LEVEL_NONE THEN SetKnown(s, l) ELSE s
    ELSE SetKnown(s, level)

(***************************************************************************)
(* rvpf_log_setLevel on the pair s = [level |-> _level, set |->            *)
(* _levelSet].  A negative level is replaced, while no level was set, by   *)
(* the environment variable, or by its opposite when the variable is      *)
(* absent, and the function calls itself with that; the inner call only    *)
(* takes the second branch.                                                *)
(***************************************************************************)
rvpf_log_setLevel(s, level) ==
    IF level < RVPF_LOG_LEVEL_NONE
    THEN IF ~s.set
         THEN LET l == IF env.set THEN env.value ELSE -level
              IN IF l >= RVPF_LOG_LEVEL_NONE THEN SetKnown(s, l) ELSE s
         ELSE s
    ELSE SetKnown(s, level)

\* The log after its first call, rvpf_log_setLevel(first), from the file's
\* initial values.
LogStarted(first) ==
    /\ env \in EnvLevels
    /\ LET s == rvpf_log_setLevel([level |-> _DEFAULT_LOG_LEVEL, set |-> FALSE], first)
       IN /\ logLevel = s.level
          /\ levelSet = s.set
    /\ logFile = "stderr"
    /\ levelCalls = <<first>>

SetLevel(level) ==
    LET s == rvpf_log_setLevel([level |-> logLevel, set |-> levelSet], level)
    IN /\ logLevel' = s.level
       /\ levelSet' = s.set
       /\ levelCalls' = Append(levelCalls, level)
       /\ UNCHANGED <<logFile, env>>

\* rvpf_log_close: an opened file stops being the log before fclose, whose
\* failure is reported on stderr.
rvpf_log_close ==
    /\ logFile' = "stderr"
    /\ UNCHANGED <<logLevel, levelSet, env, levelCalls>>

\* rvpf_log_open: when fopen fails the log is left as it was (the warning
\* goes to it); otherwise the current log is closed and the new file
\* becomes the log.
rvpf_log_open(opened) ==
    /\ logFile' = IF opened THEN "file" ELSE logFile
    /\ UNCHANGED <<logLevel, levelSet, env, levelCalls>>

LogTypeOK ==
    /\ logLevel \in RVPF_LOG_LEVEL_NONE..RVPF_LOG_LEVEL_ALL
    /\ levelSet \in BOOLEAN
    /\ logFile \in {"stderr", "file"}
    /\ env \in EnvLevels
    /\ levelCalls \in Seq(Int)

(***************************************************************************)
(* The level spec.md states (4: the level is "read from env var           *)
(* RVPF_LOG_LEVEL on first explicit set with negative argument"; 6.4: the *)
(* variable, an integer 0..7, "raises/lowers the log threshold when a      *)
(* caller passes a negative level"), and rvpf_log.h ("negative is          *)
(* superseded by RVPF_LOG_LEVEL"), as a function of the whole history of   *)
(* calls: the last call that named a level wins; without one, the first   *)
(* negative call that yields a level gives the variable's value, or the   *)
(* opposite of its argument when the variable is absent; without one,     *)
(* WARN.  A level outside 0..7 is never taken.                             *)
(***************************************************************************)
IsLevel(n) == n \in RVPF_LOG_LEVEL_NONE..RVPF_LOG_LEVEL_ALL

NegativeLevel(n) == IF env.set THEN env.value ELSE -n

SpecifiedLevel(h) ==
    LET named == SelectLastInSeq(h, IsLevel)
        first == SelectInSeq(h, LAMBDA n : n < 0 /\ IsLevel(NegativeLevel(n)))
    IN IF named # 0 THEN h[named]
       ELSE IF first # 0 THEN NegativeLevel(h[first])
       ELSE _DEFAULT_LOG_LEVEL
=============================================================================
