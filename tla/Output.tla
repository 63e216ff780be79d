------------------------------- MODULE Output -------------------------------
(***************************************************************************)
(* Output of several threads to one stream (Context/Context.c,             *)
(* Context/ErrorHandling.c, amqp_frame_dump of Transport/Frame/Frame.c).   *)
(* An error is reported under the lock of the stream and, inside it, the   *)
(* mutex all clones of a context share; a frame is dumped under the mutex  *)
(* and, for each character, the lock of the stream.                        *)
(***************************************************************************)
EXTENDS Naturals, Sequences

CONSTANTS
    Threads,
    Nobody,
    MaxPending          \* bound: characters of one report or dump

VARIABLES
    at,                 \* where each thread is
    stream,             \* who holds the lock of the stream (flockfile)
    mutex,              \* who holds output_mutex
    left,               \* characters each thread still has to write
    writer              \* whose text the stream is in the middle of

vars == <<at, stream, mutex, left, writer>>

Init ==
    /\ at = [t \in Threads |-> "elsewhere"]
    /\ stream = Nobody /\ mutex = Nobody /\ writer = Nobody
    /\ left = [t \in Threads |-> 0]

Move(t, from, to) == at[t] = from /\ at' = [at EXCEPT ![t] = to]

\* _vamqp_error and the others, when the level is to be shown
Report(t) == Move(t, "elsewhere", "report") /\ UNCHANGED <<stream, mutex, left, writer>>

\* amqp_stream_outputter, from here to ReportUnlock
flockfile(t) ==
    /\ Move(t, "report", "locking")
    /\ stream = Nobody /\ stream' = t
    /\ UNCHANGED <<mutex, left, writer>>

ReportLock(t) ==
    /\ Move(t, "locking", "reporting")
    /\ mutex = Nobody /\ mutex' = t
    /\ \E n \in 1 .. MaxPending : left' = [left EXCEPT ![t] = n]
    /\ UNCHANGED <<stream, writer>>

ReportWrite(t) ==
    /\ at[t] = "reporting" /\ left[t] > 0
    /\ left' = [left EXCEPT ![t] = @ - 1]
    /\ writer' = IF left'[t] = 0 THEN Nobody ELSE t
    /\ UNCHANGED <<at, stream, mutex>>

funlockfile(t) ==
    /\ left[t] = 0 /\ Move(t, "reporting", "unlocking")
    /\ stream' = Nobody
    /\ UNCHANGED <<mutex, left, writer>>


\* amqp_outputter_unlock
ReportUnlock(t) ==
    /\ Move(t, "unlocking", "elsewhere")
    /\ mutex' = Nobody
    /\ UNCHANGED <<stream, left, writer>>

\* amqp_frame_dump
Dump(t) == Move(t, "elsewhere", "dump") /\ UNCHANGED <<stream, mutex, left, writer>>

DumpLock(t) ==
    /\ Move(t, "dump", "dumping")
    /\ mutex = Nobody /\ mutex' = t
    /\ \E n \in 1 .. MaxPending : left' = [left EXCEPT ![t] = n]
    /\ UNCHANGED <<stream, writer>>

\* amqp_context_putc, through fputc, which waits for the lock of the stream
DumpWrite(t) ==
    /\ at[t] = "dumping" /\ left[t] > 0
    /\ stream = Nobody
    /\ left' = [left EXCEPT ![t] = @ - 1]
    /\ writer' = IF left'[t] = 0 THEN Nobody ELSE t
    /\ UNCHANGED <<at, stream, mutex>>

DumpUnlock(t) ==
    /\ left[t] = 0 /\ Move(t, "dumping", "elsewhere")
    /\ mutex' = Nobody
    /\ UNCHANGED <<stream, left, writer>>

Next == \E t \in Threads :
    \/ Report(t) \/ flockfile(t) \/ ReportLock(t) \/ ReportWrite(t)
    \/ funlockfile(t) \/ ReportUnlock(t)
    \/ Dump(t) \/ DumpLock(t) \/ DumpWrite(t) \/ DumpUnlock(t)

Spec == Init /\ [][Next]_vars

-----------------------------------------------------------------------------
\* The type invariant: who holds a lock is at a place where it is held.
TypeOK ==
    /\ mutex # Nobody => at[mutex] \in {"reporting", "unlocking", "dumping"}
    /\ stream # Nobody => at[stream] \in {"locking", "reporting"}
    /\ \A t \in Threads : left[t] > 0 => at[t] \in {"reporting", "dumping"}

\* The text of one thread is not broken by another's (amqp_stream_outputter,
\* amqp_frame_dump).
TextWhole ==
    [][writer # Nobody => writer' \in {writer, Nobody} /\ \A t \in Threads \ {writer} : left'[t] >= left[t]]_vars

\* Who waits for a lock that another thread holds, and who can go on.
Waits(t) ==
    \/ at[t] = "report" /\ stream # Nobody
    \/ at[t] \in {"locking", "dump"} /\ mutex # Nobody
    \/ at[t] = "dumping" /\ left[t] > 0 /\ stream # Nobody
Goes(t) == at[t] # "elsewhere" /\ ~Waits(t)

\* Threads that wait, wait for one that goes on, except in one case: one
\* reports an error while another dumps a frame, and the two take the locks in
\* opposite order (Context.c:223 and Frame.c:302).  Errors alone, and dumps
\* alone, never block each other.
BlockedOnlyByDump ==
    (\E t \in Threads : Waits(t)) =>
        \/ \E t \in Threads : Goes(t)
        \/ \E t, u \in Threads :
             at[t] = "dumping" /\ mutex = t /\ at[u] = "locking" /\ stream = u
=============================================================================
