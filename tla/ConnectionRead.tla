--------------------------- MODULE ConnectionRead ---------------------------
(***************************************************************************)
(* IO/ConnectionRead.c: the reader.  A read is queued with a callback and  *)
(* completes when all the bytes asked for have arrived.  A callback may    *)
(* queue the next read, which the loop of delayed_read_while_reading then  *)
(* serves without returning to the event loop.                             *)
(***************************************************************************)
EXTENDS ConnectionBase

(***************************************************************************)
(* A queued read is named by the handler its callback calls, with one of   *)
(* three arguments: "all" (the bytes asked for), "none" (amount 0, end of  *)
(* file) and "no_buffer" (amount 0 and a null buffer).                     *)
(***************************************************************************)

\* the watcher is stopped and destroyed
cleanup_reader == readWatch' = "none"

\* the states whose stop and fail are reader_stop and reader_fail
ReaderActive == reader \in {"enabled", "reading"}

\* enable_while_initialized, also reached through reset_while_initialized
ReaderEnable ==
    /\ Running("reader.enable") \/ Running("reader.reset")
    /\ reader = "initialized"
    /\ readWatch = "none"
    /\ reader' = "enabled"
    /\ readWatch' = "idle"
    /\ Return(<<>>)
    /\ UNCHANGED <<pending, partial, connVars, socketVars, writeVars, protocolVars>>

\* commence_read_while_enabled, _while_reading, _while_eof
CommenceRead ==
    /\ Running("reader.commence_read")
    /\ \/ /\ ReaderActive
          /\ reader = "reading" => pending = "none"
          /\ reader' = "reading"
          /\ pending' = Argument
          /\ partial' = FALSE
          /\ Return(IF reader = "enabled" THEN <<Call("read", "reader.delayed_read")>> ELSE <<>>)
       \/ /\ reader = "eof"
          /\ reader' = "eof_alerted"
          /\ pending' = "none"
          /\ partial' = FALSE
          /\ Return(<<Call(Argument, IF pending = "none" THEN "no_buffer" ELSE "none")>>)
    /\ UNCHANGED <<readWatch, connVars, socketVars, writeVars, protocolVars>>

\* read_what_is_buffered: the ways readv() can end the loop.  The argument of
\* the call is what the caller does next if the read completed.
ReadAll ==
    /\ Running("read")
    /\ fd
    /\ pending # "none"
    /\ pending' = "none"
    /\ partial' = FALSE
    /\ Return(<<Call(pending, "all"), Do(Argument)>>)
    /\ UNCHANGED <<reader, readWatch, connVars, socketVars, writeVars, protocolVars>>

\* Mutant of ReadWouldBlock: the watcher is not started.
ReadWouldBlockUnwatched ==
    /\ Running("read")
    /\ fd
    /\ pending # "none"
    /\ readWatch # "none"
    /\ partial' \in {partial, TRUE}
    /\ Return(<<>>)
    /\ UNCHANGED <<readWatch, reader, pending, connVars, socketVars, writeVars, protocolVars>>

ReadWouldBlock ==
    /\ Running("read")
    /\ fd
    /\ pending # "none"
    /\ readWatch # "none"
    /\ readWatch' = "active"
    /\ partial' \in {partial, TRUE}
    /\ Return(<<>>)
    /\ UNCHANGED <<reader, pending, connVars, socketVars, writeVars, protocolVars>>

\* read_eof, for an orderly close of the peer and for ECONNRESET
ReadEof ==
    /\ Running("read")
    /\ fd
    /\ pending # "none"
    /\ \/ /\ "eof" \in faults
          /\ ~partial
          /\ reader' = "eof"
          /\ failures' = failures \cup {"read_eof"}
          /\ pending' = "none"
          /\ Return(<<Call(pending, "none")>>)
          /\ UNCHANGED <<readWatch, partial>>
       \/ /\ "partial_eof" \in faults
          /\ readWatch # "none"
          /\ cleanup_reader
          /\ reader' = "failed"
          /\ partial' = TRUE
          /\ failures' = failures \cup {"read_eof", "read_error"}
          /\ Return(<<Do("connection.fail")>>)
          /\ UNCHANGED pending
    /\ UNCHANGED <<conn, onShutdown, onTimeout, mode, timer, flags, halts, destroyed,
                   socketVars, writeVars, protocolVars>>

ReadError ==
    /\ Running("read")
    /\ pending # "none"
    /\ "read_error" \in faults \/ ~fd
    /\ Return(<<Do("reader.fail")>>)
    /\ UNCHANGED machines

\* delayed_read_while_reading: once entered, the loop no longer looks at the
\* state of the reader ("reader.loop" is its return from a completed read)
DelayedRead ==
    /\ \/ Running("reader.delayed_read") /\ reader = "reading"
       \/ Running("reader.loop")
    /\ IF pending # "none"
       THEN reader' = "reading" /\ Return(<<Call("read", "reader.loop")>>)
       ELSE reader' = "enabled" /\ Return(<<>>)
    /\ UNCHANGED <<readWatch, pending, partial, connVars, socketVars, writeVars, protocolVars>>

\* read_event_handler
ReadEvent ==
    /\ Invoke(<<Do("reader.continue_read")>>)
    /\ readWatch = "active" /\ fd
    /\ UNCHANGED machines

\* next_read_while_enabled, next_read_while_reading
ReaderContinue ==
    /\ Running("reader.continue_read")
    /\ ReaderActive
    /\ readWatch # "none"
    /\ readWatch' = "idle"
    /\ Return(IF reader = "reading" THEN <<Call("read", "reader.delayed_read")>> ELSE <<>>)
    /\ UNCHANGED <<reader, pending, partial, connVars, socketVars, writeVars, protocolVars>>

\* reset_while_reading, reset_while_eof_alerted, default_reset
ReaderReset ==
    /\ Running("reader.reset")
    /\ reader # "initialized"
    /\ reader = "reading" => readWatch # "none"
    /\ reader' = CASE reader = "reading" -> "enabled"
                   [] reader = "eof_alerted" -> "eof"
                   [] OTHER -> reader
    /\ readWatch' = IF reader = "reading" THEN "idle" ELSE readWatch
    /\ Return(<<>>)
    /\ UNCHANGED <<pending, partial, connVars, socketVars, writeVars, protocolVars>>

\* stop_while_initialized, reader_stop; nothing in the other states
ReaderStop ==
    /\ Running("reader.stop")
    /\ ReaderActive => readWatch # "none"
    /\ reader' = IF ReaderActive \/ reader = "initialized" THEN "stopped" ELSE reader
    /\ IF ReaderActive THEN cleanup_reader ELSE UNCHANGED readWatch
    /\ Return(<<>>)
    /\ UNCHANGED <<pending, partial, connVars, socketVars, writeVars, protocolVars>>

\* reader_fail
ReaderFail ==
    /\ Running("reader.fail")
    /\ ReaderActive
    /\ readWatch # "none"
    /\ cleanup_reader
    /\ reader' = "failed"
    /\ failures' = failures \cup {"read_error"}
    /\ Return(<<Do("connection.fail")>>)
    /\ UNCHANGED <<pending, partial, conn, onShutdown, onTimeout, mode, timer, flags, halts,
                   destroyed, socketVars, writeVars, protocolVars>>

\* delayed_read has a handler only while reading
DelayedReadIgnored ==
    /\ Running("reader.delayed_read")
    /\ reader # "reading"
    /\ Return(<<>>)
    /\ UNCHANGED machines

\* the default handlers
ReaderIllegal ==
    \/ Running("reader.enable") /\ reader # "initialized"
    \/ Running("reader.commence_read") /\ reader \notin {"enabled", "reading", "eof"}
    \/ Running("reader.continue_read") /\ ~ReaderActive
    \/ Running("reader.fail") /\ ~ReaderActive

\* the asserts on the watcher and, in commence_read, on a read already queued
ReaderAssertFails ==
    \/ /\ Running("reader.enable") \/ Running("reader.reset")
       /\ reader = "initialized" /\ readWatch # "none"
    \/ Running("reader.commence_read") /\ reader = "reading" /\ pending # "none"
    \/ Running("read") /\ pending = "none"
    \/ /\ readWatch = "none"
       /\ \/ Running("read") /\ fd
          \/ Running("reader.reset") /\ reader = "reading"
          \/ ReaderActive /\ \/ Running("reader.stop") \/ Running("reader.fail")
                             \/ Running("reader.continue_read")

ReaderStep ==
    \/ ReaderEnable \/ CommenceRead \/ ReadAll \/ ReadWouldBlock \/ ReadEof \/ ReadError
    \/ DelayedRead \/ DelayedReadIgnored \/ ReaderContinue \/ ReaderReset \/ ReaderStop \/ ReaderFail
=============================================================================
