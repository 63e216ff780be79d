-------------------------- MODULE ConnectionWrite ---------------------------
(***************************************************************************)
(* IO/ConnectionWrite.c: the writer.  A buffer is written to the end, or   *)
(* as far as the socket takes it; the rest waits for a write event.        *)
(***************************************************************************)
EXTENDS ConnectionBase

\* the states in which the writer owns a watcher and has default_write_abort
WriterActive == writer \in {"enabled", "writing", "stopping"}

\* Mutant of cleanup_write_resources: the queue is not dropped.
cleanup_keeps_queue ==
    /\ writeWatch' = "none"
    /\ UNCHANGED output

\* cleanup_resources: asserts that there is a watcher, then drops the queue
cleanup_write_resources ==
    /\ writeWatch' = "none"
    /\ output' = 0

\* writer_stop and, called by stop_while_initialized, its callback
call_done_callback ==
    /\ stopCallback' = FALSE
    /\ Return(<<Do("connection.done")>>)

WriterEnable ==
    /\ Running("writer.enable")
    /\ writer = "initialized"
    /\ writeWatch = "none"
    /\ writer' = "enabled"
    /\ writeWatch' = "idle"
    /\ Return(<<>>)
    /\ UNCHANGED <<output, stopCallback, connVars, socketVars, readVars, protocolVars>>

\* Mutant of WriterWrite: a buffer is queued behind one being written.
WriterWriteBusy ==
    /\ Running("writer.write")
    /\ writer \in {"enabled", "writing"}
    /\ writer' = "writing"
    /\ output' = output + 1
    /\ Return(<<Do("write")>>)
    /\ UNCHANGED <<writeWatch, stopCallback, connVars, socketVars, readVars, protocolVars>>

\* commence_write_while_enabled
WriterWrite ==
    /\ Running("writer.write")
    /\ writer = "enabled"
    /\ writer' = "writing"
    /\ output' = output + 1
    /\ Return(<<Do("write")>>)
    /\ UNCHANGED <<writeWatch, stopCallback, connVars, socketVars, readVars, protocolVars>>

\* continue_write_operation: the three ways writev() can end the loop
WriteAll ==
    /\ Running("write")
    /\ fd
    /\ output > 0
    /\ output' = output - 1
    /\ Return(<<Do("writer.write_complete")>>)
    /\ UNCHANGED <<writer, writeWatch, stopCallback, connVars, socketVars, readVars, protocolVars>>

WriteWouldBlock ==
    /\ Running("write")
    /\ "write_blocks" \in faults
    /\ fd
    /\ output > 0
    /\ writeWatch # "none"
    /\ writeWatch' = "active"
    /\ Return(<<>>)
    /\ UNCHANGED <<writer, output, stopCallback, connVars, socketVars, readVars, protocolVars>>

WriteError ==
    /\ Running("write")
    /\ output > 0
    /\ "write_error" \in faults \/ ~fd
    /\ Return(<<Do("writer.fail")>>)
    /\ UNCHANGED machines

\* write_complete_while_writing, write_complete_while_stopping
WriteComplete ==
    /\ Running("writer.write_complete")
    /\ \/ /\ writer = "writing"
          /\ writer' = IF output = 0 THEN "enabled" ELSE writer
          /\ Return(<<>>)
          /\ UNCHANGED <<writeWatch, output, stopCallback>>
       \/ /\ writer = "stopping"
          /\ output = 0
          /\ writeWatch # "none"
          /\ writer' = "stopped"
          /\ cleanup_write_resources
          /\ call_done_callback
    /\ UNCHANGED <<connVars, socketVars, readVars, protocolVars>>

\* write_event_handler
WriteEvent ==
    /\ Invoke(<<Do("writer.continue_write")>>)
    /\ writeWatch = "active" /\ fd
    /\ UNCHANGED machines

\* next_write_while_enabled, next_write_while_writing, next_write_while_stopping
WriterContinue ==
    /\ Running("writer.continue_write")
    /\ WriterActive
    /\ writeWatch # "none"
    /\ writeWatch' = "idle"
    /\ Return(IF writer = "enabled" THEN <<>> ELSE <<Do("write")>>)
    /\ UNCHANGED <<writer, output, stopCallback, connVars, socketVars, readVars, protocolVars>>

\* writer_fail
WriterFail ==
    /\ Running("writer.fail")
    /\ WriterActive
    /\ writeWatch # "none"
    /\ writer' = "failed"
    /\ cleanup_write_resources
    /\ failures' = failures \cup {"write_error"}
    /\ Return(<<Do("connection.fail")>>)
    /\ UNCHANGED <<stopCallback, conn, onShutdown, onTimeout, mode, timer, flags, halts,
                   destroyed, socketVars, readVars, protocolVars>>

\* stop_while_initialized, writer_stop, stop_while_writing, default_write_stop;
\* the callback is always writer_stop_complete_callback
WriterStop ==
    /\ Running("writer.stop")
    /\ \/ /\ writer = "initialized"
          /\ writer' = "stopped"
          /\ call_done_callback
          /\ UNCHANGED <<writeWatch, output>>
       \/ /\ writer = "enabled"
          /\ writeWatch # "none"
          /\ writer' = "stopped"
          /\ cleanup_write_resources
          /\ call_done_callback
       \/ /\ writer = "writing"
          /\ writer' = "stopping"
          /\ stopCallback' = TRUE
          /\ Return(<<>>)
          /\ UNCHANGED <<writeWatch, output>>
       \/ /\ writer \in {"stopping", "stopped", "failed"}
          /\ Return(<<Do("connection.done")>>)
          /\ UNCHANGED <<writer, writeWatch, output, stopCallback>>
    /\ UNCHANGED <<connVars, socketVars, readVars, protocolVars>>

\* abort_while_initialized, abort_while_stopped_or_failed, default_write_abort
WriterAbort ==
    /\ Running("writer.abort")
    /\ WriterActive => writeWatch # "none"
    /\ writer' = IF writer = "failed" THEN writer ELSE "stopped"
    /\ IF WriterActive
       THEN cleanup_write_resources
       ELSE UNCHANGED <<writeWatch, output>>
    /\ Return(<<>>)
    /\ UNCHANGED <<stopCallback, connVars, socketVars, readVars, protocolVars>>

\* the default handlers
WriterIllegal ==
    \/ Running("writer.enable") /\ writer # "initialized"
    \/ Running("writer.write") /\ writer \notin {"enabled", "writing"}
    \/ Running("writer.write_complete") /\ writer \notin {"writing", "stopping"}
    \/ Running("writer.continue_write") /\ ~WriterActive
    \/ Running("writer.fail") /\ ~WriterActive

\* enable asserts that there is no watcher, a write dereferences the buffer at
\* the start of the queue; starting, stopping and destroying the
\* watcher assert that there is one
WriterAssertFails ==
    \/ Running("writer.enable") /\ writer = "initialized" /\ writeWatch # "none"
    \/ Running("write") /\ output = 0
    \/ /\ writeWatch = "none"
       /\ \/ Running("write") /\ fd
          \/ Running("writer.fail") /\ WriterActive
          \/ Running("writer.abort") /\ WriterActive
          \/ Running("writer.continue_write") /\ WriterActive
          \/ Running("writer.stop") /\ writer = "enabled"
          \/ Running("writer.write_complete") /\ writer = "stopping"

\* commence_write_while_writing
WriterUnimplemented == Running("writer.write") /\ writer = "writing"

WriterStep ==
    \/ WriterEnable \/ WriterWrite \/ WriteAll \/ WriteWouldBlock \/ WriteError \/ WriteComplete
    \/ WriterContinue \/ WriterFail \/ WriterStop \/ WriterAbort
=============================================================================
