--------------------------- MODULE MCStreamBuffer ---------------------------
(* Instances of StreamBuffer for TLC.                                      *)
EXTENDS StreamBuffer, TLC

CONSTANTS c1, t1, t2

\* t1 reads through a cursor of its own and 2 bytes at a time, as a WebSocket
\* client does; t2 through the implicit "_default" one, a chunk at a time.
MCCursorOf == (t1 :> c1) @@ (t2 :> Default)
MCReadBytes == (t1 :> 2) @@ (t2 :> 0)

LiveCursorOf == t2 :> Default
LiveReadBytes == t2 :> 0

=============================================================================
