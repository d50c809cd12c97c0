---------------------------- MODULE MessageStream ---------------------------
(***************************************************************************)
(* What a message stream promises the application, without chunks, buffers *)
(* or wake-ups: the frames are consumed one at a time in the order they    *)
(* were sent, the messages among them are handed over, and the stream is   *)
(* reported as ended only when the server has closed it and nothing that   *)
(* could still be handed over is left.                                     *)
(***************************************************************************)
EXTENDS Naturals, Sequences

CONSTANT Kinds    \* "message", "undecodable" or "compressed"

VARIABLES
  sent,     \* kinds of the frames sent, in order
  closed,   \* the server has ended the stream
  cursor,   \* number of frames consumed
  handed,   \* frames handed to the application
  over      \* the application was told that the stream has ended

streamState == <<sent, closed, cursor, handed, over>>

\* The next frame is compressed: the stream cannot get past it.
Blocked == cursor < Len(sent) /\ sent[cursor + 1] = "compressed"

StreamInit ==
  /\ sent = <<>>
  /\ closed = FALSE
  /\ cursor = 0
  /\ handed = <<>>
  /\ over = FALSE

Send ==
  /\ ~closed
  /\ \E kind \in Kinds : sent' = Append(sent, kind)
  /\ UNCHANGED <<closed, cursor, handed, over>>

Close ==
  /\ ~closed
  /\ closed' = TRUE
  /\ UNCHANGED <<sent, cursor, handed, over>>

\* The next frame is consumed: handed over if it parses, reported if not.
Take ==
  /\ cursor < Len(sent)
  /\ ~Blocked
  /\ ~over
  /\ cursor' = cursor + 1
  /\ handed' = IF sent[cursor + 1] = "message"
               THEN Append(handed, cursor + 1) ELSE handed
  /\ UNCHANGED <<sent, closed, over>>

End ==
  /\ closed
  /\ cursor = Len(sent) \/ Blocked
  /\ over' = TRUE
  /\ UNCHANGED <<sent, closed, cursor, handed>>

StreamNext == Send \/ Close \/ Take \/ End

StreamSpec == StreamInit /\ [][StreamNext]_streamState
=============================================================================
