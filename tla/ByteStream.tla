----------------------------- MODULE ByteStream -----------------------------
(***************************************************************************)
(* What a pipe promises: a bounded stream of bytes.  Bytes leave it once,  *)
(* in the order they entered; a reader is told end of file only when every *)
(* byte has been read and no writer is left, and nothing enters once no    *)
(* reader is left.                                                         *)
(***************************************************************************)
EXTENDS Naturals, Sequences

CONSTANTS Reader, Writer, Message, Size

VARIABLES stream,       \* the bytes written and not yet read
          todo,         \* what each writer's call has still to write
          readers,      \* is the read end open?
          writers,      \* is the write end open?
          eof           \* the readers that were told end of file

Offer(t, s) ==
  /\ todo[t] = <<>>
  /\ todo' = [todo EXCEPT ![t] = s]
  /\ UNCHANGED <<stream, readers, writers, eof>>

(* The next n bytes of a message enter the stream; the bytes two writers   *)
(* put in may alternate.                                                   *)
Put(t, n) ==
  /\ readers = 1 /\ Len(stream) + n <= Size /\ n <= Len(todo[t])
  /\ stream' = stream \o SubSeq(todo[t], 1, n)
  /\ todo' = [todo EXCEPT ![t] = SubSeq(@, n + 1, Len(@))]
  /\ UNCHANGED <<readers, writers, eof>>

(* A short write: EPIPE, EAGAIN or EINTR. *)
GiveUp(t) ==
  /\ todo' = [todo EXCEPT ![t] = <<>>]
  /\ UNCHANGED <<stream, readers, writers, eof>>

Take(n) ==
  /\ n <= Len(stream)
  /\ stream' = SubSeq(stream, n + 1, Len(stream))
  /\ UNCHANGED <<todo, readers, writers, eof>>

Eof(t) ==
  /\ stream = <<>> /\ writers = 0
  /\ eof' = eof \cup {t}
  /\ UNCHANGED <<stream, todo, readers, writers>>

Close ==
  /\ readers' \in {0, readers} /\ writers' \in {0, writers}
  /\ UNCHANGED <<stream, todo, eof>>

Init ==
  /\ stream = <<>> /\ todo = [t \in Writer |-> <<>>]
  /\ readers = 1 /\ writers = 1 /\ eof = {}

Next ==
  \/ \E t \in Writer : GiveUp(t) \/ (\E s \in Message : Offer(t, s)) \/ (\E n \in 1..Size : Put(t, n))
  \/ \E n \in 1..Size : Take(n)
  \/ \E t \in Reader : Eof(t)
  \/ Close

Spec == Init /\ [][Next]_<<stream, todo, readers, writers, eof>>
=============================================================================
