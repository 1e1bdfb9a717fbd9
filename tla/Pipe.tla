-------------------------------- MODULE Pipe --------------------------------
(***************************************************************************)
(* The in-memory pipe returned by newPipe() that connects two stages of    *)
(* the upload pipeline (spec 4.1).  newPipe is not part of the sources,    *)
(* so this follows the spec: one writer, one reader, bytes kept in order,  *)
(* a write blocks while PipeCap units are buffered, and Close on the write *)
(* end makes the reader see end-of-stream once the buffer is drained.      *)
(* A unit of the stream is one chunk's worth of bytes (or one index key).  *)
(***************************************************************************)
EXTENDS Naturals, Sequences

CONSTANT PipeCap   \* units buffered before a write blocks

NewPipe == [buf |-> <<>>, closed |-> FALSE]

CanWrite(p) == Len(p.buf) < PipeCap

Write(p, x) == [p EXCEPT !.buf = Append(@, x)]

CanRead(p) == p.buf # <<>>

Read(p) == [p EXCEPT !.buf = Tail(@)]

\* the reader's Read returns io.EOF
AtEOF(p) == p.buf = <<>> /\ p.closed

Close(p) == [p EXCEPT !.closed = TRUE]

PipeType(Units) == [buf : Seq(Units), closed : BOOLEAN]

=============================================================================
