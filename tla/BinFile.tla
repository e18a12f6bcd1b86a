-------------------------------- MODULE BinFile --------------------------------
(***************************************************************************)
(* BinFile over a C stream.  A file f keeps its own position and size next *)
(* to the stream's cursor, and the kind of its previous operation: C wants *)
(* a seek between reading and writing, and leaves the rest undefined.      *)
(* Content is a sequence of values; positions count them.                  *)
(***************************************************************************)
EXTENDS Naturals, Sequences, SequencesExt

Smaller(a, b) == IF a < b THEN a ELSE b

\* fopen, then update_internal_pos_and_size.  stdio is what the stream was last
\* used for since it was positioned.
Opened(content) ==
    [pos |-> 0, size |-> Len(content), cursor |-> 0,
     prev |-> "none", stdio |-> "none", undefined |-> FALSE]

Seek(f, p) == [f EXCEPT !.cursor = p, !.prev = "none", !.stdio = "none"]

SetPos(f, p) == IF p = f.pos THEN f ELSE [Seek(f, p) EXCEPT !.pos = p]

\* refresh_cursor after an operation of the other kind.
Refreshed(f, other) == IF f.prev = other THEN Seek(f, f.pos) ELSE f

\* Fault: the kind of the operation is not remembered.
UsedNever(f, kind, other) == [f EXCEPT !.stdio = kind, !.undefined = @ \/ f.stdio = other]

\* fread and fwrite: undefined right after the other one.
Used(f, kind, other) ==
    [f EXCEPT !.prev = kind, !.stdio = kind, !.undefined = @ \/ f.stdio = other]

\* What underlying_read gives for up to n values: nothing is an exception, and 0 values
\* are nothing to do, to underlying_write as well.
Got(f, content, n) ==
    LET at == Refreshed(f, "write").cursor
    IN  SubSeq(content, at + 1, Smaller(at + n, Len(content)))

AfterRead(f, content, n) ==
    LET g == Used(Refreshed(f, "write"), "read", "write")
        at == g.cursor + Len(Got(f, content, n))
    IN  IF n = 0 THEN f
        ELSE IF Got(f, content, n) = <<>> THEN Refreshed(f, "write")
        ELSE [g EXCEPT !.cursor = at, !.pos = at]

\* Content after writing values at the cursor.
Overwritten(content, at, values) ==
    SubSeq(content, 1, at) \o values \o SubSeq(content, at + Len(values) + 1, Len(content))

WrittenContent(f, content, values) ==
    Overwritten(content, Refreshed(f, "read").cursor, values)

AfterWrite(f, content, values) ==
    LET g == Used(Refreshed(f, "read"), "write", "read")
        at == g.cursor + Len(values)
    IN  IF values = <<>> THEN f
        ELSE [g EXCEPT !.cursor = at, !.pos = at, !.stdio = "none",
                       !.size = Len(WrittenContent(f, content, values))]

\* append seeks the end first, and leaves it to the write to note the position.
AtEnd(f, content) == Seek(f, Len(content))
=============================================================================
