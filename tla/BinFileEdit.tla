------------------------------- MODULE BinFileEdit -------------------------------
(* A BinFile opened for editing, used in any order of operations. *)
EXTENDS BinFile

CONSTANTS Values, MaxSize

VARIABLES file, content
fileVars == <<file, content>>

FileInit == content = <<>> /\ file = Opened(content)

Write(values) ==
    /\ Len(WrittenContent(file, content, values)) <= MaxSize
    /\ content' = WrittenContent(file, content, values)
    /\ file' = AfterWrite(file, content, values)

Append_(values) ==
    /\ Len(content) + Len(values) <= MaxSize
    /\ content' = content \o values
    /\ file' = AfterWrite(AtEnd(file, content), content, values)

ReadUpTo(n) ==
    /\ file' = AfterRead(file, content, n)
    /\ UNCHANGED content

MoveTo(p) ==
    /\ file' = SetPos(file, p)
    /\ UNCHANGED content

FileNext ==
    \/ \E values \in {<<>>} \cup {<<a>> : a \in Values} \cup {<<a, b>> : a, b \in Values} :
            Write(values) \/ Append_(values)
    \/ \E n \in 0..2 : ReadUpTo(n)
    \/ \E p \in 0..Len(content) : MoveTo(p)

FileSpec == FileInit /\ [][FileNext]_fileVars

-----------------------------------------------------------------------------
\* An append of no values has moved the stream to the end and noted nothing.
AppendedNothing == file.prev = "none" /\ file.cursor = file.size

\* The position and size that BinFile keeps are the stream's, in whatever order it is
\* used: an append or a refresh moves the stream without them.  No read follows a write,
\* or a write a read, without a seek in between.  There is one exception: after an append
\* of no values the position kept is the old one, and the stream is at the end, until a
\* write or another position; going back to the old position then does nothing.
FileAgrees ==
    /\ file.size = Len(content) /\ ~file.undefined
    /\ file.pos = file.cursor \/ AppendedNothing
=============================================================================
