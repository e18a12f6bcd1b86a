----------------------------- MODULE ProfileStorage -----------------------------
(***************************************************************************)
(* The client's profile file: records appended by add_profile_data, read   *)
(* back by ProfileDataIterator.  A record is its two ciphertext sizes and  *)
(* the two parts; the file is a sequence of such cells, each of which      *)
(* knows what was written there, so that a misplaced read can be told.     *)
(*                                                                         *)
(* Each of the four is appended, and flushed, on its own.  Two threads add *)
(* records, the caller's (make_userset) and the queue's (an update), with  *)
(* no lock between them, and readers come in between; a crash leaves a     *)
(* prefix of what was being written.                                       *)
(***************************************************************************)
EXTENDS BinFile, FiniteSets

CONSTANTS
    MadeHere, FromUpdates, \* the records of usersets made here, and of those an update brings
    Sought,                \* the records that are searched for
    PartSizes              \* the sizes of a record's two ciphertext parts
Records == MadeHere \cup FromUpdates

\* The parts are an initialization vector and a text padded to whole blocks; what a read
\* that gives no record gives is none.
ASSUME RecordsAssumption ==
    /\ PartSizes \in [Records -> (Nat \ {0}) \X (Nat \ {0})]
    /\ Records \cap {"garbled", "none"} = {}
    /\ Sought \subseteq Records

Appenders == {"caller", "queue"}
RecordsOf(a) == IF a = "caller" THEN MadeHere ELSE FromUpdates

VARIABLES
    disk,        \* the file's cells
    adding,      \* each appender's record, and how many pieces of it it has appended
    whole,       \* the records appended while nothing was damaged (history)
    damaged,     \* an append was cut short, or two overlapped (history)
    reader       \* the loop that reads the profile
profileVars == <<disk, adding, whole, damaged, reader>>

NotAdding == [record |-> "none", done |-> 0]
NoReader == [mode |-> "none"]
ProfileInit ==
    /\ disk = <<>> /\ adding = [a \in Appenders |-> NotAdding]
    /\ whole = <<>> /\ damaged = FALSE /\ reader = NoReader

\* write_profile_record_with_enc_sizes: two sizes, then the parts.
SizesOf(r) == <<[of |-> r, size |-> PartSizes[r][1]], [of |-> r, size |-> PartSizes[r][2]]>>
PartCells(r) == [k \in 1..(PartSizes[r][1] + PartSizes[r][2]) |-> [of |-> r, byte |-> k]]
Encoded(r) == SizesOf(r) \o PartCells(r)
HeaderSize == 2

\* Where the pieces of a record end, and the one after the first n.
PieceEnds(r) == <<1, 2, 2 + PartSizes[r][1], 2 + PartSizes[r][1] + PartSizes[r][2]>>
EndOf(r, n) == IF n = 0 THEN 0 ELSE PieceEnds(r)[n]
Piece(r, n) == SubSeq(Encoded(r), EndOf(r, n) + 1, EndOf(r, n + 1))

Adding(a) == adding[a] # NotAdding
Idle == \A a \in Appenders : ~Adding(a)
NotStored(r) == \A k \in DOMAIN disk : disk[k].of # r

Appended(cells) == WrittenContent(AtEnd(Opened(disk), disk), disk, cells)

\* add_profile_data opens the file and appends the first size ...
AddProfileData(a, r) ==
    /\ ~Adding(a) /\ NotStored(r)
    /\ disk' = Appended(Piece(r, 0))
    /\ adding' = [adding EXCEPT ![a] = [record |-> r, done |-> 1]]
    /\ damaged' = (damaged \/ ~Idle)
    /\ UNCHANGED <<whole, reader>>

\* ... and then the other size and the parts.
AppendPiece(a) ==
    /\ Adding(a)
    /\ LET r == adding[a].record
           n == adding[a].done
       IN  /\ disk' = Appended(Piece(r, n))
           /\ adding' = [adding EXCEPT ![a] = IF n + 1 = 4 THEN NotAdding ELSE [@ EXCEPT !.done = n + 1]]
           /\ whole' = IF n + 1 = 4 /\ ~damaged THEN Append(whole, r) ELSE whole
    /\ UNCHANGED <<damaged, reader>>

\* The process ends in the middle of an append; a part of the next piece may be there.
CrashWhileAdding(a) ==
    /\ Adding(a)
    /\ LET piece == Piece(adding[a].record, adding[a].done)
       IN  \E k \in 0..(Len(piece) - 1) : disk' = disk \o SubSeq(piece, 1, k)
    /\ adding' = [b \in Appenders |-> NotAdding]
    /\ damaged' = TRUE
    /\ reader' = NoReader
    /\ UNCHANGED whole

-----------------------------------------------------------------------------
\* ProfileDataIterator.  "garbled" is what a misplaced read gives, and "none" is
\* std::nullopt; f is the ProfileInputFile that iterators share.
ZeroSizes == <<0, 0>>
ReadsSizes(cells) == Len(cells) = 2 /\ \A k \in 1..2 : "size" \in DOMAIN cells[k]

\* read_profile_record_enc_sizes
EncSizes(f) ==
    LET cells == Got(f, disk, 2)
    IN  IF f.pos >= f.size THEN ZeroSizes
        ELSE IF ReadsSizes(cells) THEN <<cells[1].size, cells[2].size>> ELSE <<"garbled">>
AfterSizes(f) == IF f.pos >= f.size THEN f ELSE AfterRead(f, disk, 2)

\* read_profile_record
RecordAt(f, sizes) ==
    LET r == disk[f.cursor].of
    IN  IF sizes = ZeroSizes THEN "none"
        ELSE IF sizes # <<"garbled">> /\ Got(f, disk, sizes[1] + sizes[2]) = PartCells(r)
             THEN r ELSE "garbled"
AfterRecord(f, sizes) ==
    IF sizes \in {ZeroSizes, <<"garbled">>} THEN f ELSE AfterRead(f, disk, sizes[1] + sizes[2])

\* The constructor reads wherever the file is, whatever pos it is given.
Iterator(f, pos) ==
    LET sizes == EncSizes(f)
        g == AfterSizes(f)
    IN  [pos |-> pos, sizes |-> sizes, record |-> RecordAt(g, sizes), file |-> AfterRecord(g, sizes)]

\* Fault: the sizes themselves are not counted.
NextPosOfParts(it) == it.pos + it.sizes[1] + it.sizes[2]

NextPos(it) == it.pos + HeaderSize + it.sizes[1] + it.sizes[2]

\* operator++ moves the file first.
Advanced(it) == Iterator(SetPos(it.file, NextPos(it)), NextPos(it))

\* ProfileDataRange: a loop needs begin() and end(), which are made of the one file: a
\* search takes them as arguments of find_if, in an order that is the compiler's choice.
Opening(mode, wanted, order) ==
    [mode |-> mode, wanted |-> wanted, toMake |-> order, file |-> Opened(disk), it |-> NoReader,
     met |-> <<>>, result |-> "reading", opened |-> Len(whole), clean |-> ~damaged /\ Idle]

\* iter_profile: a range-for loop makes begin() first.
OpenToIterate ==
    /\ reader = NoReader
    /\ reader' = Opening("iterate", "none", <<"begin", "end">>)
    /\ UNCHANGED <<disk, adding, whole, damaged>>

\* find_profile_record and participate.
OpenToFind(r) ==
    /\ reader = NoReader
    /\ \E order \in {<<"begin", "end">>, <<"end", "begin">>} : reader' = Opening("find", r, order)
    /\ UNCHANGED <<disk, adding, whole, damaged>>

Reads == reader.mode # "none" /\ reader.result = "reading"
Looping == Reads /\ reader.toMake = <<>>
AtTheEnd == reader.it.pos = reader.file.size
Found == reader.mode = "find" /\ reader.it.record = reader.wanted

\* Reading what is no record throws.  (A record is read in one step: what is appended
\* between the reads of its fields makes no other outcome possible.)
ResultOf(it, otherwise) == IF it.record = "garbled" THEN "threw" ELSE otherwise

MakeIterator ==
    /\ Reads /\ ~Looping
    /\ LET made == Head(reader.toMake)
           it == Iterator(reader.file, IF made = "begin" THEN 0 ELSE reader.file.size)
       IN  reader' = [reader EXCEPT !.toMake = Tail(@), !.file = it.file,
                          !.it = IF made = "begin" THEN it ELSE @, !.result = ResultOf(it, @)]
    /\ UNCHANGED <<disk, adding, whole, damaged>>

\* The loop looks at a record and goes on.
ReadOn ==
    /\ Looping /\ ~AtTheEnd /\ ~Found /\ reader.it.record # "none"
    /\ LET it == Advanced([reader.it EXCEPT !.file = reader.file])
       IN  reader' = [reader EXCEPT !.met = Append(@, reader.it.record), !.it = it,
                          !.file = it.file, !.result = ResultOf(it, @)]
    /\ UNCHANGED <<disk, adding, whole, damaged>>

\* Or it is over: at its end; at the record that is sought, when the iterator that it is
\* compared with is made, another end(); or with a look at a record that is not there.
LoopEnds ==
    /\ Looping
    /\ LET end == Iterator(reader.file, reader.file.size)
       IN  \/ /\ AtTheEnd
              /\ reader' = [reader EXCEPT !.result = IF reader.mode = "iterate" THEN "ended"
                                                     ELSE ResultOf(end, "not found")]
           \/ ~AtTheEnd /\ Found /\ reader' = [reader EXCEPT !.result = ResultOf(end, "found")]
           \/ ~AtTheEnd /\ reader.it.record = "none" /\ reader' = [reader EXCEPT !.result = "undefined"]
    /\ UNCHANGED <<disk, adding, whole, damaged>>

StopReading ==
    /\ reader.mode # "none" /\ ~Reads
    /\ reader' = NoReader
    /\ UNCHANGED <<disk, adding, whole, damaged>>

ProfileNext ==
    \/ \E a \in Appenders :
          \/ \E r \in RecordsOf(a) : AddProfileData(a, r)
          \/ AppendPiece(a) \/ CrashWhileAdding(a)
    \/ \E r \in Sought : OpenToFind(r)
    \/ OpenToIterate \/ MakeIterator \/ ReadOn \/ LoopEnds \/ StopReading

ProfileSpec == ProfileInit /\ [][ProfileNext]_profileVars

-----------------------------------------------------------------------------
\* A loop over the profile, however it ends, has met the records that were whole when it
\* opened the file, in order, and perhaps the one being added then, but never what was
\* not added: what is added meanwhile does not disturb it, nor does what a crash or two
\* threads adding at once have damaged behind them.  There is one exception, in which it
\* throws and meets none: if there was one whole record, and one unfinished or damaged
\* after it, which making end() reads.
AddedIsRead ==
    reader.mode = "iterate" /\ ~Reads =>
        LET n == Len(reader.met)
        IN  /\ n <= Len(whole) /\ reader.met = SubSeq(whole, 1, n)
            /\ \/ n >= reader.opened
               \/ n = 0 /\ reader.opened = 1 /\ ~reader.clean /\ reader.result = "threw"

\* find_profile_record_by_userset_id says that it throws if the record is not found: one
\* that was there when the search began is not reported missing.
AddedIsFound ==
    reader.mode = "find" /\ reader.result = "not found" =>
        reader.wanted \notin ToSet(SubSeq(whole, 1, reader.opened))
=============================================================================
