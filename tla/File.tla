--------------------------------- MODULE File ---------------------------------
(***************************************************************************)
(* fs::File: a C stream with the user-space buffer given to setvbuf, both  *)
(* owned by UniquePtrs, and the options the file was opened with.  Each    *)
(* path has at most one stream at a time, named like the path, and is      *)
(* opened and closed over and over; what is written are marks.  The C      *)
(* library's part (marked external in the map) is modelled as far as File  *)
(* relies on it: a call may fail, writes collect in the buffer until it is *)
(* full, a file opened for appending is written at its end, and reading    *)
(* directly after writing, or the reverse, is undefined.                   *)
(***************************************************************************)
EXTENDS Integers, Sequences

CONSTANTS
    FileHolders,  \* variables of type File
    Streams,      \* paths, and the streams that are open on them
    NoStream,     \* nullptr
    OpenedWith,   \* OpenedWith[x]: the options path x is opened with
    Marks,        \* what is written
    MaxMarks,     \* MaxMarks[x], bound: marks in the file at path x
    BufferMarks   \* marks that fit into the buffer

VARIABLES
    file,          \* file[h]: m_file and m_buffer, owned or null, m_options
    fileStream,    \* fileStream[x]: the file at path x, and its stream
    fileCall,      \* a call that has not returned
    fileFault      \* "none", or the undefined thing the program did

fileVars == <<file, fileStream, fileCall, fileFault>>

AccessTypes == {"Read", "Write", "ReadWrite"}
AccessModifiers == {"Append", "Truncate", "Binary", "FailIfExists"}
OpenOptions == [type : AccessTypes, modifier : SUBSET AccessModifiers]

Invalid == "EINVAL"

ASSUME FileAssumption ==
    /\ NoStream \notin Streams
    /\ OpenedWith \in [Streams -> SUBSET OpenOptions]
    /\ MaxMarks \in [Streams -> Nat]
    /\ BufferMarks \in Nat \ {0}

(* Mutant of ModeTests: append opens for updating. *)
ModeTests_AppendAsUpdate(type, m) ==
    << <<"Append" \in m, "r+b">>, <<"Truncate" \in m, "w+b">>, <<TRUE, Invalid>> >>

(* The tests of validate_open_options, in its order; a mask test is an     *)
(* inclusion.                                                              *)
ModeTests(type, m) ==
    CASE type = "ReadWrite" ->
            << <<m \subseteq {"Append", "Binary"}, "a+b">>,
               <<m = {"Append"}, "a+">>,
               <<m \subseteq {"Truncate", "Binary"}, "w+b">>,
               <<m \subseteq {"Truncate", "FailIfExists"}, "w+x">>,
               <<m \subseteq {"Truncate", "Binary", "FailIfExists"}, "w+xb">>,
               <<m = {"Truncate"}, "w+">>,
               <<m = {"Binary"}, "r+b">>,
               <<m = {}, "r+">>,
               <<TRUE, Invalid>> >>
      [] type = "Read" ->
            << <<m = {"Binary"}, "rb">>, <<m = {}, "r">>, <<TRUE, Invalid>> >>
      [] OTHER ->
            << <<m \subseteq {"Append", "Binary"}, "ab">>,
               <<m = {"Append"}, "a">>,
               <<m \subseteq {"Truncate", "Binary"}, "wb">>,
               <<m \subseteq {"Truncate", "FailIfExists"}, "wx">>,
               <<m \subseteq {"Truncate", "Binary", "FailIfExists"}, "wbx">>,
               <<m = {"Truncate"}, "w">>,
               <<TRUE, Invalid>> >>

(* validate_open_options: the first test that succeeds decides. *)
ValidateOpenOptions(options) ==
    LET tests == ModeTests(options.type, options.modifier)
        first == CHOOSE i \in 1 .. Len(tests) :
                    tests[i][1] /\ \A j \in 1 .. i - 1 : ~tests[j][1]
    IN  tests[first][2]

(* What the mode strings mean to fopen. *)
Appends(mode) == mode \in {"a+b", "a+", "ab", "a"}
Truncates(mode) == mode \in {"w+b", "w+x", "w+xb", "w+", "wb", "wx", "wbx", "w"}
Exclusive(mode) == mode \in {"w+x", "w+xb", "wx", "wbx"}

(* A path: whether there is a file and what it contains; then its stream:  *)
(* mode, position, marks in the buffer, the last call, whether setvbuf gave *)
(* it a buffer; and, as history, what a file that was opened with Append   *)
(* had and was given since.                                                *)
NoFile ==
    [exists |-> FALSE, marks |-> <<>>, mode |-> "closed", pos |-> 0, pending |-> <<>>,
     last |-> "none", buffered |-> FALSE, accepted |-> <<>>]

IsOpen(x) == fileStream[x].mode # "closed"

(* A File with a stream and perhaps a buffer, one that was moved from and  *)
(* keeps its options, and none at all.                                     *)
OpenedFile(stream, buffer, options) ==
    [alive |-> TRUE, m_file |-> stream, m_buffer |-> buffer, m_options |-> options]
NullFile(f) == [f EXCEPT !.m_file = NoStream, !.m_buffer = NoStream]
DefaultOptions == [type |-> "ReadWrite", modifier |-> {"Truncate"}]
DeadFile == [OpenedFile(NoStream, NoStream, DefaultOptions) EXCEPT !.alive = FALSE]

(* Buffered marks on the disk: at the end, or over what is at the position. *)
WrittenOut(s) ==
    IF Appends(s.mode)
    THEN s.marks \o s.pending
    ELSE SubSeq(s.marks, 1, s.pos) \o s.pending
            \o SubSeq(s.marks, s.pos + Len(s.pending) + 1, Len(s.marks))

PosAfter(s) ==
    CASE s.pending = <<>> -> s.pos
      [] s.pending # <<>> /\ Appends(s.mode) -> Len(s.marks) + Len(s.pending)
      [] OTHER -> s.pos + Len(s.pending)

Flushed(s) ==
    [s EXCEPT !.marks = WrittenOut(s), !.pending = <<>>, !.pos = PosAfter(s)]
FlushedAt(s, pos) == [Flushed(s) EXCEPT !.pos = pos, !.last = "none"]

Appending(options) == "Append" \in options.modifier

(* fopen, and fopen that succeeds. *)
CanOpen(x, options) ==
    LET mode == ValidateOpenOptions(options)
    IN  /\ ~IsOpen(x)
        /\ mode # Invalid
        /\ Exclusive(mode) => ~fileStream[x].exists
        /\ options.type = "Read" => fileStream[x].exists

OpenedStream(s, options, buffered) ==
    LET mode == ValidateOpenOptions(options)
        marks == IF Truncates(mode) THEN <<>> ELSE s.marks
    IN  [exists |-> TRUE, marks |-> marks, mode |-> mode, pos |-> 0, pending |-> <<>>,
         last |-> "none", buffered |-> buffered,
         accepted |-> IF Appending(options) THEN marks ELSE <<>>]

(* fclose writes the buffer out, or fails to, and says so to nobody. *)
ClosedStream(s, fails) ==
    [NoFile EXCEPT !.exists = s.exists, !.marks = IF fails THEN s.marks ELSE WrittenOut(s)]

(* File::open, when validation or fopen fails: the caller is told. *)
FileOpenFails(x, options) ==
    /\ ~IsOpen(x)
    /\ ~CanOpen(x, options)
    /\ UNCHANGED fileVars

(* File::open: fopen, then setvbuf with a new buffer. *)
FileOpen(h, x, options) ==
    /\ ~file[h].alive
    /\ CanOpen(x, options)
    /\ fileStream' = [fileStream EXCEPT ![x] = OpenedStream(@, options, TRUE)]
    /\ file' = [file EXCEPT ![h] = OpenedFile(x, x, options)]
    /\ UNCHANGED <<fileCall, fileFault>>

(* File::open, when setvbuf fails: the stream is closed again. *)
FileOpenUnbuffered(x, options) ==
    /\ CanOpen(x, options)
    /\ fileStream' = [fileStream EXCEPT ![x] =
                        ClosedStream(OpenedStream(@, options, FALSE), FALSE)]
    /\ UNCHANGED <<file, fileCall, fileFault>>

(* The constructor from a stream that the caller opened with these options: *)
(* the File owns no buffer, the stream has the C library's own.            *)
FileFromStream(h, x, options) ==
    /\ ~file[h].alive
    /\ CanOpen(x, options)
    /\ fileStream' = [fileStream EXCEPT ![x] = OpenedStream(@, options, FALSE)]
    /\ file' = [file EXCEPT ![h] = OpenedFile(x, NoStream, options)]
    /\ UNCHANGED <<fileCall, fileFault>>

(* Mutant of FileMoveConstruct: the buffer stays behind. *)
FileMoveConstruct_BufferKept(h, g) ==
    /\ ~file[h].alive
    /\ file[g].alive
    /\ file' = [file EXCEPT ![h] = [file[g] EXCEPT !.m_buffer = NoStream],
                            ![g].m_file = NoStream]
    /\ UNCHANGED <<fileStream, fileCall, fileFault>>

(* The move constructor: both UniquePtrs are moved, the options copied. *)
FileMoveConstruct(h, g) ==
    /\ ~file[h].alive
    /\ file[g].alive
    /\ file' = [file EXCEPT ![h] = file[g], ![g] = NullFile(file[g])]
    /\ UNCHANGED <<fileStream, fileCall, fileFault>>

(* What becomes of the stream that a File lets go of. *)
LetGo(x, fails) ==
    fileStream' = IF x = NoStream
                  THEN fileStream
                  ELSE [fileStream EXCEPT ![x] = ClosedStream(@, fails)]

(* The move assignment: the old stream is closed, then its buffer freed. *)
FileMoveAssign(h, g, fails) ==
    /\ file[h].alive
    /\ file[g].alive
    /\ h # g
    /\ file' = [file EXCEPT ![h] = file[g], ![g] = NullFile(file[g])]
    /\ LetGo(file[h].m_file, fails)
    /\ UNCHANGED <<fileCall, fileFault>>

(* The destructor destroys the members in reverse order: the buffer is     *)
(* freed first, and what it still holds is gone when fclose wants it.      *)
FileDestroy(h, fails) ==
    /\ file[h].alive
    /\ file' = [file EXCEPT ![h] = DeadFile]
    /\ fileFault' = IF file[h].m_buffer # NoStream /\ fileStream[file[h].m_buffer].pending # <<>>
                    THEN "freed buffer"
                    ELSE "none"
    /\ LetGo(file[h].m_file, fails)
    /\ UNCHANGED fileCall

(* A call of the C library on the nullptr of a File that was moved from. *)
OnNull(h) ==
    /\ file[h].alive
    /\ file[h].m_file = NoStream
    /\ fileFault' = "null stream"
    /\ UNCHANGED <<file, fileStream, fileCall>>

(* The answer EPERM: the options do not allow the call. *)
Refused(h) == file[h].alive /\ UNCHANGED fileVars

(* The stream after a call. *)
Becomes(x, s) == fileStream' = [fileStream EXCEPT ![x] = s]

(* fwrite: into the buffer; a full one is written out first. *)
Written(s, options, mark) ==
    [(IF Len(s.pending) = BufferMarks THEN Flushed(s) ELSE s) EXCEPT
        !.pending = Append(@, mark), !.last = "write",
        !.accepted = IF Appending(options) THEN Append(@, mark) ELSE @]

(* A write directly after a read is undefined; nothing is accepted if the  *)
(* full buffer cannot be written out.                                      *)
StreamWrite(x, options, mark, fails) ==
    LET s == fileStream[x]
    IN  \/ /\ s.last = "read"
           /\ fileFault' = "write after read"
           /\ UNCHANGED fileStream
        \/ /\ s.last # "read"
           /\ fails
           /\ Len(s.pending) = BufferMarks
           /\ UNCHANGED <<fileStream, fileFault>>
        \/ /\ s.last # "read"
           /\ fails => Len(s.pending) # BufferMarks
           /\ Len(s.marks) + Len(s.pending) < MaxMarks[x]
           /\ Becomes(x, Written(s, options, mark))
           /\ UNCHANGED fileFault

(* write_bytes *)
FileWriteBytes(h, mark, fails) ==
    IF file[h].m_options.type = "Read"
    THEN Refused(h)
    ELSE \/ OnNull(h)
         \/ /\ file[h].m_file # NoStream
            /\ StreamWrite(file[h].m_file, file[h].m_options, mark, fails)
            /\ UNCHANGED <<file, fileCall>>

(* print and println format a string and write its bytes. *)
FilePrint(h, mark, fails) == FileWriteBytes(h, mark, fails)

(* fread and fgetc: forward over what is on the disk. *)
StreamRead(x) ==
    LET s == fileStream[x]
    IN  \/ /\ s.last = "write"
           /\ fileFault' = "read after write"
           /\ UNCHANGED fileStream
        \/ /\ s.last # "write"
           /\ Becomes(x, [s EXCEPT !.pos = IF @ < Len(s.marks) THEN @ + 1 ELSE @,
                                   !.last = "read"])
           /\ UNCHANGED fileFault

(* read *)
FileRead(h) ==
    IF file[h].m_options.type = "Write"
    THEN Refused(h)
    ELSE \/ OnNull(h)
         \/ /\ file[h].m_file # NoStream
            /\ StreamRead(file[h].m_file)
            /\ UNCHANGED <<file, fileCall>>

(* read_bytes: the same into an array. *)
FileReadBytes(h) == FileRead(h)

(* read_line reads one character: it returns on the end of the file and on *)
(* an empty line, and otherwise compares that character for ever.          *)
FileReadLine(h, newline) ==
    IF file[h].m_options.type = "Write" \/ file[h].m_options.modifier = {"Binary"}
    THEN Refused(h)
    ELSE \/ OnNull(h)
         \/ /\ file[h].m_file # NoStream
            /\ StreamRead(file[h].m_file)
            /\ LET s == fileStream[file[h].m_file]
               IN  fileCall' = IF s.last = "write" \/ s.pos >= Len(s.marks) \/ newline
                               THEN "none"
                               ELSE "read_line"
            /\ UNCHANGED file

(* flush *)
FileFlush(h, fails) ==
    \/ OnNull(h)
    \/ /\ file[h].m_file # NoStream
       /\ LET s == fileStream[file[h].m_file]
          IN  IF fails
              THEN UNCHANGED fileStream
              ELSE Becomes(file[h].m_file,
                           [Flushed(s) EXCEPT !.last = IF @ = "write" THEN "none" ELSE @])
       /\ UNCHANGED <<file, fileCall, fileFault>>

(* Where fseek goes, from the beginning, the position or the end. *)
SeekTarget(s, offset, origin) ==
    CASE origin = "Begin" -> offset
      [] origin = "Current" -> PosAfter(s) + offset
      [] origin = "End" -> Len(WrittenOut(s)) + offset

(* seek: fseek writes the buffer out first. *)
FileSeek(h, offset, origin, fails) ==
    \/ OnNull(h)
    \/ /\ file[h].m_file # NoStream
       /\ LET s == fileStream[file[h].m_file]
              pos == SeekTarget(s, offset, origin)
          IN  /\ pos <= Len(WrittenOut(s))
              /\ IF fails \/ pos < 0
                 THEN UNCHANGED fileStream
                 ELSE Becomes(file[h].m_file, FlushedAt(s, pos))
       /\ UNCHANGED <<file, fileCall, fileFault>>

(* position: ftell. *)
FilePosition(h) == OnNull(h) \/ (file[h].m_file # NoStream /\ UNCHANGED fileVars)

(* size: position, seek to the end, ftell, and back to where it was; the   *)
(* last seek may fail unnoticed.                                           *)
FileSize(h, endFails, backFails) ==
    \/ OnNull(h)
    \/ /\ file[h].m_file # NoStream
       /\ LET s == fileStream[file[h].m_file]
          IN  IF endFails
              THEN UNCHANGED fileStream
              ELSE Becomes(file[h].m_file,
                           FlushedAt(s, IF backFails THEN Len(WrittenOut(s)) ELSE PosAfter(s)))
       /\ UNCHANGED <<file, fileCall, fileFault>>

FileInit ==
    /\ file = [h \in FileHolders |-> DeadFile]
    /\ fileStream = [x \in Streams |-> NoFile]
    /\ fileCall = "none"
    /\ fileFault = "none"

FileNext ==
    /\ fileFault = "none"
    /\ fileCall = "none"
    /\ \/ \E x \in Streams : \E options \in OpenedWith[x] :
            \/ FileOpenFails(x, options)
            \/ FileOpenUnbuffered(x, options)
            \/ \E h \in FileHolders : FileOpen(h, x, options) \/ FileFromStream(h, x, options)
       \/ \E h, g \in FileHolders :
            \/ FileMoveConstruct(h, g)
            \/ \E fails \in BOOLEAN : FileMoveAssign(h, g, fails)
       \/ \E h \in FileHolders :
            \/ FileRead(h)
            \/ FileReadBytes(h)
            \/ FilePosition(h)
            \/ \E newline \in BOOLEAN : FileReadLine(h, newline)
       \/ \E h \in FileHolders, fails \in BOOLEAN :
            \/ FileDestroy(h, fails)
            \/ FileFlush(h, fails)
            \/ \E mark \in Marks : FileWriteBytes(h, mark, fails) \/ FilePrint(h, mark, fails)
            \/ \E backFails \in BOOLEAN : FileSize(h, fails, backFails)
            \/ \E offset \in {-1, 0}, origin \in {"Begin", "Current", "End"} :
                    FileSeek(h, offset, origin, fails)

FileSpec == FileInit /\ [][FileNext]_fileVars

-----------------------------------------------------------------------------
(* The buffer that setvbuf gave a stream, which fclose still needs. *)
BufferOf(x) == IF x # NoStream /\ fileStream[x].buffered THEN x ELSE NoStream

(* Streams and the buffers they write through stay together: an open       *)
(* stream has exactly one File, and that File owns the buffer the stream   *)
(* was given, if it was given one, and no other - through every move, onto *)
(* a new File, an empty one or one that has another stream, and whether    *)
(* the Files were opened or made of the caller's stream (File.h:162, :191, *)
(* :406).  No stream is left open without a File to close it.              *)
FilePairIntact ==
    fileFault = "none" =>
        /\ \A x \in Streams : IsOpen(x) <=> \E h \in FileHolders : file[h].m_file = x
        /\ \A h, g \in FileHolders :
                file[h].m_file = file[g].m_file /\ file[h].m_file # NoStream => h = g
        /\ \A h \in FileHolders : file[h].m_buffer = BufferOf(file[h].m_file)

(* A file that is opened with Append keeps what it had, and then holds, in *)
(* order and once, every mark a write accepted: on the disk, or still in   *)
(* the buffer - whatever was sought, read, sized or flushed in between,    *)
(* whatever failed, and whichever File it was moved to (File.cpp:45, :187, *)
(* :244, :280).                                                            *)
FileKeepsAndAppends ==
    \A h \in FileHolders :
        LET x == file[h].m_file
        IN  (fileFault = "none" /\ x # NoStream /\ Appending(file[h].m_options))
            => fileStream[x].marks \o fileStream[x].pending = fileStream[x].accepted

=============================================================================
