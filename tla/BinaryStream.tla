---------------------------- MODULE BinaryStream ----------------------------
(***************************************************************************)
(* ts::binary_stream (src/tinybinarystream.h) as calls use it: a program   *)
(* writes a message into a package_stream, its first stored_length() bytes *)
(* travel, and the program on the other side reads them through a stream   *)
(* of exactly that capacity, item by item, with the same calls.            *)
(*                                                                         *)
(* A byte in the buffer is a part of the object written there; bytes that  *)
(* are no whole object any more, or not of this message, are Junk, which   *)
(* stands for any value.  An object that does not fit throws and changes   *)
(* nothing when written: that is no step.                                  *)
(***************************************************************************)
EXTENDS Naturals, Sequences

CONSTANTS
  Capacity,      \* of the package_stream
  IndexLimit,    \* number of values of the uint16_t index, 65536 in the code
  Values,        \* values of objects
  MaxBlock,      \* bound on the length of vectors and strings
  Junk

ASSUME IndexAssumption ==
  /\ {Capacity, IndexLimit, MaxBlock} \subseteq Nat
  /\ Capacity < IndexLimit

ASSUME ValuesAssumption == Values \subseteq Nat /\ Junk \notin Nat

VARIABLES
  phase,       \* "write", or "read" on the other side
  capacity,    \* of the stream in use
  buf,         \* its bytes
  index,       \* its cursor
  ordered,     \* history: the cursor has been moved by reads and writes only
  items,       \* history: what has been written completely
  torn,        \* history: write_data has thrown half way
  got,         \* history: what has been read
  thrown,      \* why a read has thrown
  touched      \* history: the bytes the last step accessed

streamVars == <<capacity, buf, index, touched>>
historyVars == <<phase, ordered, items, torn, got, thrown>>
vars == <<streamVars, historyVars>>

Sizes == {1, 2, 4, 8}
Numbers == Values \cup 0 .. MaxBlock     \* what an object may hold
Blocks == UNION {[1 .. n -> Values] : n \in 0 .. MaxBlock}
Cells == [size : Sizes, part : 0 .. 7, value : Numbers] \cup {Junk}

\* A byte that is no part of an object does not look like one.
ASSUME JunkAssumption == Junk \notin [size : Sizes, part : 0 .. 7, value : Numbers]

Items == [size : Sizes, value : Numbers \cup {Junk}]
           \cup [data : Seq(Values \cup {Junk})]

Object(s, v) == [size |-> s, value |-> v]
Data(b) == [data |-> b]

\* Defect for mutation testing: the sum is computed in the type of index.
FitsWrapped(s) == (index + s) % IndexLimit <= capacity

\* The test of write_object and read_object, in the type of sizeof.
Fits(s) == index + s <= capacity

Min2(a, b) == IF a <= b THEN a ELSE b

\* Buffer b with the object v of s bytes stored at place i.
Stored(b, i, s, v) ==
  [k \in DOMAIN b |-> IF k \in i .. i + s - 1
                      THEN [size |-> s, part |-> k - i, value |-> v]
                      ELSE b[k]]

\* The object of s bytes at place i, also beyond the stream.
Peek(i, s) ==
  IF \E v \in Numbers : \A k \in 0 .. s - 1 :
       i + k < capacity /\ buf[i + k] = [size |-> s, part |-> k, value |-> v]
  THEN buf[i].value
  ELSE Junk

AllJunk == [k \in 0 .. Capacity - 1 |-> Junk]

Init == /\ phase = "write"
        /\ capacity = Capacity
        /\ buf = AllJunk
        /\ index = 0
        /\ ordered = TRUE
        /\ items = <<>>
        /\ torn = FALSE
        /\ got = <<>>
        /\ thrown = "no"
        /\ touched = {}

-----------------------------------------------------------------------------
(* Writing.  What a program writes after it has moved the cursor itself is *)
(* not followed: it is Junk.                                               *)

Writes(b, item) ==
  /\ buf' = IF ordered THEN b ELSE AllJunk
  /\ items' = IF ordered THEN items \o item ELSE items
  /\ UNCHANGED <<phase, capacity, ordered, got, thrown>>

WriteObject(s, v) ==
  /\ phase = "write" /\ ~torn
  /\ Fits(s)
  /\ Writes(Stored(buf, index, s, v), <<Object(s, v)>>)
  /\ index' = (index + s) % IndexLimit
  /\ touched' = index .. index + s - 1
  /\ UNCHANGED torn

\* Defect for mutation testing: the length that is stored is that of the bytes
\* there is room for.
StoredBlockCut(d, m) ==
  LET b == Stored(buf, index, 4, m)
  IN  [k \in DOMAIN b |->
         IF k \in index + 4 .. index + 3 + m
         THEN [size |-> 1, part |-> 0, value |-> d[k - index - 3]]
         ELSE b[k]]

\* The buffer after the length of block d and its first m bytes.
StoredBlock(d, m) ==
  LET b == Stored(buf, index, 4, Len(d))
  IN  [k \in DOMAIN b |->
         IF k \in index + 4 .. index + 3 + m
         THEN [size |-> 1, part |-> 0, value |-> d[k - index - 3]]
         ELSE b[k]]

\* How many bytes of block d there is room for, its length written.
Room(d) == Min2(Len(d), capacity - (index + 4))

\* write_data, write_vector, write_string: the length, then byte by byte until
\* the buffer is full; then it throws and leaves what it has written.
WriteBlock(d) ==
  LET m == Room(d)
  IN  /\ phase = "write" /\ ~torn
      /\ Fits(4)
      /\ Writes(StoredBlock(d, m), IF m = Len(d) THEN <<Data(d)>> ELSE <<>>)
      /\ torn' = (m < Len(d))
      /\ index' = (index + 4 + m) % IndexLimit
      /\ touched' = index .. index + 3 + m

\* Defect for mutation testing: length() in the place of stored_length().
SendWholeBuffer ==
  /\ phase = "write" /\ ordered
  /\ phase' = "read"
  /\ capacity' = capacity
  /\ index' = 0
  /\ touched' = {}
  /\ UNCHANGED <<buf, ordered, items, torn, got, thrown>>

\* call(): stored_length() bytes of data() travel, to become the stream of
\* process() on the other side.  A message with a moved cursor is not sent.
Send ==
  /\ phase = "write" /\ ordered
  /\ phase' = "read"
  /\ capacity' = index
  /\ buf' = [k \in DOMAIN buf |-> IF k < index THEN buf[k] ELSE Junk]
  /\ index' = 0
  /\ touched' = {}
  /\ UNCHANGED <<ordered, items, torn, got, thrown>>

-----------------------------------------------------------------------------
(* Reading.                                                                *)

\* The program reads what was written, a torn block included; past the end it
\* may try anything.
NextIs(isData, s) ==
  /\ phase = "read" /\ thrown = "no"
  /\ ordered =>
       LET n == Len(got) + 1
       IN  /\ n <= Len(items) =>
                IF isData THEN "data" \in DOMAIN items[n]
                ELSE "size" \in DOMAIN items[n] /\ items[n].size = s
           /\ n = Len(items) + 1 /\ torn => isData

Reads(item) ==
  /\ got' = IF ordered THEN got \o item ELSE got
  /\ UNCHANGED <<phase, capacity, buf, ordered, items, torn>>

ReadObject(s) ==
  /\ NextIs(FALSE, s)
  /\ Fits(s)
  /\ Reads(<<Object(s, Peek(index, s))>>)
  /\ index' = (index + s) % IndexLimit
  /\ touched' = index .. index + s - 1
  /\ UNCHANGED thrown

\* Also the length of a block, and then the whole call has thrown.
ReadObjectThrows(s) ==
  /\ NextIs(FALSE, s) \/ (s = 4 /\ NextIs(TRUE, s))
  /\ ~Fits(s)
  /\ thrown' = "range"
  /\ Reads(<<>>)
  /\ UNCHANGED <<index, touched>>

\* A block begins with its length n, which is any number if it is Junk.
LengthIs(n) ==
  /\ NextIs(TRUE, 4)
  /\ Fits(4)
  /\ n = Peek(index, 4) \/ Peek(index, 4) = Junk

\* The m bytes that follow the length.
BytesAhead(m) == [k \in 1 .. m |-> Peek(index + 3 + k, 1)]

\* read_data into room bytes; read_vector and read_string, which take any
\* length, are those with room enough.  Byte by byte until the end.
ReadBlock(n, room) ==
  LET m == Min2(n, capacity - (index + 4))
  IN  /\ LengthIs(n)
      /\ n <= room
      /\ Reads(IF m = n THEN <<Data(BytesAhead(n))>> ELSE <<>>)
      /\ thrown' = IF m = n THEN "no" ELSE "range"
      /\ index' = (index + 4 + m) % IndexLimit
      /\ touched' = index .. index + 3 + m

ReadBlockNoRoom(n, room) ==
  /\ LengthIs(n)
  /\ n > room
  /\ Reads(<<>>)
  /\ thrown' = "room"
  /\ index' = (index + 4) % IndexLimit
  /\ touched' = index .. index + 3

\* Defect for mutation testing: the cursor is left behind the length.
ReadDataPointerNoSeek(n) ==
  /\ LengthIs(n)
  /\ IF n <= capacity
     THEN Reads(<<Data(BytesAhead(n))>>) /\ UNCHANGED thrown
     ELSE Reads(<<>>) /\ thrown' = "range"
  /\ index' = (index + 4) % IndexLimit
  /\ touched' = index .. index + 3

\* read_data_pointer: the length is compared with the capacity; the program
\* gets a pointer to the bytes, which this call does not access.
ReadDataPointer(n) ==
  /\ LengthIs(n)
  /\ IF n <= capacity
     THEN /\ Reads(<<Data(BytesAhead(n))>>)
          /\ index' = (index + 4 + n) % IndexLimit
          /\ UNCHANGED thrown
     ELSE /\ Reads(<<>>)
          /\ index' = (index + 4) % IndexLimit
          /\ thrown' = "range"
  /\ touched' = index .. index + 3

-----------------------------------------------------------------------------
(* The cursor.                                                             *)

\* reset(): a message is begun anew, on either side.
Reset ==
  /\ index' = 0
  /\ ordered' = (ordered \/ phase = "write")
  /\ buf' = IF phase = "write" THEN AllJunk ELSE buf
  /\ items' = IF phase = "write" THEN <<>> ELSE items
  /\ torn' = (torn /\ phase = "read")
  /\ got' = <<>>
  /\ thrown' = "no"
  /\ touched' = {}
  /\ UNCHANGED <<phase, capacity>>

\* seek_beg(to), and seek_cur, whose sum wraps: the cursor is anywhere.
Seek(to) ==
  /\ index' = to
  /\ ordered' = FALSE
  /\ buf' = AllJunk
  /\ items' = <<>>
  /\ torn' = FALSE
  /\ got' = <<>>
  /\ thrown' = "no"
  /\ touched' = {}
  /\ UNCHANGED <<phase, capacity>>

SeekBeg(off) == Seek(off)

\* Defect for mutation testing: the sum does not wrap.
SeekCurUnwrapped(off) == Seek(index + off)

SeekCur(off) == Seek((index + off) % IndexLimit)

Indexes == 0 .. IndexLimit - 1

Next ==
  \/ \E s \in Sizes : \/ \E v \in Values : WriteObject(s, v)
                      \/ ReadObject(s) \/ ReadObjectThrows(s)
  \/ \E d \in Blocks : WriteBlock(d)
  \/ Send
  \/ \E n \in 0 .. IndexLimit :
       \/ \E room \in {MaxBlock - 1, IndexLimit} :
            ReadBlock(n, room) \/ ReadBlockNoRoom(n, room)
       \/ ReadDataPointer(n)
  \/ Reset
  \/ \E off \in Indexes : SeekBeg(off) \/ SeekCur(off)

Spec == Init /\ [][Next]_vars

-----------------------------------------------------------------------------
TypeOK ==
  /\ phase \in {"write", "read"}
  /\ capacity \in 0 .. Capacity
  /\ buf \in [0 .. Capacity - 1 -> Cells]
  /\ index \in Indexes
  /\ ordered \in BOOLEAN
  /\ items \in Seq(Items)
  /\ torn \in BOOLEAN
  /\ got \in Seq(Items)
  /\ thrown \in {"no", "range", "room"}
  /\ touched \subseteq Nat

\* Wherever seek_beg and seek_cur have put the cursor, and whatever length a
\* block begins with, no read and no write accesses a byte outside the stream
\* (the tests of write_object and read_object, whose sum does not wrap).
StaysInside == touched \subseteq 0 .. capacity - 1

\* What the other side has read is what was written, item by item, also when
\* the last block was torn by the end of the buffer and when reset() begins
\* again on either side.
ReadsBack ==
  \A n \in 1 .. Len(got) : n <= Len(items) => got[n] = items[n]

\* A message ends where its writer stopped, with stored_length(): no read throws
\* before its last complete item, and every read past it does.  The exception
\* is read_data_pointer of a torn block, which compares the length with
\* the capacity and not with what is left, and sends the cursor out of range.
EndsWhereWritten ==
  /\ thrown = "range" => Len(got) >= Len(items)
  /\ Len(got) > Len(items) => torn /\ index > capacity
=============================================================================
