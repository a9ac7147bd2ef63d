------------------------- MODULE BinaryStreamProofs -------------------------
(***************************************************************************)
(* Theorems about BinaryStream for every capacity, every width of the      *)
(* cursor and all values, checked by TLAPS.                                *)
(***************************************************************************)
EXTENDS BinaryStream, TLAPS

\* What the tests of the stream maintain: the bytes just accessed lie before the
\* end, and the cursor of a message that may still be sent is not beyond it.
Inside ==
  /\ phase \in {"write", "read"}
  /\ capacity \in 0 .. Capacity
  /\ index \in Indexes
  /\ phase = "write" => capacity = Capacity
  /\ phase = "write" /\ ordered => index <= capacity
  /\ StaysInside

\* Every sum that has passed the test is below the end of the stream, so the
\* cursor does not wrap there.
LEMMA FitsIsInside ==
  ASSUME Inside, NEW s \in Nat, Fits(s)
  PROVE  /\ (index + s) % IndexLimit \in 0 .. capacity
         /\ (index + s) % IndexLimit \in Indexes
         /\ index .. index + s - 1 \subseteq 0 .. capacity - 1
<1>1. /\ index \in Nat /\ capacity \in Nat
      /\ IndexLimit \in Nat /\ capacity < IndexLimit
  BY IndexAssumption DEF Inside, Indexes
<1>2. index + s \in 0 .. capacity
  BY <1>1 DEF Fits
<1>3. (index + s) % IndexLimit = index + s
  BY <1>1, <1>2
<1>4. index .. index + s - 1 \subseteq 0 .. capacity - 1
  BY <1>1 DEF Fits
<1>. QED BY <1>1, <1>2, <1>3, <1>4 DEF Indexes

\* The same of a length and the m bytes after it.
LEMMA BlockIsInside ==
  ASSUME Inside, Fits(4), NEW n \in Nat, NEW m,
         m = Min2(n, capacity - (index + 4))
  PROVE  /\ (index + 4 + m) % IndexLimit \in 0 .. capacity
         /\ (index + 4 + m) % IndexLimit \in Indexes
         /\ index .. index + 3 + m \subseteq 0 .. capacity - 1
<1>1. /\ index \in Nat /\ capacity \in Nat
      /\ IndexLimit \in Nat /\ capacity < IndexLimit
  BY IndexAssumption DEF Inside, Indexes
<1>2. m \in Nat /\ index + 4 + m \in 0 .. capacity
  BY <1>1 DEF Fits, Min2
<1>3. (index + 4 + m) % IndexLimit = index + 4 + m
  BY <1>1, <1>2
<1>4. index .. index + 3 + m \subseteq 0 .. capacity - 1
  BY <1>1, <1>2
<1>. QED BY <1>1, <1>2, <1>3, <1>4 DEF Indexes

LEMMA InitInside == Init => Inside
  BY IndexAssumption DEF Init, Inside, StaysInside, Indexes

LEMMA WriteKeepsInside ==
  ASSUME Inside, NEW s \in Sizes, NEW v \in Values, WriteObject(s, v)
  PROVE  Inside'
<1>1. s \in Nat
  BY DEF Sizes
<1>2. Fits(s) /\ index' = (index + s) % IndexLimit
      /\ touched' = index .. index + s - 1
      /\ UNCHANGED <<phase, capacity, ordered>>
  BY DEF WriteObject, Writes
<1>. QED BY <1>1, <1>2, FitsIsInside DEF Inside, StaysInside

LEMMA WriteBlockKeepsInside ==
  ASSUME Inside, NEW d \in Blocks, WriteBlock(d)
  PROVE  Inside'
<1>1. Len(d) \in Nat
  <2>1. PICK n \in 0 .. MaxBlock : d \in [1 .. n -> Values]
    BY DEF Blocks
  <2>2. d \in Seq(Values)
    BY <2>1, IndexAssumption
  <2>. QED BY <2>2
<1>2. /\ Fits(4)
      /\ index' = (index + 4 + Room(d)) % IndexLimit
      /\ touched' = index .. index + 3 + Room(d)
      /\ UNCHANGED <<phase, capacity, ordered>>
  BY DEF WriteBlock, Writes
<1>3. Room(d) = Min2(Len(d), capacity - (index + 4))
  BY DEF Room
<1>. QED BY <1>1, <1>2, <1>3, BlockIsInside DEF Inside, StaysInside

\* The stream on the other side ends where the cursor of this one stood.
LEMMA SendKeepsInside ==
  ASSUME Inside, Send
  PROVE  Inside'
<1>1. /\ phase' = "read" /\ capacity' = index /\ index' = 0 /\ touched' = {}
  BY DEF Send
<1>2. index \in 0 .. Capacity
  BY IndexAssumption DEF Inside, Indexes, Send
<1>3. 0 \in Indexes
  BY IndexAssumption DEF Indexes
<1>. QED BY <1>1, <1>2, <1>3 DEF Inside, StaysInside

LEMMA ReadKeepsInside ==
  ASSUME Inside, NEW s \in Sizes, ReadObject(s) \/ ReadObjectThrows(s)
  PROVE  Inside'
<1>0. s \in Nat
  BY DEF Sizes
<1>1. CASE ReadObject(s)
  <2>1. Fits(s) /\ index' = (index + s) % IndexLimit
        /\ touched' = index .. index + s - 1
        /\ phase = "read"
        /\ UNCHANGED <<phase, capacity, ordered>>
    BY <1>1 DEF ReadObject, Reads, NextIs
  <2>. QED BY <1>0, <2>1, FitsIsInside DEF Inside, StaysInside
<1>2. CASE ReadObjectThrows(s)
  BY <1>2 DEF ReadObjectThrows, Reads, Inside, StaysInside
<1>. QED BY <1>1, <1>2

LEMMA ReadBlockKeepsInside ==
  ASSUME Inside, NEW n \in 0 .. IndexLimit, NEW room,
         ReadBlock(n, room) \/ ReadBlockNoRoom(n, room)
  PROVE  Inside'
<1>1. CASE ReadBlock(n, room)
  <2>. DEFINE m == Min2(n, capacity - (index + 4))
  <2>1. /\ Fits(4)
        /\ index' = (index + 4 + m) % IndexLimit
        /\ touched' = index .. index + 3 + m
        /\ phase = "read"
        /\ UNCHANGED <<phase, capacity, ordered>>
    BY <1>1 DEF ReadBlock, LengthIs, Reads, NextIs
  <2>2. n \in Nat
    BY IndexAssumption
  <2>. HIDE DEF m
  <2>3. /\ (index + 4 + m) % IndexLimit \in Indexes
        /\ index .. index + 3 + m \subseteq 0 .. capacity - 1
    BY <2>1, <2>2, BlockIsInside DEF m
  <2>. QED BY <2>1, <2>3 DEF Inside, StaysInside
<1>2. CASE ReadBlockNoRoom(n, room)
  <2>1. /\ Fits(4)
        /\ index' = (index + 4) % IndexLimit
        /\ touched' = index .. index + 3
        /\ phase = "read"
        /\ UNCHANGED <<phase, capacity, ordered>>
    BY <1>2 DEF ReadBlockNoRoom, LengthIs, Reads, NextIs
  <2>2. /\ (index + 4) % IndexLimit \in Indexes
        /\ index .. index + 4 - 1 \subseteq 0 .. capacity - 1
    BY <2>1, FitsIsInside
  <2>3. index \in Nat
    BY IndexAssumption DEF Inside, Indexes
  <2>4. index .. index + 3 = index .. index + 4 - 1
    BY <2>3
  <2>. QED BY <2>1, <2>2, <2>4 DEF Inside, StaysInside
<1>. QED BY <1>1, <1>2

\* read_data_pointer may send the cursor anywhere, and accesses the length only.
LEMMA ReadPointerKeepsInside ==
  ASSUME Inside, NEW n \in 0 .. IndexLimit, ReadDataPointer(n)
  PROVE  Inside'
<1>1. /\ Fits(4)
      /\ \/ index' = (index + 4 + n) % IndexLimit
         \/ index' = (index + 4) % IndexLimit
      /\ touched' = index .. index + 3
      /\ UNCHANGED <<phase, capacity, ordered>>
      /\ phase = "read"
  BY DEF ReadDataPointer, LengthIs, Reads, NextIs
<1>2. index \in Nat /\ n \in Nat /\ IndexLimit \in Nat /\ IndexLimit > 0
  BY IndexAssumption DEF Inside, Indexes
<1>3. index' \in Indexes
  BY <1>1, <1>2 DEF Indexes
<1>4. index .. index + 3 \subseteq 0 .. capacity - 1
  BY <1>1, <1>2 DEF Fits, Inside
<1>. QED BY <1>1, <1>3, <1>4 DEF Inside, StaysInside

LEMMA CursorKeepsInside ==
  ASSUME Inside, NEW off \in Indexes, Reset \/ SeekBeg(off) \/ SeekCur(off)
  PROVE  Inside'
<1>1. /\ 0 \in Indexes /\ (index + off) % IndexLimit \in Indexes
      /\ Capacity \in Nat
  BY IndexAssumption DEF Inside, Indexes
<1>2. CASE Reset
  BY <1>1, <1>2 DEF Reset, Inside, StaysInside
<1>3. CASE SeekBeg(off) \/ SeekCur(off)
  BY <1>1, <1>3 DEF SeekBeg, SeekCur, Seek, Inside, StaysInside
<1>. QED BY <1>2, <1>3

LEMMA NextKeepsInside == Inside /\ [Next]_vars => Inside'
<1>. SUFFICES ASSUME Inside, [Next]_vars PROVE Inside'
  OBVIOUS
<1>1. ASSUME NEW s \in Sizes, NEW v \in Values, WriteObject(s, v)
      PROVE  Inside'
  BY <1>1, WriteKeepsInside
<1>2. ASSUME NEW s \in Sizes, ReadObject(s) \/ ReadObjectThrows(s)
      PROVE  Inside'
  BY <1>2, ReadKeepsInside
<1>3. ASSUME NEW d \in Blocks, WriteBlock(d)
      PROVE  Inside'
  BY <1>3, WriteBlockKeepsInside
<1>4. ASSUME Send
      PROVE  Inside'
  BY <1>4, SendKeepsInside
<1>5. ASSUME NEW n \in 0 .. IndexLimit, NEW room \in {MaxBlock - 1, IndexLimit},
             ReadBlock(n, room) \/ ReadBlockNoRoom(n, room)
      PROVE  Inside'
  BY <1>5, ReadBlockKeepsInside
<1>6. ASSUME NEW n \in 0 .. IndexLimit, ReadDataPointer(n)
      PROVE  Inside'
  BY <1>6, ReadPointerKeepsInside
<1>7. ASSUME NEW off \in Indexes, Reset \/ SeekBeg(off) \/ SeekCur(off)
      PROVE  Inside'
  BY <1>7, CursorKeepsInside
<1>8. ASSUME Reset
      PROVE  Inside'
  <2>1. 0 \in Indexes
    BY IndexAssumption DEF Indexes
  <2>. QED BY <1>8, <2>1, <1>7
<1>9. CASE UNCHANGED vars
  BY <1>9 DEF vars, streamVars, historyVars, Inside, StaysInside
<1>. QED BY <1>1, <1>2, <1>3, <1>4, <1>5, <1>6, <1>7, <1>8, <1>9 DEF Next

\* Inside is an invariant of the stream.
THEOREM Invariance == Spec => []Inside
  BY InitInside, NextKeepsInside, PTL DEF Spec

\* No read and no write of binary_stream accesses a byte outside the stream, for
\* every capacity, wherever the cursor has been put and whatever length a
\* block begins with (write_object, read_object).
THEOREM StreamStaysInside == Spec => []StaysInside
<1>1. Inside => StaysInside
  BY DEF Inside
<1>. QED BY <1>1, Invariance, PTL

-----------------------------------------------------------------------------
(* Types.                                                                  *)

\* A byte of an object of one byte is a value: only lengths go beyond them.
SmallCells ==
  \A k \in DOMAIN buf, v \in Numbers :
    buf[k] = [size |-> 1, part |-> 0, value |-> v] => v \in Values

Typed == Inside /\ TypeOK /\ SmallCells

LEMMA Constants ==
  /\ Capacity \in Nat /\ IndexLimit \in Nat /\ MaxBlock \in Nat
  /\ Capacity < IndexLimit
  /\ Values \subseteq Nat /\ Numbers \subseteq Nat /\ Values \subseteq Numbers
  /\ Junk \notin Nat
  /\ \A n \in 0 .. MaxBlock : n \in Numbers
  /\ \A s \in Sizes : s \in Nat /\ s >= 1 /\ s <= 8
<1>1. \A s \in Sizes : s \in Nat /\ s >= 1 /\ s <= 8
  BY DEF Sizes
<1>2. Values \subseteq Numbers /\ \A n \in 0 .. MaxBlock : n \in Numbers
  BY DEF Numbers
<1>3. Numbers \subseteq Nat
  <2>1. 0 .. MaxBlock \subseteq Nat
    OBVIOUS
  <2>. QED BY <2>1, ValuesAssumption DEF Numbers
<1>. QED BY <1>1, <1>2, <1>3, IndexAssumption, ValuesAssumption

\* Junk is no byte of an object.
LEMMA JunkTyped ==
  ASSUME NEW v \in Numbers
  PROVE  Junk # [size |-> 1, part |-> 0, value |-> v]
<1>1. [size |-> 1, part |-> 0, value |-> v] \in [size : Sizes, part : 0 .. 7, value : Numbers]
  BY DEF Sizes
<1>. QED BY <1>1, JunkAssumption

LEMMA BlockTyped ==
  ASSUME NEW d \in Blocks
  PROVE  /\ d \in Seq(Values)
         /\ Len(d) \in 0 .. MaxBlock
         /\ Len(d) \in Numbers
         /\ \A k \in 1 .. Len(d) : d[k] \in Values
<1>1. PICK n \in 0 .. MaxBlock : d \in [1 .. n -> Values]
  BY DEF Blocks
<1>2. d \in Seq(Values) /\ Len(d) = n
  BY <1>1, Constants
<1>. QED BY <1>1, <1>2, Constants

\* A cell with part p of an object.
LEMMA CellTyped ==
  ASSUME NEW s \in Sizes, NEW p \in 0 .. s - 1, NEW v \in Numbers
  PROVE  [size |-> s, part |-> p, value |-> v] \in Cells
<1>1. p \in 0 .. 7
  BY Constants
<1>. QED BY <1>1 DEF Cells

\* The buffer after an object, and after a block, has been stored.
LEMMA StoredTyped ==
  ASSUME Typed, NEW i \in Nat, NEW s \in Sizes, NEW v \in Numbers,
         s = 1 => v \in Values
  PROVE  /\ Stored(buf, i, s, v) \in [0 .. Capacity - 1 -> Cells]
         /\ \A k \in 0 .. Capacity - 1, w \in Numbers :
              Stored(buf, i, s, v)[k] = [size |-> 1, part |-> 0, value |-> w]
                => w \in Values
<1>0. DOMAIN buf = 0 .. Capacity - 1 /\ \A k \in 0 .. Capacity - 1 : buf[k] \in Cells
  BY DEF Typed, TypeOK
<1>1. ASSUME NEW k \in i .. i + s - 1
      PROVE  [size |-> s, part |-> k - i, value |-> v] \in Cells
  <2>1. k - i \in 0 .. s - 1
    BY Constants
  <2>. QED BY <2>1, CellTyped
<1>2. \A k \in 0 .. Capacity - 1 :
        Stored(buf, i, s, v)[k] = IF k \in i .. i + s - 1
                                  THEN [size |-> s, part |-> k - i, value |-> v]
                                  ELSE buf[k]
  BY <1>0 DEF Stored
<1>3. Stored(buf, i, s, v) \in [0 .. Capacity - 1 -> Cells]
  BY <1>0, <1>1 DEF Stored
<1>4. ASSUME NEW k \in 0 .. Capacity - 1, NEW w \in Numbers,
             Stored(buf, i, s, v)[k] = [size |-> 1, part |-> 0, value |-> w]
      PROVE  w \in Values
  <2>1. CASE k \in i .. i + s - 1
    <3>1. [size |-> s, part |-> k - i, value |-> v] = [size |-> 1, part |-> 0, value |-> w]
      BY <1>2, <1>4, <2>1
    <3>2. s = 1 /\ v = w
      BY <3>1
    <3>. QED BY <3>2
  <2>2. CASE k \notin i .. i + s - 1
    BY <1>0, <1>2, <1>4, <2>2 DEF Typed, SmallCells
  <2>. QED BY <2>1, <2>2
<1>. QED BY <1>3, <1>4

LEMMA StoredBlockTyped ==
  ASSUME Typed, NEW d \in Blocks, NEW m \in 0 .. Len(d)
  PROVE  /\ StoredBlock(d, m) \in [0 .. Capacity - 1 -> Cells]
         /\ \A k \in 0 .. Capacity - 1, w \in Numbers :
              StoredBlock(d, m)[k] = [size |-> 1, part |-> 0, value |-> w]
                => w \in Values
<1>. DEFINE b == Stored(buf, index, 4, Len(d))
            r == StoredBlock(d, m)
            C(k) == [size |-> 1, part |-> 0, value |-> d[k - index - 3]]
<1>0. index \in Nat /\ Len(d) \in Nat /\ 1 \in Sizes /\ 4 \in Sizes
  BY Constants, BlockTyped DEF Typed, TypeOK, Indexes, Sizes
<1>1. /\ b \in [0 .. Capacity - 1 -> Cells]
      /\ \A k \in 0 .. Capacity - 1, w \in Numbers :
           b[k] = [size |-> 1, part |-> 0, value |-> w] => w \in Values
  BY <1>0, BlockTyped, StoredTyped
<1>2. ASSUME NEW k \in index + 4 .. index + 3 + m
      PROVE  d[k - index - 3] \in Values /\ C(k) \in Cells
  <2>1. k - index - 3 \in 1 .. Len(d)
    BY <1>0
  <2>2. d[k - index - 3] \in Values /\ d[k - index - 3] \in Numbers
    BY <2>1, BlockTyped, Constants
  <2>. QED BY <1>0, <2>2, CellTyped
<1>. HIDE DEF b
<1>3. r = [k \in 0 .. Capacity - 1 |->
             IF k \in index + 4 .. index + 3 + m THEN C(k) ELSE b[k]]
  BY <1>1 DEF StoredBlock, b
<1>4. r \in [0 .. Capacity - 1 -> Cells]
  BY <1>1, <1>2, <1>3
<1>5. ASSUME NEW k \in 0 .. Capacity - 1, NEW w \in Numbers,
             r[k] = [size |-> 1, part |-> 0, value |-> w]
      PROVE  w \in Values
  <2>1. CASE k \in index + 4 .. index + 3 + m
    <3>1. C(k) = [size |-> 1, part |-> 0, value |-> w]
      BY <1>3, <1>5, <2>1
    <3>2. w = d[k - index - 3]
      BY <3>1
    <3>. QED BY <1>2, <2>1, <3>2
  <2>2. CASE k \notin index + 4 .. index + 3 + m
    BY <1>1, <1>3, <1>5, <2>2
  <2>. QED BY <2>1, <2>2
<1>. QED BY <1>4, <1>5

\* What is read is a number or Junk, a byte a value or Junk.
LEMMA PeekTyped ==
  ASSUME Typed, NEW i \in Nat, NEW s \in Sizes
  PROVE  /\ Peek(i, s) \in Numbers \cup {Junk}
         /\ s = 1 => Peek(i, s) \in Values \cup {Junk}
<1>. DEFINE Is(v) == \A k \in 0 .. s - 1 :
              i + k < capacity /\ buf[i + k] = [size |-> s, part |-> k, value |-> v]
<1>1. CASE \E v \in Numbers : Is(v)
  <2>1. PICK v \in Numbers : Is(v)
    BY <1>1
  <2>2. 0 \in 0 .. s - 1 /\ i + 0 = i
    BY Constants
  <2>3. i < capacity /\ buf[i] = [size |-> s, part |-> 0, value |-> v]
    BY <2>1, <2>2
  <2>4. Peek(i, s) = buf[i].value
    BY <1>1 DEF Peek
  <2>5. Peek(i, s) = v
    BY <2>3, <2>4
  <2>6. i \in DOMAIN buf
    BY <2>3, Constants DEF Typed, TypeOK
  <2>. QED BY <2>3, <2>5, <2>6 DEF Typed, SmallCells
<1>2. CASE ~ \E v \in Numbers : Is(v)
  BY <1>2 DEF Peek
<1>. QED BY <1>1, <1>2

LEMMA BytesAheadTyped ==
  ASSUME Typed, NEW m \in Nat
  PROVE  Data(BytesAhead(m)) \in Items
<1>1. \A k \in 1 .. m : Peek(index + 3 + k, 1) \in Values \cup {Junk}
  <2>. TAKE k \in 1 .. m
  <2>1. index + 3 + k \in Nat /\ 1 \in Sizes
    BY Constants DEF Typed, TypeOK, Indexes, Sizes
  <2>. QED BY <2>1, PeekTyped
<1>2. BytesAhead(m) \in Seq(Values \cup {Junk})
  BY <1>1 DEF BytesAhead
<1>. QED BY <1>2 DEF Items, Data

LEMMA ObjectTyped ==
  ASSUME NEW s \in Sizes, NEW v \in Numbers \cup {Junk}
  PROVE  Object(s, v) \in Items
BY DEF Items, Object


LEMMA InitTyped == Init => Typed
<1>. SUFFICES ASSUME Init PROVE Typed
  OBVIOUS
<1>1. Inside /\ 0 \in Indexes /\ <<>> \in Seq(Items)
  BY InitInside, IndexAssumption DEF Indexes
<1>2. AllJunk \in [0 .. Capacity - 1 -> Cells]
  BY DEF AllJunk, Cells
<1>3. SmallCells
  BY JunkTyped DEF Init, SmallCells, AllJunk
<1>4. TypeOK
  <2>1. capacity \in 0 .. Capacity /\ touched \subseteq Nat
    BY IndexAssumption DEF Init
  <2>2. buf \in [0 .. Capacity - 1 -> Cells] /\ index \in Indexes
    BY <1>1, <1>2 DEF Init
  <2>3. items \in Seq(Items) /\ got \in Seq(Items)
    BY <1>1 DEF Init
  <2>. QED BY <2>1, <2>2, <2>3 DEF TypeOK, Init
<1>. QED BY <1>1, <1>3, <1>4 DEF Typed

\* What a writer leaves in the buffer and in the history.
LEMMA WritesTyped ==
  ASSUME Typed, NEW b \in [0 .. Capacity - 1 -> Cells], NEW item \in Seq(Items),
         Writes(b, item),
         \A k \in 0 .. Capacity - 1, v \in Numbers :
           b[k] = [size |-> 1, part |-> 0, value |-> v] => v \in Values
  PROVE  /\ buf' \in [0 .. Capacity - 1 -> Cells]
         /\ items' \in Seq(Items)
         /\ SmallCells'
<1>1. AllJunk \in [0 .. Capacity - 1 -> Cells]
  BY DEF AllJunk, Cells
<1>2. CASE ordered
  <2>1. buf' = b /\ items' = items \o item
    BY <1>2 DEF Writes
  <2>2. items' \in Seq(Items)
    BY <2>1 DEF Typed, TypeOK
  <2>. QED BY <2>1, <2>2 DEF SmallCells
<1>3. CASE ~ordered
  <2>1. buf' = AllJunk /\ items' = items
    BY <1>3 DEF Writes
  <2>2. items' \in Seq(Items)
    BY <2>1 DEF Typed, TypeOK
  <2>. QED BY <1>1, <2>1, <2>2, JunkTyped DEF SmallCells, AllJunk
<1>. QED BY <1>2, <1>3 DEF Typed, TypeOK

\* What a reader leaves in the history, and in the stream.
LEMMA ReadsTyped ==
  ASSUME Typed, NEW item \in Seq(Items), Reads(item)
  PROVE  got' \in Seq(Items) /\ SmallCells'
<1>1. got' \in Seq(Items)
  BY DEF Reads, Typed, TypeOK
<1>2. SmallCells'
  BY DEF Reads, Typed, SmallCells
<1>. QED BY <1>1, <1>2

\* The bytes accessed are numbered, wherever they lie.
LEMMA TouchedTyped ==
  ASSUME Inside'
  PROVE  touched' \subseteq Nat
<1>1. touched' \subseteq 0 .. capacity' - 1 /\ capacity' \in 0 .. Capacity
  BY DEF Inside, StaysInside
<1>2. ASSUME NEW k \in touched' PROVE k \in Nat
  <2>1. k \in 0 .. capacity' - 1
    BY <1>1
  <2>. QED BY <1>1, <2>1, IndexAssumption
<1>. QED BY <1>2

LEMMA NextKeepsTyped == Typed /\ [Next]_vars => Typed'
<1>. SUFFICES ASSUME Typed, [Next]_vars PROVE Typed'
  OBVIOUS
<1>0. /\ Inside' /\ touched' \subseteq Nat
      /\ phase' \in {"write", "read"} /\ capacity' \in 0 .. Capacity
      /\ index' \in Indexes
  BY NextKeepsInside, TouchedTyped DEF Typed, Inside
<1>a. /\ buf \in [0 .. Capacity - 1 -> Cells] /\ SmallCells
      /\ items \in Seq(Items) /\ got \in Seq(Items)
      /\ thrown \in {"no", "range", "room"}
      /\ ordered \in BOOLEAN /\ torn \in BOOLEAN /\ index \in Nat
  BY DEF Typed, TypeOK, Indexes
<1>b. /\ AllJunk \in [0 .. Capacity - 1 -> Cells] /\ <<>> \in Seq(Items)
      /\ \A k \in DOMAIN AllJunk, v \in Numbers :
           AllJunk[k] # [size |-> 1, part |-> 0, value |-> v]
  BY JunkTyped DEF AllJunk, Cells
<1>1. ASSUME NEW s \in Sizes, NEW v \in Values, WriteObject(s, v)
      PROVE  Typed'
  <2>1. /\ Stored(buf, index, s, v) \in [0 .. Capacity - 1 -> Cells]
        /\ \A k \in 0 .. Capacity - 1, w \in Numbers :
             Stored(buf, index, s, v)[k] = [size |-> 1, part |-> 0, value |-> w]
               => w \in Values
    BY <1>a, StoredTyped, Constants
  <2>2. <<Object(s, v)>> \in Seq(Items)
    BY ObjectTyped, Constants
  <2>3. Writes(Stored(buf, index, s, v), <<Object(s, v)>>) /\ UNCHANGED torn
    BY <1>1 DEF WriteObject
  <2>4. buf' \in [0 .. Capacity - 1 -> Cells] /\ items' \in Seq(Items) /\ SmallCells'
    BY <2>1, <2>2, <2>3, WritesTyped
  <2>. QED BY <1>0, <1>a, <2>3, <2>4 DEF Typed, TypeOK, Writes
<1>2. ASSUME NEW d \in Blocks, WriteBlock(d)
      PROVE  Typed'
  <2>1. Room(d) \in 0 .. Len(d)
    BY <1>2, <1>a, BlockTyped, Constants DEF WriteBlock, Fits, Room, Min2, Typed, TypeOK
  <2>2. /\ StoredBlock(d, Room(d)) \in [0 .. Capacity - 1 -> Cells]
        /\ \A k \in 0 .. Capacity - 1, w \in Numbers :
             StoredBlock(d, Room(d))[k] = [size |-> 1, part |-> 0, value |-> w]
               => w \in Values
    BY <2>1, StoredBlockTyped
  <2>3. Data(d) \in Items
    <3>1. d \in Seq(Values \cup {Junk})
      BY BlockTyped
    <3>. QED BY <3>1 DEF Items, Data
  <2>4. (IF Room(d) = Len(d) THEN <<Data(d)>> ELSE <<>>) \in Seq(Items)
    BY <2>3
  <2>5. /\ Writes(StoredBlock(d, Room(d)), IF Room(d) = Len(d) THEN <<Data(d)>> ELSE <<>>)
        /\ torn' = (Room(d) < Len(d))
    BY <1>2 DEF WriteBlock
  <2>6. buf' \in [0 .. Capacity - 1 -> Cells] /\ items' \in Seq(Items) /\ SmallCells'
    BY <2>2, <2>4, <2>5, WritesTyped
  <2>. QED BY <1>0, <1>a, <2>5, <2>6 DEF Typed, TypeOK, Writes
<1>3. ASSUME Send
      PROVE  Typed'
  <2>1. buf' = [k \in 0 .. Capacity - 1 |-> IF k < index THEN buf[k] ELSE Junk]
    BY <1>3, <1>a DEF Send
  <2>2. buf' \in [0 .. Capacity - 1 -> Cells]
    BY <1>a, <2>1 DEF Cells
  <2>3. SmallCells'
    BY <1>a, <2>1, JunkTyped DEF SmallCells
  <2>. QED BY <1>0, <1>3, <1>a, <2>2, <2>3 DEF Typed, TypeOK, Send
<1>4. ASSUME NEW s \in Sizes, ReadObject(s) \/ ReadObjectThrows(s)
      PROVE  Typed'
  <2>1. \E item \in Seq(Items) : Reads(item)
    <3>1. <<Object(s, Peek(index, s))>> \in Seq(Items)
      BY <1>a, PeekTyped, ObjectTyped
    <3>. QED BY <1>4, <1>b, <3>1 DEF ReadObject, ReadObjectThrows
  <2>2. got' \in Seq(Items) /\ SmallCells'
    BY <2>1, ReadsTyped
  <2>. QED BY <1>0, <1>4, <1>a, <2>1, <2>2
       DEF Typed, TypeOK, ReadObject, ReadObjectThrows, Reads
<1>5. ASSUME NEW n \in 0 .. IndexLimit, NEW room \in {MaxBlock - 1, IndexLimit},
             ReadBlock(n, room) \/ ReadBlockNoRoom(n, room) \/ ReadDataPointer(n)
      PROVE  Typed'
  <2>1. \E item \in Seq(Items) : Reads(item)
    <3>1. n \in Nat
      BY Constants
    <3>2. <<Data(BytesAhead(n))>> \in Seq(Items)
      BY <3>1, BytesAheadTyped
    <3>. QED BY <1>5, <1>b, <3>2 DEF ReadBlock, ReadBlockNoRoom, ReadDataPointer
  <2>2. got' \in Seq(Items) /\ SmallCells'
    BY <2>1, ReadsTyped
  <2>3. thrown' \in {"no", "range", "room"}
    BY <1>5, <1>a DEF ReadBlock, ReadBlockNoRoom, ReadDataPointer
  <2>. QED BY <1>0, <1>a, <2>1, <2>2, <2>3 DEF Typed, TypeOK, Reads
<1>6. ASSUME Reset
      PROVE  Typed'
  <2>1. buf' \in [0 .. Capacity - 1 -> Cells] /\ SmallCells'
    BY <1>6, <1>a, <1>b DEF Reset, SmallCells
  <2>. QED BY <1>0, <1>6, <1>a, <1>b, <2>1 DEF Typed, TypeOK, Reset
<1>7. ASSUME NEW off \in Indexes, SeekBeg(off) \/ SeekCur(off)
      PROVE  Typed'
  <2>1. buf' = AllJunk /\ SmallCells'
    BY <1>7, <1>b DEF SeekBeg, SeekCur, Seek, SmallCells
  <2>. QED BY <1>0, <1>7, <1>b, <2>1 DEF Typed, TypeOK, SeekBeg, SeekCur, Seek
<1>8. CASE UNCHANGED vars
  BY <1>0, <1>8, <1>a DEF vars, streamVars, historyVars, Typed, TypeOK, SmallCells
<1>9. \E room \in {MaxBlock - 1, IndexLimit} : TRUE
  OBVIOUS
<1>. QED BY <1>1, <1>2, <1>3, <1>4, <1>5, <1>6, <1>7, <1>8, <1>9 DEF Next

\* Typed is an invariant of the stream.
LEMMA TypedInvariant == Spec => []Typed
  BY InitTyped, NextKeepsTyped, PTL DEF Spec

\* Buffer, cursor and what has been written and read have their types, for every
\* capacity and width: a byte is a value even where a length was written
\* (write_object, write_data).
THEOREM TypeCorrect == Spec => []TypeOK
<1>1. Typed => TypeOK
  BY DEF Typed
<1>. QED BY <1>1, TypedInvariant, PTL


-----------------------------------------------------------------------------
(* Where in the bytes of a buffer the items are.                           *)

\* The object v of s bytes is in buffer b at place i, before place e.
ObjectAt(b, e, i, s, v) ==
  /\ i + s <= e
  /\ \A k \in i .. i + s - 1 : b[k] = [size |-> s, part |-> k - i, value |-> v]

\* The bytes of block d are there from place i on.
BytesAt(b, e, i, d) ==
  /\ i + Len(d) <= e
  /\ \A k \in i .. i + Len(d) - 1 :
       b[k] = [size |-> 1, part |-> 0, value |-> d[k - i + 1]]

\* The item takes up the bytes from place i to place j - 1.
HeldAt(b, e, item, i, j) ==
  \/ \E s \in Sizes, v \in Values :
       item = Object(s, v) /\ j = i + s /\ ObjectAt(b, e, i, s, v)
  \/ \E d \in Blocks :
       /\ item = Data(d) /\ j = i + 4 + Len(d)
       /\ ObjectAt(b, e, i, 4, Len(d)) /\ BytesAt(b, e, i + 4, d)

\* At place i begins a block that is longer than what is left before place e.
TornAt(b, e, i) ==
  \E n \in 0 .. MaxBlock : ObjectAt(b, e, i, 4, n) /\ i + 4 + n > e

Places(n) == [1 .. n + 1 -> 0 .. Capacity]

\* The items of a message that ends at place e follow each other: item n is from
\* place[n] to place[n + 1] - 1.
Layout(b, e, its, tn, place) ==
  /\ place[1] = 0
  /\ \A n \in 1 .. Len(its) : HeldAt(b, e, its[n], place[n], place[n + 1])
  /\ IF tn THEN TornAt(b, e, place[Len(its) + 1]) ELSE place[Len(its) + 1] = e

\* Buffers b and c are the same before place e.
Agree(b, c, e) == \A k \in 0 .. e - 1 : c[k] = b[k]

\* What is before place e stays where it is when the rest of the buffer changes.
LEMMA ObjectStays ==
  ASSUME NEW b, NEW c, NEW e \in Nat, NEW f \in Nat, e <= f,
         Agree(b, c, e),
         NEW i \in Nat, NEW s \in Nat, NEW v, ObjectAt(b, e, i, s, v)
  PROVE  ObjectAt(c, f, i, s, v)
<1>1. i + s <= f
  BY DEF ObjectAt
<1>2. ASSUME NEW k \in i .. i + s - 1
      PROVE  c[k] = [size |-> s, part |-> k - i, value |-> v]
  <2>1. k \in 0 .. e - 1
    BY DEF ObjectAt
  <2>. QED BY <2>1 DEF ObjectAt, Agree
<1>. QED BY <1>1, <1>2 DEF ObjectAt

LEMMA BytesStay ==
  ASSUME NEW b, NEW c, NEW e \in Nat, NEW f \in Nat, e <= f,
         Agree(b, c, e),
         NEW i \in Nat, NEW d \in Blocks, BytesAt(b, e, i, d)
  PROVE  BytesAt(c, f, i, d)
<1>0. Len(d) \in Nat
  BY BlockTyped
<1>1. i + Len(d) <= f
  BY <1>0 DEF BytesAt
<1>2. ASSUME NEW k \in i .. i + Len(d) - 1
      PROVE  c[k] = [size |-> 1, part |-> 0, value |-> d[k - i + 1]]
  <2>1. k \in 0 .. e - 1
    BY <1>0 DEF BytesAt
  <2>. QED BY <2>1 DEF BytesAt, Agree
<1>. QED BY <1>1, <1>2 DEF BytesAt

LEMMA HeldStays ==
  ASSUME NEW b, NEW c, NEW e \in Nat, NEW f \in Nat, e <= f,
         Agree(b, c, e),
         NEW i \in Nat, NEW item, NEW j, HeldAt(b, e, item, i, j)
  PROVE  HeldAt(c, f, item, i, j)
<1>1. ASSUME NEW s \in Sizes, NEW v \in Values,
             item = Object(s, v), j = i + s, ObjectAt(b, e, i, s, v)
      PROVE  HeldAt(c, f, item, i, j)
  <2>1. s \in Nat
    BY Constants
  <2>2. ObjectAt(c, f, i, s, v)
    BY <1>1, <2>1, ObjectStays
  <2>. QED BY <1>1, <2>2 DEF HeldAt
<1>2. ASSUME NEW d \in Blocks, item = Data(d), j = i + 4 + Len(d),
             ObjectAt(b, e, i, 4, Len(d)), BytesAt(b, e, i + 4, d)
      PROVE  HeldAt(c, f, item, i, j)
  <2>0. 4 \in Nat /\ i + 4 \in Nat
    OBVIOUS
  <2>1. ObjectAt(c, f, i, 4, Len(d))
    BY <1>2, <2>0, ObjectStays
  <2>2. BytesAt(c, f, i + 4, d)
    BY <1>2, <2>0, BytesStay
  <2>. QED BY <1>2, <2>1, <2>2 DEF HeldAt
<1>. QED BY <1>1, <1>2 DEF HeldAt

\* A message without what is after its end.
LEMMA LayoutStays ==
  ASSUME NEW b, NEW c, NEW e \in Nat, Agree(b, c, e),
         NEW its \in Seq(Items), NEW tn, NEW place \in Places(Len(its)),
         Layout(b, e, its, tn, place)
  PROVE  Layout(c, e, its, tn, place)
<1>1. ASSUME NEW n \in 1 .. Len(its)
      PROVE  HeldAt(c, e, its[n], place[n], place[n + 1])
  <2>1. place[n] \in Nat
    BY Constants DEF Places
  <2>2. HeldAt(b, e, its[n], place[n], place[n + 1])
    BY DEF Layout
  <2>3. e <= e
    OBVIOUS
  <2>. QED BY <2>1, <2>2, <2>3, HeldStays
<1>2. ASSUME tn PROVE TornAt(c, e, place[Len(its) + 1])
  <2>0. place[Len(its) + 1] \in Nat
    BY Constants DEF Places
  <2>1. PICK n \in 0 .. MaxBlock : /\ ObjectAt(b, e, place[Len(its) + 1], 4, n)
                                   /\ place[Len(its) + 1] + 4 + n > e
    BY <1>2 DEF Layout, TornAt
  <2>2. 4 \in Nat /\ e <= e
    OBVIOUS
  <2>3. ObjectAt(c, e, place[Len(its) + 1], 4, n)
    BY <2>0, <2>1, <2>2, ObjectStays
  <2>. QED BY <2>1, <2>3 DEF TornAt
<1>. QED BY <1>1, <1>2 DEF Layout

\* A message with one item more, from its end e to the new end f.
LEMMA LayoutGrows ==
  ASSUME NEW b, NEW c, NEW e \in Nat, NEW f \in 0 .. Capacity, e <= f,
         Agree(b, c, e),
         NEW its \in Seq(Items), NEW place \in Places(Len(its)),
         Layout(b, e, its, FALSE, place),
         NEW item \in Items, HeldAt(c, f, item, e, f)
  PROVE  \E q \in Places(Len(its \o <<item>>)) :
           Layout(c, f, its \o <<item>>, FALSE, q)
<1>. DEFINE l == Len(its)
            q == [n \in 1 .. l + 2 |-> IF n = l + 2 THEN f ELSE place[n]]
            all == its \o <<item>>
<1>0. l \in Nat /\ Capacity \in Nat /\ f \in Nat
  BY Constants
<1>1. /\ all \in Seq(Items) /\ Len(all) = l + 1
      /\ all[l + 1] = item
      /\ \A n \in 1 .. l : all[n] = its[n]
  OBVIOUS
<1>2. /\ q \in Places(l + 1)
      /\ q[l + 2] = f
      /\ \A n \in 1 .. l + 1 : q[n] = place[n]
  BY <1>0 DEF Places
<1>. HIDE DEF q, all
<1>3. q[1] = 0
  BY <1>0, <1>2 DEF Layout
<1>4. ASSUME NEW n \in 1 .. l + 1
      PROVE  HeldAt(c, f, all[n], q[n], q[n + 1])
  <2>1. CASE n = l + 1
    <3>1. q[n] = e /\ q[n + 1] = f
      BY <1>0, <1>2, <2>1 DEF Layout
    <3>. QED BY <1>1, <2>1, <3>1
  <2>2. CASE n # l + 1
    <3>1. n \in 1 .. l /\ n + 1 \in 1 .. l + 1
      BY <1>0, <2>2
    <3>2. HeldAt(b, e, its[n], place[n], place[n + 1]) /\ place[n] \in Nat
      BY <1>0, <3>1 DEF Layout, Places
    <3>3. HeldAt(c, f, its[n], place[n], place[n + 1])
      BY <1>0, <3>2, HeldStays
    <3>. QED BY <1>1, <1>2, <3>1, <3>3
  <2>. QED BY <2>1, <2>2
<1>5. q[Len(all) + 1] = f
  BY <1>0, <1>1, <1>2
<1>6. Layout(c, f, all, FALSE, q)
  BY <1>1, <1>3, <1>4, <1>5 DEF Layout
<1>. QED BY <1>1, <1>2, <1>6 DEF all

\* A message whose last block is torn: the items before stay.
LEMMA LayoutTears ==
  ASSUME NEW b, NEW c, NEW e \in Nat, NEW f \in 0 .. Capacity, e <= f,
         Agree(b, c, e),
         NEW its \in Seq(Items), NEW place \in Places(Len(its)),
         Layout(b, e, its, FALSE, place), TornAt(c, f, e)
  PROVE  Layout(c, f, its, TRUE, place)
<1>0. f \in Nat
  BY Constants
<1>1. ASSUME NEW n \in 1 .. Len(its)
      PROVE  HeldAt(c, f, its[n], place[n], place[n + 1])
  <2>1. place[n] \in Nat
    BY Constants DEF Places
  <2>2. HeldAt(b, e, its[n], place[n], place[n + 1])
    BY DEF Layout
  <2>. QED BY <1>0, <2>1, <2>2, HeldStays
<1>. QED BY <1>1 DEF Layout

-----------------------------------------------------------------------------
(* What is read where an item is.                                          *)

LEMMA PeekObject ==
  ASSUME NEW i \in Nat, NEW s \in Sizes, NEW v \in Numbers,
         ObjectAt(buf, capacity, i, s, v), capacity \in Nat
  PROVE  Peek(i, s) = v
<1>1. s \in Nat /\ 0 \in 0 .. s - 1 /\ i \in i .. i + s - 1 /\ i - i = 0
  BY Constants
<1>2. ASSUME NEW k \in 0 .. s - 1
      PROVE  i + k < capacity /\ buf[i + k] = [size |-> s, part |-> k, value |-> v]
  <2>1. i + k \in i .. i + s - 1 /\ (i + k) - i = k
    BY <1>1
  <2>2. i + k < capacity
    BY <1>1 DEF ObjectAt
  <2>. QED BY <2>1, <2>2 DEF ObjectAt
<1>3. Peek(i, s) = buf[i].value
  BY <1>2 DEF Peek
<1>4. buf[i] = [size |-> s, part |-> 0, value |-> v]
  BY <1>1 DEF ObjectAt
<1>. QED BY <1>3, <1>4

LEMMA BlockAhead ==
  ASSUME capacity \in Nat, index \in Nat, NEW d \in Blocks,
         BytesAt(buf, capacity, index + 4, d)
  PROVE  BytesAhead(Len(d)) = d
<1>0. /\ Len(d) \in Nat /\ d \in Seq(Values)
      /\ \A k \in 1 .. Len(d) : d[k] \in Numbers
  BY BlockTyped, Constants
<1>1. ASSUME NEW k \in 1 .. Len(d)
      PROVE  Peek(index + 3 + k, 1) = d[k]
  <2>. DEFINE i == index + 3 + k
  <2>0. i \in Nat /\ 1 \in Nat /\ 1 \in Sizes /\ i \in index + 4 .. index + 4 + Len(d) - 1
        /\ i - (index + 4) + 1 = k
    BY <1>0 DEF Sizes
  <2>1. buf[i] = [size |-> 1, part |-> 0, value |-> d[k]]
    BY <2>0 DEF BytesAt
  <2>2. i + 1 <= capacity
    BY <1>0 DEF BytesAt
  <2>3. \A j \in i .. i + 1 - 1 : j = i /\ j - i = 0
    BY <2>0
  <2>. HIDE DEF i
  <2>4. ObjectAt(buf, capacity, i, 1, d[k])
    BY <2>1, <2>2, <2>3 DEF ObjectAt
  <2>5. Peek(i, 1) = d[k]
    BY <1>0, <2>0, <2>4, PeekObject
  <2>. QED BY <2>5 DEF i
<1>. QED BY <1>0, <1>1 DEF BytesAhead

\* What kind of item a call finds.
LEMMA KindOfItem ==
  /\ \A s, v : "size" \in DOMAIN Object(s, v) /\ "data" \notin DOMAIN Object(s, v)
                 /\ Object(s, v).size = s
  /\ \A d : "data" \in DOMAIN Data(d) /\ "size" \notin DOMAIN Data(d)
BY DEF Object, Data

-----------------------------------------------------------------------------
(* A reader follows the items of the message.                              *)

\* Where the message being written or read ends.
End == IF phase = "write" THEN index ELSE capacity

\* Twice the longest message is a value of the cursor: it is, a message travels
\* in one package and the cursor has sixteen bits.
NoWrap == 2 * Capacity < IndexLimit

\* The cursor of a reader stands before the item it is to read next, the torn
\* block included.  Behind the last item it can only come by read_data_pointer of a
\* torn block.
Reader(place) ==
  /\ ReadsBack
  /\ \/ /\ Len(got) <= Len(items)
        /\ phase = "read" /\ thrown = "no" => index = place[Len(got) + 1]
        /\ thrown = "range" => Len(got) = Len(items)
     \/ /\ Len(got) > Len(items)
        /\ NoWrap => torn /\ index > capacity

Follows(place) == Layout(buf, End, items, torn, place) /\ Reader(place)

Followed ==
  IF ordered
  THEN /\ \E place \in Places(Len(items)) : Follows(place)
       /\ phase = "write" => got = <<>> /\ thrown = "no"
  ELSE items = <<>> /\ got = <<>>

IInv == Typed /\ Followed

\* An empty message.
LEMMA EmptyLayout ==
  ASSUME NEW b
  PROVE  \E place \in Places(Len(<<>>)) :
           place[1] = 0 /\ Layout(b, 0, <<>>, FALSE, place)
<1>. DEFINE place == [n \in 1 .. 1 |-> 0]
<1>1. Len(<<>>) = 0 /\ 1 .. 0 = {}
  OBVIOUS
<1>2. place \in Places(0) /\ place[1] = 0
  BY Constants DEF Places
<1>. HIDE DEF place
<1>3. Layout(b, 0, <<>>, FALSE, place)
  BY <1>1, <1>2 DEF Layout
<1>. QED BY <1>1, <1>2, <1>3

LEMMA InitFollowed == Init => Followed
<1>. SUFFICES ASSUME Init PROVE Followed
  OBVIOUS
<1>1. /\ phase = "write" /\ index = 0 /\ ordered = TRUE /\ items = <<>>
      /\ torn = FALSE /\ got = <<>> /\ thrown = "no" /\ End = 0
  BY DEF Init, End
<1>2. PICK place \in Places(Len(items)) : Layout(buf, 0, <<>>, FALSE, place)
  BY <1>1, EmptyLayout
<1>3. Layout(buf, End, items, torn, place)
  BY <1>1, <1>2
<1>4. Reader(place)
  BY <1>1 DEF Reader, ReadsBack
<1>. QED BY <1>1, <1>2, <1>3, <1>4 DEF Followed, Follows

LEMMA ResetKeepsFollowed ==
  ASSUME IInv, Reset
  PROVE  Followed'
<1>0. phase \in {"write", "read"} /\ torn \in BOOLEAN /\ ordered \in BOOLEAN
  BY DEF IInv, Typed, TypeOK
<1>1. CASE phase = "write"
  <2>1. /\ phase' = "write" /\ index' = 0 /\ ordered' = TRUE /\ items' = <<>>
        /\ torn' = FALSE /\ got' = <<>> /\ thrown' = "no" /\ End' = 0
    BY <1>0, <1>1 DEF Reset, End
  <2>2. PICK place \in Places(Len(<<>>)) : Layout(buf', 0, <<>>, FALSE, place)
    BY EmptyLayout
  <2>3. Layout(buf', End', items', torn', place) /\ place \in Places(Len(items'))
    BY <2>1, <2>2
  <2>4. Reader(place)'
    BY <2>1 DEF Reader, ReadsBack
  <2>. QED BY <2>1, <2>3, <2>4 DEF Followed, Follows
<1>2. CASE phase = "read" /\ ordered
  <2>1. PICK place \in Places(Len(items)) : Layout(buf, End, items, torn, place)
    BY <1>2 DEF IInv, Followed, Follows
  <2>2. /\ phase' = "read" /\ index' = 0 /\ ordered' = TRUE /\ got' = <<>>
        /\ thrown' = "no" /\ torn' = torn
        /\ UNCHANGED <<buf, items, capacity>>
    BY <1>0, <1>2 DEF Reset
  <2>3. End' = End
    BY <1>2, <2>2 DEF End
  <2>4. Layout(buf', End', items', torn', place)
    BY <2>1, <2>2, <2>3
  <2>5. place[1] = 0 /\ Len(items) \in Nat
    BY <2>1 DEF Layout, IInv, Typed, TypeOK
  <2>6. Reader(place)'
    BY <2>2, <2>5 DEF Reader, ReadsBack
  <2>. QED BY <2>2, <2>4, <2>6 DEF Followed, Follows
<1>3. CASE phase = "read" /\ ~ordered
  BY <1>0, <1>3 DEF Reset, IInv, Followed
<1>. QED BY <1>0, <1>1, <1>2, <1>3

LEMMA SeekKeepsFollowed ==
  ASSUME NEW to, Seek(to)
  PROVE  Followed'
BY DEF Seek, Followed

\* What travels is the message, and its reader begins at its first item.
LEMMA SendKeepsFollowed ==
  ASSUME IInv, Send
  PROVE  Followed'
<1>1. /\ phase = "write" /\ ordered /\ got = <<>> /\ thrown = "no" /\ End = index
      /\ phase' = "read" /\ capacity' = index /\ index' = 0 /\ End' = index
      /\ UNCHANGED <<ordered, items, torn, got, thrown>>
      /\ buf' = [k \in DOMAIN buf |-> IF k < index THEN buf[k] ELSE Junk]
  BY DEF Send, IInv, Followed, End
<1>2. /\ index \in Nat /\ index <= Capacity /\ items \in Seq(Items)
      /\ DOMAIN buf = 0 .. Capacity - 1
  BY <1>1, Constants DEF IInv, Typed, TypeOK, Inside, Indexes
<1>3. PICK place \in Places(Len(items)) : Layout(buf, index, items, torn, place)
  BY <1>1 DEF IInv, Followed, Follows
<1>4. Agree(buf, buf', index)
  BY <1>1, <1>2, Constants DEF Agree
<1>5. Layout(buf', index, items, torn, place)
  BY <1>2, <1>3, <1>4, LayoutStays
<1>6. Layout(buf', End', items', torn', place)
  BY <1>1, <1>5
<1>7. place[1] = 0 /\ Len(items) \in Nat
  BY <1>2, <1>3 DEF Layout
<1>8. Reader(place)'
  BY <1>1, <1>7 DEF Reader, ReadsBack
<1>. QED BY <1>1, <1>6, <1>8 DEF Followed, Follows

\* A sum below the number of values of the cursor does not wrap.
LEMMA BelowLimit ==
  ASSUME NEW limit \in Nat, NEW x \in Nat, x < limit
  PROVE  x % limit = x
OBVIOUS

LEMMA RoomLeft ==
  ASSUME NEW n \in Nat, NEW r \in Nat
  PROVE  /\ Min2(n, r) \in 0 .. n /\ Min2(n, r) <= r
         /\ Min2(n, r) # n => Min2(n, r) < n /\ Min2(n, r) = r
BY DEF Min2

\* What a write leaves behind the message, its items and its end being new.
LEMMA WritesFollowed ==
  ASSUME IInv, phase = "write", ~torn, ordered,
         UNCHANGED <<phase, ordered, got, thrown>>,
         NEW place \in Places(Len(items')),
         Layout(buf', index', items', torn', place)
  PROVE  Followed'
<1>1. got = <<>> /\ thrown = "no" /\ End' = index' /\ items \in Seq(Items)
  BY DEF IInv, Followed, End, Typed, TypeOK
<1>2. ReadsBack'
  BY <1>1 DEF ReadsBack
<1>3. CASE Len(items') \in Nat
  BY <1>1, <1>2, <1>3 DEF Followed, Follows, Reader
<1>. QED BY <1>3

LEMMA WriteKeepsFollowed ==
  ASSUME IInv, Typed', NEW s \in Sizes, NEW v \in Values, WriteObject(s, v)
  PROVE  Followed'
<1>1. CASE ~ordered
  BY <1>1 DEF WriteObject, Writes, IInv, Followed
<1>2. CASE ordered
  <2>1. /\ phase = "write" /\ torn = FALSE /\ Fits(s) /\ End = index
        /\ buf' = Stored(buf, index, s, v)
        /\ items' = items \o <<Object(s, v)>>
        /\ index' = (index + s) % IndexLimit
        /\ torn' = FALSE
        /\ UNCHANGED <<phase, ordered, got, thrown>>
    BY <1>2 DEF WriteObject, Writes, IInv, Typed, TypeOK, End
  <2>2. /\ index \in Nat /\ s \in Nat /\ s >= 1 /\ capacity = Capacity
        /\ items \in Seq(Items) /\ DOMAIN buf = 0 .. Capacity - 1
        /\ Capacity \in Nat /\ IndexLimit \in Nat /\ Capacity < IndexLimit
    BY <2>1, Constants DEF IInv, Typed, TypeOK, Inside, Indexes
  <2>a. index + s \in 0 .. Capacity /\ index + s \in Nat /\ index + s < IndexLimit
    <3>1. index + s <= capacity
      BY <2>1 DEF Fits
    <3>. QED BY <2>2, <3>1
  <2>3. index' = index + s /\ index' \in 0 .. Capacity /\ index <= index'
    <3>1. index' = (index + s) % IndexLimit /\ IndexLimit \in Nat
      BY <2>1, <2>2
    <3>2. index' = index + s
      BY <2>a, <3>1, BelowLimit
    <3>. QED BY <2>a, <2>2, <3>2
  <2>4. Agree(buf, buf', index)
    <3>1. \A k \in 0 .. index - 1 : k \in 0 .. Capacity - 1 /\ k \notin index .. index + s - 1
      BY <2>2, <2>a
    <3>. QED BY <2>1, <2>2, <3>1 DEF Agree, Stored
  <2>5. ObjectAt(buf', index', index, s, v)
    <3>1. \A k \in index .. index + s - 1 : k \in 0 .. Capacity - 1
      BY <2>2, <2>a
    <3>2. \A k \in index .. index + s - 1 :
            buf'[k] = [size |-> s, part |-> k - index, value |-> v]
      BY <2>1, <2>2, <3>1 DEF Stored
    <3>3. index + s <= index'
      BY <2>a, <2>3
    <3>. QED BY <3>2, <3>3, Zenon DEF ObjectAt
  <2>6. HeldAt(buf', index', Object(s, v), index, index')
    BY <2>3, <2>5 DEF HeldAt
  <2>7. Object(s, v) \in Items
    BY ObjectTyped, Constants
  <2>8. PICK place \in Places(Len(items)) : Layout(buf, index, items, FALSE, place)
    BY <1>2, <2>1 DEF IInv, Followed, Follows
  <2>9. PICK q \in Places(Len(items')) : Layout(buf', index', items', FALSE, q)
    BY <2>1, <2>2, <2>3, <2>4, <2>6, <2>7, <2>8, LayoutGrows
  <2>. QED BY <1>2, <2>1, <2>9, WritesFollowed
<1>. QED BY <1>1, <1>2

\* The bytes of a block, or as many of them as there is room for.
LEMMA BlockStored ==
  ASSUME IInv, phase = "write", Fits(4), NEW d \in Blocks, NEW m \in 0 .. Len(d),
         index + 4 + m <= capacity
  PROVE  LET c == StoredBlock(d, m)
             f == index + 4 + m
         IN  /\ Agree(buf, c, index)
             /\ ObjectAt(c, f, index, 4, Len(d))
             /\ m = Len(d) => BytesAt(c, f, index + 4, d)
<1>. DEFINE b == Stored(buf, index, 4, Len(d))
            c == StoredBlock(d, m)
<1>1. /\ index \in Nat /\ Len(d) \in Nat /\ m \in Nat /\ capacity = Capacity
      /\ Capacity \in Nat /\ DOMAIN buf = 0 .. Capacity - 1
  BY Constants, BlockTyped DEF IInv, Typed, TypeOK, Inside, Indexes
<1>2. /\ DOMAIN b = 0 .. Capacity - 1
      /\ \A k \in 0 .. Capacity - 1 :
           b[k] = IF k \in index .. index + 4 - 1
                  THEN [size |-> 4, part |-> k - index, value |-> Len(d)]
                  ELSE buf[k]
  BY <1>1 DEF Stored
<1>. HIDE DEF b
<1>3. \A k \in 0 .. Capacity - 1 :
        c[k] = IF k \in index + 4 .. index + 3 + m
               THEN [size |-> 1, part |-> 0, value |-> d[k - index - 3]]
               ELSE b[k]
  BY <1>2 DEF StoredBlock, b
<1>. HIDE DEF c
<1>4. Agree(buf, c, index)
  <2>1. \A k \in 0 .. index - 1 : /\ k \in 0 .. Capacity - 1
                                  /\ k \notin index + 4 .. index + 3 + m
                                  /\ k \notin index .. index + 4 - 1
    BY <1>1
  <2>. QED BY <1>2, <1>3, <2>1 DEF Agree
<1>5. ObjectAt(c, index + 4 + m, index, 4, Len(d))
  <2>1. \A k \in index .. index + 4 - 1 : /\ k \in 0 .. Capacity - 1
                                          /\ k \notin index + 4 .. index + 3 + m
    BY <1>1
  <2>2. index + 4 <= index + 4 + m
    BY <1>1
  <2>. QED BY <1>2, <1>3, <2>1, <2>2 DEF ObjectAt
<1>6. ASSUME m = Len(d) PROVE BytesAt(c, index + 4 + m, index + 4, d)
  <2>1. ASSUME NEW k \in index + 4 .. index + 4 + Len(d) - 1
        PROVE  c[k] = [size |-> 1, part |-> 0, value |-> d[k - (index + 4) + 1]]
    <3>1. k \in 0 .. Capacity - 1 /\ k \in index + 4 .. index + 3 + m
          /\ k - (index + 4) + 1 = k - index - 3
      BY <1>1, <1>6
    <3>. QED BY <1>3, <3>1
  <2>2. (index + 4) + Len(d) <= index + 4 + m
    BY <1>1, <1>6
  <2>. QED BY <2>1, <2>2, Zenon DEF BytesAt
<1>. QED BY <1>4, <1>5, <1>6 DEF c

LEMMA WriteBlockKeepsFollowed ==
  ASSUME IInv, NEW d \in Blocks, WriteBlock(d)
  PROVE  Followed'
<1>1. CASE ~ordered
  BY <1>1 DEF WriteBlock, Writes, IInv, Followed
<1>2. CASE ordered
  <2>. DEFINE m == Room(d)
              c == StoredBlock(d, m)
              f == index + 4 + m
  <2>1. /\ phase = "write" /\ torn = FALSE /\ Fits(4) /\ End = index
        /\ buf' = c
        /\ items' = items \o (IF m = Len(d) THEN <<Data(d)>> ELSE <<>>)
        /\ index' = f % IndexLimit
        /\ torn' = (m < Len(d))
        /\ UNCHANGED <<phase, ordered, got, thrown>>
    BY <1>2 DEF WriteBlock, Writes, IInv, Typed, TypeOK, End
  <2>2. /\ index \in Nat /\ capacity = Capacity
        /\ items \in Seq(Items)
        /\ Capacity \in Nat /\ IndexLimit \in Nat /\ Capacity < IndexLimit
        /\ d \in Seq(Values) /\ Len(d) \in 0 .. MaxBlock /\ Len(d) \in Nat
        /\ MaxBlock \in Nat
    BY <2>1, Constants, BlockTyped DEF IInv, Typed, TypeOK, Inside, Indexes
  <2>3. /\ m \in 0 .. Len(d) /\ f <= capacity /\ f \in 0 .. Capacity /\ index <= f
        /\ m # Len(d) => m < Len(d) /\ f = capacity
    <3>1. index + 4 <= capacity
      BY <2>1 DEF Fits
    <3>2. capacity - (index + 4) \in Nat /\ Len(d) \in Nat
      BY <2>2, <3>1
    <3>3. /\ m \in 0 .. Len(d) /\ m <= capacity - (index + 4)
          /\ m # Len(d) => m < Len(d) /\ m = capacity - (index + 4)
      BY <3>2, RoomLeft DEF Room
    <3>. HIDE DEF m
    <3>. QED BY <2>2, <3>1, <3>3
  <2>. HIDE DEF m
  <2>4. index' = f
    <3>1. f \in Nat /\ f < IndexLimit /\ IndexLimit \in Nat /\ index' = f % IndexLimit
      BY <2>1, <2>2, <2>3
    <3>. HIDE DEF f
    <3>. QED BY <3>1, BelowLimit
  <2>5. /\ Agree(buf, c, index)
        /\ ObjectAt(c, f, index, 4, Len(d))
        /\ m = Len(d) => BytesAt(c, f, index + 4, d)
    BY <2>1, <2>3, BlockStored
  <2>6. PICK place \in Places(Len(items)) : Layout(buf, index, items, FALSE, place)
    BY <1>2, <2>1 DEF IInv, Followed, Follows
  <2>. HIDE DEF c, f
  <2>7. CASE m = Len(d)
    <3>1. HeldAt(c, f, Data(d), index, f)
      BY <2>5, <2>7 DEF HeldAt, f
    <3>2. Data(d) \in Items
      BY <2>2 DEF Data, Items
    <3>3. items' = items \o <<Data(d)>> /\ torn' = FALSE
      <4>1. items' = items \o <<Data(d)>>
        BY <2>1, <2>7
      <4>2. (m < Len(d)) = FALSE
        BY <2>2, <2>7
      <4>3. torn' = (m < Len(d))
        BY <2>1
      <4>4. torn' = FALSE
        BY <4>2, <4>3
      <4>. QED BY <4>1, <4>4
    <3>4. PICK q \in Places(Len(items')) : Layout(c, f, items', FALSE, q)
      BY <2>2, <2>3, <2>5, <2>6, <3>1, <3>2, <3>3, LayoutGrows
    <3>. QED BY <1>2, <2>1, <2>4, <3>3, <3>4, WritesFollowed
  <2>8. CASE m # Len(d)
    <3>1. m < Len(d)
      BY <2>2, <2>3, <2>8
    <3>2. index + 4 + Len(d) > f
      BY <2>2, <2>3, <3>1 DEF f
    <3>3. TornAt(c, f, index)
      BY <2>2, <2>5, <3>2 DEF TornAt
    <3>4. items' = items /\ torn' = TRUE
      <4>1. items' = items \o <<>>
        BY <2>1, <2>8
      <4>2. items' = items
        BY <2>2, <4>1
      <4>. QED BY <2>1, <3>1, <4>2
    <3>5. Layout(c, f, items, TRUE, place)
      BY <2>2, <2>3, <2>5, <2>6, <3>3, LayoutTears
    <3>. QED BY <1>2, <2>1, <2>4, <2>6, <3>4, <3>5, WritesFollowed
  <2>. QED BY <2>7, <2>8
<1>. QED BY <1>1, <1>2

\* The state of a reader that has not thrown, its items from place to place.
Reading(place) ==
  /\ phase = "read" /\ thrown = "no" /\ ordered
  /\ place \in Places(Len(items)) /\ Follows(place)

\* Where it stands: before an item, at the end or before a torn block, or behind.
LEMMA ReaderStands ==
  ASSUME IInv, NEW place, Reading(place)
  PROVE  /\ Len(got) \in Nat /\ Len(items) \in Nat
         /\ index \in Nat /\ capacity \in 0 .. Capacity /\ capacity \in Nat
         /\ Len(got) < Len(items) =>
              /\ HeldAt(buf, capacity, items[Len(got) + 1], index, place[Len(got) + 2])
              /\ place[Len(got) + 2] \in 0 .. Capacity
         /\ Len(got) = Len(items) =>
              IF torn THEN TornAt(buf, capacity, index) ELSE index = capacity
         /\ Len(got) > Len(items) => (NoWrap => torn /\ index > capacity)
<1>1. /\ Len(got) \in Nat /\ Len(items) \in Nat
      /\ index \in Nat /\ capacity \in 0 .. Capacity /\ capacity \in Nat
  BY Constants DEF IInv, Typed, TypeOK, Indexes
<1>2. Layout(buf, capacity, items, torn, place) /\ Reader(place)
  BY DEF Reading, Follows, End
<1>3. CASE Len(got) < Len(items)
  <2>1. /\ Len(got) + 1 \in 1 .. Len(items) /\ Len(got) + 2 \in 1 .. Len(items) + 1
        /\ (Len(got) + 1) + 1 = Len(got) + 2
        /\ ~(Len(got) > Len(items)) /\ Len(got) # Len(items)
    BY <1>1, <1>3
  <2>2. index = place[Len(got) + 1]
    BY <1>2, <2>1 DEF Reader, Reading
  <2>3. HeldAt(buf, capacity, items[Len(got) + 1], place[Len(got) + 1],
               place[(Len(got) + 1) + 1])
    BY <1>2, <2>1 DEF Layout
  <2>4. place[Len(got) + 2] \in 0 .. Capacity
    BY <2>1 DEF Reading, Places
  <2>. QED BY <1>1, <2>1, <2>2, <2>3, <2>4
<1>4. CASE Len(got) = Len(items)
  <2>1. ~(Len(got) > Len(items)) /\ ~(Len(got) < Len(items))
    BY <1>1, <1>4
  <2>2. index = place[Len(items) + 1]
    BY <1>2, <1>4, <2>1 DEF Reader, Reading
  <2>3. IF torn THEN TornAt(buf, capacity, index) ELSE index = capacity
    BY <1>2, <2>2 DEF Layout
  <2>. QED BY <1>1, <2>1, <2>3
<1>5. CASE Len(got) > Len(items)
  <2>1. ~(Len(got) <= Len(items)) /\ ~(Len(got) < Len(items)) /\ Len(got) # Len(items)
    BY <1>1, <1>5
  <2>. QED BY <1>1, <1>2, <2>1 DEF Reader
<1>. QED BY <1>1, <1>3, <1>4, <1>5

LEMMA ReaderKeepsMessage ==
  ASSUME NEW place, NEW item, Reading(place), Reads(item), Reader(place)'
  PROVE  Followed'
<1>1. UNCHANGED <<phase, capacity, buf, ordered, items, torn>>
  BY DEF Reads
<1>2. End' = End
  BY <1>1 DEF End, Reading
<1>3. Layout(buf', End', items', torn', place)
  BY <1>1, <1>2 DEF Reading, Follows
<1>. QED BY <1>1, <1>3 DEF Reading, Followed, Follows

\* It reads the item it stands before.
LEMMA ReaderMoves ==
  ASSUME IInv, NEW place, Reading(place), Len(got) < Len(items),
         Reads(<<items[Len(got) + 1]>>),
         index' = place[Len(got) + 2], thrown' = "no"
  PROVE  Followed'
<1>1. got \in Seq(Items) /\ Len(got) \in Nat /\ Len(items) \in Nat
  BY DEF IInv, Typed, TypeOK
<1>2. /\ UNCHANGED <<phase, items>>
      /\ got' = got \o <<items[Len(got) + 1]>>
  BY DEF Reading, Reads
<1>3. /\ Len(got') = Len(got) + 1
      /\ got'[Len(got) + 1] = items[Len(got) + 1]
      /\ \A n \in 1 .. Len(got) : got'[n] = got[n]
  BY <1>1, <1>2
<1>4. ReadsBack
  BY DEF Reading, Follows, Reader
<1>5. ReadsBack'
  <2>1. ASSUME NEW n \in 1 .. Len(got'), n <= Len(items')
        PROVE  got'[n] = items'[n]
    <3>1. n \in 1 .. Len(got) \/ n = Len(got) + 1
      BY <1>1, <1>3
    <3>2. n <= Len(items)
      BY <1>2, <2>1
    <3>. QED BY <1>2, <1>3, <1>4, <3>1, <3>2 DEF ReadsBack
  <2>. QED BY <2>1 DEF ReadsBack
<1>6. Len(got') <= Len(items') /\ index' = place[Len(got') + 1]
  BY <1>1, <1>2, <1>3
<1>7. Reader(place)'
  BY <1>5, <1>6 DEF Reader
<1>. QED BY <1>7, ReaderKeepsMessage

\* It reads nothing and throws.
LEMMA ReaderThrows ==
  ASSUME IInv, NEW place, Reading(place), Reads(<<>>),
         thrown' # "no", thrown' = "range" => Len(got) >= Len(items),
         Len(got) > Len(items) => (NoWrap => torn /\ index' > capacity)
  PROVE  Followed'
<1>1. /\ got \in Seq(Items) /\ Len(got) \in Nat /\ Len(items) \in Nat
      /\ UNCHANGED <<capacity, items, torn>>
      /\ got' = got \o <<>>
  BY DEF IInv, Typed, TypeOK, Reading, Reads
<1>2. got' = got
  BY <1>1
<1>3. ReadsBack'
  BY <1>1, <1>2 DEF ReadsBack, Reading, Follows, Reader
<1>4. CASE Len(got) <= Len(items)
  <2>1. thrown' = "range" => Len(got) = Len(items)
    BY <1>1, <1>4
  <2>2. Reader(place)'
    BY <1>1, <1>2, <1>3, <1>4, <2>1 DEF Reader
  <2>. QED BY <2>2, ReaderKeepsMessage
<1>5. CASE Len(got) > Len(items)
  <2>1. Reader(place)'
    BY <1>1, <1>2, <1>3, <1>5 DEF Reader, NoWrap
  <2>. QED BY <2>1, ReaderKeepsMessage
<1>. QED BY <1>1, <1>4, <1>5

\* It reads more than there is.
LEMMA ReaderLeaves ==
  ASSUME IInv, NEW place, Reading(place), NEW item, Reads(<<item>>),
         Len(got) >= Len(items),
         NoWrap => torn /\ index' > capacity
  PROVE  Followed'
<1>1. /\ got \in Seq(Items) /\ Len(got) \in Nat /\ Len(items) \in Nat
      /\ UNCHANGED <<capacity, items, torn>>
      /\ got' = got \o <<item>>
  BY DEF IInv, Typed, TypeOK, Reading, Reads
<1>2. /\ Len(got') = Len(got) + 1
      /\ \A n \in 1 .. Len(got) : got'[n] = got[n]
  BY <1>1
<1>3. ReadsBack'
  <2>1. ASSUME NEW n \in 1 .. Len(got'), n <= Len(items')
        PROVE  got'[n] = items'[n]
    <3>1. n \in 1 .. Len(got) /\ n <= Len(items)
      BY <1>1, <1>2, <2>1
    <3>. QED BY <1>1, <1>2, <3>1 DEF ReadsBack, Reading, Follows, Reader
  <2>. QED BY <2>1 DEF ReadsBack
<1>4. Len(got') > Len(items')
  BY <1>1, <1>2
<1>5. Reader(place)'
  BY <1>1, <1>3, <1>4 DEF Reader, NoWrap
<1>. QED BY <1>5, ReaderKeepsMessage

\* What NextIs leaves to read: an object of that size, a block, or a torn one.
LEMMA ObjectIsNext ==
  ASSUME IInv, NEW place, Reading(place), NEW s \in Sizes, NextIs(FALSE, s)
  PROVE  /\ Len(got) < Len(items) =>
              \E v \in Values : /\ items[Len(got) + 1] = Object(s, v)
                                /\ place[Len(got) + 2] = index + s
                                /\ ObjectAt(buf, capacity, index, s, v)
         /\ Len(got) = Len(items) => index = capacity
<1>1. /\ Len(got) \in Nat /\ Len(items) \in Nat
      /\ Len(got) < Len(items) =>
           HeldAt(buf, capacity, items[Len(got) + 1], index, place[Len(got) + 2])
      /\ Len(got) = Len(items) => (~torn => index = capacity)
  BY ReaderStands
<1>2. /\ Len(got) + 1 <= Len(items) =>
           "size" \in DOMAIN items[Len(got) + 1] /\ items[Len(got) + 1].size = s
      /\ ~(Len(got) + 1 = Len(items) + 1 /\ torn)
  BY DEF NextIs, Reading
<1>3. ASSUME Len(got) < Len(items)
      PROVE  \E v \in Values : /\ items[Len(got) + 1] = Object(s, v)
                               /\ place[Len(got) + 2] = index + s
                               /\ ObjectAt(buf, capacity, index, s, v)
  <2>1. /\ "size" \in DOMAIN items[Len(got) + 1]
        /\ items[Len(got) + 1].size = s
    BY <1>1, <1>2, <1>3
  <2>2. ASSUME NEW d \in Blocks, items[Len(got) + 1] = Data(d)
        PROVE  FALSE
    BY <2>1, <2>2, KindOfItem
  <2>3. PICK t \in Sizes, v \in Values :
          /\ items[Len(got) + 1] = Object(t, v)
          /\ place[Len(got) + 2] = index + t
          /\ ObjectAt(buf, capacity, index, t, v)
    BY <1>1, <1>3, <2>2 DEF HeldAt
  <2>4. t = s
    BY <2>1, <2>3, KindOfItem
  <2>. QED BY <2>3, <2>4
<1>4. ASSUME Len(got) = Len(items) PROVE index = capacity
  <2>1. ~torn
    BY <1>1, <1>2, <1>4
  <2>. QED BY <1>1, <1>4, <2>1
<1>. QED BY <1>3, <1>4

LEMMA BlockIsNext ==
  ASSUME IInv, NEW place, Reading(place), NEW s \in Sizes, NextIs(TRUE, s)
  PROVE  /\ Len(got) < Len(items) =>
              \E d \in Blocks : /\ items[Len(got) + 1] = Data(d)
                                /\ place[Len(got) + 2] = index + 4 + Len(d)
                                /\ ObjectAt(buf, capacity, index, 4, Len(d))
                                /\ BytesAt(buf, capacity, index + 4, d)
         /\ Len(got) = Len(items) =>
              \/ index = capacity
              \/ torn /\ TornAt(buf, capacity, index)
<1>1. /\ Len(got) \in Nat /\ Len(items) \in Nat
      /\ Len(got) < Len(items) =>
           HeldAt(buf, capacity, items[Len(got) + 1], index, place[Len(got) + 2])
      /\ Len(got) = Len(items) =>
           IF torn THEN TornAt(buf, capacity, index) ELSE index = capacity
  BY ReaderStands
<1>2. Len(got) + 1 <= Len(items) => "data" \in DOMAIN items[Len(got) + 1]
  BY DEF NextIs, Reading
<1>3. ASSUME Len(got) < Len(items)
      PROVE  \E d \in Blocks : /\ items[Len(got) + 1] = Data(d)
                               /\ place[Len(got) + 2] = index + 4 + Len(d)
                               /\ ObjectAt(buf, capacity, index, 4, Len(d))
                               /\ BytesAt(buf, capacity, index + 4, d)
  <2>1. "data" \in DOMAIN items[Len(got) + 1]
    BY <1>1, <1>2, <1>3
  <2>2. ASSUME NEW t \in Sizes, NEW v \in Values, items[Len(got) + 1] = Object(t, v)
        PROVE  FALSE
    BY <2>1, <2>2, KindOfItem
  <2>. QED BY <1>1, <1>3, <2>2 DEF HeldAt
<1>. QED BY <1>1, <1>3

LEMMA ReadObjectKeepsFollowed ==
  ASSUME IInv, NEW s \in Sizes, ReadObject(s) \/ ReadObjectThrows(s)
  PROVE  Followed'
<1>0. ordered \in BOOLEAN /\ phase = "read" /\ thrown = "no" /\ s \in Nat /\ s >= 1
      /\ \E item : Reads(item)
  BY Constants DEF ReadObject, ReadObjectThrows, NextIs, IInv, Typed, TypeOK
<1>1. CASE ~ordered
  BY <1>0, <1>1 DEF Reads, IInv, Followed
<1>2. CASE ordered
  <2>1. PICK place : Reading(place)
    BY <1>0, <1>2 DEF Reading, IInv, Followed
  <2>2. /\ Len(got) \in Nat /\ Len(items) \in Nat
        /\ index \in Nat /\ capacity \in Nat /\ capacity \in 0 .. Capacity
        /\ Capacity \in Nat /\ IndexLimit \in Nat /\ Capacity < IndexLimit
        /\ Len(got) > Len(items) => (NoWrap => torn /\ index > capacity)
    BY <2>1, ReaderStands, Constants
  <2>3. Len(got) < Len(items) \/ Len(got) = Len(items) \/ Len(got) > Len(items)
    BY <2>2
  <2>4. CASE ReadObject(s)
    <3>1. /\ NextIs(FALSE, s) /\ index + s <= capacity
          /\ Reads(<<Object(s, Peek(index, s))>>)
          /\ index' = (index + s) % IndexLimit /\ thrown' = "no"
      BY <2>4, <1>0 DEF ReadObject, Fits
    <3>2. CASE Len(got) < Len(items)
      <4>1. PICK v \in Values : /\ items[Len(got) + 1] = Object(s, v)
                                /\ place[Len(got) + 2] = index + s
                                /\ ObjectAt(buf, capacity, index, s, v)
        BY <2>1, <3>1, <3>2, ObjectIsNext
      <4>2. Peek(index, s) = v
        BY <2>2, <4>1, Constants, PeekObject
      <4>3. (index + s) % IndexLimit = index + s
        <5>1. index + s \in Nat /\ index + s < IndexLimit
          BY <1>0, <2>2, <3>1
        <5>. QED BY <2>2, <5>1, BelowLimit
      <4>. QED BY <2>1, <3>1, <3>2, <4>1, <4>2, <4>3, ReaderMoves
    <3>3. CASE Len(got) = Len(items)
      <4>1. index = capacity
        BY <2>1, <3>1, <3>3, ObjectIsNext
      <4>. QED BY <1>0, <2>2, <3>1, <4>1
    <3>4. CASE Len(got) > Len(items)
      <4>1. ~(index > capacity)
        BY <1>0, <2>2, <3>1
      <4>2. ~NoWrap /\ Len(got) >= Len(items)
        BY <2>2, <3>4, <4>1
      <4>. QED BY <2>1, <3>1, <4>2, ReaderLeaves
    <3>. QED BY <2>3, <3>2, <3>3, <3>4
  <2>5. CASE ReadObjectThrows(s)
    <3>1. /\ NextIs(FALSE, s) \/ (s = 4 /\ NextIs(TRUE, s))
          /\ ~(index + s <= capacity) /\ Reads(<<>>)
          /\ index' = index /\ thrown' = "range"
      BY <2>5 DEF ReadObjectThrows, Fits
    <3>2. CASE Len(got) < Len(items)
      <4>1. \E v : ObjectAt(buf, capacity, index, s, v)
        BY <2>1, <3>1, <3>2, ObjectIsNext, BlockIsNext
      <4>. QED BY <3>1, <4>1 DEF ObjectAt
    <3>3. CASE ~(Len(got) < Len(items))
      <4>1. Len(got) >= Len(items)
        BY <2>2, <3>3
      <4>2. Len(got) > Len(items) => (NoWrap => torn /\ index' > capacity)
        BY <2>2, <3>1
      <4>. QED BY <2>1, <3>1, <4>1, <4>2, ReaderThrows
    <3>. QED BY <3>2, <3>3
  <2>. QED BY <2>4, <2>5
<1>. QED BY <1>0, <1>1, <1>2

\* The length of a block that is there, whole or torn.
LEMMA LengthIsRight ==
  ASSUME IInv, NEW place, Reading(place), NEW n \in Nat, LengthIs(n)
  PROVE  /\ Len(got) < Len(items) =>
              \E d \in Blocks : /\ items[Len(got) + 1] = Data(d) /\ n = Len(d)
                                /\ place[Len(got) + 2] = index + 4 + n
                                /\ index + 4 + n <= capacity
                                /\ BytesAhead(n) = d
         /\ Len(got) = Len(items) => torn /\ index + 4 + n > capacity
         /\ Len(got) > Len(items) => ~NoWrap
<1>1. NextIs(TRUE, 4) /\ index + 4 <= capacity
      /\ (n = Peek(index, 4) \/ Peek(index, 4) = Junk)
  BY DEF LengthIs, Fits
<1>2. /\ index \in Nat /\ capacity \in Nat /\ 4 \in Sizes /\ 4 \in Nat
      /\ Len(got) > Len(items) => (NoWrap => torn /\ index > capacity)
  BY ReaderStands DEF Sizes
<1>3. ASSUME NEW m \in Numbers, ObjectAt(buf, capacity, index, 4, m)
      PROVE  n = m
  <2>1. Peek(index, 4) = m
    BY <1>2, <1>3, PeekObject
  <2>. QED BY <1>1, <2>1, Constants
<1>4. ASSUME Len(got) < Len(items)
      PROVE  \E d \in Blocks : /\ items[Len(got) + 1] = Data(d) /\ n = Len(d)
                               /\ place[Len(got) + 2] = index + 4 + n
                               /\ index + 4 + n <= capacity
                               /\ BytesAhead(n) = d
  <2>1. PICK d \in Blocks : /\ items[Len(got) + 1] = Data(d)
                            /\ place[Len(got) + 2] = index + 4 + Len(d)
                            /\ ObjectAt(buf, capacity, index, 4, Len(d))
                            /\ BytesAt(buf, capacity, index + 4, d)
    BY <1>1, <1>2, <1>4, BlockIsNext
  <2>2. n = Len(d)
    BY <1>3, <2>1, BlockTyped
  <2>3. BytesAhead(n) = d
    BY <1>2, <2>1, <2>2, BlockAhead
  <2>4. index + 4 + n <= capacity
    BY <2>1, <2>2 DEF BytesAt
  <2>. QED BY <2>1, <2>2, <2>3, <2>4
<1>5. ASSUME Len(got) = Len(items) PROVE torn /\ index + 4 + n > capacity
  <2>1. torn /\ TornAt(buf, capacity, index)
    <3>1. index # capacity
      BY <1>1, <1>2
    <3>. QED BY <1>1, <1>2, <1>5, <3>1, BlockIsNext
  <2>2. PICK m \in 0 .. MaxBlock : /\ ObjectAt(buf, capacity, index, 4, m)
                                   /\ index + 4 + m > capacity
    BY <2>1 DEF TornAt
  <2>3. n = m
    BY <1>3, <2>2, Constants
  <2>. QED BY <2>1, <2>2, <2>3
<1>6. ASSUME Len(got) > Len(items) PROVE ~NoWrap
  <2>1. ~(index > capacity)
    BY <1>1, <1>2
  <2>. QED BY <1>2, <1>6, <2>1
<1>. QED BY <1>4, <1>5, <1>6

\* What the three ways to read a block share: the whole block is read where it is
\* whole, it is not read where it is torn, and anything may be behind that.
LEMMA BlockReadFollowed ==
  ASSUME IInv, NEW place, Reading(place), NEW n \in Nat, LengthIs(n),
         \/ /\ Reads(<<Data(BytesAhead(n))>>) /\ thrown' = "no"
            /\ index' = (index + 4 + n) % IndexLimit
            /\ index + 4 + n <= capacity \/ n <= capacity
         \/ /\ Reads(<<>>) /\ thrown' = "room"
         \/ /\ Reads(<<>>) /\ thrown' = "range"
            /\ index + 4 + n > capacity
  PROVE  Followed'
<1>1. /\ Len(got) \in Nat /\ Len(items) \in Nat
      /\ index \in Nat /\ capacity \in Nat /\ capacity <= Capacity
      /\ Capacity \in Nat /\ IndexLimit \in Nat /\ Capacity < IndexLimit
      /\ index + 4 <= capacity
  BY ReaderStands, Constants DEF LengthIs, Fits
<1>2. Len(got) < Len(items) \/ Len(got) = Len(items) \/ Len(got) > Len(items)
  BY <1>1
<1>3. CASE Len(got) < Len(items)
  <2>1. /\ items[Len(got) + 1] = Data(BytesAhead(n))
        /\ place[Len(got) + 2] = index + 4 + n
        /\ index + 4 + n <= capacity
    BY <1>3, LengthIsRight
  <2>2. (index + 4 + n) % IndexLimit = index + 4 + n
    <3>1. index + 4 + n \in Nat /\ index + 4 + n < IndexLimit
      BY <1>1, <2>1
    <3>. QED BY <1>1, <3>1, BelowLimit
  <2>3. ~(index + 4 + n > capacity) /\ ~(Len(got) > Len(items))
    BY <1>1, <1>3, <2>1
  <2>4. CASE Reads(<<>>) /\ thrown' = "room"
    BY <2>3, <2>4, ReaderThrows
  <2>5. CASE /\ Reads(<<Data(BytesAhead(n))>>) /\ thrown' = "no"
             /\ index' = (index + 4 + n) % IndexLimit
    BY <1>3, <2>1, <2>2, <2>5, ReaderMoves
  <2>. QED BY <2>3, <2>4, <2>5
<1>4. CASE Len(got) = Len(items)
  <2>1. torn /\ index + 4 + n > capacity
    BY <1>4, LengthIsRight
  <2>2. Len(got) >= Len(items) /\ ~(Len(got) > Len(items))
    BY <1>1, <1>4
  <2>3. CASE Reads(<<>>) /\ thrown' \in {"room", "range"}
    BY <2>2, <2>3, ReaderThrows
  <2>4. CASE /\ Reads(<<Data(BytesAhead(n))>>) /\ thrown' = "no"
             /\ index' = (index + 4 + n) % IndexLimit
             /\ index + 4 + n <= capacity \/ n <= capacity
    <3>1. n <= capacity
      BY <1>1, <2>4
    <3>2. ASSUME NoWrap PROVE index' > capacity
      <4>1. index + 4 + n \in Nat /\ index + 4 + n < IndexLimit
        BY <1>1, <3>1, <3>2 DEF NoWrap
      <4>2. index' = index + 4 + n
        BY <1>1, <2>4, <4>1, BelowLimit
      <4>. QED BY <2>1, <4>2
    <3>. QED BY <2>1, <2>2, <2>4, <3>2, ReaderLeaves
  <2>. QED BY <2>3, <2>4
<1>5. CASE Len(got) > Len(items)
  <2>1. ~NoWrap /\ Len(got) >= Len(items)
    BY <1>1, <1>5, LengthIsRight
  <2>2. CASE Reads(<<>>) /\ thrown' \in {"room", "range"}
    BY <2>1, <2>2, ReaderThrows
  <2>3. CASE Reads(<<Data(BytesAhead(n))>>)
    BY <2>1, <2>3, ReaderLeaves
  <2>. QED BY <2>2, <2>3
<1>. QED BY <1>2, <1>3, <1>4, <1>5

LEMMA ReadBlockKeepsFollowed ==
  ASSUME IInv, NEW n \in 0 .. IndexLimit, NEW room,
         ReadBlock(n, room) \/ ReadBlockNoRoom(n, room) \/ ReadDataPointer(n)
  PROVE  Followed'
<1>0. /\ LengthIs(n) /\ phase = "read" /\ thrown = "no" /\ ordered \in BOOLEAN
      /\ n \in Nat /\ \E item : Reads(item)
  BY Constants DEF ReadBlock, ReadBlockNoRoom, ReadDataPointer, LengthIs, NextIs,
                   IInv, Typed, TypeOK
<1>1. CASE ~ordered
  BY <1>0, <1>1 DEF Reads, IInv, Followed
<1>2. CASE ordered
  <2>1. PICK place : Reading(place)
    BY <1>0, <1>2 DEF Reading, IInv, Followed
  <2>2. /\ index \in Nat /\ capacity \in Nat /\ index + 4 <= capacity
    BY <1>0, <2>1, ReaderStands DEF LengthIs, Fits
  <2>3. CASE ReadBlock(n, room)
    <3>. DEFINE m == Min2(n, capacity - (index + 4))
    <3>1. /\ Reads(IF m = n THEN <<Data(BytesAhead(n))>> ELSE <<>>)
          /\ thrown' = IF m = n THEN "no" ELSE "range"
          /\ index' = (index + 4 + m) % IndexLimit
      BY <2>3 DEF ReadBlock
    <3>2. capacity - (index + 4) \in Nat
      BY <2>2
    <3>3. m <= capacity - (index + 4) /\ (m # n => m < n /\ m = capacity - (index + 4))
      BY <1>0, <3>2, RoomLeft
    <3>. HIDE DEF m
    <3>4. CASE m = n
      <4>1. index + 4 + n <= capacity
        BY <1>0, <2>2, <3>3, <3>4
      <4>. QED BY <1>0, <2>1, <3>1, <3>4, <4>1, BlockReadFollowed
    <3>5. CASE m # n
      <4>1. index + 4 + n > capacity
        BY <1>0, <2>2, <3>3, <3>5
      <4>. QED BY <1>0, <2>1, <3>1, <3>5, <4>1, BlockReadFollowed
    <3>. QED BY <3>4, <3>5
  <2>4. CASE ReadBlockNoRoom(n, room)
    <3>1. Reads(<<>>) /\ thrown' = "room"
      BY <2>4 DEF ReadBlockNoRoom
    <3>. QED BY <1>0, <2>1, <3>1, BlockReadFollowed
  <2>5. CASE ReadDataPointer(n)
    <3>1. CASE n <= capacity
      <4>1. /\ Reads(<<Data(BytesAhead(n))>>) /\ thrown' = "no"
            /\ index' = (index + 4 + n) % IndexLimit
        BY <1>0, <2>5, <3>1 DEF ReadDataPointer
      <4>. QED BY <1>0, <2>1, <3>1, <4>1, BlockReadFollowed
    <3>2. CASE ~(n <= capacity)
      <4>1. Reads(<<>>) /\ thrown' = "range"
        BY <2>5, <3>2 DEF ReadDataPointer
      <4>2. index + 4 + n > capacity
        BY <1>0, <2>2, <3>2
      <4>. QED BY <1>0, <2>1, <4>1, <4>2, BlockReadFollowed
    <3>. QED BY <3>1, <3>2
  <2>. QED BY <2>3, <2>4, <2>5
<1>. QED BY <1>0, <1>1, <1>2

\* Nothing happens.
LEMMA StutterKeepsFollowed ==
  ASSUME Followed, UNCHANGED vars
  PROVE  Followed'
<1>1. UNCHANGED <<phase, capacity, buf, index, ordered, items, torn, got, thrown>>
  BY DEF vars, streamVars, historyVars
<1>2. End' = End
  BY <1>1 DEF End
<1>3. ASSUME NEW place, Follows(place) PROVE Follows(place)'
  BY <1>1, <1>2, <1>3 DEF Follows, Reader, ReadsBack
<1>. QED BY <1>1, <1>3 DEF Followed

LEMMA NextKeepsIInv == IInv /\ [Next]_vars => IInv'
<1>. SUFFICES ASSUME IInv, [Next]_vars PROVE IInv'
  OBVIOUS
<1>0. Typed'
  BY NextKeepsTyped DEF IInv
<1>1. ASSUME NEW s \in Sizes, NEW v \in Values, WriteObject(s, v) PROVE Followed'
  BY <1>0, <1>1, WriteKeepsFollowed
<1>2. ASSUME NEW s \in Sizes, ReadObject(s) \/ ReadObjectThrows(s) PROVE Followed'
  BY <1>2, ReadObjectKeepsFollowed
<1>3. ASSUME NEW d \in Blocks, WriteBlock(d) PROVE Followed'
  BY <1>3, WriteBlockKeepsFollowed
<1>4. ASSUME Send PROVE Followed'
  BY <1>4, SendKeepsFollowed
<1>5. ASSUME NEW n \in 0 .. IndexLimit, NEW room,
             ReadBlock(n, room) \/ ReadBlockNoRoom(n, room) \/ ReadDataPointer(n)
      PROVE  Followed'
  BY <1>5, ReadBlockKeepsFollowed
<1>6. ASSUME Reset PROVE Followed'
  BY <1>6, ResetKeepsFollowed
<1>7. ASSUME NEW off \in Indexes, SeekBeg(off) \/ SeekCur(off) PROVE Followed'
  BY <1>7, SeekKeepsFollowed DEF SeekBeg, SeekCur
<1>8. ASSUME UNCHANGED vars PROVE Followed'
  BY <1>8, StutterKeepsFollowed DEF IInv
<1>a. \E room \in {MaxBlock - 1, IndexLimit} : TRUE
  OBVIOUS
<1>9. Followed'
  BY <1>1, <1>2, <1>3, <1>4, <1>5, <1>6, <1>7, <1>8, <1>a DEF Next
<1>. QED BY <1>0, <1>9 DEF IInv

\* While a message is written and read without moving the cursor by hand, there is
\* a list of places at which its objects lie end to end, up to where the writer
\* stopped; the reader stands at the next of them (write_object, read_object).
THEOREM MessageFollowed == Spec => []IInv
<1>1. Init => IInv
  BY InitTyped, InitFollowed DEF IInv
<1>. QED BY <1>1, NextKeepsIInv, PTL DEF Spec

\* What is read is what was written, item by item, for streams of any length and
\* cursors of any width (write_object, write_data and their readers), also where
\* the bytes stop in the middle of a block.
THEOREM StreamReadsBack == Spec => []ReadsBack
<1>1. IInv => ReadsBack
  <2>. SUFFICES ASSUME IInv PROVE ReadsBack
    OBVIOUS
  <2>1. CASE ordered
    BY <2>1 DEF IInv, Followed, Follows, Reader
  <2>2. CASE ~ordered
    <3>1. Len(got) = 0
      BY <2>2 DEF IInv, Followed
    <3>. QED BY <3>1 DEF ReadsBack
  <2>. QED BY <2>1, <2>2
<1>. QED BY <1>1, MessageFollowed, PTL

\* A message ends where its writer stopped (stored_length), for every stream whose
\* cursor does not wrap around over twice its capacity: no read throws before the
\* last complete item, and none returns after it but read_data_pointer of a
\* torn block.
THEOREM MessageEndsWhereWritten ==
  ASSUME NoWrap
  PROVE  Spec => []EndsWhereWritten
<1>1. IInv => EndsWhereWritten
  <2>. SUFFICES ASSUME IInv PROVE EndsWhereWritten
    OBVIOUS
  <2>0. Len(got) \in Nat /\ Len(items) \in Nat
    BY DEF IInv, Typed, TypeOK
  <2>1. CASE ordered
    BY <2>0, <2>1 DEF IInv, Followed, Follows, Reader, EndsWhereWritten
  <2>2. CASE ~ordered
    <3>1. Len(got) = 0 /\ Len(items) = 0
      BY <2>2 DEF IInv, Followed
    <3>. QED BY <3>1 DEF EndsWhereWritten
  <2>. QED BY <2>1, <2>2
<1>. QED BY <1>1, MessageFollowed, PTL
=============================================================================
