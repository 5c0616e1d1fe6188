-------------------------------- MODULE Quf ---------------------------------
(***************************************************************************)
(* The QUF snapshot of src/quf.c: a writer lays out the arrays a host owns *)
(* in a buffer, storage may damage the header, and a reader checks the     *)
(* header and points into the same buffer, which the writer may use again. *)
(*                                                                         *)
(* Sizes and offsets are the program's, in bytes.  Memory is a function    *)
(* from block numbers (Align bytes each) to what the block holds: the      *)
(* header, nothing, or one part of one array of one generation of the      *)
(* host's data.  Strings and byte encodings are left out.                  *)
(***************************************************************************)
EXTENDS Integers, SequencesExt

CONSTANTS
  Shape,           \* the snapshots hosts write: see ShapeType
  Version,         \* generations of the host's data
  Null,            \* a NULL pointer
  SizeMod,         \* 2 ^ the width of an offset
  KvMod,           \* 2 ^ the width of a value in the metadata
  CountMod,        \* 2 ^ the width of cell_count and edge_count
  KMod,            \* 2 ^ the width of edge_k
  LastBlock,       \* bound on the blocks of a buffer
  Garbage,         \* the numbers a damaged field may hold, before its width
  MaxDamage        \* bound on the damaged fields of one file

Align == 32
DialRow == 32
EdgeStruct == 28   \* sizeof(quilt_quf_edge_row_t), 8 buckets
EdgeFixed == 12    \* an edge row before its buckets
KDefault == 8
MaxSections == 8   \* QUILT_QUF_MAX_SECTIONS
HeaderBytes == 16 + 108
FrontBytes(n) == HeaderBytes + 4 + n * 29      \* with n section entries
ReservedBytes(n) == HeaderBytes + 4 + n * 56   \* what the writer sets aside

ShapeType == [cells : 0 .. CountMod - 1, edges : 0 .. CountMod - 1, k : 1 .. KMod - 1,
              proof : Nat \cup {Null}]     \* the bytes of the PROOF chain

(* The buffer, and the rows a metadata value can announce, are far smaller  *)
(* than a 64-bit offset can say; what a damaged field says is any number.   *)
ASSUME QufAssumption ==
  /\ CountMod \in Nat \ {0} /\ KMod \in Nat /\ KDefault \in 1 .. KMod - 1
  /\ KvMod \in Nat \ {0} /\ Garbage \subseteq Nat
  /\ Shape \subseteq ShapeType
  /\ LastBlock \in Nat /\ MaxDamage \in Nat
  /\ SizeMod \in Nat /\ (LastBlock + 1) * Align < SizeMod
  /\ KvMod * DialRow < SizeMod /\ KvMod * (EdgeFixed + 2 * KMod) < SizeMod

VARIABLES
  mem,             \* the buffer: [0 .. LastBlock -> block]
  buf_len,         \* the bytes of the file in it, 0 when there is none
  written,         \* history: the shape and version last serialized
  damage,          \* history: header fields changed since then
  reader           \* the quilt_quf_t last filled by deserialize, or Null; its
                   \* size, front and len are history: what the call was told

qufVars == <<mem, buf_len, written, damage, reader>>

Name == {"dials", "edges", "ticks", "proof"}

AlignUp(n) == ((n + Align - 1) \div Align) * Align

(* A mutated form of the next definition: a bucket takes one byte. *)
EdgeRowOfBytes(k) == EdgeFixed + k

EdgeRow(k) == EdgeFixed + 2 * k

(* The bytes of a section. *)
Size(shape, name) ==
  CASE name = "dials" -> shape.cells * DialRow
    [] name = "edges" -> shape.edges * EdgeRow(shape.k)
    [] name = "ticks" -> shape.cells * 4
    [] name = "proof" -> shape.proof

SectionNames(shape) ==
  IF shape.proof = Null THEN <<"dials", "edges", "ticks">>
  ELSE <<"dials", "edges", "ticks", "proof">>

-----------------------------------------------------------------------------
(* The sections, each padded to whole blocks, and where the first starts. *)
Padded(shape) ==
  FoldLeft(LAMBDA n, name : n + AlignUp(Size(shape, name)), 0, SectionNames(shape))

Payload(shape) == AlignUp(ReservedBytes(Len(SectionNames(shape))))

(* A mutated form of the next definition: sections are not padded. *)
SizeOfUnpadded(shape) ==
  LET names == SectionNames(shape)
      size  == FoldLeft(LAMBDA n, name : n + Size(shape, name), 0, names)
  IN  AlignUp(Payload(shape) + IF size = 0 THEN Align ELSE size)

(* quilt_quf_sizeof *)
SizeOf(shape) ==
  AlignUp(Payload(shape) + IF Padded(shape) = 0 THEN Align ELSE Padded(shape))

Offsets(shape) ==
  LET names == SectionNames(shape)
      off[i \in 1 .. Len(names)] ==
        IF i = 1 THEN Payload(shape) ELSE AlignUp(off[i - 1] + Size(shape, names[i - 1]))
  IN  off

(* A mutated form of the next definition: offsets are not aligned. *)
PackedSections(shape) ==
  LET names == SectionNames(shape)
      off[i \in 1 .. Len(names)] ==
        IF i = 1 THEN Payload(shape) ELSE off[i - 1] + Size(shape, names[i - 1])
  IN  [i \in 1 .. Len(names) |->
         [name |-> names[i], offset |-> off[i], size |-> Size(shape, names[i])]]

(* The section table quilt_quf_serialize writes. *)
Sections(shape) ==
  LET names == SectionNames(shape)
      off   == Offsets(shape)
  IN  [i \in 1 .. Len(names) |->
         [name |-> names[i], offset |-> off[i], size |-> Size(shape, names[i])]]

FileLen(shape) ==
  LET last == Last(Sections(shape)) IN AlignUp(last.offset + last.size)

Header(shape) ==
  [sound |-> TRUE, cells |-> shape.cells, edges |-> shape.edges, k |-> shape.k,
   front |-> FrontBytes(Len(SectionNames(shape))), sections |-> Sections(shape)]

Blank == [name |-> "blank"]

(* Block b of a file with these sections: the header, a part of a section,  *)
(* or padding.                                                             *)
Image(shape, sections, version, b) ==
  LET at == {s \in sections : s.offset <= b * Align /\ b * Align < s.offset + s.size}
  IN  IF b = 0 THEN Header(shape)
      ELSE IF at = {} THEN Blank
      ELSE LET s == CHOOSE s \in at : TRUE
           IN  [name |-> s.name, version |-> version, part |-> b - s.offset \div Align,
                size |-> s.size]

Serialize(shape, version, buf_cap) ==
  /\ SizeOf(shape) <= buf_cap
  /\ mem' = LET sections == ToSet(Sections(shape))
                len      == FileLen(shape)
            IN  [b \in 0 .. LastBlock |->
                   IF b * Align < len THEN Image(shape, sections, version, b) ELSE mem[b]]
  /\ buf_len' = FileLen(shape)
  /\ written' = [shape |-> shape, version |-> version]
  /\ damage' = 0
  /\ UNCHANGED reader

-----------------------------------------------------------------------------
(* Storage changes one field of the header, to whatever number its bytes    *)
(* now hold: the magic or another word that must be right, a value of the   *)
(* metadata, the place where parsing ends, or the name, the offset or the   *)
(* size of a section.  A smaller section count cuts the table; a larger one *)
(* reads an entry out of the zeros that follow it.  A damaged length shifts *)
(* what is read after it, which is several such changes.                    *)
Cut(h, n) == [h EXCEPT !.front = FrontBytes(n), !.sections = SubSeq(h.sections, 1, n)]

Grown(h) ==
  [h EXCEPT !.front = FrontBytes(Len(h.sections) + 1),
            !.sections = Append(h.sections, [name |-> "other", offset |-> 0, size |-> 0])]

DamagedValue(h) ==
  {[h EXCEPT !.cells = n % KvMod] : n \in Garbage}
  \cup {[h EXCEPT !.edges = n % KvMod] : n \in Garbage}
  \cup {[h EXCEPT !.k = n % KvMod] : n \in Garbage}

DamagedSection(h, i) ==
  {[h EXCEPT !.sections[i].offset = n % SizeMod] : n \in Garbage}
  \cup {[h EXCEPT !.sections[i].size = n % SizeMod] : n \in Garbage}
  \cup {[h EXCEPT !.sections[i].name = n] : n \in Name \cup {"other"}}

Damaged(h) ==
  {[h EXCEPT !.sound = FALSE], Grown(h)}
  \cup {Cut(h, n) : n \in 0 .. Len(h.sections)}
  \cup {[h EXCEPT !.front = n] : n \in Garbage}
  \cup DamagedValue(h)
  \cup UNION {DamagedSection(h, i) : i \in DOMAIN h.sections}

Damage ==
  /\ buf_len # 0 /\ damage < MaxDamage
  /\ \E h \in Damaged(mem[0]) : mem' = [mem EXCEPT ![0] = h]
  /\ damage' = damage + 1
  /\ UNCHANGED <<buf_len, written, reader>>

(* R1 to R9 as quilt_quf_deserialize checks them, for a file of len bytes.  *)
(* The sum of an offset and a size is taken modulo 2 ^ 64.                  *)
KOf(h) == IF h.k = 0 THEN KDefault ELSE h.k % KMod

Expected(h, s) ==
  CASE s.name = "dials" -> h.cells * DialRow
    [] s.name = "edges" -> h.edges * EdgeRow(KOf(h))
    [] s.name = "ticks" -> h.cells * 4
    [] OTHER -> s.size                             \* proof, or unknown

(* A mutated form of the next definition: the end of a section is not       *)
(* compared with the end of the file.                                      *)
AcceptsTruncated(h, len) ==
  /\ h.sound /\ len % Align = 0 /\ h.front <= len /\ Len(h.sections) <= MaxSections
  /\ \A s \in ToSet(h.sections) :
       /\ s.offset % Align = 0 /\ s.offset >= h.front
       /\ s.size = Expected(h, s)

Accepts(h, len) ==
  /\ h.sound /\ len % Align = 0 /\ h.front <= len /\ Len(h.sections) <= MaxSections
  /\ \A s \in ToSet(h.sections) :
       /\ s.offset % Align = 0 /\ s.offset >= h.front
       /\ (s.offset + s.size) % SizeMod <= len
       /\ s.size = Expected(h, s)

(* Of two sections with one name the later one counts. *)
Counted(h, name) == {i \in DOMAIN h.sections : h.sections[i].name = name}

Pointer(h, name) ==
  IF Counted(h, name) = {} THEN Null ELSE h.sections[Max(Counted(h, name))].offset

Announced(h, name) ==
  IF Counted(h, name) = {} THEN Null ELSE h.sections[Max(Counted(h, name))].size

(* Any number of bytes of the buffer may be passed: a file that was cut, or *)
(* one followed by what was there before.                                   *)
Deserialize(len) ==
  /\ buf_len # 0 /\ Accepts(mem[0], len)
  /\ reader' = [shape |-> [cells |-> mem[0].cells % CountMod, edges |-> mem[0].edges % CountMod,
                           k |-> KOf(mem[0]), proof |-> Announced(mem[0], "proof")],
                at |-> [name \in Name |-> Pointer(mem[0], name)],
                size |-> [name \in Name |-> Announced(mem[0], name)],
                front |-> mem[0].front, len |-> len]
  /\ UNCHANGED <<mem, buf_len, written, damage>>

(* The reader's program frees or resets its struct. *)
FreeReader == reader' = Null /\ UNCHANGED <<mem, buf_len, written, damage>>

QufInit ==
  /\ mem = [b \in 0 .. LastBlock |-> Blank] /\ buf_len = 0
  /\ written = Null /\ damage = 0
  /\ reader = Null

QufNext ==
  \/ \E shape \in Shape, v \in Version : Serialize(shape, v, (LastBlock + 1) * Align)
  \/ Damage
  \/ \E blocks \in 1 .. LastBlock + 1, odd \in {0, 1} : Deserialize(blocks * Align - odd)
  \/ FreeReader

QufSpec == QufInit /\ [][QufNext]_qufVars

-----------------------------------------------------------------------------
(* What a program finds behind the reader's pointers: the rows its counts   *)
(* announce, at the sizes of the structs it declares.                       *)
RowBytes(r, name) ==
  IF name = "edges" THEN r.shape.edges * EdgeStruct ELSE Size(r.shape, name)

Shows(r, name, version) ==
  \/ RowBytes(r, name) = 0
  \/ \A part \in 0 .. (RowBytes(r, name) - 1) \div Align :
       LET b == r.at[name] \div Align + part
       IN  /\ b <= LastBlock
           /\ mem[b].name = name /\ mem[b].version = version
           /\ mem[b].part = part /\ RowBytes(r, name) <= mem[b].size

(* Every file a writer leaves in the buffer is one a reader accepts, and as *)
(* long as sizeof announced, which asks for one block too many only when    *)
(* there is nothing to write.                                              *)
WrittenIsAccepted ==
  buf_len # 0 /\ damage = 0 =>
    /\ Accepts(mem[0], buf_len)
    /\ LET s == written.shape
           idle == s.cells = 0 /\ s.edges = 0 /\ s.proof \in {Null, 0}
       IN  buf_len = SizeOf(s) - IF idle THEN Align ELSE 0

(* A reader whose counts are those of the intact file in the buffer sees    *)
(* what the writer last put there, also when that happened after it loaded. *)
ReaderSeesWritten ==
  reader # Null /\ written # Null /\ damage = 0 /\ reader.shape = written.shape
    /\ reader.at = [name \in Name |-> Pointer(mem[0], name)] =>
      \A name \in ToSet(SectionNames(written.shape)) : Shows(reader, name, written.version)

(* Whatever was damaged, cut off or left over: the rows an accepted header  *)
(* announces lie behind what was parsed and inside the bytes passed in, or  *)
(* else the announced section runs past the end of the address space.  That *)
(* much is accepted: the sum at quf.c:390 wraps, so that one damaged offset *)
(* just below 2 ^ 64 leaves a pointer far outside the file.                 *)
RowsAreInside ==
  reader # Null =>
    \A name \in Name : reader.at[name] # Null =>
      /\ reader.at[name] >= reader.front
      /\ \/ reader.at[name] + Size(reader.shape, name) <= reader.len
         \/ reader.at[name] + reader.size[name] >= SizeMod
=============================================================================
