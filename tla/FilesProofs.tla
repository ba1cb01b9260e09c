----------------------------- MODULE FilesProofs ------------------------------
(***************************************************************************)
(* Proofs about the descriptor calls under Programs, for every image and   *)
(* table size and any calls, lengths and command lines.                    *)
(***************************************************************************)
EXTENDS Programs, NatLemmas, SequenceTheorems, FiniteSetTheorems

\* The size of a block.
B == TOTAL_BLOCK_SIZE
FileDesc == [flags : Type \cup {"empty"}, inode : Nat, file_position : Nat]
Entries == Range(dentries) \cup {NoDentry}
Data == Seq(Byte \cup Name)

\* Descriptor p of the entry e, from which s has been read.
StreamOf(p, e, s) ==
  /\ e \in Range(dentries) /\ p.flags = e.file_type
  /\ p.flags # "rtc" => p.file_position = Len(s)
  /\ p.flags = "rtc" => ValidFrequency(p.inode)
  /\ p.flags = "file" =>
       /\ p.inode = e.inode_number
       /\ Len(s) <= inodes[p.inode].size
       /\ \A i \in 1 .. Len(s) : s[i] = Contents(p.inode)[i]
  /\ p.flags = "dir" =>
       /\ Len(s) <= Len(dentries)
       /\ \A i \in 1 .. Len(s) : s[i] = dentries[i].file_name

Typed ==
  /\ program \in Name \cup {NoName}
  /\ file_descriptor \in [FD -> FileDesc]
  /\ opened \in [FD -> Entries]
  /\ got \in [FD -> Data]

Good(fd) ==
  file_descriptor[fd].flags # "empty" => StreamOf(file_descriptor[fd], opened[fd], got[fd])

\* A program's number of kept bytes is a number.
ClientTyped == "last" \in DOMAIN client /\ client.last \in Int

IInv == Typed /\ ClientTyped /\ (Runs => \A fd \in FD : Good(fd))
-----------------------------------------------------------------------------
(* Blocks and places.                                                        *)

\* The quotient of a sum from that of its first part.
LEMMA Split ==
  ASSUME NEW b \in Nat \ {0}, NEW o \in Nat, NEW i \in Nat
  PROVE  /\ o \div b + ((o % b) + i) \div b = (o + i) \div b
         /\ ((o % b) + i) % b = (o + i) % b
<1>1. o \div b \in Nat /\ o % b \in 0 .. b - 1 /\ o = b * (o \div b) + (o % b)
  BY DivMod
<1>2. PICK m \in Nat : m = (o % b) + i
  BY <1>1
<1>3. m \div b \in Nat /\ m % b \in 0 .. b - 1 /\ m = b * (m \div b) + (m % b)
  BY DivMod
<1>4. PICK n \in Nat : n = o + i
  OBVIOUS
<1>5. n \div b \in Nat /\ n % b \in 0 .. b - 1 /\ n = b * (n \div b) + (n % b)
  BY DivMod
<1>6. PICK q \in Nat, k \in Nat, j \in Nat : q = o \div b /\ k = m \div b /\ j = n \div b
  BY <1>1, <1>3, <1>5
<1>7. b * (q + k) = b * q + b * k
  OBVIOUS
<1>8. b * q \in Int /\ b * k \in Int /\ b * j \in Int
  OBVIOUS
<1>9. b * (q + k) + (m % b) = b * j + (n % b)
  BY <1>1, <1>2, <1>3, <1>4, <1>5, <1>6, <1>7, <1>8
<1>10. q + k = j /\ m % b = n % b
  BY <1>3, <1>5, <1>9, Unique
<1> QED BY <1>2, <1>4, <1>6, <1>10

\* A number below b * n has a quotient below n.
LEMMA QuotientBelow ==
  ASSUME NEW b \in Nat \ {0}, NEW n \in Nat, NEW a \in Nat, a < n * b
  PROVE  a \div b < n
<1>1. PICK q \in Nat, r \in 0 .. b - 1 : q = a \div b /\ a = b * q + r
  BY DivMod
<1>2. ASSUME q >= n PROVE FALSE
  <2>1. PICK d \in Nat : q = n + d
    <3>1. q - n \in Nat /\ q = n + (q - n)
      BY <1>2
    <3> QED BY <3>1
  <2>2. b * q = n * b + b * d
    BY <2>1
  <2>3. b * d >= 0 /\ b * d \in Int /\ n * b \in Int /\ b * q \in Int
    OBVIOUS
  <2> QED BY <1>1, <2>2, <2>3
<1> QED BY <1>1, <1>2

\* Byte i + 1 after the offset is byte offset + i + 1 of the file.
LEMMA Located ==
  ASSUME NEW o \in Nat, NEW i \in Nat
  PROVE  BlockOf(o, i) = (o + i) \div B /\ PlaceOf(o, i) = (o + i) % B
<1>1. B \in Nat \ {0}
  BY ImageAssumption DEF B
<1>2. /\ o \div B + ((o % B) + i) \div B = (o + i) \div B
      /\ ((o % B) + i) % B = (o + i) % B
  BY <1>1, Split
<1> QED BY <1>2 DEF BlockOf, PlaceOf, B

\* The file k has the bytes that its size says, all from its blocks.
LEMMA FileFacts ==
  ASSUME NEW k \in Inode
  PROVE  /\ inodes[k].size \in Nat /\ k \in Nat /\ k % INODE_LIMIT = k
         /\ Contents(k) \in Seq(Byte) /\ Len(Contents(k)) = inodes[k].size
         /\ \A i \in 1 .. inodes[k].size :
              Contents(k)[i] = blocks[inodes[k].blocks[(i - 1) \div B + 1]][(i - 1) % B]
<1>1. inodes[k].size \in Nat /\ inodes[k].blocks \in Seq(DOMAIN blocks)
      /\ inodes[k].size <= Len(inodes[k].blocks) * B /\ B \in Nat \ {0}
  BY ImageAssumption DEF B
<1>2. k \in Nat /\ k % INODE_LIMIT = k
  <2>1. PICK n \in 1 .. 256 : Inode = 0 .. n - 1
    BY ImageAssumption DEF INODE_LIMIT
  <2> QED BY <2>1 DEF INODE_LIMIT
<1>3. ASSUME NEW i \in 1 .. inodes[k].size
      PROVE  blocks[inodes[k].blocks[(i - 1) \div B + 1]][(i - 1) % B] \in Byte
  <2>1. PICK a \in Nat : a = i - 1
    BY <1>1
  <2>2. PICK q \in Nat, r \in 0 .. B - 1 : q = a \div B /\ r = a % B
    BY <1>1, DivMod
  <2>3. Len(inodes[k].blocks) \in Nat
    BY <1>1, LenProperties
  <2>4. q < Len(inodes[k].blocks)
    <3>1. PICK n \in Nat : n = Len(inodes[k].blocks)
      BY <2>3
    <3>2. n * B \in Nat /\ a < n * B
      BY <1>1, <2>1, <3>1
    <3>3. a \div B < n
      BY <1>1, <3>2, QuotientBelow
    <3> QED BY <2>2, <3>1, <3>3
  <2>5. q + 1 \in 1 .. Len(inodes[k].blocks)
    BY <2>3, <2>4
  <2>6. inodes[k].blocks[q + 1] \in DOMAIN blocks
    BY <1>1, <2>5, ElementOfSeq
  <2>7. blocks[inodes[k].blocks[q + 1]][r] \in Byte
    BY <2>2, <2>6, ImageAssumption DEF B
  <2> QED BY <2>1, <2>2, <2>7
<1>4. Contents(k) = [i \in 1 .. inodes[k].size |->
                       blocks[inodes[k].blocks[(i - 1) \div B + 1]][(i - 1) % B]]
  BY DEF Contents, B
<1>5. Contents(k) \in [1 .. inodes[k].size -> Byte]
  BY <1>3, <1>4
<1>6. Contents(k) \in Seq(Byte) /\ Len(Contents(k)) = inodes[k].size
  BY <1>1, <1>5, LenProperties
<1> QED BY <1>1, <1>2, <1>4, <1>6

\* For every image, offset and length read_data delivers the bytes of the file from
\* the offset on, and no others, wherever blocks begin and end.
THEOREM ReadData ==
  ASSUME NEW k \in Inode, NEW o \in Nat, NEW n \in Nat, o <= inodes[k].size
  PROVE  /\ read_data(k, o, n) \in Seq(Byte)
         /\ Len(read_data(k, o, n)) = IF n < inodes[k].size - o THEN n ELSE inodes[k].size - o
         /\ \A i \in 1 .. Len(read_data(k, o, n)) : read_data(k, o, n)[i] = Contents(k)[o + i]
<1> DEFINE size == inodes[k].size
           count == IF n < size - o THEN n ELSE size - o
<1>1. size \in Nat /\ count \in Nat /\ count <= size - o
  BY FileFacts
<1>2. read_data(k, o, n) =
        [i \in 1 .. count |-> blocks[inodes[k].blocks[BlockOf(o, i - 1) + 1]][PlaceOf(o, i - 1)]]
  <2>1. (IF size - o <= 0 THEN 0 ELSE count) = count
    BY <1>1
  <2> QED BY <2>1 DEF read_data
<1> HIDE DEF size, count
<1>3. ASSUME NEW i \in 1 .. count
      PROVE  /\ blocks[inodes[k].blocks[BlockOf(o, i - 1) + 1]][PlaceOf(o, i - 1)] =
                  Contents(k)[o + i]
             /\ Contents(k)[o + i] \in Byte
  <2>1. i - 1 \in Nat /\ o + i \in 1 .. size /\ o + (i - 1) = (o + i) - 1
    BY <1>1
  <2>2. BlockOf(o, i - 1) = ((o + i) - 1) \div B /\ PlaceOf(o, i - 1) = ((o + i) - 1) % B
    BY <2>1, Located
  <2>3. Contents(k)[o + i] = blocks[inodes[k].blocks[((o + i) - 1) \div B + 1]][((o + i) - 1) % B]
    BY <2>1, FileFacts DEF size
  <2>4. Contents(k)[o + i] \in Byte
    BY <2>1, FileFacts, ElementOfSeq DEF size
  <2> QED BY <2>2, <2>3, <2>4
<1>4. read_data(k, o, n) \in [1 .. count -> Byte]
  BY <1>2, <1>3
<1>5. read_data(k, o, n) \in Seq(Byte) /\ Len(read_data(k, o, n)) = count
  BY <1>1, <1>4, LenProperties
<1>6. \A i \in 1 .. count : read_data(k, o, n)[i] = Contents(k)[o + i]
  BY <1>2, <1>3
<1> QED BY <1>5, <1>6 DEF count, size

-----------------------------------------------------------------------------
(* Names and the lookups.                                                    *)

\* No entry has an empty name.
LEMMA NameFacts ==
  /\ NoName \notin Name
  /\ Len(dentries) \in Nat /\ DOMAIN dentries = 1 .. Len(dentries)
  /\ \A e \in Range(dentries) :
       /\ e \in {dentries[i] : i \in DOMAIN dentries}
       /\ e # NoDentry /\ e.file_name \in Name /\ e.file_type \in Type /\ e.inode_number \in Inode
<1>1. Len(dentries) \in Nat /\ DOMAIN dentries = 1 .. Len(dentries)
  BY ImageAssumption, LenProperties
<1>2. Len(NoName) = 0
  BY EmptySeq DEF NoName
<1>3. ASSUME NEW i \in DOMAIN dentries PROVE dentries[i].file_name # NoName
  BY <1>2, ImageAssumption
<1>4. NoName \notin Name
  BY <1>3 DEF Name
<1>5. \A e \in Range(dentries) : e \in {dentries[i] : i \in DOMAIN dentries}
  BY DEF Range
<1>6. ASSUME NEW i \in DOMAIN dentries
      PROVE  /\ dentries[i] # NoDentry /\ dentries[i].file_name \in Name
             /\ dentries[i].file_type \in Type /\ dentries[i].inode_number \in Inode
  <2>1. NoDentry.file_name = NoName
    BY DEF NoDentry
  <2>2. dentries[i] # NoDentry
    BY <1>3, <2>1
  <2> QED BY <2>2, ImageAssumption DEF Name
<1> QED BY <1>1, <1>4, <1>5, <1>6

\* read_dentry_by_name finds an entry of the image or none.
LEMMA ByName ==
  ASSUME NEW name
  PROVE  read_dentry_by_name(name) \in Range(dentries) \cup {NoDentry}
<1> DEFINE seen == IF Len(name) > FILENAME_LEN THEN SubSeq(name, 1, FILENAME_LEN) ELSE name
           found == {i \in DOMAIN dentries : dentries[i].file_name = seen}
<1> HIDE DEF seen
<1>1. CASE found = {}
  BY <1>1 DEF read_dentry_by_name, seen
<1>2. CASE found # {}
  <2>1. found \subseteq Nat /\ found \subseteq DOMAIN dentries
    BY NameFacts
  <2>2. \E i \in found : \A j \in found : i <= j
    BY <1>2, <2>1, LeastNat
  <2>3. (CHOOSE i \in found : \A j \in found : i <= j) \in DOMAIN dentries
    <3> HIDE DEF found
    <3> QED BY <2>1, <2>2
  <2>4. dentries[CHOOSE i \in found : \A j \in found : i <= j] \in Range(dentries)
    BY <2>3 DEF Range
  <2> QED BY <2>4 DEF read_dentry_by_name, seen
<1> QED BY <1>1, <1>2

LEMMA ByIndex ==
  ASSUME NEW i \in Nat
  PROVE  /\ Found(read_dentry_by_index(i)) <=> i < Len(dentries)
         /\ i < Len(dentries) => /\ read_dentry_by_index(i) = dentries[i + 1]
                                 /\ dentries[i + 1].file_name \in Name
<1>1. ASSUME i < Len(dentries)
      PROVE  i + 1 \in DOMAIN dentries /\ dentries[i + 1] \in Range(dentries)
  <2>1. i + 1 \in DOMAIN dentries
    BY <1>1, NameFacts
  <2> QED BY <2>1 DEF Range
<1> QED BY <1>1, NameFacts DEF read_dentry_by_index, Found
-----------------------------------------------------------------------------
(* The calls.                                                                *)

LEMMA FDFacts == FD \subseteq Nat /\ 0 \notin FD /\ STDOUT \notin FD /\ -1 \notin FD
BY DescriptorAssumption DEF FD, STDOUT

\* A file is opened at its start.
LEMMA OpenFacts ==
  ASSUME Typed, NEW name, sys_open(file_descriptor, name).ret # -1
  PROVE  LET r == sys_open(file_descriptor, name)
             e == read_dentry_by_name(name)
         IN  /\ r.ret \in FD /\ r.table = [file_descriptor EXCEPT ![r.ret] = Entry(e)]
             /\ e \in Range(dentries) /\ Entry(e) \in FileDesc /\ StreamOf(Entry(e), e, <<>>)
<1> DEFINE t == file_descriptor
           e == read_dentry_by_name(name)
           fd == CHOOSE f \in FreeFDs(t) : \A g \in FreeFDs(t) : f <= g
<1>1. Fails(t).ret = -1
  BY DEF Fails
<1>2. Found(e) /\ FreeFDs(t) # {}
      /\ sys_open(t, name) = [ret |-> fd, data |-> <<>>, table |-> [t EXCEPT ![fd] = Entry(e)]]
  BY <1>1 DEF sys_open
<1>3. fd \in FD
  <2>1. FreeFDs(t) \subseteq Nat /\ FreeFDs(t) \subseteq FD
    BY FDFacts DEF FreeFDs
  <2>2. \E f \in FreeFDs(t) : \A g \in FreeFDs(t) : f <= g
    BY <1>2, <2>1, LeastNat
  <2> QED BY <2>1, <2>2
<1>4. e \in Range(dentries)
  BY <1>2, ByName DEF Found
<1>5. /\ Entry(e) \in FileDesc /\ Entry(e).flags = e.file_type /\ Entry(e).file_position = 0
      /\ e.file_type = "file" => Entry(e).inode = e.inode_number
      /\ e.file_type = "rtc" => Entry(e).inode = 2
  <2>1. e.file_type \in Type /\ e.inode_number \in Nat
    BY <1>4, NameFacts, FileFacts
  <2> HIDE DEF e
  <2> QED BY <2>1 DEF Entry, FileDesc, Type
<1>6. StreamOf(Entry(e), e, <<>>)
  <2>1. ValidFrequency(2)
    <3>1. 2 = 2^1
      OBVIOUS
    <3> QED BY <3>1, DescriptorAssumption DEF ValidFrequency
  <2>2. Len(<<>>) = 0
    BY EmptySeq
  <2>3. e.file_type = "file" => inodes[e.inode_number].size \in Nat
    BY <1>4, NameFacts, FileFacts
  <2> QED BY <1>4, <1>5, <2>1, <2>2, <2>3, NameFacts DEF StreamOf
<1> QED BY <1>2, <1>3, <1>4, <1>5, <1>6

\* What a stream has delivered stays the start of its file, or of the directory.
LEMMA ReadFacts ==
  ASSUME Typed, NEW fd, NEW n \in Int, sys_read(file_descriptor, fd, n).ret # -1,
         fd \in FD => Good(fd)
  PROVE  LET r == sys_read(file_descriptor, fd, n)
         IN  /\ fd \in FD /\ r.ret \in Int
             /\ \E p \in FileDesc :
                  /\ r.table = [file_descriptor EXCEPT ![fd] = p]
                  /\ got[fd] \o r.data \in Data
                  /\ StreamOf(p, opened[fd], got[fd] \o r.data)
<1> DEFINE t == file_descriptor
           r == sys_read(t, fd, n)
           s == got[fd]
<1>1. Fails(t).ret = -1
  BY DEF Fails
<1>2. fd \in FD /\ n \in Nat /\ t[fd].flags # "empty" /\ IsOpen(t, fd)
  BY <1>1 DEF sys_read, IsOpen
<1>3. StreamOf(t[fd], opened[fd], s) /\ t[fd] \in FileDesc /\ s \in Data
  BY <1>2 DEF Good, Typed
<1>4. PICK e \in Range(dentries) : e = opened[fd]
  BY <1>3 DEF StreamOf
<1>5. Len(s) \in Nat /\ s \o <<>> = s
  BY <1>3, LenProperties, ConcatEmptySeq DEF Data
<1>6. CASE t[fd].flags = "rtc"
  <2>1. r = [ret |-> 0, data |-> <<>>, table |-> t]
    BY <1>2, <1>6 DEF sys_read
  <2>2. t = [t EXCEPT ![fd] = t[fd]]
    BY DEF Typed
  <2> QED BY <1>2, <1>3, <1>5, <2>1, <2>2
<1>7. CASE t[fd].flags = "file"
  <2>1. r = file_read(t, fd, n)
    BY <1>2, <1>7 DEF sys_read
  <2>2. PICK k \in Inode : k = t[fd].inode
    BY <1>3, <1>4, <1>7, NameFacts DEF StreamOf
  <2> DEFINE d == read_data(k, Len(s), n)
  <2>3. /\ k % INODE_LIMIT = k /\ t[fd].file_position = Len(s) /\ Len(s) <= inodes[k].size
        /\ inodes[k].size \in Nat
    BY <1>3, <1>7, <2>2, FileFacts DEF StreamOf
  <2>4. /\ d \in Seq(Byte) /\ Len(d) \in Nat /\ Len(s) + Len(d) <= inodes[k].size
        /\ \A i \in 1 .. Len(d) : d[i] = Contents(k)[Len(s) + i]
    <3>1. /\ d \in Seq(Byte)
          /\ Len(d) = IF n < inodes[k].size - Len(s) THEN n ELSE inodes[k].size - Len(s)
      BY <1>2, <1>5, <2>3, ReadData
    <3>2. \A i \in 1 .. Len(d) : d[i] = Contents(k)[Len(s) + i]
      BY <1>2, <1>5, <2>3, ReadData
    <3> HIDE DEF d
    <3> QED BY <1>2, <1>5, <2>3, <3>1, <3>2
  <2>5. r.ret = Len(d) /\ r.data = d /\ r.table = [t EXCEPT ![fd].file_position = @ + Len(d)]
    <3>1. t[fd].inode % INODE_LIMIT = k /\ t[fd].file_position = Len(s)
      BY <2>2, <2>3
    <3>2. file_read(t, fd, n) =
            [ret |-> Len(d), data |-> d, table |-> [t EXCEPT ![fd].file_position = @ + Len(d)]]
      BY <3>1 DEF file_read
    <3> QED BY <2>1, <3>2
  <2> HIDE DEF d
  <2> DEFINE p == [t[fd] EXCEPT !.file_position = Len(s) + Len(d)]
  <2>6. r.table = [t EXCEPT ![fd] = p]
    BY <2>3, <2>5
  <2>7. p \in FileDesc /\ p.flags = "file" /\ p.inode = k /\ p.file_position = Len(s) + Len(d)
    BY <1>3, <1>5, <1>7, <2>2, <2>4 DEF FileDesc
  <2>8. s \in Seq(Byte \cup Name) /\ d \in Seq(Byte \cup Name)
    BY <1>3, <2>4, SeqMonotonic DEF Data
  <2>9. /\ s \o d \in Data /\ Len(s \o d) = Len(s) + Len(d)
        /\ \A i \in 1 .. Len(s) + Len(d) : (s \o d)[i] = IF i <= Len(s) THEN s[i] ELSE d[i - Len(s)]
    BY <2>8, ConcatProperties DEF Data
  <2>10. \A i \in 1 .. Len(s) : s[i] = Contents(k)[i]
    BY <1>3, <1>7, <2>2 DEF StreamOf
  <2>11. \A i \in 1 .. Len(s) + Len(d) : (s \o d)[i] = Contents(k)[i]
    <3>1. TAKE i \in 1 .. Len(s) + Len(d)
    <3>2. CASE i <= Len(s)
      BY <1>5, <2>4, <2>9, <2>10, <3>2
    <3>3. CASE i > Len(s)
      <4>1. i - Len(s) \in 1 .. Len(d) /\ Len(s) + (i - Len(s)) = i
        <5>1. PICK l \in Nat, m \in Nat : l = Len(s) /\ m = Len(d)
          BY <1>5, <2>4
        <5>2. i \in 1 .. l + m /\ i > l
          BY <3>1, <3>3, <5>1
        <5>3. i - l \in 1 .. m /\ l + (i - l) = i
          BY <5>2
        <5> QED BY <5>1, <5>3
      <4>2. (s \o d)[i] = d[i - Len(s)]
        BY <1>5, <2>4, <2>9, <3>3
      <4> QED BY <2>4, <4>1, <4>2
    <3> QED BY <1>5, <2>4, <3>2, <3>3
  <2>12. e.file_type = "file" /\ k = e.inode_number
    BY <1>3, <1>4, <1>7, <2>2 DEF StreamOf
  <2> HIDE DEF p
  <2>13. StreamOf(p, e, s \o d)
    BY <2>4, <2>7, <2>9, <2>11, <2>12 DEF StreamOf
  <2> QED BY <1>2, <1>4, <2>4, <2>5, <2>6, <2>7, <2>9, <2>13
<1>8. CASE t[fd].flags = "dir"
  <2>1. r = dir_read(t, fd, n)
    BY <1>2, <1>8 DEF sys_read
  <2>2. t[fd].file_position = Len(s) /\ Len(s) <= Len(dentries) /\ e.file_type = "dir"
    BY <1>3, <1>4, <1>8 DEF StreamOf
  <2> DEFINE next == read_dentry_by_index(Len(s))
  <2>3. CASE ~Found(next) \/ n = 0
    <3>1. r.ret = 0 /\ r.data = <<>> /\ r.table = [t EXCEPT ![fd].file_position = @ + 0]
      <4>1. read_dentry_by_index(t[fd].file_position) = next
        BY <2>2
      <4>2. (IF Found(next) THEN n ELSE 0) = 0
        BY <2>3
      <4> HIDE DEF next
      <4>3. dir_read(t, fd, n) =
              [ret |-> 0, data |-> <<>>,
               table |-> [t EXCEPT ![fd].file_position = @ + PositionStep(0)]]
        BY <4>1, <4>2 DEF dir_read
      <4> QED BY <2>1, <4>3 DEF PositionStep
    <3>2. r.table = [t EXCEPT ![fd] = t[fd]]
      <4>1. [t[fd] EXCEPT !.file_position = @ + 0] = t[fd]
        BY <1>3 DEF FileDesc
      <4> QED BY <3>1, <4>1
    <3> QED BY <1>2, <1>3, <1>5, <3>1, <3>2
  <2>4. CASE Found(next) /\ n # 0
    <3>1. /\ next = dentries[Len(s) + 1] /\ Len(s) < Len(dentries)
          /\ dentries[Len(s) + 1].file_name \in Name
      BY <1>5, <2>4, ByIndex
    <3>2. PICK name \in Name : name = dentries[Len(s) + 1].file_name
      BY <3>1
    <3> DEFINE p == [t[fd] EXCEPT !.file_position = Len(s) + 1]
    <3>3. r.ret = n /\ r.data = <<name>> /\ r.table = [t EXCEPT ![fd].file_position = @ + 1]
      BY <1>2, <2>1, <2>2, <2>4, <3>1, <3>2 DEF dir_read, PositionStep
    <3>4. r.table = [t EXCEPT ![fd] = p]
      BY <2>2, <3>3
    <3>5. p \in FileDesc /\ p.flags = "dir" /\ p.file_position = Len(s) + 1
      BY <1>3, <1>5, <1>8 DEF FileDesc
    <3>6. PICK d \in Seq(Byte \cup Name) : d = <<name>> /\ Len(d) = 1 /\ d[1] = name
      <4>1. PICK c \in Byte \cup Name : c = name
        BY <3>2
      <4>2. <<c>> \in Seq(Byte \cup Name) /\ Len(<<c>>) = 1 /\ <<c>>[1] = c
        OBVIOUS
      <4> QED BY <4>1, <4>2
    <3>7. /\ s \o d \in Data /\ Len(s \o d) = Len(s) + 1
          /\ \A i \in 1 .. Len(s) + 1 : (s \o d)[i] = IF i <= Len(s) THEN s[i] ELSE d[i - Len(s)]
      BY <1>3, <3>6, ConcatProperties DEF Data
    <3>8. \A i \in 1 .. Len(s) : s[i] = dentries[i].file_name
      BY <1>3, <1>8 DEF StreamOf
    <3>9. \A i \in 1 .. Len(s) + 1 : (s \o d)[i] = dentries[i].file_name
      <4>1. TAKE i \in 1 .. Len(s) + 1
      <4>2. CASE i <= Len(s)
        BY <1>5, <3>7, <3>8, <4>2
      <4>3. CASE i > Len(s)
        <5>1. PICK l \in Nat : l = Len(s)
          BY <1>5
        <5>2. i \in 1 .. l + 1 /\ i > l
          BY <4>1, <4>3, <5>1
        <5>3. i = l + 1 /\ i - l = 1
          BY <5>2
        <5>4. (s \o d)[i] = d[1]
          BY <3>7, <4>3, <5>1, <5>2, <5>3
        <5>5. name = dentries[i].file_name
          BY <3>2, <5>1, <5>3
        <5>6. d[1] = name
          BY <3>6
        <5> QED BY <5>4, <5>5, <5>6, Zenon
      <4>4. PICK l \in Nat : l = Len(s)
        BY <1>5
      <4>5. i <= Len(s) \/ i > Len(s)
        BY <4>1, <4>4
      <4> QED BY <4>2, <4>3, <4>5, Zenon
    <3> HIDE DEF p
    <3>10. StreamOf(p, e, s \o d)
      BY <1>5, <2>2, <3>1, <3>5, <3>7, <3>9, NameFacts DEF StreamOf
    <3>11. r.data = d
      BY <3>3, <3>6
    <3> QED BY <1>2, <1>4, <3>3, <3>4, <3>5, <3>7, <3>10, <3>11
  <2> QED BY <2>3, <2>4
<1> QED BY <1>2, <1>3, <1>6, <1>7, <1>8 DEF FileDesc, Type

-----------------------------------------------------------------------------
(* The steps.                                                                *)

\* A call changes one descriptor at most.
LEMMA OneChanges ==
  ASSUME IInv, Runs, ClientTyped', program' = program,
         NEW fd \in FD, NEW p \in FileDesc, NEW e \in Entries, NEW s \in Data,
         p.flags # "empty" => StreamOf(p, e, s),
         file_descriptor' = [file_descriptor EXCEPT ![fd] = p],
         opened' = [opened EXCEPT ![fd] = e], got' = [got EXCEPT ![fd] = s]
  PROVE  IInv'
<1>1. Typed'
  BY DEF IInv, Typed
<1>2. ASSUME NEW f \in FD PROVE Good(f)'
  BY DEF IInv, Typed, Good
<1> QED BY <1>1, <1>2 DEF IInv

LEMMA SameInv ==
  ASSUME IInv, UNCHANGED vars, ClientTyped'
  PROVE  IInv'
<1>1. Typed' /\ (Runs' <=> Runs)
  BY DEF IInv, Typed, vars, Runs
<1>2. ASSUME NEW f, Good(f) PROVE Good(f)'
  BY <1>2 DEF Good, vars
<1> QED BY <1>1, <1>2 DEF IInv

LEMMA SysOpenInv ==
  ASSUME IInv, Runs, ClientTyped', NEW name, SysOpen(name)
  PROVE  IInv'
<1>1. /\ sys_open(file_descriptor, name).ret # -1
      /\ file_descriptor' = sys_open(file_descriptor, name).table /\ program' = program
      /\ opened' = [opened EXCEPT ![sys_open(file_descriptor, name).ret] =
                     read_dentry_by_name(name)]
      /\ got' = [got EXCEPT ![sys_open(file_descriptor, name).ret] = <<>>]
  BY DEF SysOpen, Call
<1>2. PICK fd \in FD : fd = sys_open(file_descriptor, name).ret
  BY <1>1, OpenFacts DEF IInv
<1>3. PICK e \in Range(dentries) : e = read_dentry_by_name(name)
  BY <1>1, OpenFacts DEF IInv
<1>4. /\ file_descriptor' = [file_descriptor EXCEPT ![fd] = Entry(e)]
      /\ Entry(e) \in FileDesc /\ StreamOf(Entry(e), e, <<>>)
  BY <1>1, <1>2, <1>3, OpenFacts DEF IInv
<1>5. e \in Entries /\ <<>> \in Data
  BY EmptySeq DEF Entries, Data
<1> QED BY <1>1, <1>2, <1>3, <1>4, <1>5, OneChanges

LEMMA SysCloseInv ==
  ASSUME IInv, Runs, ClientTyped', NEW fd, SysClose(fd)
  PROVE  IInv'
<1>1. Fails(file_descriptor).ret = -1
  BY DEF Fails
<1>2. /\ fd \in FD /\ program' = program
      /\ file_descriptor' = [file_descriptor EXCEPT ![fd] = Empty]
      /\ opened' = [opened EXCEPT ![fd] = NoDentry] /\ got' = [got EXCEPT ![fd] = <<>>]
  BY <1>1 DEF SysClose, Call, sys_close, IsOpen
<1>3. Empty \in FileDesc /\ Empty.flags = "empty" /\ NoDentry \in Entries /\ <<>> \in Data
  BY EmptySeq DEF Empty, FileDesc, Entries, Data
<1> QED BY <1>2, <1>3, OneChanges

LEMMA SysReadInv ==
  ASSUME IInv, Runs, ClientTyped', NEW fd, NEW n \in Int, SysRead(fd, n)
  PROVE  IInv'
<1>1. /\ sys_read(file_descriptor, fd, n).ret # -1
      /\ file_descriptor' = sys_read(file_descriptor, fd, n).table
      /\ program' = program /\ opened' = opened
      /\ got' = IF fd \in FD
                THEN [got EXCEPT ![fd] = got[fd] \o sys_read(file_descriptor, fd, n).data]
                ELSE got
  BY DEF SysRead, Call, IInv, Typed
<1>2. /\ fd \in FD
      /\ \E p \in FileDesc :
           /\ sys_read(file_descriptor, fd, n).table = [file_descriptor EXCEPT ![fd] = p]
           /\ got[fd] \o sys_read(file_descriptor, fd, n).data \in Data
           /\ StreamOf(p, opened[fd], got[fd] \o sys_read(file_descriptor, fd, n).data)
  BY <1>1, ReadFacts DEF IInv
<1>3. PICK p \in FileDesc, s \in Data :
           /\ s = got[fd] \o sys_read(file_descriptor, fd, n).data
           /\ file_descriptor' = [file_descriptor EXCEPT ![fd] = p]
           /\ StreamOf(p, opened[fd], s)
  BY <1>1, <1>2
<1>4. got' = [got EXCEPT ![fd] = s]
  BY <1>1, <1>2, <1>3
<1>5. PICK e \in Entries : e = opened[fd] /\ opened' = [opened EXCEPT ![fd] = e]
  <2>1. opened \in [FD -> Entries] /\ fd \in FD /\ opened' = opened
    BY <1>1, <1>2 DEF IInv, Typed
  <2> QED BY <2>1
<1>6. fd \in FD /\ program' = program
  BY <1>1, <1>2
<1>7. /\ file_descriptor' = [file_descriptor EXCEPT ![fd] = p]
      /\ opened' = [opened EXCEPT ![fd] = e] /\ StreamOf(p, e, s)
  BY <1>3, <1>5
<1> QED BY <1>4, <1>6, <1>7, OneChanges

LEMMA SysWriteInv ==
  ASSUME IInv, Runs, ClientTyped', NEW fd, NEW f \in Int, SysWrite(fd, f)
  PROVE  IInv'
<1>1. Fails(file_descriptor).ret = -1
  BY DEF Fails
<1>2. /\ sys_write(file_descriptor, fd, f, 4).ret # -1
      /\ file_descriptor' = sys_write(file_descriptor, fd, f, 4).table
      /\ UNCHANGED <<line, program, arg_buffer, opened, got>>
  BY DEF SysWrite, Call
<1>3. CASE fd = STDOUT
  <2>1. file_descriptor' = file_descriptor
    <3>1. ~(4 < 0)
      OBVIOUS
    <3>2. fd \notin FD
      BY <1>3, FDFacts
    <3>3. sys_write(file_descriptor, fd, f, 4) =
            [ret |-> 4, data |-> <<>>, table |-> file_descriptor]
      BY <1>3, <3>1, <3>2 DEF sys_write, IsOpen
    <3> QED BY <1>2, <3>3
  <2> QED BY <1>2, <2>1, SameInv DEF vars
<1>4. CASE fd # STDOUT
  <2>1. /\ IsOpen(file_descriptor, fd) /\ file_descriptor[fd].flags = "rtc" /\ ValidFrequency(f)
        /\ file_descriptor' = [file_descriptor EXCEPT ![fd].inode = f]
    BY <1>1, <1>2, <1>4 DEF sys_write
  <2>2. fd \in FD
    BY <2>1 DEF IsOpen
  <2>3. f \in Nat
    <3>1. RTC_MIN <= f
      BY <2>1 DEF ValidFrequency
    <3> QED BY <3>1, DescriptorAssumption
  <2>4. PICK p \in FileDesc : p = [file_descriptor[fd] EXCEPT !.inode = f]
    BY <2>2, <2>3 DEF IInv, Typed, FileDesc
  <2>5. file_descriptor' = [file_descriptor EXCEPT ![fd] = p] /\ p.flags = "rtc" /\ p.inode = f
    BY <2>1, <2>2, <2>4 DEF IInv, Typed, FileDesc
  <2>6. PICK e \in Entries, s \in Data : /\ e = opened[fd] /\ opened' = [opened EXCEPT ![fd] = e]
                                        /\ s = got[fd] /\ got' = [got EXCEPT ![fd] = s]
    BY <1>2, <2>2 DEF IInv, Typed
  <2>7. StreamOf(p, e, s)
    <3>1. StreamOf(file_descriptor[fd], opened[fd], got[fd])
      BY <2>1, <2>2 DEF IInv, Good
    <3>2. e \in Range(dentries) /\ e.file_type = "rtc"
      BY <2>1, <2>6, <3>1 DEF StreamOf
    <3> QED BY <2>1, <2>5, <3>2 DEF StreamOf
  <2>8. program' = program /\ opened' = [opened EXCEPT ![fd] = e] /\ got' = [got EXCEPT ![fd] = s]
    BY <1>2, <2>6
  <2>9. file_descriptor' = [file_descriptor EXCEPT ![fd] = p]
    BY <2>5
  <2> QED BY <2>2, <2>7, <2>8, <2>9, OneChanges
<1> QED BY <1>3, <1>4

LEMMA ExecuteInv ==
  ASSUME IInv, ClientTyped', NEW typed, NEW stack, SysExecute(typed, stack)
  PROVE  IInv' /\ \A fd \in FD : ~IsOpen(file_descriptor, fd)'
<1> DEFINE e == read_dentry_by_name(prog_name(WithoutNewline(typed)))
<1>1. Found(e) /\ program' = e.file_name /\ file_descriptor' = TableOfNewProcess
      /\ opened' = opened /\ got' = got
  BY DEF SysExecute
<1>2. e \in Range(dentries)
  BY <1>1, ByName DEF Found
<1>3. program' \in Name
  BY <1>1, <1>2, NameFacts
<1>4. /\ file_descriptor' \in [FD -> FileDesc]
      /\ \A fd \in FD : file_descriptor'[fd].flags = "empty"
  BY <1>1 DEF TableOfNewProcess, IInv, Typed, FileDesc
<1>5. IInv'
  BY <1>1, <1>3, <1>4 DEF IInv, Typed, Good
<1> QED BY <1>4, <1>5 DEF IsOpen

LEMMA HaltInv ==
  ASSUME IInv, ClientTyped', SysHalt
  PROVE  IInv' /\ ~Runs'
<1>1. Empty \in FileDesc /\ NoDentry \in Entries /\ <<>> \in Data
  BY EmptySeq DEF Empty, FileDesc, Entries, Data
<1>2. Typed' /\ program' = NoName
  BY <1>1 DEF SysHalt, IInv, Typed
<1> QED BY <1>2 DEF IInv, Runs

LEMMA FishRowInv ==
  ASSUME IInv, ClientTyped', FishRow
  PROVE  IInv'
<1> DEFINE fds == {fd \in FD : \/ client.eof[1] /\ fd = client.fd0
                               \/ client.eof[2] /\ fd = client.fd1}
<1>1. /\ file_descriptor' = [fd \in FD |-> IF fd \in fds THEN Empty ELSE file_descriptor[fd]]
      /\ opened' = [fd \in FD |-> IF fd \in fds THEN NoDentry ELSE opened[fd]]
      /\ got' = [fd \in FD |-> IF fd \in fds THEN <<>> ELSE got[fd]]
      /\ program' = program
  BY DEF FishRow
<1> HIDE DEF fds
<1>2. Empty \in FileDesc /\ Empty.flags = "empty" /\ NoDentry \in Entries /\ <<>> \in Data
  BY EmptySeq DEF Empty, FileDesc, Entries, Data
<1>3. Typed'
  BY <1>1, <1>2 DEF IInv, Typed
<1>4. ASSUME NEW fd \in FD, Runs PROVE Good(fd)'
  <2>1. CASE fd \in fds
    BY <1>1, <1>2, <2>1 DEF Good
  <2>2. CASE fd \notin fds
    BY <1>1, <1>4, <2>2 DEF Good, IInv
  <2> QED BY <2>1, <2>2
<1> QED BY <1>1, <1>3, <1>4 DEF IInv, Runs

-----------------------------------------------------------------------------
(* The programs.                                                             *)

LEMMA ClientRuns ==
  ASSUME NEW p \in {Cat, Ls, Grep, Fish}, NEW pc, At(p, pc)
  PROVE  Runs
BY ProgramsAssumption, NameFacts DEF At, Runs

\* A client moves on in its memory, and keeps no more or less.
LEMMA MovesTyped ==
  ASSUME ClientTyped, NEW c, NEW out, Moves(c, out),
         "last" \in DOMAIN c /\ c.last \in Int
  PROVE  ClientTyped'
BY DEF Moves, ClientTyped

LEMMA NewClientTyped ==
  ASSUME NEW g, client' = Client(g)
  PROVE  ClientTyped'
BY DEF Client, ClientTyped

LEMMA DoneInv ==
  ASSUME IInv, NEW out, Done(out)
  PROVE  IInv'
<1>1. ClientTyped'
  BY DEF Done, Moves, IInv, ClientTyped
<1> QED BY <1>1, SameInv DEF Done

LEMMA OpensInv ==
  ASSUME IInv, Runs, NEW name, NEW field \in {"fd", "fd0", "fd1"}, NEW pc, NEW message,
         Opens(name, field, pc, message)
  PROVE  IInv'
<1>1. CASE SysOpen(name) /\ Moves([client EXCEPT ![field] = sys_open(file_descriptor, name).ret,
                                                !.pc = pc], <<>>)
  <2>1. ClientTyped'
    BY <1>1 DEF Moves, IInv, ClientTyped
  <2> QED BY <1>1, <2>1, SysOpenInv
<1>2. CASE Done(message)
  BY <1>2, DoneInv
<1> QED BY <1>1, <1>2 DEF Opens

\* The bytes that grep keeps are counted from the start of a piece.
LEMMA ScannedTyped ==
  ASSUME NEW d, NEW n \in Int, NEW cnt
  PROVE  Scanned(d, n, cnt).last \in Int
<1>1. TailStart(d, n) \in Int
  <2> DEFINE ends == {i \in 0 .. n - 1 : d[i] = Newline}
  <2>1. CASE ends = {}
    BY <2>1 DEF TailStart
  <2>2. CASE ends # {}
    <3>1. Max(ends) \in ends
      <4> DEFINE gaps == {n - i : i \in ends}
      <4>1. gaps \subseteq Nat /\ gaps # {}
        BY <2>2
      <4>2. PICK g \in gaps : \A h \in gaps : g <= h
        BY <4>1, LeastNat
      <4>3. PICK i \in ends : g = n - i
        BY <4>2
      <4>4. \A j \in ends : n - i <= n - j
        BY <4>2, <4>3
      <4>5. \A j \in ends : i >= j
        BY <4>4
      <4> HIDE DEF ends
      <4> QED BY <4>3, <4>5 DEF Max
    <3>2. Max(ends) \in Int
      BY <3>1
    <3> HIDE DEF ends
    <3>3. TailStart(d, n) = Max(ends) + 1
      BY <2>2 DEF TailStart, ends
    <3> QED BY <3>2, <3>3
  <2> QED BY <2>1, <2>2
<1> QED BY <1>1 DEF Scanned

LEMMA CatInv ==
  ASSUME IInv, CatMain \/ CatReads
  PROVE  IInv'
<1>1. CASE CatMain
  <2>1. Runs
    BY <1>1, ClientRuns DEF CatMain
  <2>2. \/ Opens(arg_buffer, "fd", "loop", <<"file not found">>)
        \/ Done(<<"could not read arguments">>)
    BY <1>1 DEF CatMain
  <2> QED BY <2>1, <2>2, OpensInv, DoneInv
<1>2. CASE CatReads
  <2>1. Runs /\ SysRead(client.fd, BUFSIZE) /\ BUFSIZE \in Int
    BY <1>2, ClientRuns, ProgramsAssumption DEF CatReads
  <2>2. ClientTyped'
    BY <1>2 DEF CatReads, Moves, IInv, ClientTyped
  <2> QED BY <2>1, <2>2, SysReadInv
<1> QED BY <1>1, <1>2

LEMMA LsInv ==
  ASSUME IInv, LsMain \/ LsReads
  PROVE  IInv'
<1>1. CASE LsMain
  <2>1. Runs /\ Opens(Dir, "fd", "loop", <<"directory open failed">>)
    BY <1>1, ClientRuns DEF LsMain
  <2> QED BY <2>1, OpensInv
<1>2. CASE LsReads
  <2>1. Runs /\ SysRead(client.fd, FILENAME_LEN) /\ FILENAME_LEN \in Int
    BY <1>2, ClientRuns, ImageAssumption DEF LsReads
  <2>2. ClientTyped'
    BY <1>2 DEF LsReads, Moves, IInv, ClientTyped
  <2> QED BY <2>1, <2>2, SysReadInv
<1> QED BY <1>1, <1>2

LEMMA GrepInv ==
  ASSUME IInv, GrepMain \/ GrepEntry \/ GrepOpens \/ GrepReads \/ GrepCloses
  PROVE  IInv'
<1>1. CASE GrepMain
  <2>1. Runs
    BY <1>1, ClientRuns DEF GrepMain
  <2>2. \/ Opens(Dir, "fd", "entry", <<"directory open failed">>)
        \/ Done(<<"could not read arguments">>)
    BY <1>1 DEF GrepMain
  <2> QED BY <2>1, <2>2, OpensInv, DoneInv
<1>2. CASE GrepEntry
  <2>1. Runs /\ SysRead(client.fd, FILENAME_LEN) /\ FILENAME_LEN \in Int
    BY <1>2, ClientRuns, ImageAssumption DEF GrepEntry
  <2>2. ClientTyped'
    BY <1>2 DEF GrepEntry, Moves, IInv, ClientTyped
  <2> QED BY <2>1, <2>2, SysReadInv
<1>3. CASE GrepOpens
  <2>1. Runs /\ Opens(client.name, "fd1", "search", <<"file open failed">>)
    BY <1>3, ClientRuns DEF GrepOpens
  <2> QED BY <2>1, OpensInv
<1>4. CASE GrepReads
  <2> DEFINE r == sys_read(file_descriptor, client.fd1, BUFSIZE - client.last)
             d == Filled(client.data, client.last, r.data)
             n == client.last + r.ret
             s == Scanned(d, n, r.ret)
  <2>1. Runs /\ SysRead(client.fd1, BUFSIZE - client.last) /\ BUFSIZE - client.last \in Int
    BY <1>4, ClientRuns, ProgramsAssumption DEF GrepReads, IInv, ClientTyped
  <2>2. r.ret \in Int
    BY <2>1, ReadFacts DEF SysRead, IInv
  <2>3. s.last \in Int
    BY <2>2, ScannedTyped DEF IInv, ClientTyped
  <2>4. \E c, out : /\ Moves(c, out)
                    /\ c = [client EXCEPT !.data = s.data, !.last = s.last,
                              !.pc = IF r.ret = 0 THEN "close" ELSE "search"]
    BY <1>4 DEF GrepReads
  <2> HIDE DEF s, r
  <2>5. ClientTyped'
    BY <2>3, <2>4 DEF Moves, IInv, ClientTyped
  <2> QED BY <2>1, <2>5, SysReadInv
<1>5. CASE GrepCloses
  <2>1. Runs /\ SysClose(client.fd1)
    BY <1>5, ClientRuns DEF GrepCloses
  <2>2. ClientTyped'
    BY <1>5 DEF GrepCloses, Moves, IInv, ClientTyped
  <2> QED BY <2>1, <2>2, SysCloseInv
<1> QED BY <1>1, <1>2, <1>3, <1>4, <1>5

LEMMA FishInv ==
  ASSUME IInv, \/ FishMain \/ FishFirst \/ FishSecond \/ FishReads(1) \/ FishReads(2)
               \/ FishCell \/ FishRow \/ FishRate \/ FishCloses
  PROVE  IInv'
<1>1. CASE FishMain \/ FishFirst \/ FishSecond
  <2>1. Runs
    BY <1>1, ClientRuns DEF FishMain, FishFirst, FishSecond
  <2>2. \/ Opens(Rtc, "fd", "first", <<>>) \/ Opens(Frames[1], "fd0", "second", <<>>)
        \/ Opens(Frames[2], "fd1", "read1", <<>>)
    BY <1>1 DEF FishMain, FishFirst, FishSecond
  <2> QED BY <2>1, <2>2, OpensInv
<1>2. ASSUME NEW k \in 1 .. 2, FishReads(k) PROVE IInv'
  <2>1. ClientTyped'
    BY <1>2 DEF FishReads, Moves, IInv, ClientTyped
  <2>2. CASE UNCHANGED vars
    BY <2>1, <2>2, SameInv
  <2>3. CASE \E fd : SysRead(fd, 1)
    <3>1. Runs
      BY <1>2, ClientRuns DEF FishReads
    <3> QED BY <2>1, <2>3, <3>1, SysReadInv
  <2> QED BY <1>2, <2>2, <2>3 DEF FishReads
<1>3. CASE FishCell
  <2>1. UNCHANGED vars /\ ClientTyped'
    BY <1>3 DEF FishCell, Moves, IInv, ClientTyped
  <2> QED BY <2>1, SameInv
<1>4. CASE FishRow
  <2>1. ClientTyped'
    BY <1>4 DEF FishRow, Moves, IInv, ClientTyped
  <2> QED BY <1>4, <2>1, FishRowInv
<1>5. CASE FishRate
  <2>1. Runs /\ SysWrite(client.fd, FISH_RATE) /\ FISH_RATE \in Int
    BY <1>5, ClientRuns, ProgramsAssumption DEF FishRate
  <2>2. ClientTyped'
    BY <1>5 DEF FishRate, Moves, IInv, ClientTyped
  <2> QED BY <2>1, <2>2, SysWriteInv
<1>6. CASE FishCloses
  <2>1. Runs /\ SysClose(client.fd)
    BY <1>6, ClientRuns DEF FishCloses
  <2>2. ClientTyped'
    BY <1>6 DEF FishCloses, Moves, IInv, ClientTyped
  <2> QED BY <2>1, <2>2, SysCloseInv
<1>7. 1 \in 1 .. 2 /\ 2 \in 1 .. 2
  OBVIOUS
<1> QED BY <1>1, <1>2, <1>3, <1>4, <1>5, <1>6, <1>7

LEMMA AnyProgramInv ==
  ASSUME IInv, AnyProgram
  PROVE  IInv'
<1>1. Runs /\ ClientTyped'
  BY DEF AnyProgram, IInv, ClientTyped
<1>2. \A n \in Lengths : n \in Int
  <2>1. \A n \in Nat : n \in Int
    OBVIOUS
  <2>2. Lengths \subseteq Nat
    BY DescriptorAssumption
  <2> QED BY <2>1, <2>2, Zenon
<1>3. \A f \in Frequencies : f \in Int
  BY DescriptorAssumption, Zenon
<1>4. CASE \E name \in Openable : SysOpen(name)
  BY <1>1, <1>4, SysOpenInv
<1>5. CASE \E fd \in FD : SysClose(fd)
  BY <1>1, <1>5, SysCloseInv
<1>6. CASE \E fd \in FD, n \in Lengths : SysRead(fd, n)
  BY <1>1, <1>2, <1>6, SysReadInv
<1>7. CASE \E fd \in FD, f \in Frequencies : SysWrite(fd, f)
  BY <1>1, <1>3, <1>7, SysWriteInv
<1> QED BY <1>4, <1>5, <1>6, <1>7 DEF AnyProgram
-----------------------------------------------------------------------------
LEMMA Starts == PInit => IInv
<1> SUFFICES ASSUME PInit PROVE IInv
  OBVIOUS
<1>1. Empty \in FileDesc /\ NoDentry \in Entries /\ <<>> \in Data
  BY EmptySeq DEF Empty, FileDesc, Entries, Data
<1>2. Typed /\ ~Runs
  BY <1>1 DEF PInit, Init, Typed, Runs
<1>3. ClientTyped
  BY DEF PInit, Client, ClientTyped
<1> QED BY <1>2, <1>3 DEF IInv

LEMMA Steps ==
  ASSUME IInv, [PNext]_pvars
  PROVE  IInv'
<1>1. CASE Start
  <2>1. ClientTyped'
    BY <1>1, NewClientTyped DEF Start
  <2> QED BY <1>1, <2>1, ExecuteInv DEF Start
<1>2. CASE Halt
  <2>1. ClientTyped'
    BY <1>2, NewClientTyped DEF Halt
  <2> QED BY <1>2, <2>1, HaltInv DEF Halt
<1>3. CASE AnyProgram
  BY <1>3, AnyProgramInv
<1>4. CASE ClientStep
  BY <1>4, CatInv, LsInv, GrepInv, FishInv DEF ClientStep
<1>5. CASE UNCHANGED pvars
  <2>1. UNCHANGED vars /\ ClientTyped'
    BY <1>5 DEF pvars, IInv, ClientTyped
  <2> QED BY <2>1, SameInv
<1> QED BY <1>1, <1>2, <1>3, <1>4, <1>5 DEF PNext

\* The inductive invariant, for every image and every use of the calls.
THEOREM Invariant == Spec => []IInv
BY Starts, Steps, PTL DEF Spec

LEMMA TypeFollows == IInv => TypeOK
BY DEF IInv, Typed, TypeOK, FileDesc

\* Every descriptor keeps its type, for every image and every use.
THEOREM TypeCorrect == Spec => []TypeOK
BY Invariant, TypeFollows, PTL

\* The first n of a sequence.
LEMMA Prefix ==
  ASSUME NEW S, NEW s \in Seq(S), NEW n \in 0 .. Len(s)
  PROVE  /\ SubSeq(s, 1, n) \in Seq(S) /\ Len(SubSeq(s, 1, n)) = n
         /\ \A i \in 1 .. n : SubSeq(s, 1, n)[i] = s[i]
<1>1. \A i \in 1 .. n : s[i] \in S
  BY ElementOfSeq
<1> QED BY <1>1, SubSeqProperties

LEMMA StreamsFollow == IInv => FilesStream
<1> SUFFICES ASSUME IInv, NEW fd \in FD, Runs
             PROVE  /\ Open(fd, "file") => StreamsFile(fd)
                    /\ Open(fd, "dir") => ListsDirectory(fd)
                    /\ Open(fd, "file") \/ Open(fd, "dir") =>
                         file_descriptor[fd].file_position = Len(got[fd])
  BY DEF FilesStream, Open
<1>1. got[fd] \in Seq(Byte \cup Name) /\ Len(got[fd]) \in Nat
  BY LenProperties DEF IInv, Typed, Data
<1>2. ASSUME Open(fd, "file") PROVE StreamsFile(fd)
  <2>1. StreamOf(file_descriptor[fd], opened[fd], got[fd])
    BY <1>2 DEF IInv, Good, Open
  <2>2. PICK k \in Inode : k = opened[fd].inode_number
    BY <2>1, NameFacts DEF StreamOf
  <2>3. /\ Len(got[fd]) <= inodes[k].size
        /\ \A i \in 1 .. Len(got[fd]) : got[fd][i] = Contents(k)[i]
    BY <1>2, <2>1, <2>2 DEF StreamOf, Open
  <2> DEFINE s == SubSeq(Contents(k), 1, Len(got[fd]))
  <2>4. Contents(k) \in Seq(Byte) /\ Len(Contents(k)) = inodes[k].size /\ inodes[k].size \in Nat
    BY FileFacts
  <2>5. /\ s \in Seq(Byte) /\ Len(s) = Len(got[fd])
        /\ \A i \in 1 .. Len(got[fd]) : s[i] = Contents(k)[i]
    <3>1. Len(got[fd]) \in 0 .. Len(Contents(k))
      BY <1>1, <2>3, <2>4
    <3> QED BY <2>4, <3>1, Prefix
  <2> HIDE DEF s
  <2>6. got[fd] = s
    BY <1>1, <2>3, <2>5, SeqEqual
  <2> QED BY <2>2, <2>3, <2>4, <2>6 DEF StreamsFile, s
<1>3. ASSUME Open(fd, "dir") PROVE ListsDirectory(fd)
  <2>1. \A i \in 1 .. Len(got[fd]) : got[fd][i] = dentries[i].file_name
    BY <1>3 DEF IInv, Good, Open, StreamOf
  <2>2. got[fd] = [i \in 1 .. Len(got[fd]) |-> got[fd][i]]
    BY <1>1
  <2> QED BY <2>1, <2>2 DEF ListsDirectory
<1>4. Open(fd, "file") \/ Open(fd, "dir") => file_descriptor[fd].file_position = Len(got[fd])
  BY DEF IInv, Good, Open, StreamOf
<1> QED BY <1>2, <1>3, <1>4

\* For every image and all reads: a descriptor delivers its file from the start,
\* nothing twice and nothing left out, and a directory its entries in order.
THEOREM Streams == Spec => []FilesStream
BY Invariant, StreamsFollow, PTL

LEMMA FrequencyFollows == IInv => RtcFrequencyValid
BY DEF IInv, Good, StreamOf, RtcFrequencyValid, Open

\* rtc_read never divides by anything but a legal frequency.
THEOREM FrequencyLegal == Spec => []RtcFrequencyValid
BY Invariant, FrequencyFollows, PTL

\* Only sys_execute starts a program, and it closes what the last one left open.
LEMMA StartsClosed ==
  ASSUME IInv, [PNext]_pvars
  PROVE  [~Runs /\ Runs' => \A fd \in FD : ~IsOpen(file_descriptor, fd)']_vars
<1> SUFFICES ASSUME ~Runs, Runs' PROVE \A fd \in FD : ~IsOpen(file_descriptor, fd)'
  OBVIOUS
<1>1. CASE Start
  <2>1. ClientTyped'
    BY <1>1, NewClientTyped DEF Start
  <2> QED BY <1>1, <2>1, ExecuteInv DEF Start
<1>2. CASE Halt
  BY <1>2 DEF Halt, SysHalt, Runs
<1>3. CASE AnyProgram
  BY <1>3 DEF AnyProgram
<1>4. CASE ClientStep
  <2>1. ASSUME NEW p \in {Cat, Ls, Grep, Fish}, NEW pc, At(p, pc) PROVE FALSE
    BY <2>1, ClientRuns
  <2> QED BY <1>4, <2>1 DEF ClientStep, CatMain, CatReads, LsMain, LsReads, GrepMain, GrepEntry,
             GrepOpens, GrepReads, GrepCloses, FishMain, FishFirst, FishSecond, FishReads,
             FishCell, FishRow, FishRate, FishCloses
<1>5. CASE UNCHANGED pvars
  BY <1>5 DEF pvars, vars, Runs
<1> QED BY <1>1, <1>2, <1>3, <1>4, <1>5 DEF PNext

\* No program starts with an open file, though sys_halt leaves the last descriptor open.
THEOREM StartsClean == Spec => StartsWithoutFiles
<1>1. ASSUME IInv, [PNext]_pvars
      PROVE  [~Runs /\ Runs' => \A fd \in FD : ~IsOpen(file_descriptor, fd)']_vars
  BY <1>1, StartsClosed
<1> QED BY <1>1, Invariant, PTL DEF Spec, StartsWithoutFiles
-----------------------------------------------------------------------------
(* ece391syserr.c: what is refused.                                         *)

Table == [FD -> FileDesc]

\* A descriptor that is not open.
LEMMA NotOpen ==
  ASSUME NEW t, NEW fd, ~IsOpen(t, fd)
  PROVE  /\ \A n \in Int : sys_read(t, fd, n).ret = -1
         /\ fd # STDOUT => \A f, n \in Int : sys_write(t, fd, f, n).ret = -1
         /\ sys_close(t, fd).ret = -1
<1>1. Fails(t).ret = -1
  BY DEF Fails
<1>2. ASSUME NEW n \in Int PROVE sys_read(t, fd, n).ret = -1
  BY <1>1 DEF sys_read
<1>3. ASSUME fd # STDOUT, NEW f \in Int, NEW n \in Int PROVE sys_write(t, fd, f, n).ret = -1
  BY <1>1, <1>3 DEF sys_write
<1>4. sys_close(t, fd).ret = -1
  BY <1>1 DEF sys_close
<1> QED BY <1>2, <1>3, <1>4

LEMMA BadFd ==
  ASSUME NEW t, NEW fd, ~IsOpen(t, fd), fd # STDOUT
  PROVE  err_bad_fd(t, fd)
BY NotOpen DEF err_bad_fd, AllFail

\* A name that is not in the directory.
LEMMA NotFound ==
  ASSUME NEW t, NEW name, name \notin Name
  PROVE  sys_open(t, name).ret = -1
<1>1. Fails(t).ret = -1
  BY DEF Fails
<1>2. read_dentry_by_name(name) = NoDentry
  BY DEF read_dentry_by_name, TooLong, Name
<1> QED BY <1>1, <1>2 DEF sys_open, Found

\* A name that is.
LEMMA OpenDir ==
  /\ read_dentry_by_name(Dir) \in Range(dentries) /\ Found(read_dentry_by_name(Dir))
  /\ Dir # NoName /\ Entry(read_dentry_by_name(Dir)) \in FileDesc
  /\ Entry(read_dentry_by_name(Dir)).flags = "dir"
<1> DEFINE e == read_dentry_by_name(Dir)
<1>1. e.file_type = "dir" /\ NoDentry.file_type = "none"
  BY ProgramsAssumption DEF ProgramsAssumption, NoDentry
<1>2. Found(e) /\ e \in Range(dentries)
  BY <1>1, ByName DEF Found
<1>3. Dir # NoName
  <2>1. Dir[1] = "." /\ Len(Dir) = 1 /\ Len(NoName) = 0
    BY DEF Dir, NoName
  <2> QED BY <2>1
<1>4. Entry(e) \in FileDesc /\ Entry(e).flags = "dir"
  <2> HIDE DEF e
  <2> QED BY <1>1 DEF Entry, FileDesc, Type
<1> QED BY <1>2, <1>3, <1>4

\* The first free descriptor is taken.
LEMMA OpenFirst ==
  ASSUME NEW t \in Table, NEW m \in 2 .. FD_COUNT, FreeFDs(t) = m .. FD_COUNT - 1
  PROVE  LET r == sys_open(t, Dir)
         IN  /\ r.table \in Table
             /\ m < FD_COUNT => r.ret # -1 /\ FreeFDs(r.table) = m + 1 .. FD_COUNT - 1
             /\ m = FD_COUNT => r.ret = -1 /\ r.table = t
<1>1. PICK e \in FileDesc : e = Entry(read_dentry_by_name(Dir)) /\ e.flags = "dir"
  BY OpenDir
<1>2. FD_COUNT \in Nat
  BY DescriptorAssumption DEF DescriptorAssumption
<1>3. CASE m = FD_COUNT
  <2>1. FreeFDs(t) = {}
    BY <1>2, <1>3
  <2> QED BY <1>2, <1>3, <2>1 DEF sys_open, Fails
<1>4. CASE m < FD_COUNT
  <2> DEFINE fd == CHOOSE f \in FreeFDs(t) : \A g \in FreeFDs(t) : f <= g
  <2>1. m \in FreeFDs(t) /\ \A g \in FreeFDs(t) : m <= g /\ g \in Int
    BY <1>2, <1>4
  <2>2. fd = m
    <3>1. fd \in FreeFDs(t) /\ \A g \in FreeFDs(t) : fd <= g
      BY <2>1
    <3> HIDE DEF fd
    <3>2. fd <= m /\ m <= fd /\ fd \in Int
      BY <2>1, <3>1
    <3> QED BY <3>2
  <2>3. sys_open(t, Dir) = [ret |-> fd, data |-> <<>>, table |-> [t EXCEPT ![fd] = e]]
    BY <1>1, <2>1, OpenDir DEF sys_open
  <2> HIDE DEF fd
  <2>4. PICK u \in Table : u = [t EXCEPT ![m] = e] /\ sys_open(t, Dir).table = u
    BY <2>2, <2>3 DEF Table
  <2>5. m \in FD
    BY <1>2, <1>4 DEF FD
  <2>6. \A f \in FD : u[f] = IF f = m THEN e ELSE t[f]
    BY <2>4, <2>5 DEF Table
  <2>7. \A f \in FD : f \in FreeFDs(u) <=> f \in FreeFDs(t) /\ f # m
    BY <1>1, <2>6 DEF FreeFDs, IsOpen
  <2>8. FreeFDs(u) = m + 1 .. FD_COUNT - 1
    <3>1. \A f \in FreeFDs(u) : f \in FD
      BY DEF FreeFDs
    <3>2. \A f \in m + 1 .. FD_COUNT - 1 : f \in FD /\ f \in m .. FD_COUNT - 1 /\ f # m
      BY <1>2 DEF FD
    <3>3. \A f \in m .. FD_COUNT - 1 : f # m => f \in m + 1 .. FD_COUNT - 1
      BY <1>2
    <3> QED BY <2>7, <3>1, <3>2, <3>3
  <2>9. sys_open(t, Dir).ret # -1
    BY <2>2, <2>3
  <2> QED BY <1>4, <2>4, <2>8, <2>9
<1>5. m < FD_COUNT \/ m = FD_COUNT
  BY <1>2
<1> QED BY <1>3, <1>4, <1>5

LEMMA OpenTyped ==
  ASSUME NEW t \in Table
  PROVE  sys_open(t, Dir).table \in Table
<1>1. PICK e \in FileDesc : e = Entry(read_dentry_by_name(Dir))
  BY OpenDir
<1>2. \A fd : [t EXCEPT ![fd] = e] \in Table
  BY DEF Table
<1>3. \/ sys_open(t, Dir) = Fails(t)
      \/ \E fd : sys_open(t, Dir) = [ret |-> fd, data |-> <<>>, table |-> [t EXCEPT ![fd] = e]]
  BY <1>1 DEF sys_open
<1> QED BY <1>2, <1>3 DEF Fails

\* All descriptors can be opened, and no more.
LEMMA OpensAll ==
  ASSUME NEW t \in Table, FreeFDs(t) = FD
  PROVE  err_open_lots(t) = 1
<1>1. PICK N \in Nat : N = FD_COUNT - 1 /\ N >= 3 /\ FD_COUNT \in Nat /\ FD_COUNT = N + 1
  BY DescriptorAssumption DEF DescriptorAssumption
<1> DEFINE T == [1 .. N -> [Table -> Table]]
           step == [k \in 1 .. N |-> [u \in Table |-> sys_open(u, Dir).table]]
           body(f, k) == IF k = 0 THEN t ELSE sys_open(f[k - 1], Dir).table
           after[k \in 0 .. FD_COUNT - 1] ==
             IF k = 0 THEN t ELSE sys_open(after[k - 1], Dir).table
<1>2. err_open_lots(t) =
        Cardinality({k \in 0 .. FD_COUNT - 2 : sys_open(after[k], Dir).ret = -1})
  BY Zenon DEF err_open_lots
<1>3. (\E f : f = [k \in 0 .. FD_COUNT - 1 |-> body(f, k)]) =>
        after = [k \in 0 .. FD_COUNT - 1 |-> body(after, k)]
  OBVIOUS
<1> HIDE DEF after
<1>4. step \in T
  BY OpenTyped
<1> HIDE DEF step
<1>5. \A st \in T : \E f \in [0 .. N -> Table] :
        f[0] = t /\ \A k \in 1 .. N : f[k] = st[k][f[k - 1]]
  BY Recursion
<1> HIDE DEF T
<1>6. PICK f \in [0 .. N -> Table] : f[0] = t /\ \A k \in 1 .. N : f[k] = step[k][f[k - 1]]
  BY <1>4, <1>5
<1>7. ASSUME NEW k \in 0 .. FD_COUNT - 1 PROVE f[k] = body(f, k)
  <2>1. CASE k = 0
    BY <1>6, <2>1
  <2>2. CASE k # 0
    <3>1. k \in 1 .. N /\ k - 1 \in 0 .. N
      BY <1>1, <2>2
    <3>2. step[k][f[k - 1]] = sys_open(f[k - 1], Dir).table
      BY <3>1 DEF step
    <3> QED BY <1>6, <2>2, <3>1, <3>2
  <2> QED BY <2>1, <2>2
<1>8. f = [k \in 0 .. FD_COUNT - 1 |-> body(f, k)]
  <2> HIDE DEF body
  <2> QED BY <1>1, <1>7
<1>9. PICK g : g = after /\ g = [k \in 0 .. FD_COUNT - 1 |-> body(g, k)]
  BY <1>3, <1>8
<1>10. \A k \in 0 .. N : g[k] = body(g, k)
  <2> HIDE DEF body
  <2> QED BY <1>1, <1>9
<1>11. g[0] = t /\ \A k \in 1 .. N : g[k] = sys_open(g[k - 1], Dir).table
  BY <1>1, <1>10
\* After k calls the descriptors below k + 2 are taken.
<1> DEFINE Taken == {k \in Nat : k < N => /\ g[k] \in Table
                                         /\ FreeFDs(g[k]) = k + 2 .. FD_COUNT - 1}
<1>12. 0 \in Taken
  BY <1>11 DEF FD
<1>13. ASSUME NEW k \in Nat, k \in Taken PROVE k + 1 \in Taken
  <2> SUFFICES ASSUME k + 1 < N
               PROVE  g[k + 1] \in Table /\ FreeFDs(g[k + 1]) = k + 1 + 2 .. FD_COUNT - 1
    OBVIOUS
  <2>1. PICK u \in Table : u = g[k] /\ FreeFDs(u) = k + 2 .. FD_COUNT - 1
    BY <1>1, <1>13
  <2>2. PICK m \in 2 .. FD_COUNT : m = k + 2 /\ m < FD_COUNT /\ m + 1 = k + 1 + 2
    BY <1>1
  <2>3. g[k + 1] = sys_open(u, Dir).table
    <3>1. k + 1 \in 1 .. N /\ k + 1 - 1 = k
      BY <1>1
    <3> QED BY <1>11, <2>1, <3>1
  <2>4. sys_open(u, Dir).table \in Table
        /\ FreeFDs(sys_open(u, Dir).table) = m + 1 .. FD_COUNT - 1
    BY <2>1, <2>2, OpenFirst
  <2> QED BY <2>2, <2>3, <2>4
<1> HIDE DEF Taken
<1>14. \A k \in Nat : k \in Taken
  BY <1>12, <1>13, Induction
<1>15. ASSUME NEW k \in 0 .. FD_COUNT - 2
       PROVE  sys_open(g[k], Dir).ret = -1 <=> k = FD_COUNT - 2
  <2>1. PICK u \in Table : u = g[k] /\ FreeFDs(u) = k + 2 .. FD_COUNT - 1
    BY <1>1, <1>14 DEF Taken
  <2>2. PICK m \in 2 .. FD_COUNT : m = k + 2 /\ (m < FD_COUNT <=> k # FD_COUNT - 2)
    BY <1>1
  <2>3. (m < FD_COUNT => sys_open(u, Dir).ret # -1) /\ (m = FD_COUNT => sys_open(u, Dir).ret = -1)
    BY <2>1, <2>2, OpenFirst
  <2>4. m < FD_COUNT \/ m = FD_COUNT
    BY <1>1
  <2> QED BY <2>1, <2>2, <2>3, <2>4
<1>16. {k \in 0 .. FD_COUNT - 2 : sys_open(g[k], Dir).ret = -1} = {FD_COUNT - 2}
  BY <1>1, <1>15
<1> QED BY <1>2, <1>9, <1>16, FS_Singleton

\* The descriptor tests of ece391syserr.c pass in whatever state calls have left the
\* table of the process that runs them.
THEOREM SyserrTestsPass == Spec => []SyserrPasses
<1> DEFINE t == file_descriptor
<1>1. ASSUME IInv PROVE SyserrPasses
  <2>1. t \in Table
    BY <1>1 DEF IInv, Typed, Table
  <2>2. -1 \notin FD /\ FD_COUNT \notin FD /\ 0 \notin FD /\ STDOUT \notin FD
        /\ -1 # STDOUT /\ FD_COUNT # STDOUT /\ 0 # STDOUT /\ \A fd \in FD : fd # STDOUT
    BY DescriptorAssumption DEF DescriptorAssumption, FD, STDOUT
  <2>3. \A fd : fd \notin FD => ~IsOpen(t, fd)
    BY DEF IsOpen
  <2>4. err_bad_fd(t, -1) /\ err_bad_fd(t, FD_COUNT)
    BY <2>2, <2>3, BadFd
  <2>5. err_open(t)
    BY NotFound DEF err_open, AllFail
  <2>6. err_stdin_out(t) /\ AllFail({sys_close(t, 0), sys_close(t, STDOUT)})
    BY <2>2, <2>3, NotOpen DEF err_stdin_out, AllFail
  <2>7. FreeFDs(t) = FD => err_open_lots(t) = 1 /\ \A fd \in FD : err_bad_fd(t, fd)
    BY <2>1, <2>2, BadFd, OpensAll DEF FreeFDs
  <2> QED BY <2>4, <2>5, <2>6, <2>7 DEF SyserrPasses
<1> QED BY <1>1, Invariant, PTL

-----------------------------------------------------------------------------
(* A file is its blocks, one after the other.                                *)

LEMMA BlockFacts ==
  ASSUME NEW b \in DOMAIN blocks
  PROVE  /\ BlockText(b) \in Seq(Byte) /\ Len(BlockText(b)) = B
         /\ \A j \in 1 .. B : BlockText(b)[j] = blocks[b][j - 1]
<1>1. B \in Nat \ {0} /\ blocks[b] \in [0 .. B - 1 -> Byte]
  BY ImageAssumption DEF B
<1>2. \A j \in 1 .. B : j - 1 \in 0 .. B - 1
  BY <1>1
<1>3. BlockText(b) = [j \in 1 .. B |-> blocks[b][j - 1]]
  BY DEF BlockText, B
<1>4. BlockText(b) \in [1 .. B -> Byte]
  BY <1>1, <1>2, <1>3
<1> QED BY <1>1, <1>3, <1>4, LenProperties

\* The definition of Concatenation, without its function.
LEMMA ConcatenationDef ==
  ASSUME NEW k \in Inode
  PROVE  \E N \in Nat : \E f \in [0 .. N -> Seq(Byte)] :
           /\ N = Len(inodes[k].blocks)
           /\ f[0] = <<>> /\ Concatenation(k) = SubSeq(f[N], 1, inodes[k].size)
           /\ \A n \in 1 .. N : f[n] = f[n - 1] \o BlockText(inodes[k].blocks[n])
<1> DEFINE T(N) == [1 .. N -> [Seq(Byte) -> Seq(Byte)]]
<1>1. \A N \in Nat : \A step \in T(N) : \E f \in [0 .. N -> Seq(Byte)] :
        f[0] = <<>> /\ \A n \in 1 .. N : f[n] = step[n][f[n - 1]]
  <2> DEFINE S == Seq(Byte)
             none == <<>>
  <2>1. none \in S
    OBVIOUS
  <2> HIDE DEF S, none
  <2>2. \A N \in Nat : \A step \in [1 .. N -> [S -> S]] : \E f \in [0 .. N -> S] :
          f[0] = none /\ \A n \in 1 .. N : f[n] = step[n][f[n - 1]]
    BY <2>1, Recursion
  <2> QED BY <2>2, Zenon DEF S, none, T
<1> HIDE DEF T
<1> DEFINE numbers == inodes[k].blocks
           N == Len(numbers)
           step == [n \in 1 .. N |-> [s \in Seq(Byte) |-> s \o BlockText(numbers[n])]]
           body(f, n) == IF n = 0 THEN <<>> ELSE f[n - 1] \o BlockText(numbers[n])
           text[n \in 0 .. N] == IF n = 0 THEN <<>> ELSE text[n - 1] \o BlockText(numbers[n])
<1>2. N \in Nat /\ \A n \in 1 .. N : numbers[n] \in DOMAIN blocks
  <2>1. numbers \in Seq(DOMAIN blocks)
    BY ImageAssumption
  <2> QED BY <2>1, LenProperties, ElementOfSeq
<1>3. Concatenation(k) = SubSeq(text[N], 1, inodes[k].size)
  BY DEF Concatenation
<1>4. (\E f : f = [n \in 0 .. N |-> body(f, n)]) => text = [n \in 0 .. N |-> body(text, n)]
  OBVIOUS
<1> HIDE DEF text, N
<1>5. step \in T(N)
  <2>1. \A n \in 1 .. N, s \in Seq(Byte) : s \o BlockText(numbers[n]) \in Seq(Byte)
    <3> HIDE DEF numbers
    <3> QED BY <1>2, BlockFacts, ConcatProperties
  <2> QED BY <2>1 DEF T
<1>6. ASSUME NEW f \in [0 .. N -> Seq(Byte)],
             f[0] = <<>>, \A n \in 1 .. N : f[n] = step[n][f[n - 1]]
      PROVE  f = [n \in 0 .. N |-> body(f, n)]
  <2>1. ASSUME NEW n \in 0 .. N, n # 0 PROVE f[n] = f[n - 1] \o BlockText(numbers[n])
    <3>1. n \in 1 .. N /\ n - 1 \in 0 .. N
      BY <1>2, <2>1
    <3> QED BY <1>6, <3>1
  <2> HIDE DEF step
  <2>2. ASSUME NEW n \in 0 .. N PROVE f[n] = body(f, n)
    BY <1>6, <2>1
  <2> HIDE DEF body
  <2> QED BY <2>2
<1> HIDE DEF step
<1>7. PICK f \in [0 .. N -> Seq(Byte)] : f = [n \in 0 .. N |-> body(f, n)]
  BY <1>1, <1>2, <1>5, <1>6
<1>8. PICK g : g = text /\ g = [n \in 0 .. N |-> body(g, n)]
  BY <1>4, <1>7
<1> HIDE DEF numbers
<1>9. \A n \in 0 .. N : g[n] = body(g, n)
  <2> HIDE DEF body
  <2> QED BY <1>2, <1>8
<1>10. g[0] = <<>> /\ \A n \in 1 .. N : g[n] = g[n - 1] \o BlockText(numbers[n])
  <2>1. 0 \in 0 .. N /\ \A n \in 1 .. N : n # 0 /\ n \in 0 .. N
    BY <1>2
  <2> QED BY <1>9, <2>1, Zenon
<1>11. g \in [0 .. N -> Seq(Byte)]
  <2> DEFINE Is == {n \in Nat : n <= N => g[n] \in Seq(Byte)}
  <2>1. 0 \in Is
    <3>1. 0 \in Nat /\ <<>> \in Seq(Byte)
      OBVIOUS
    <3> QED BY <1>10, <3>1, Zenon
  <2>2. ASSUME NEW n \in Nat, n \in Is PROVE n + 1 \in Is
    <3> SUFFICES ASSUME n + 1 <= N PROVE g[n + 1] \in Seq(Byte)
      OBVIOUS
    <3>1. PICK m \in 1 .. N : m = n + 1 /\ m - 1 = n
      <4>1. n + 1 \in 1 .. N /\ n + 1 - 1 = n
        BY <1>2
      <4> QED BY <4>1
    <3>2. PICK s \in Seq(Byte) : s = g[n]
      BY <1>2, <2>2
    <3>3. PICK t \in Seq(Byte) : t = BlockText(numbers[m])
      BY <1>2, BlockFacts
    <3>4. g[m] = s \o t
      BY <1>10, <3>1, <3>2, <3>3, Zenon
    <3> QED BY <3>1, <3>4, ConcatProperties
  <2> HIDE DEF Is
  <2>3. \A n \in Nat : n \in Is
    BY <2>1, <2>2, Induction
  <2>4. \A n \in 0 .. N : g[n] \in Seq(Byte)
    BY <1>2, <2>3 DEF Is
  <2> HIDE DEF body
  <2> QED BY <1>8, <2>4
<1>12. N = Len(inodes[k].blocks)
  BY DEF N, numbers
<1>13. Concatenation(k) = SubSeq(g[N], 1, inodes[k].size)
  BY <1>3, <1>8, Zenon
<1> HIDE DEF body
<1>14. \A n \in 1 .. N : g[n] = g[n - 1] \o BlockText(inodes[k].blocks[n])
  BY <1>10, Zenon DEF numbers
<1> QED BY <1>2, <1>10, <1>11, <1>12, <1>13, <1>14, Zenon

\* For every image and block size, byte by byte and block by block a file is the same.
THEOREM ContentsAreBlocks ==
  ASSUME NEW k \in Inode
  PROVE  Concatenation(k) = Contents(k)
<1> DEFINE numbers == inodes[k].blocks
           size == inodes[k].size
<1>0. PICK N \in Nat : \E f \in [0 .. N -> Seq(Byte)] :
        /\ N = Len(numbers)
        /\ f[0] = <<>> /\ Concatenation(k) = SubSeq(f[N], 1, size)
        /\ \A n \in 1 .. N : f[n] = f[n - 1] \o BlockText(numbers[n])
  BY ConcatenationDef, Zenon
<1>1. PICK f \in [0 .. N -> Seq(Byte)] :
        /\ N = Len(numbers)
        /\ f[0] = <<>> /\ Concatenation(k) = SubSeq(f[N], 1, size)
        /\ \A n \in 1 .. N : f[n] = f[n - 1] \o BlockText(numbers[n])
  BY <1>0
<1>2. PICK b \in Nat \ {0} : b = B
  BY ImageAssumption DEF B
<1> DEFINE byte(i) == blocks[numbers[(i - 1) \div b + 1]][(i - 1) % b]
           Right == {n \in Nat : n <= N => /\ Len(f[n]) = n * b
                                           /\ \A i \in 1 .. n * b : f[n][i] = byte(i)}
<1> HIDE DEF byte
<1>3. 0 \in Right
  <2>1. Len(<<>>) = 0 /\ 0 * b = 0
    BY EmptySeq
  <2> QED BY <1>1, <2>1
<1>4. ASSUME NEW n \in Nat, n \in Right PROVE n + 1 \in Right
  <2> SUFFICES ASSUME n + 1 <= N
               PROVE  /\ Len(f[n + 1]) = (n + 1) * b
                      /\ \A i \in 1 .. (n + 1) * b : f[n + 1][i] = byte(i)
    OBVIOUS
  <2>1. PICK m \in 1 .. N : m = n + 1 /\ m - 1 = n
    <3>1. n + 1 \in 1 .. N /\ n + 1 - 1 = n
      OBVIOUS
    <3> QED BY <3>1
  <2>2. PICK s \in Seq(Byte) : s = f[n] /\ f[m] = s \o BlockText(numbers[m])
    <3>1. n \in 0 .. N
      BY <2>1
    <3>2. f[m] = f[n] \o BlockText(numbers[m])
      BY <1>1, <2>1, Zenon
    <3> QED BY <3>1, <3>2
  <2>3. PICK l \in Nat : l = n * b /\ (n + 1) * b = l + b /\ l = b * n
    OBVIOUS
  <2>4. Len(s) = l /\ \A i \in 1 .. l : s[i] = byte(i)
    BY <1>4, <2>2, <2>3
  <2>5. numbers[m] \in DOMAIN blocks
    BY <1>1, ImageAssumption, ElementOfSeq
  <2>6. PICK t \in Seq(Byte) : /\ t = BlockText(numbers[m]) /\ Len(t) = b
                               /\ \A j \in 1 .. b : t[j] = blocks[numbers[m]][j - 1]
    BY <1>2, <2>5, BlockFacts
  <2>7. f[m] = s \o t
    BY <2>2, <2>6, Zenon
  <2>8. Len(f[m]) = l + b /\ \A i \in 1 .. l + b : f[m][i] = IF i <= l THEN s[i] ELSE t[i - l]
    <3>1. /\ Len(s \o t) = Len(s) + Len(t)
          /\ \A i \in 1 .. Len(s) + Len(t) :
               (s \o t)[i] = IF i <= Len(s) THEN s[i] ELSE t[i - Len(s)]
      BY ConcatProperties
    <3> QED BY <2>4, <2>6, <2>7, <3>1, Zenon
  <2>9. ASSUME NEW i \in 1 .. l + b, i > l PROVE t[i - l] = byte(i)
    <3>1. PICK a \in Nat, r \in 0 .. b - 1 : a = i - 1 /\ r = a - l /\ a = b * n + r
      <4>1. i - 1 \in Nat /\ i - 1 - l \in 0 .. b - 1 /\ i - 1 = b * n + (i - 1 - l)
        BY <2>3, <2>9
      <4> QED BY <4>1
    <3>2. a \div b \in Nat /\ a % b \in 0 .. b - 1 /\ a = b * (a \div b) + (a % b)
      BY DivMod
    <3>3. PICK q \in Nat, p \in 0 .. b - 1 : q = a \div b /\ p = a % b /\ a = b * q + p
      BY <3>2
    <3>4. q = n /\ p = r
      <4>1. q \in Int /\ n \in Int /\ b * q + p = b * n + r
        BY <3>1, <3>3
      <4> QED BY <4>1, Unique
    <3>5. i - l \in 1 .. b /\ (i - l) - 1 = r
      BY <2>9, <3>1
    <3>6. t[i - l] = blocks[numbers[m]][r]
      BY <2>6, <3>5
    <3>7. byte(i) = blocks[numbers[n + 1]][r]
      BY <3>1, <3>3, <3>4, Zenon DEF byte
    <3> QED BY <2>1, <3>6, <3>7
  <2>10. \A i \in 1 .. l + b : f[m][i] = byte(i)
    <3> TAKE i \in 1 .. l + b
    <3>1. CASE i <= l
      <4>1. i \in 1 .. l
        BY <3>1
      <4> QED BY <2>4, <2>8, <3>1, <4>1
    <3>2. CASE i > l
      <4>1. ~(i <= l)
        BY <3>2
      <4> QED BY <2>8, <2>9, <3>2, <4>1, Zenon
    <3> QED BY <3>1, <3>2
  <2> QED BY <2>1, <2>3, <2>8, <2>10
<1> HIDE DEF Right
<1>5. N \in Right
  BY <1>3, <1>4, Induction
<1>6. PICK text \in Seq(Byte) : /\ text = f[N] /\ Len(text) = N * b
                                /\ \A i \in 1 .. N * b : text[i] = byte(i)
  BY <1>5 DEF Right
<1>7. PICK z \in Nat : z = size /\ z <= N * b
  BY <1>1, <1>2, ImageAssumption DEF B
<1>8. N * b \in Nat /\ \A i \in 1 .. z : i \in 1 .. N * b
  BY <1>7
<1>9. \A i \in 1 .. z : text[i] \in Byte
  BY <1>6, <1>8, ElementOfSeq
<1>10. PICK c \in Seq(Byte) : c = Concatenation(k) /\ Len(c) = z /\ \A i \in 1 .. z : c[i] = byte(i)
  <2>1. Concatenation(k) = SubSeq(text, 1, z)
    BY <1>1, <1>6, <1>7, Zenon
  <2>2. /\ SubSeq(text, 1, z) \in Seq(Byte)
        /\ Len(SubSeq(text, 1, z)) = IF 1 <= z THEN z - 1 + 1 ELSE 0
        /\ \A i \in 1 .. z - 1 + 1 : SubSeq(text, 1, z)[i] = text[1 + i - 1]
    BY <1>9, SubSeqProperties
  <2>3. Len(SubSeq(text, 1, z)) = z
    BY <2>2
  <2>4. \A i \in 1 .. z : SubSeq(text, 1, z)[i] = byte(i)
    <3> TAKE i \in 1 .. z
    <3>1. i \in 1 .. z - 1 + 1 /\ 1 + i - 1 = i
      OBVIOUS
    <3> QED BY <1>6, <1>8, <2>2, <3>1, Zenon
  <2> QED BY <2>1, <2>2, <2>3, <2>4
<1>11. PICK d \in Seq(Byte) : d = Contents(k) /\ Len(d) = z /\ \A i \in 1 .. z : d[i] = byte(i)
  BY <1>2, <1>7, FileFacts DEF byte
<1> QED BY <1>10, <1>11, SeqEqual

-----------------------------------------------------------------------------
(* Command lines.                                                            *)

\* The lemmas are about one test, which the provers know: the least index of a set
\* of indices.
LEMMA LeastIndex ==
  ASSUME NEW n \in Nat, NEW I, I \subseteq 1 .. n,
         NEW i, i = IF I # {} THEN Min(I) ELSE 0, NEW k, k = IF i = 0 THEN n + 1 ELSE i
  PROVE  /\ k \in 1 .. n + 1 /\ (k <= n => k \in I)
         /\ \A j \in 1 .. k - 1 : j \notin I
<1>1. CASE I = {}
  BY <1>1
<1>2. CASE I # {}
  <2>1. I \subseteq Nat
    OBVIOUS
  <2>2. \E x \in I : \A y \in I : x <= y
    BY <1>2, <2>1, LeastNat
  <2>3. PICK m \in 1 .. n : m = Min(I) /\ m \in I /\ \A y \in I : m <= y
    BY <2>2 DEF Min
  <2> QED BY <1>2, <2>3
<1> QED BY <1>1, <1>2

LEMMA FirstOther ==
  ASSUME NEW S, NEW s \in Seq(S)
  PROVE  \E k \in 1 .. Len(s) + 1 :
           /\ k = FirstOf(s, IsOther) /\ \A i \in 1 .. k - 1 : s[i] = Space
           /\ k <= Len(s) => s[k] # Space
<1> DEFINE I == {i \in 1 .. Len(s) : s[i] # Space}
<1>1. FirstOf(s, IsOther) =
        LET i == IF I # {} THEN Min(I) ELSE 0 IN IF i = 0 THEN Len(s) + 1 ELSE i
  BY DEF FirstOf, SelectInSeq, IsOther
<1>2. PICK n \in Nat : n = Len(s)
  BY LenProperties
<1> DEFINE k == FirstOf(s, IsOther)
<1> HIDE DEF k
<1>3. /\ k \in 1 .. n + 1 /\ (k <= n => k \in I)
      /\ \A j \in 1 .. k - 1 : j \notin I
  <2>1. I \subseteq 1 .. n
    BY <1>2
  <2>2. PICK i : i = IF I # {} THEN Min(I) ELSE 0
    OBVIOUS
  <2>3. k = IF i = 0 THEN n + 1 ELSE i
    BY <1>1, <1>2, <2>2 DEF k
  <2> HIDE DEF I
  <2> QED BY <2>1, <2>2, <2>3, LeastIndex
<1>4. \A i \in 1 .. k - 1 : i \in 1 .. n
  BY <1>3
<1>5. \A i \in 1 .. n : i \in I <=> s[i] # Space
  BY <1>2
<1>6. k <= n => k \in 1 .. n
  BY <1>3
<1> HIDE DEF I
<1>7. /\ \A i \in 1 .. k - 1 : s[i] = Space
      /\ k <= n => s[k] # Space
  BY <1>3, <1>4, <1>5, <1>6, Zenon
<1> QED BY <1>2, <1>3, <1>7, Zenon DEF k

LEMMA FirstSpace ==
  ASSUME NEW S, NEW s \in Seq(S)
  PROVE  \E k \in 1 .. Len(s) + 1 :
           /\ k = FirstOf(s, IsSpace) /\ \A i \in 1 .. k - 1 : s[i] # Space
           /\ k <= Len(s) => s[k] = Space
<1> DEFINE I == {i \in 1 .. Len(s) : s[i] = Space}
<1>1. FirstOf(s, IsSpace) =
        LET i == IF I # {} THEN Min(I) ELSE 0 IN IF i = 0 THEN Len(s) + 1 ELSE i
  BY DEF FirstOf, SelectInSeq, IsSpace
<1>2. PICK n \in Nat : n = Len(s)
  BY LenProperties
<1> DEFINE k == FirstOf(s, IsSpace)
<1> HIDE DEF k
<1>3. /\ k \in 1 .. n + 1 /\ (k <= n => k \in I)
      /\ \A j \in 1 .. k - 1 : j \notin I
  <2>1. I \subseteq 1 .. n
    BY <1>2
  <2>2. PICK i : i = IF I # {} THEN Min(I) ELSE 0
    OBVIOUS
  <2>3. k = IF i = 0 THEN n + 1 ELSE i
    BY <1>1, <1>2, <2>2 DEF k
  <2> HIDE DEF I
  <2> QED BY <2>1, <2>2, <2>3, LeastIndex
<1>4. \A i \in 1 .. k - 1 : i \in 1 .. n
  BY <1>3
<1>5. \A i \in 1 .. n : i \in I <=> s[i] = Space
  BY <1>2
<1>6. k <= n => k \in 1 .. n
  BY <1>3
<1> HIDE DEF I
<1>7. /\ \A i \in 1 .. k - 1 : s[i] # Space
      /\ k <= n => s[k] = Space
  BY <1>3, <1>4, <1>5, <1>6, Zenon
<1> QED BY <1>2, <1>3, <1>7, Zenon DEF k

LEMMA LastOther ==
  ASSUME NEW S, NEW s \in Seq(S)
  PROVE  \E k \in 0 .. Len(s) :
           /\ k = SelectLastInSeq(s, IsOther) /\ \A i \in k + 1 .. Len(s) : s[i] = Space
           /\ k > 0 => s[k] # Space
<1> DEFINE I == {i \in 1 .. Len(s) : s[i] # Space}
<1>1. SelectLastInSeq(s, IsOther) = IF I # {} THEN Max(I) ELSE 0
  BY DEF SelectLastInSeq, IsOther
<1>2. PICK n \in Nat : n = Len(s)
  BY LenProperties
<1>3. CASE I = {}
  BY <1>1, <1>2, <1>3
<1>4. CASE I # {}
  \* The greatest index is at the least distance from the end.
  <2> DEFINE D == {d \in Nat : n - d \in I}
  <2>1. D \subseteq Nat /\ D # {}
    <3>1. PICK i \in I : TRUE
      BY <1>4
    <3>2. n - i \in Nat /\ n - (n - i) = i
      BY <1>2
    <3> QED BY <3>1, <3>2
  <2>2. PICK d \in D : \A e \in D : d <= e
    BY <2>1, LeastNat
  <2>3. ASSUME NEW i \in I PROVE n - d >= i
    <3>1. n - i \in Nat /\ n - (n - i) = i /\ i \in Nat
      BY <1>2
    <3>2. n - i \in D
      BY <3>1
    <3>3. d <= n - i /\ d \in Nat
      BY <2>2, <3>2
    <3> QED BY <1>2, <3>1, <3>3
  <2>4. \E x \in I : \A y \in I : x >= y
    BY <2>2, <2>3
  <2>5. PICK m \in 1 .. n : m = Max(I) /\ m \in I /\ \A y \in I : m >= y
    <3> HIDE DEF D
    <3>1. Max(I) \in I /\ \A y \in I : Max(I) >= y
      <4> HIDE DEF I
      <4> QED BY <2>4 DEF Max
    <3> QED BY <1>2, <3>1
  <2>6. SelectLastInSeq(s, IsOther) = m
    BY <1>1, <1>4, <2>5, Zenon
  <2>7. \A i \in m + 1 .. n : i \in 1 .. n /\ ~(m >= i)
    OBVIOUS
  <2>8. \A i \in m + 1 .. n : s[i] = Space
    BY <1>2, <2>5, <2>7
  <2>9. m \in 0 .. n /\ s[m] # Space
    BY <2>5
  <2> QED BY <1>2, <2>6, <2>8, <2>9, Zenon
<1> QED BY <1>3, <1>4

LEMMA SpacesFacts ==
  ASSUME NEW S, Space \in S, NEW n \in Nat
  PROVE  Spaces(n) \in Seq(S) /\ Len(Spaces(n)) = n /\ \A i \in 1 .. n : Spaces(n)[i] = Space
<1>1. Spaces(n) = [i \in 1 .. n |-> Space]
  BY DEF Spaces
<1>2. Spaces(n) \in [1 .. n -> S]
  BY <1>1
<1> QED BY <1>1, <1>2, LenProperties

\* Two parts of a sequence make it up.
LEMMA Parts ==
  ASSUME NEW S, NEW s \in Seq(S), NEW k \in 1 .. Len(s) + 1
  PROVE  /\ SubSeq(s, 1, k - 1) \in Seq(S) /\ SubSeq(s, k, Len(s)) \in Seq(S)
         /\ s = SubSeq(s, 1, k - 1) \o SubSeq(s, k, Len(s))
         /\ Len(SubSeq(s, 1, k - 1)) = k - 1 /\ Len(SubSeq(s, k, Len(s))) = Len(s) + 1 - k
         /\ \A i \in 1 .. k - 1 : SubSeq(s, 1, k - 1)[i] = s[i]
         /\ k <= Len(s) => SubSeq(s, k, Len(s))[1] = s[k]
<1>1. PICK n \in Nat : n = Len(s)
  BY LenProperties
<1>2. \A i \in 1 .. n : s[i] \in S
  BY <1>1, ElementOfSeq
<1>3. /\ SubSeq(s, 1, k - 1) \in Seq(S)
      /\ Len(SubSeq(s, 1, k - 1)) = k - 1
      /\ \A i \in 1 .. k - 1 : SubSeq(s, 1, k - 1)[i] = s[i]
  <2>1. PICK m \in Int : m = k - 1
    BY <1>1
  <2>2. \A i \in 1 .. m : s[i] \in S
    BY <1>1, <1>2, <2>1
  <2>3. /\ SubSeq(s, 1, m) \in Seq(S)
        /\ Len(SubSeq(s, 1, m)) = IF 1 <= m THEN m - 1 + 1 ELSE 0
        /\ \A i \in 1 .. m - 1 + 1 : SubSeq(s, 1, m)[i] = s[1 + i - 1]
    BY <2>2, SubSeqProperties
  <2>4. (IF 1 <= m THEN m - 1 + 1 ELSE 0) = m
    BY <1>1, <2>1
  <2>5. \A i \in 1 .. m : i \in 1 .. m - 1 + 1 /\ 1 + i - 1 = i
    OBVIOUS
  <2>6. \A i \in 1 .. m : SubSeq(s, 1, m)[i] = s[i]
    BY <2>3, <2>5, Zenon
  <2>7. SubSeq(s, 1, m) \in Seq(S) /\ Len(SubSeq(s, 1, m)) = m
    BY <2>3, <2>4
  <2> QED BY <2>1, <2>6, <2>7, Zenon
<1>4. /\ SubSeq(s, k, n) \in Seq(S)
      /\ Len(SubSeq(s, k, n)) = n + 1 - k
      /\ k <= n => SubSeq(s, k, n)[1] = s[k]
  <2>1. k \in Int /\ \A i \in k .. n : s[i] \in S
    BY <1>1, <1>2
  <2>2. /\ SubSeq(s, k, n) \in Seq(S)
        /\ Len(SubSeq(s, k, n)) = IF k <= n THEN n - k + 1 ELSE 0
        /\ \A i \in 1 .. n - k + 1 : SubSeq(s, k, n)[i] = s[k + i - 1]
    BY <2>1, SubSeqProperties
  <2>3. (IF k <= n THEN n - k + 1 ELSE 0) = n + 1 - k
    BY <1>1
  <2>4. k <= n => 1 \in 1 .. n - k + 1 /\ k + 1 - 1 = k
    BY <1>1
  <2>5. SubSeq(s, k, n) \in Seq(S) /\ Len(SubSeq(s, k, n)) = n + 1 - k
    BY <2>2, <2>3
  <2>6. k <= n => SubSeq(s, k, n)[1] = s[k]
    BY <2>2, <2>4, Zenon
  <2> QED BY <2>5, <2>6
<1>5. s = SubSeq(s, 1, k - 1) \o SubSeq(s, k, n)
  <2>1. PICK m \in 0 .. n : m = k - 1 /\ m + 1 = k
    BY <1>1
  <2>2. 1 \in 1 .. Len(s) + 1 /\ m \in 1 - 1 .. Len(s) /\ n \in m .. Len(s)
    BY <1>1
  <2>3. SubSeq(s, 1, m) \o SubSeq(s, m + 1, n) = SubSeq(s, 1, n)
    BY <2>2, ConcatAdjacentSubSeq
  <2>4. SubSeq(s, 1, n) = s
    BY <1>1, SubSeqFull
  <2> QED BY <2>1, <2>3, <2>4
<1> QED BY <1>1, <1>3, <1>4, <1>5

\* The middle of three parts.
LEMMA Middle ==
  ASSUME NEW S, NEW x \in Seq(S), NEW y \in Seq(S), NEW z \in Seq(S)
  PROVE  /\ SubSeq((x \o y) \o z, Len(x) + 1, Len(x) + Len(y)) = y
         /\ Len((x \o y) \o z) = Len(x) + Len(y) + Len(z)
<1>1. PICK a \in Nat, b \in Nat, c \in Nat : a = Len(x) /\ b = Len(y) /\ c = Len(z)
  BY LenProperties
<1>2. PICK u \in Seq(S) : /\ u = x \o y /\ Len(u) = a + b
                          /\ \A i \in 1 .. a + b : u[i] = IF i <= a THEN x[i] ELSE y[i - a]
  <2>1. /\ x \o y \in Seq(S) /\ Len(x \o y) = Len(x) + Len(y)
        /\ \A i \in 1 .. Len(x) + Len(y) :
             (x \o y)[i] = IF i <= Len(x) THEN x[i] ELSE y[i - Len(x)]
    BY ConcatProperties
  <2> QED BY <1>1, <2>1, Zenon
<1>3. PICK w \in Seq(S) : /\ w = u \o z /\ Len(w) = (a + b) + c
                          /\ \A i \in 1 .. (a + b) + c :
                               w[i] = IF i <= a + b THEN u[i] ELSE z[i - (a + b)]
  <2>1. /\ u \o z \in Seq(S) /\ Len(u \o z) = Len(u) + Len(z)
        /\ \A i \in 1 .. Len(u) + Len(z) :
             (u \o z)[i] = IF i <= Len(u) THEN u[i] ELSE z[i - Len(u)]
    BY ConcatProperties
  <2>2. /\ u \o z \in Seq(S) /\ Len(u \o z) = (a + b) + c
        /\ \A i \in 1 .. (a + b) + c :
             (u \o z)[i] = IF i <= a + b THEN u[i] ELSE z[i - (a + b)]
    BY <1>1, <1>2, <2>1, Zenon
  <2> QED BY <2>2
<1>4. ASSUME NEW i \in 1 .. b PROVE w[a + i] = y[i] /\ w[a + i] \in S
  <2>1. a + i \in 1 .. a + b /\ a + i \in 1 .. (a + b) + c /\ a + i <= a + b /\ ~(a + i <= a)
        /\ (a + i) - a = i
    OBVIOUS
  <2>2. w[a + i] = u[a + i] /\ u[a + i] = y[(a + i) - a]
    BY <1>2, <1>3, <2>1, Zenon
  <2> QED BY <1>1, <2>1, <2>2, ElementOfSeq
<1>5. SubSeq(w, a + 1, a + b) = y
  <2>1. PICK m \in Int, n \in Int : m = a + 1 /\ n = a + b
    OBVIOUS
  <2>2. ASSUME NEW i \in m .. n PROVE w[i] \in S
    <3>1. i - a \in 1 .. b /\ a + (i - a) = i
      BY <2>1
    <3> QED BY <1>4, <3>1
  <2>3. /\ SubSeq(w, m, n) \in Seq(S)
        /\ Len(SubSeq(w, m, n)) = IF m <= n THEN n - m + 1 ELSE 0
        /\ \A i \in 1 .. n - m + 1 : SubSeq(w, m, n)[i] = w[m + i - 1]
    BY <2>2, SubSeqProperties
  <2>4. (IF m <= n THEN n - m + 1 ELSE 0) = b
    BY <2>1
  <2>5. ASSUME NEW i \in 1 .. b PROVE SubSeq(w, m, n)[i] = y[i]
    <3>1. i \in 1 .. n - m + 1 /\ m + i - 1 = a + i
      BY <2>1
    <3> QED BY <1>4, <2>3, <3>1, Zenon
  <2>6. PICK v \in Seq(S) : v = SubSeq(w, m, n) /\ Len(v) = b /\ \A i \in 1 .. b : v[i] = y[i]
    BY <2>3, <2>4, <2>5
  <2>7. v = y
    BY <1>1, <2>6, SeqEqual
  <2> QED BY <2>1, <2>6, <2>7
<1> QED BY <1>1, <1>2, <1>3, <1>5

LEMMA SkipFacts ==
  ASSUME NEW S, Space \in S, NEW s \in Seq(S)
  PROVE  \E k \in 0 .. Len(s) :
           /\ SkipSpaces(s) \in Seq(S) /\ s = Spaces(k) \o SkipSpaces(s)
           /\ Len(SkipSpaces(s)) = Len(s) - k
           /\ SkipSpaces(s) # <<>> => SkipSpaces(s)[1] # Space
<1>1. PICK n \in Nat : n = Len(s)
  BY LenProperties
<1>2. PICK k \in 1 .. Len(s) + 1 :
        /\ k = FirstOf(s, IsOther) /\ \A i \in 1 .. k - 1 : s[i] = Space
        /\ k <= Len(s) => s[k] # Space
  BY FirstOther
<1>3. PICK m \in 0 .. n : m = k - 1
  BY <1>1, <1>2
<1>4. SkipSpaces(s) = SubSeq(s, k, Len(s))
  BY <1>2 DEF SkipSpaces
<1>5. PICK h \in Seq(S) : h = SubSeq(s, 1, k - 1) /\ Len(h) = m /\ \A i \in 1 .. m : h[i] = Space
  <2>1. /\ SubSeq(s, 1, k - 1) \in Seq(S) /\ Len(SubSeq(s, 1, k - 1)) = k - 1
        /\ \A i \in 1 .. k - 1 : SubSeq(s, 1, k - 1)[i] = s[i]
    BY Parts
  <2> QED BY <1>2, <1>3, <2>1
<1>6. PICK t \in Seq(S) : /\ t = SubSeq(s, k, Len(s)) /\ Len(t) = n - m
                          /\ k <= n => t[1] = s[k]
  <2>1. /\ SubSeq(s, k, Len(s)) \in Seq(S) /\ Len(SubSeq(s, k, Len(s))) = Len(s) + 1 - k
        /\ k <= Len(s) => SubSeq(s, k, Len(s))[1] = s[k]
    BY Parts
  <2>2. Len(s) + 1 - k = n - m
    BY <1>1, <1>3
  <2> QED BY <1>1, <2>1, <2>2
<1>7. h = Spaces(m)
  <2>1. PICK g \in Seq(S) : g = Spaces(m) /\ Len(g) = m /\ \A i \in 1 .. m : g[i] = Space
    BY SpacesFacts
  <2> QED BY <1>5, <2>1, SeqEqual
<1>8. s = h \o t
  <2>1. s = SubSeq(s, 1, k - 1) \o SubSeq(s, k, Len(s))
    BY Parts
  <2> QED BY <1>5, <1>6, <2>1
<1>9. t # <<>> => t[1] # Space
  <2>1. ASSUME t # <<>> PROVE k <= n
    <3>1. Len(t) \in Nat \ {0}
      BY <2>1, EmptySeq
    <3> QED BY <1>1, <1>3, <1>6, <3>1
  <2> QED BY <1>1, <1>2, <1>6, <2>1
<1> QED BY <1>1, <1>3, <1>4, <1>6, <1>7, <1>8, <1>9, Zenon

\* The name that a line starts with, behind spaces, and what follows it.
LEMMA NameOfLine ==
  ASSUME NEW S, Space \in S, NEW s \in Seq(S)
  PROVE  \E k \in 1 .. Len(s) + 1 :
           LET name == SubSeq(s, 1, FirstOf(s, IsSpace) - 1)
               rest == SubSeq(s, Len(name) + 1, Len(s))
           IN  /\ name \in Seq(S) /\ rest \in Seq(S) /\ s = name \o rest
               /\ Len(rest) = Len(s) - Len(name)
               /\ Space \notin Range(name)
               /\ rest # <<>> => rest[1] = Space
               /\ name = <<>> /\ s # <<>> => s[1] = Space
<1>1. PICK n \in Nat : n = Len(s)
  BY LenProperties
<1>2. PICK k \in 1 .. Len(s) + 1 :
        /\ k = FirstOf(s, IsSpace) /\ \A i \in 1 .. k - 1 : s[i] # Space
        /\ k <= Len(s) => s[k] = Space
  BY FirstSpace
<1>3. PICK m \in 0 .. n : m = k - 1 /\ m + 1 = k
  BY <1>1, <1>2
<1>4. PICK name \in Seq(S) : /\ name = SubSeq(s, 1, k - 1) /\ Len(name) = m
                             /\ \A i \in 1 .. m : name[i] # Space
  <2>1. /\ SubSeq(s, 1, k - 1) \in Seq(S) /\ Len(SubSeq(s, 1, k - 1)) = k - 1
        /\ \A i \in 1 .. k - 1 : SubSeq(s, 1, k - 1)[i] = s[i]
    BY Parts
  <2> QED BY <1>2, <1>3, <2>1
<1>5. PICK rest \in Seq(S) : /\ rest = SubSeq(s, k, Len(s)) /\ Len(rest) = n - m
                             /\ k <= n => rest[1] = s[k]
  <2>1. /\ SubSeq(s, k, Len(s)) \in Seq(S) /\ Len(SubSeq(s, k, Len(s))) = Len(s) + 1 - k
        /\ k <= Len(s) => SubSeq(s, k, Len(s))[1] = s[k]
    BY Parts
  <2>2. Len(s) + 1 - k = n - m
    BY <1>1, <1>3
  <2> QED BY <1>1, <2>1, <2>2
<1>6. name = SubSeq(s, 1, FirstOf(s, IsSpace) - 1) /\ rest = SubSeq(s, Len(name) + 1, Len(s))
  BY <1>2, <1>3, <1>4, <1>5
<1>7. s = name \o rest
  BY <1>4, <1>5, Parts, Zenon
<1>8. Space \notin Range(name)
  <2>1. DOMAIN name = 1 .. m
    BY <1>4, LenProperties
  <2> QED BY <1>4, <2>1 DEF Range
<1>9. rest # <<>> => rest[1] = Space
  <2>1. ASSUME rest # <<>> PROVE k <= n
    <3>1. Len(rest) \in Nat \ {0}
      BY <2>1, EmptySeq
    <3> QED BY <1>1, <1>3, <1>5, <3>1
  <2> QED BY <1>1, <1>2, <1>5, <2>1
<1>10. name = <<>> /\ s # <<>> => s[1] = Space
  <2> SUFFICES ASSUME name = <<>>, s # <<>> PROVE s[1] = Space
    OBVIOUS
  <2>1. m = 0
    BY <1>4, EmptySeq
  <2>2. n \in Nat \ {0}
    BY <1>1, EmptySeq
  <2>3. k = 1 /\ k <= Len(s)
    BY <1>1, <1>3, <2>1, <2>2
  <2> QED BY <1>2, <2>3
<1>11. Len(rest) = Len(s) - Len(name)
  BY <1>1, <1>4, <1>5
<1> QED BY <1>2, <1>6, <1>7, <1>8, <1>9, <1>10, <1>11, Zenon

LEMMA TrimFacts ==
  ASSUME NEW S, Space \in S, NEW s \in Seq(S)
  PROVE  \E k \in 0 .. Len(s) :
           /\ EndTrimmed(s) \in Seq(S) /\ s = EndTrimmed(s) \o Spaces(Len(s) - k)
           /\ Len(EndTrimmed(s)) = k
           /\ EndTrimmed(s) # <<>> => /\ s # <<>> /\ EndTrimmed(s)[1] = s[1]
                                      /\ EndTrimmed(s)[Len(EndTrimmed(s))] # Space
<1>1. PICK n \in Nat : n = Len(s)
  BY LenProperties
<1>2. PICK k \in 0 .. n : /\ k = SelectLastInSeq(s, IsOther)
                          /\ \A i \in k + 1 .. n : s[i] = Space
                          /\ k > 0 => s[k] # Space
  BY <1>1, LastOther
<1>3. PICK p \in 1 .. n + 1 : p = k + 1 /\ p - 1 = k
  <2>1. k + 1 \in 1 .. n + 1 /\ (k + 1) - 1 = k
    BY <1>1
  <2> QED BY <2>1
<1>4. PICK h \in Seq(S) : h = EndTrimmed(s) /\ Len(h) = k /\ \A i \in 1 .. k : h[i] = s[i]
  <2>1. /\ SubSeq(s, 1, p - 1) \in Seq(S) /\ Len(SubSeq(s, 1, p - 1)) = p - 1
        /\ \A i \in 1 .. p - 1 : SubSeq(s, 1, p - 1)[i] = s[i]
    BY <1>1, Parts
  <2>2. EndTrimmed(s) = SubSeq(s, 1, k)
    BY <1>2 DEF EndTrimmed
  <2> QED BY <1>3, <2>1, <2>2, Zenon
<1>5. PICK t \in Seq(S) : t = SubSeq(s, p, n) /\ Len(t) = n - k /\ s = h \o t
  <2>1. /\ SubSeq(s, p, n) \in Seq(S) /\ Len(SubSeq(s, p, n)) = n + 1 - p
        /\ s = SubSeq(s, 1, p - 1) \o SubSeq(s, p, n)
    BY <1>1, Parts
  <2>2. n + 1 - p = n - k
    BY <1>3
  <2>3. h = SubSeq(s, 1, p - 1)
    BY <1>2, <1>3, <1>4 DEF EndTrimmed
  <2> QED BY <2>1, <2>2, <2>3
<1>6. t = Spaces(n - k)
  <2>1. PICK d \in Nat : d = n - k
    <3>1. n - k \in Nat
      OBVIOUS
    <3> QED BY <3>1
  <2>2. PICK g \in Seq(S) : g = Spaces(d) /\ Len(g) = d /\ \A i \in 1 .. d : g[i] = Space
    BY SpacesFacts
  <2>3. ASSUME NEW i \in 1 .. d PROVE t[i] = Space
    <3>1. PICK l \in Nat, e \in Nat : l = Len(h) /\ e = Len(t) /\ l = k /\ e = d
      BY <1>4, <1>5, <2>1, LenProperties
    <3>2. \A j \in 1 .. l + e : (h \o t)[j] = IF j <= l THEN h[j] ELSE t[j - l]
      <4>1. \A j \in 1 .. Len(h) + Len(t) :
              (h \o t)[j] = IF j <= Len(h) THEN h[j] ELSE t[j - Len(h)]
        BY ConcatProperties
      <4> QED BY <3>1, <4>1, Zenon
    <3>3. k + i \in 1 .. l + e /\ ~(k + i <= l) /\ k + i - l = i /\ k + i \in k + 1 .. n
      BY <2>1, <3>1
    <3>4. s[k + i] = t[k + i - l]
      <4>1. PICK j \in 1 .. l + e : j = k + i /\ ~(j <= l)
        BY <3>3
      <4>2. (h \o t)[j] = t[j - l]
        BY <3>2, <4>1
      <4>3. s[j] = t[j - l]
        BY <1>5, <4>2, Zenon
      <4> QED BY <4>1, <4>3, SMTT(20)
    <3> QED BY <1>2, <3>3, <3>4, Zenon
  <2> QED BY <1>5, <2>1, <2>2, <2>3, SeqEqual
<1>7. ASSUME h # <<>> PROVE s # <<>> /\ h[1] = s[1] /\ h[Len(h)] # Space
  <2>1. k > 0
    <3>1. Len(h) \in Nat \ {0}
      BY <1>7, EmptySeq
    <3> QED BY <1>4, <3>1
  <2>2. s # <<>>
    <3>1. n # 0
      BY <1>1, <1>2, <2>1
    <3> QED BY <1>1, <3>1, EmptySeq
  <2>3. 1 \in 1 .. k /\ k \in 1 .. k
    BY <1>1, <2>1
  <2> QED BY <1>2, <1>4, <2>1, <2>2, <2>3, Zenon
<1> QED BY <1>1, <1>4, <1>5, <1>6, <1>7, Zenon

\* A name for concatenation that hides it from the provers.
Then(x, y) == x \o y

LEMMA Thens ==
  \A S : \A x, y, z \in Seq(S) :
    Then(x, y) \in Seq(S) /\ Then(x, Then(y, z)) = Then(Then(x, y), z)
<1> TAKE S
<1> TAKE x, y, z \in Seq(S)
<1>1. x \o (y \o z) = (x \o y) \o z
  BY ConcatAssociative, SMTT(40)
<1>2. x \o y \in Seq(S)
  BY ConcatProperties
<1> QED BY <1>1, <1>2, Zenon DEF Then

LEMMA ThreeParts ==
  ASSUME NEW S, NEW x \in Seq(S), NEW y \in Seq(S), NEW z \in Seq(S)
  PROVE  (x \o y) \o z \in Seq(S) /\ Len((x \o y) \o z) = Len(x) + Len(y) + Len(z)
<1>1. PICK a \in Seq(S) : a = x \o y /\ Len(a) = Len(x) + Len(y)
  BY ConcatProperties
<1>2. a \o z \in Seq(S) /\ Len(a \o z) = Len(x) + Len(y) + Len(z)
  BY <1>1, ConcatProperties
<1> QED BY <1>1, <1>2, Zenon

\* However a line is typed: sys_execute finds the name and the arguments in it, and
\* nothing but spaces is lost.
THEOREM CommandIsSplit ==
  ASSUME NEW S, NEW command \in Seq(S)
  PROVE  \E i, j \in 0 .. Len(command) :
           /\ arg_buffer_of(command) = SubSeq(command, i + 1, j)
           /\ IsSplit(command, prog_name(command), SubSeq(command, i + 1, j))
<1> DEFINE R == S \cup {Space}
<1>1. Space \in R /\ command \in Seq(R)
  BY SeqMonotonic
<1> HIDE DEF R
<1>2. PICK n \in Nat : n = Len(command)
  BY LenProperties
\* The line is spaces and s; s is the name and r; r is spaces and u; u the arguments
\* and spaces.
<1>3. PICK s \in Seq(R), lead \in 0 .. n :
        /\ s = SkipSpaces(command) /\ command = Spaces(lead) \o s /\ Len(s) = n - lead
        /\ s # <<>> => s[1] # Space
  <2>1. \E k \in 0 .. Len(command) :
          /\ SkipSpaces(command) \in Seq(R) /\ command = Spaces(k) \o SkipSpaces(command)
          /\ Len(SkipSpaces(command)) = Len(command) - k
          /\ SkipSpaces(command) # <<>> => SkipSpaces(command)[1] # Space
    BY <1>1, SkipFacts
  <2> QED BY <1>2, <2>1, Zenon
<1> DEFINE name == SubSeq(s, 1, FirstOf(s, IsSpace) - 1)
           r == SubSeq(s, Len(name) + 1, Len(s))
           u == SkipSpaces(r)
           args == EndTrimmed(u)
<1>4. prog_name(command) = name /\ arg_buffer_of(command) = args
  BY <1>3 DEF prog_name, arg_buffer_of
<1>5. /\ name \in Seq(R) /\ r \in Seq(R) /\ s = name \o r
      /\ Len(r) = Len(s) - Len(name)
      /\ Space \notin Range(name)
      /\ r # <<>> => r[1] = Space
      /\ name = <<>> /\ s # <<>> => s[1] = Space
  BY <1>1, NameOfLine
<1> HIDE DEF name, r
<1>6. PICK gap \in 0 .. Len(r) :
        /\ u \in Seq(R) /\ r = Spaces(gap) \o u /\ Len(u) = Len(r) - gap
        /\ u # <<>> => u[1] # Space
  BY <1>1, <1>5, SkipFacts
<1> HIDE DEF u
<1>7. PICK l \in 0 .. Len(u) :
        /\ args \in Seq(R) /\ u = args \o Spaces(Len(u) - l) /\ Len(args) = l
        /\ args # <<>> => u # <<>> /\ args[1] = u[1] /\ args[Len(args)] # Space
  BY <1>1, <1>6, TrimFacts
<1> HIDE DEF args
<1>8. PICK a \in Nat, b \in Nat, c \in Nat :
        a = Len(name) /\ b = Len(r) /\ c = Len(u) /\ Len(s) \in Nat
  BY <1>3, <1>5, <1>6, LenProperties
<1>9. PICK trail \in 0 .. n :
        /\ trail = c - l /\ gap \in 0 .. n /\ lead + a + gap \in 0 .. n
        /\ lead + a + gap + l \in 0 .. n
  <2>1. l \in 0 .. c /\ gap \in 0 .. b /\ c = b - gap /\ b = n - lead - a
    BY <1>3, <1>5, <1>6, <1>7, <1>8
  <2> QED BY <2>1
<1>10. PICK L \in Seq(R), G \in Seq(R), T \in Seq(R) :
         /\ L = Spaces(lead) /\ G = Spaces(gap) /\ T = Spaces(trail)
         /\ Len(L) = lead /\ Len(G) = gap /\ (gap = 0 => G = <<>>)
  <2>1. /\ Spaces(lead) \in Seq(R) /\ Len(Spaces(lead)) = lead
        /\ Spaces(gap) \in Seq(R) /\ Len(Spaces(gap)) = gap
        /\ Spaces(trail) \in Seq(R)
    BY <1>1, <1>8, <1>9, SpacesFacts
  <2>2. gap = 0 => Spaces(gap) = <<>>
    BY <2>1, EmptySeq
  <2> QED BY <2>1, <2>2
<1>11. command = (((L \o name) \o G) \o args) \o T
  <2>1. L \o (name \o (G \o (args \o T))) = (((L \o name) \o G) \o args) \o T
    <3> DEFINE Q == Seq(R)
    <3>1. \A x, y, z \in Q : Then(x, y) \in Q /\ Then(x, Then(y, z)) = Then(Then(x, y), z)
      BY Thens
    <3>2. L \in Q /\ name \in Q /\ G \in Q /\ args \in Q /\ T \in Q
      BY <1>5, <1>7
    <3> HIDE DEF Q
    <3>3. Then(L, Then(name, Then(G, Then(args, T)))) =
            Then(Then(Then(Then(L, name), G), args), T)
      BY <3>1, <3>2, SMTT(60)
    <3> QED BY <3>3, Zenon DEF Then
  <2>2. command = L \o (name \o (G \o (args \o T)))
    BY <1>3, <1>5, <1>6, <1>7, <1>8, <1>9, <1>10, Zenon
  <2> QED BY <2>1, <2>2, Zenon
<1>12. args # <<>> => gap > 0 /\ args[1] # Space /\ Last(args) # Space
  <2> SUFFICES ASSUME args # <<>> PROVE gap > 0 /\ args[1] # Space /\ Last(args) # Space
    OBVIOUS
  <2>1. u # <<>> /\ u[1] # Space
    BY <1>6, <1>7
  <2>2. gap # 0
    <3> SUFFICES ASSUME gap = 0 PROVE FALSE
      OBVIOUS
    <3>1. r = u
      BY <1>6, <1>10, ConcatEmptySeq
    <3> QED BY <1>5, <2>1, <3>1
  <2>3. gap > 0
    BY <1>8, <2>2
  <2> QED BY <1>7, <2>1, <2>3 DEF Last
<1>13. name = <<>> => args = <<>>
  <2> SUFFICES ASSUME name = <<>>, args # <<>> PROVE FALSE
    OBVIOUS
  <2>1. s = <<>>
    BY <1>3, <1>5
  <2>2. a = 0 /\ Len(s) = 0
    BY <1>8, <2>1, EmptySeq
  <2>3. c = 0
    BY <1>5, <1>6, <1>8, <2>2
  <2> QED BY <1>6, <1>7, <1>8, <2>3, EmptySeq
<1>14. IsSplit(command, name, args)
  <2>1. /\ lead \in 0 .. Len(command) /\ gap \in 0 .. Len(command)
        /\ trail \in 0 .. Len(command)
    BY <1>2, <1>9
  <2>2. command = Spaces(lead) \o name \o Spaces(gap) \o args \o Spaces(trail)
    BY <1>10, <1>11, Zenon
  <2> QED BY <1>5, <1>12, <1>13, <2>1, <2>2, Zenon DEF IsSplit
<1>15. SubSeq(command, (lead + a + gap) + 1, lead + a + gap + l) = args
  <2>1. PICK x \in Seq(R) : x = (L \o name) \o G /\ Len(x) = lead + a + gap
    <3>1. /\ (L \o name) \o G \in Seq(R)
          /\ Len((L \o name) \o G) = Len(L) + Len(name) + Len(G)
      BY <1>5, ThreeParts
    <3>2. Len((L \o name) \o G) = lead + a + gap
      BY <1>8, <1>10, <3>1, Zenon
    <3> QED BY <3>1, <3>2
  <2>2. SubSeq((x \o args) \o T, Len(x) + 1, Len(x) + Len(args)) = args
    BY <1>7, Middle, SMTT(30)
  <2> QED BY <1>7, <1>11, <2>1, <2>2, Zenon
<1> QED BY <1>2, <1>4, <1>9, <1>14, <1>15, Zenon

-----------------------------------------------------------------------------
(* cat and ls: what has been shown so far is what the open descriptor has    *)
(* delivered, and a read that returns 0 has delivered everything.            *)

\* What cat, or ls, opens.
Source == IF program = Cat THEN arg_buffer ELSE Dir

Parsed ==
  Runs => /\ line \in Seq(Range(line))
          /\ program = prog_name(line) /\ arg_buffer = arg_buffer_of(line)

\* The loop of cat, or of ls.
Copies ==
  /\ program = Cat => HasArgs(arg_buffer, BUFSIZE)
  /\ client.fd \in FD /\ file_descriptor[client.fd].flags # "empty"
  /\ opened[client.fd] = read_dentry_by_name(Source)
  /\ output = got[client.fd]
  /\ opened[client.fd].file_type = "rtc" => output = <<>>

Finished ==
  /\ program = Cat => CatShows(arg_buffer)
  /\ program = Ls => output = AllNames

Shows ==
  program \in {Cat, Ls} =>
    /\ {"pc", "fd"} \subseteq DOMAIN client /\ client.pc \in {"main", "loop", "done"}
    /\ client.pc = "main" => output = <<>> /\ FreeFDs(file_descriptor) = FD
    /\ client.pc = "loop" => Copies
    /\ client.pc = "done" => Finished

FInv == IInv /\ Parsed /\ Shows

LEMMA FoundName ==
  ASSUME NEW name, Found(read_dentry_by_name(name))
  PROVE  read_dentry_by_name(name).file_name = name
<1> DEFINE found == {i \in DOMAIN dentries : dentries[i].file_name = name}
<1>1. ~(Len(name) > FILENAME_LEN)
  BY DEF read_dentry_by_name, Found, TooLong
<1>2. /\ found # {}
      /\ read_dentry_by_name(name) = dentries[CHOOSE i \in found : \A j \in found : i <= j]
  BY <1>1 DEF read_dentry_by_name, Found
<1>3. found \subseteq Nat
  BY NameFacts
<1>4. \E i \in found : \A j \in found : i <= j
  BY <1>2, <1>3, LeastNat
<1>5. (CHOOSE i \in found : \A j \in found : i <= j) \in found
  <2> HIDE DEF found
  <2> QED BY <1>4
<1> QED BY <1>2, <1>5

\* The line, the program and its arguments stay while the program runs.
LEMMA LineStays ==
  ASSUME AnyProgram \/ ClientStep \/ UNCHANGED pvars
  PROVE  UNCHANGED <<line, program, arg_buffer>>
<1>1. CASE AnyProgram
  BY <1>1 DEF AnyProgram, SysOpen, SysClose, SysRead, SysWrite, Call
<1>2. CASE ClientStep
  <2>1. ASSUME NEW name, NEW field, NEW pc, NEW message, Opens(name, field, pc, message)
        PROVE  UNCHANGED <<line, program, arg_buffer>>
    BY <2>1 DEF Opens, Done, SysOpen, Call, vars
  <2>2. ASSUME NEW out, Done(out) PROVE UNCHANGED <<line, program, arg_buffer>>
    BY <2>2 DEF Done, vars
  <2>3. ASSUME NEW fd, NEW n, SysRead(fd, n) PROVE UNCHANGED <<line, program, arg_buffer>>
    BY <2>3 DEF SysRead, Call
  <2>4. CASE CatMain \/ LsMain \/ GrepMain \/ GrepOpens \/ FishMain \/ FishFirst \/ FishSecond
    BY <2>1, <2>2, <2>4, Zenon
       DEF CatMain, LsMain, GrepMain, GrepOpens, FishMain, FishFirst, FishSecond
  <2>5. CASE CatReads \/ LsReads \/ GrepEntry \/ GrepReads
    BY <2>3, <2>5, Zenon DEF CatReads, LsReads, GrepEntry, GrepReads
  <2>6. CASE FishReads(1) \/ FishReads(2)
    BY <2>3, <2>6, Zenon DEF FishReads, vars
  <2>7. CASE GrepCloses \/ FishCell \/ FishRow \/ FishRate \/ FishCloses
    BY <2>7, Zenon DEF GrepCloses, FishCell, FishRow, FishRate, FishCloses, SysClose, SysWrite,
       Call, vars
  <2> QED BY <1>2, <2>4, <2>5, <2>6, <2>7 DEF ClientStep
<1>3. CASE UNCHANGED pvars
  BY <1>3 DEF pvars, vars
<1> QED BY <1>1, <1>2, <1>3

\* What the shell passes on is a sequence.
LEMMA CommandTyped ==
  ASSUME NEW typed \in Lines
  PROVE  WithoutNewline(typed) \in Seq(Range(WithoutNewline(typed)))
<1>1. PICK S : S = Range(typed) /\ typed \in Seq(S)
  BY DescriptorAssumption
<1>2. WithoutNewline(typed) \in Seq(S)
  <2>1. CASE typed # <<>> /\ Last(typed) = Newline
    <3>1. PICK n \in Nat \ {0} : n = Len(typed)
      BY <1>1, <2>1, EmptySeq
    <3>2. PICK m \in 0 .. n : m = n - 1
      BY <3>1
    <3>3. SubSeq(typed, 1, m) \in Seq(S)
      BY <1>1, <3>1, <3>2, Prefix
    <3> QED BY <2>1, <3>1, <3>2, <3>3 DEF WithoutNewline, Front
  <2>2. CASE ~(typed # <<>> /\ Last(typed) = Newline)
    BY <1>1, <2>2 DEF WithoutNewline
  <2> QED BY <2>1, <2>2
<1> QED BY <1>2, SeqOfRange

LEMMA ArgsTyped ==
  ASSUME NEW command, command \in Seq(Range(command))
  PROVE  Len(arg_buffer_of(command)) \in Nat
<1>1. PICK S : S = Range(command) /\ command \in Seq(S)
  OBVIOUS
<1>2. PICK n \in Nat : n = Len(command)
  BY <1>1, LenProperties
<1>3. PICK i \in 0 .. n, j \in 0 .. n : arg_buffer_of(command) = SubSeq(command, i + 1, j)
  BY <1>1, <1>2, CommandIsSplit
<1>4. \A l \in i + 1 .. j : command[l] \in S
  BY <1>1, <1>2, ElementOfSeq
<1>5. SubSeq(command, i + 1, j) \in Seq(S)
  BY <1>4, SubSeqProperties
<1> QED BY <1>3, <1>5, LenProperties

LEMMA ParsedStep ==
  ASSUME FInv, [PNext]_pvars
  PROVE  Parsed'
<1>1. CASE Start
  <2>1. PICK typed \in Lines, stack \in Stacks : SysExecute(typed, stack)
    BY <1>1 DEF Start
  <2> DEFINE command == WithoutNewline(typed)
  <2>2. /\ Found(read_dentry_by_name(prog_name(command)))
        /\ line' = command
        /\ program' = read_dentry_by_name(prog_name(command)).file_name
        /\ arg_buffer' = arg_buffer_of(command)
    BY <2>1 DEF SysExecute
  <2>3. command \in Seq(Range(command))
    BY CommandTyped
  <2> HIDE DEF command
  <2> QED BY <2>2, <2>3, FoundName DEF Parsed
<1>2. CASE Halt
  BY <1>2 DEF Halt, SysHalt, Parsed, Runs
<1>3. CASE AnyProgram \/ ClientStep \/ UNCHANGED pvars
  BY <1>3, LineStays DEF FInv, Parsed, Runs
<1> QED BY <1>1, <1>2, <1>3 DEF PNext

\* A read that returns 0 has nothing left to deliver.
LEMMA ReadAll ==
  ASSUME Typed, NEW fd, NEW n \in Nat \ {0}, sys_read(file_descriptor, fd, n).ret = 0,
         fd \in FD => Good(fd)
  PROVE  /\ sys_read(file_descriptor, fd, n).data = <<>>
         /\ opened[fd].file_type = "file" => got[fd] = Concatenation(opened[fd].inode_number)
         /\ opened[fd].file_type = "dir" => got[fd] = AllNames
<1> DEFINE t == file_descriptor
           r == sys_read(t, fd, n)
           s == got[fd]
<1>1. Fails(t).ret = -1
  BY DEF Fails
<1>2. fd \in FD /\ t[fd].flags # "empty" /\ IsOpen(t, fd) /\ ~(n < 0)
  BY <1>1 DEF sys_read, IsOpen
<1>3. /\ StreamOf(t[fd], opened[fd], s) /\ t[fd] \in FileDesc /\ s \in Data
      /\ t[fd].flags = opened[fd].file_type
  BY <1>2 DEF Good, Typed, StreamOf
<1>4. PICK l \in Nat : l = Len(s)
  BY <1>3, LenProperties DEF Data
<1>5. CASE t[fd].flags = "file"
  <2>1. PICK k \in Inode : k = t[fd].inode /\ k = opened[fd].inode_number
    BY <1>3, <1>5, NameFacts DEF StreamOf
  <2>2. /\ k % INODE_LIMIT = k /\ t[fd].file_position = l /\ l <= inodes[k].size
        /\ inodes[k].size \in Nat /\ \A i \in 1 .. l : s[i] = Contents(k)[i]
    BY <1>3, <1>4, <1>5, <2>1, FileFacts DEF StreamOf
  <2>3. PICK d \in Seq(Byte) :
          /\ d = read_data(k, l, n)
          /\ Len(d) = IF n < inodes[k].size - l THEN n ELSE inodes[k].size - l
    BY <2>2, ReadData
  <2>4. r.ret = Len(d) /\ r.data = d
    <3>1. r = file_read(t, fd, n)
      BY <1>2, <1>5 DEF sys_read
    <3>2. read_data(t[fd].inode % INODE_LIMIT, t[fd].file_position, n) = d
      BY <2>1, <2>2, <2>3
    <3> QED BY <3>1, <3>2 DEF file_read
  <2>5. Len(d) = 0
    BY <2>4
  <2>6. d = <<>> /\ l = inodes[k].size
    <3>1. PICK z \in Nat : z = inodes[k].size
      BY <2>2
    <3>2. (IF n < z - l THEN n ELSE z - l) = 0 => l = z
      OBVIOUS
    <3> QED BY <2>3, <2>5, <3>1, <3>2, EmptySeq
  <2>7. s = Contents(k)
    <3>1. Contents(k) \in Seq(Byte) /\ Len(Contents(k)) = inodes[k].size
      BY FileFacts
    <3>2. PICK c \in Seq(Byte \cup Name) : c = Contents(k) /\ Len(c) = l
      BY <2>6, <3>1, SeqMonotonic
    <3>3. s \in Seq(Byte \cup Name)
      BY <1>3 DEF Data
    <3>4. \A i \in 1 .. Len(s) : s[i] = c[i]
      BY <1>4, <2>2, <3>2
    <3>5. s = c
      BY <1>4, <3>2, <3>3, <3>4, SeqEqual
    <3> QED BY <3>2, <3>5
  <2>8. s = Concatenation(opened[fd].inode_number)
    BY <2>1, <2>7, ContentsAreBlocks
  <2>9. opened[fd].file_type # "dir"
    BY <1>3, <1>5
  <2> QED BY <2>4, <2>6, <2>8, <2>9
<1>6. CASE t[fd].flags = "dir"
  <2>1. /\ t[fd].file_position = l /\ l <= Len(dentries)
        /\ \A i \in 1 .. l : s[i] = dentries[i].file_name
    BY <1>3, <1>4, <1>6 DEF StreamOf
  <2>2. r = dir_read(t, fd, n)
    BY <1>2, <1>6 DEF sys_read
  <2>3. ~Found(read_dentry_by_index(l)) /\ r.data = <<>>
    <3>1. PICK next : next = read_dentry_by_index(t[fd].file_position)
      OBVIOUS
    <3>2. r.ret = IF Found(next) THEN n ELSE 0
      BY <2>2, <3>1 DEF dir_read
    <3>3. ~Found(next)
      BY <3>2
    <3>4. r.data = <<>>
      BY <2>2, <3>1, <3>3 DEF dir_read
    <3> QED BY <2>1, <3>1, <3>3, <3>4
  <2>4. l = Len(dentries)
    <3>1. PICK m \in Nat : m = Len(dentries)
      BY NameFacts
    <3>2. ~(l < m)
      BY <2>3, <3>1, ByIndex
    <3> QED BY <2>1, <3>1, <3>2
  <2>5. s = [i \in 1 .. l |-> s[i]]
    BY <1>3, <1>4, LenProperties DEF Data
  <2>6. s = AllNames
    BY <2>1, <2>4, <2>5, NameFacts DEF AllNames
  <2>7. opened[fd].file_type # "file"
    BY <1>3, <1>6
  <2> QED BY <2>3, <2>6, <2>7
<1>7. CASE t[fd].flags = "rtc"
  <2>1. r = [ret |-> 0, data |-> <<>>, table |-> t]
    BY <1>2, <1>7 DEF sys_read
  <2> QED BY <1>3, <1>7, <2>1
<1> QED BY <1>2, <1>3, <1>5, <1>6, <1>7 DEF FileDesc, Type

LEMMA NoneBefore == \A x : <<>> \o <<x>> = <<x>>
<1> TAKE x
<1>1. <<x>> \in Seq({x})
  OBVIOUS
<1> QED BY <1>1, ConcatEmptySeq

\* sys_getargs hands out what there is, if it fits with a NUL.
LEMMA Given ==
  FInv /\ program = Cat =>
    (HasArgs(arg_buffer, BUFSIZE) <=> arg_buffer # <<>> /\ Len(arg_buffer) < BUFSIZE)
<1> SUFFICES ASSUME FInv, program = Cat
             PROVE  HasArgs(arg_buffer, BUFSIZE) <=> arg_buffer # <<>> /\ Len(arg_buffer) < BUFSIZE
  OBVIOUS
<1>1. Parsed /\ Runs
  BY ProgramsAssumption, NameFacts DEF FInv, Runs
<1>2. Len(arg_buffer) \in Nat
  BY <1>1, ArgsTyped DEF Parsed
<1> QED BY <1>2, ProgramsAssumption DEF HasArgs, ProgramsAssumption

\* The program goes on as what it is.
LEMMA OthersShow ==
  ASSUME Shows, program' = program, program \notin {Cat, Ls}
  PROVE  Shows'
BY DEF Shows

\* main opens the source, or says that there is none.
LEMMA OpensShows ==
  ASSUME FInv, program \in {Cat, Ls}, client.pc = "main", NEW message,
         Opens(Source, "fd", "loop", message), Source # NoName,
         program = Cat => HasArgs(arg_buffer, BUFSIZE)
  PROVE  \/ Shows'
         \/ /\ ~Found(read_dentry_by_name(Source)) /\ Done(message) /\ output = <<>>
<1> DEFINE r == sys_open(file_descriptor, Source)
           e == read_dentry_by_name(Source)
<1>1. /\ {"pc", "fd"} \subseteq DOMAIN client
      /\ output = <<>> /\ FreeFDs(file_descriptor) = FD
  BY DEF FInv, Shows
<1>2. CASE SysOpen(Source) /\ Moves([client EXCEPT !["fd"] = r.ret, !.pc = "loop"], <<>>)
  <2>1. /\ r.ret # -1 /\ file_descriptor' = r.table
        /\ program' = program /\ arg_buffer' = arg_buffer
        /\ opened' = [opened EXCEPT ![r.ret] = e] /\ got' = [got EXCEPT ![r.ret] = <<>>]
    BY <1>2 DEF SysOpen, Call
  <2>2. PICK fd \in FD : /\ fd = r.ret /\ r.table = [file_descriptor EXCEPT ![fd] = Entry(e)]
                         /\ e \in Range(dentries)
    BY <2>1, OpenFacts DEF FInv, IInv
  <2>3. Entry(e).flags # "empty"
    <3>1. Entry(e).flags = e.file_type /\ e.file_type \in Type
      BY <2>2, NameFacts DEF Entry
    <3> QED BY <3>1 DEF Type
  <2>4. /\ client' = [client EXCEPT !["fd"] = fd, !.pc = "loop"]
        /\ output' = <<>>
    <3>1. <<>> \o <<>> = <<>>
      <4>1. \A s \in Seq({}) : s \o <<>> = s
        BY ConcatEmptySeq
      <4> QED BY <4>1, EmptySeq
    <3> QED BY <1>1, <1>2, <2>2, <3>1 DEF Moves
  <2>5. /\ {"pc", "fd"} \subseteq DOMAIN client' /\ client'.pc = "loop" /\ client'.fd = fd
    BY <1>1, <2>4
  <2>6. /\ file_descriptor'[fd].flags # "empty" /\ opened'[fd] = e /\ got'[fd] = <<>>
    BY <2>1, <2>2, <2>3 DEF FInv, IInv, Typed
  <2>7. Source' = Source
    BY <2>1 DEF Source
  <2>8. Copies'
    <3>1. program' = Cat => HasArgs(arg_buffer, BUFSIZE)'
      BY <2>1 DEF HasArgs
    <3>2. opened'[fd] = read_dentry_by_name(Source')
      BY <2>6, <2>7
    <3> HIDE DEF r, e
    <3> QED BY <2>4, <2>5, <2>6, <3>1, <3>2 DEF Copies
  <2> QED BY <2>5, <2>8 DEF Shows
<1>3. CASE r.ret = -1 /\ Done(message)
  <2>1. FreeFDs(file_descriptor) # {}
    <3>1. 2 \in FD
      BY DescriptorAssumption DEF FD
    <3> QED BY <1>1, <3>1
  <2>2. ~Found(e)
    <3> SUFFICES ASSUME Found(e) PROVE FALSE
      OBVIOUS
    <3>1. PICK fd : /\ fd = CHOOSE f \in FreeFDs(file_descriptor) :
                              \A g \in FreeFDs(file_descriptor) : f <= g
      OBVIOUS
    <3>2. r.ret = fd
      BY <2>1, <3>1 DEF sys_open
    <3>3. fd \in FD
      <4>1. FD \subseteq Nat /\ FD # {}
        BY <1>1, <2>1, FDFacts
      <4>2. \E f \in FD : \A g \in FD : f <= g
        BY <4>1, LeastNat
      <4> QED BY <1>1, <3>1, <4>2
    <3> QED BY <1>3, <3>2, <3>3, FDFacts
  <2> QED BY <1>1, <1>3, <2>2
<1> QED BY <1>2, <1>3 DEF Opens

LEMMA StartShows ==
  ASSUME FInv, Start
  PROVE  Shows'
<1>1. \A fd \in FD : ~IsOpen(file_descriptor, fd)'
  <2>1. ClientTyped'
    BY NewClientTyped DEF Start
  <2> QED BY <2>1, ExecuteInv DEF Start, FInv
<1>2. FreeFDs(file_descriptor)' = FD
  BY <1>1 DEF FreeFDs
<1>3. {"pc", "fd"} \subseteq DOMAIN client' /\ client'.pc = "main" /\ output' = <<>>
  BY DEF Start, Client
<1> QED BY <1>2, <1>3 DEF Shows

\* A read of the loop, which ends it when it returns 0.
LEMMA ReadShows ==
  ASSUME FInv, program \in {Cat, Ls}, client.pc = "loop", NEW n \in Nat \ {0},
         SysRead(client.fd, n),
         LET r == sys_read(file_descriptor, client.fd, n)
         IN  Moves([client EXCEPT !.pc = IF r.ret = 0 THEN "done" ELSE "loop"], r.data)
  PROVE  Shows'
<1> DEFINE fd == client.fd
           r == sys_read(file_descriptor, fd, n)
           e == opened[fd]
<1>1. Copies /\ fd \in FD /\ {"pc", "fd"} \subseteq DOMAIN client /\ Good(fd) /\ Typed
  <2>1. Copies /\ {"pc", "fd"} \subseteq DOMAIN client
    BY DEF FInv, Shows
  <2>2. fd \in FD
    BY <2>1 DEF Copies
  <2>3. Runs
    BY ProgramsAssumption, NameFacts DEF Runs
  <2> QED BY <2>1, <2>2, <2>3 DEF FInv, IInv
<1>2. /\ r.ret # -1 /\ file_descriptor' = r.table /\ opened' = opened
      /\ UNCHANGED <<line, program, arg_buffer>>
      /\ got' = [got EXCEPT ![fd] = got[fd] \o r.data]
  BY <1>1 DEF SysRead, Call, Copies
<1>3. /\ client' = [client EXCEPT !.pc = IF r.ret = 0 THEN "done" ELSE "loop"]
      /\ output' = output \o r.data
  BY DEF Moves
<1>4. /\ {"pc", "fd"} \subseteq DOMAIN client' /\ client'.fd = fd
      /\ client'.pc = IF r.ret = 0 THEN "done" ELSE "loop"
  BY <1>1, <1>3
<1>5. output' = got'[fd]
  BY <1>1, <1>2, <1>3 DEF Copies, Typed
<1>6. PICK p \in FileDesc : /\ r.table = [file_descriptor EXCEPT ![fd] = p]
                            /\ StreamOf(p, e, got[fd] \o r.data)
  <2>1. fd \in FD => Good(fd)
    BY <1>1
  <2>2. n \in Int
    OBVIOUS
  <2> HIDE DEF fd
  <2>3. \E p \in FileDesc : /\ r.table = [file_descriptor EXCEPT ![fd] = p]
                            /\ got[fd] \o r.data \in Data
                            /\ StreamOf(p, opened[fd], got[fd] \o r.data)
    BY <1>1, <1>2, <2>1, <2>2, ReadFacts
  <2> QED BY <2>3
<1>7. e \in Range(dentries) /\ e.file_type \in Type
  BY <1>6, NameFacts DEF StreamOf
<1>8. Source' = Source
  BY <1>2 DEF Source
<1>9. CASE r.ret # 0
  <2>1. client'.pc = "loop"
    BY <1>4, <1>9
  <2>2. file_descriptor'[fd].flags # "empty"
    <3>1. p.flags # "empty"
      BY <1>6, <1>7 DEF StreamOf, Type
    <3> QED BY <1>1, <1>2, <1>6, <3>1 DEF Typed
  <2>3. e.file_type # "rtc"
    <3> SUFFICES ASSUME e.file_type = "rtc" PROVE r.ret = 0
      BY <1>9
    <3>1. IsOpen(file_descriptor, fd) /\ file_descriptor[fd].flags = "rtc"
      BY <1>1 DEF Copies, IsOpen, Good, StreamOf
    <3> QED BY <1>2, <3>1 DEF sys_read
  <2>4. opened'[client'.fd] = read_dentry_by_name(Source')
    BY <1>1, <1>2, <1>4, <1>8 DEF Copies
  <2>5. program' = Cat => HasArgs(arg_buffer, BUFSIZE)'
    BY <1>1, <1>2 DEF Copies, HasArgs
  <2>6. Copies'
    BY <1>1, <1>2, <1>4, <1>5, <2>2, <2>3, <2>4, <2>5 DEF Copies
  <2> QED BY <1>4, <2>1, <2>6 DEF Shows
<1>10. CASE r.ret = 0
  <2>1. client'.pc = "done"
    BY <1>4, <1>10
  <2>2. /\ r.data = <<>>
        /\ e.file_type = "file" => got[fd] = Concatenation(e.inode_number)
        /\ e.file_type = "dir" => got[fd] = AllNames
    BY <1>1, <1>10, ReadAll
  <2>3. output' = output
    <3>1. output \in Seq(Byte \cup Name)
      BY <1>1 DEF Copies, Typed, Data
    <3> QED BY <1>3, <2>2, <3>1, ConcatEmptySeq
  <2>4. /\ e = read_dentry_by_name(Source) /\ output' = got[fd]
        /\ e.file_type = "rtc" => output' = <<>>
    BY <1>1, <2>3 DEF Copies
  <2>5. program' = Ls => output' = AllNames
    <3> SUFFICES ASSUME program = Ls PROVE output' = AllNames
      BY <1>2
    <3>1. e.file_type = "dir"
      BY <2>4, ProgramsAssumption DEF Source, ProgramsAssumption
    <3> QED BY <2>2, <2>4, <3>1
  <2>6. program' = Cat => CatShows(arg_buffer)'
    <3> SUFFICES ASSUME program = Cat PROVE CatShows(arg_buffer)'
      BY <1>2
    <3> DEFINE args == arg_buffer
    <3>1. Source = args /\ HasArgs(args, BUFSIZE)
      BY <1>1 DEF Source, Copies
    <3>2. args # <<>> /\ Len(args) < BUFSIZE
      BY <3>1, Given
    <3>3. Found(read_dentry_by_name(args)) /\ e = read_dentry_by_name(args)
      BY <1>7, <2>4, <3>1, NameFacts DEF Found
    <3>4. output' = IF e.file_type = "dir" THEN AllNames ELSE Text(args)
      BY <1>7, <2>2, <2>4, <3>3 DEF Text, Type
    <3> QED BY <1>2, <1>7, <3>2, <3>3, <3>4 DEF CatShows, Type
  <2> QED BY <1>4, <2>1, <2>5, <2>6 DEF Shows, Finished
<1> QED BY <1>9, <1>10

LEMMA ShowsStep ==
  ASSUME FInv, [PNext]_pvars
  PROVE  Shows'
<1> USE DEF FInv
<1>1. CASE Start
  BY <1>1, StartShows
<1>2. CASE Halt
  BY <1>2, ProgramsAssumption, NameFacts DEF Halt, SysHalt, Shows
<1>3. CASE UNCHANGED pvars
  BY <1>3 DEF pvars, vars, Shows, Copies, Finished, CatShows, Source, FreeFDs, IsOpen
<1>4. CASE AnyProgram
  <2>1. program' = program /\ program \notin {Cat, Ls}
    BY <1>4, LineStays DEF AnyProgram, IsClient
  <2> QED BY <2>1, OthersShow
<1>5. CASE ClientStep
  <2>1. program' = program /\ arg_buffer' = arg_buffer
    BY <1>5, LineStays
  <2>2. CASE program \in {Grep, Fish}
    <3>1. program \notin {Cat, Ls}
      BY <2>2, ProgramsAssumption
    <3> QED BY <2>1, <3>1, OthersShow
  <2>3. CASE CatMain
    <3>1. At(Cat, "main")
      BY <2>3 DEF CatMain
    <3>2. CASE HasArgs(arg_buffer, BUFSIZE)
      <4>1. Opens(Source, "fd", "loop", <<"file not found">>) /\ Source # NoName
        BY <2>3, <3>1, <3>2, Zenon DEF CatMain, Source, At, HasArgs, NoName
      <4>2. CASE /\ ~Found(read_dentry_by_name(Source)) /\ output = <<>>
                 /\ Done(<<"file not found">>)
        <5>1. output' = <<"file not found">> /\ client'.pc = "done"
              /\ {"pc", "fd"} \subseteq DOMAIN client'
          BY <3>1, <4>2, NoneBefore DEF Done, Moves, Shows, At
        <5>2. ~Found(read_dentry_by_name(arg_buffer)) /\ arg_buffer # <<>>
              /\ Len(arg_buffer) < BUFSIZE
          BY <3>1, <3>2, <4>2, Given DEF Source, At
        <5>3. CatShows(arg_buffer)'
          <6>1. read_dentry_by_name(arg_buffer).file_type \notin {"file", "dir", "rtc"}
            BY <5>2 DEF Found, NoDentry
          <6> QED BY <2>1, <5>1, <5>2, <6>1 DEF CatShows
        <5>4. program' # Ls
          BY <2>1, <3>1, ProgramsAssumption DEF At
        <5> QED BY <5>1, <5>3, <5>4 DEF Shows, Finished
      <4> QED BY <3>1, <3>2, <4>1, <4>2, OpensShows DEF At
    <3>3. CASE ~HasArgs(arg_buffer, BUFSIZE)
      <4>1. Done(<<"could not read arguments">>) /\ output = <<>>
        BY <2>3, <3>1, <3>3 DEF CatMain, Shows, At
      <4>2. output' = <<"could not read arguments">> /\ client'.pc = "done"
            /\ {"pc", "fd"} \subseteq DOMAIN client'
        BY <3>1, <4>1, NoneBefore DEF Done, Moves, Shows, At
      <4>3. ~(arg_buffer # <<>> /\ Len(arg_buffer) < BUFSIZE)
        BY <3>1, <3>3, Given DEF At
      <4>4. CatShows(arg_buffer)'
        BY <2>1, <4>2, <4>3 DEF CatShows
      <4>5. program' # Ls
        BY <2>1, <3>1, ProgramsAssumption DEF At
      <4> QED BY <4>2, <4>4, <4>5 DEF Shows, Finished
    <3> QED BY <3>2, <3>3
  <2>4. CASE LsMain
    <3>1. At(Ls, "main") /\ Opens(Dir, "fd", "loop", <<"directory open failed">>)
      BY <2>4, Zenon DEF LsMain
    <3>2. Source = Dir /\ Source # NoName /\ Found(read_dentry_by_name(Source)) /\ program # Cat
      BY <3>1, OpenDir, ProgramsAssumption DEF Source, At
    <3> QED BY <3>1, <3>2, OpensShows DEF At
  <2>5. CASE CatReads
    <3>1. BUFSIZE \in Nat \ {0}
      BY ProgramsAssumption
    <3> QED BY <2>5, <3>1, ReadShows DEF CatReads, At
  <2>6. CASE LsReads
    <3>1. FILENAME_LEN \in Nat \ {0}
      <4>1. PICK i \in DOMAIN dentries : TRUE
        BY OpenDir, NameFacts
      <4>2. Len(dentries[i].file_name) \in 1 .. FILENAME_LEN /\ FILENAME_LEN \in Nat
        BY ImageAssumption
      <4> QED BY <4>2
    <3> QED BY <2>6, <3>1, ReadShows DEF LsReads, At
  <2>7. CASE GrepMain \/ GrepEntry \/ GrepOpens \/ GrepReads \/ GrepCloses
    <3>1. program = Grep
      BY <2>7, Zenon DEF GrepMain, GrepEntry, GrepOpens, GrepReads, GrepCloses, At
    <3> QED BY <2>2, <3>1
  <2>8. CASE \/ FishMain \/ FishFirst \/ FishSecond \/ FishReads(1) \/ FishReads(2)
             \/ FishCell \/ FishRow \/ FishRate \/ FishCloses
    <3>1. program = Fish
      BY <2>8, Zenon DEF FishMain, FishFirst, FishSecond, FishReads, FishCell, FishRow,
         FishRate, FishCloses, At
    <3> QED BY <2>2, <3>1
  <2> QED BY <1>5, <2>3, <2>4, <2>5, <2>6, <2>7, <2>8 DEF ClientStep
<1> QED BY <1>1, <1>2, <1>3, <1>4, <1>5 DEF PNext

-----------------------------------------------------------------------------
(* fish: where the characters of a text are.                                 *)

\* The order in which a typewriter comes to the places of a sheet.
Earlier(r, d, row, col) == r < row \/ (r = row /\ d < col)

LEMMA PlaceFacts ==
  ASSUME NEW T, NEW i \in Nat \ {0}
  PROVE  RowOf(T, i) \in 0 .. i - 1 /\ ColOf(T, i) \in 0 .. i - 1
<1> DEFINE before == 1 .. i - 1
<1>1. IsFiniteSet(before) /\ Cardinality(before) = i - 1
  <2>1. \A a, b \in Int : /\ IsFiniteSet(a .. b)
                          /\ Cardinality(a .. b) = IF a > b THEN 0 ELSE b - a + 1
    BY FS_Interval
  <2>2. PICK b \in Int : b = i - 1 /\ (IF 1 > b THEN 0 ELSE b - 1 + 1) = b
    OBVIOUS
  <2> QED BY <2>1, <2>2
<1> HIDE DEF before
<1>2. ASSUME NEW A, A \subseteq before PROVE Cardinality(A) \in 0 .. i - 1
  <2>1. IsFiniteSet(A) /\ Cardinality(A) <= i - 1
    BY <1>1, <1>2, FS_Subset
  <2>2. Cardinality(A) \in Nat
    BY <2>1, FS_CardinalityType
  <2> QED BY <2>1, <2>2
<1> QED BY <1>2 DEF RowOf, ColOf, before

LEMMA FirstPlace == \A T : RowOf(T, 1) = 0 /\ ColOf(T, 1) = 0
<1> TAKE T
<1>1. RowOf(T, 1) \in 0 .. 1 - 1 /\ ColOf(T, 1) \in 0 .. 1 - 1
  BY PlaceFacts
<1> QED BY <1>1

LEMMA NextPlace ==
  ASSUME NEW T, NEW i \in Nat \ {0}
  PROVE  /\ T[i] = Newline => RowOf(T, i + 1) = RowOf(T, i) + 1 /\ ColOf(T, i + 1) = 0
         /\ T[i] # Newline => RowOf(T, i + 1) = RowOf(T, i) /\ ColOf(T, i + 1) = ColOf(T, i) + 1
<1> DEFINE ends(n) == {j \in 1 .. n - 1 : T[j] = Newline}
           since(n) == {j \in 1 .. n - 1 : \A l \in j .. n - 1 : T[l] # Newline}
<1>1. \A n : RowOf(T, n) = Cardinality(ends(n)) /\ ColOf(T, n) = Cardinality(since(n))
  BY DEF RowOf, ColOf
<1>2. IsFiniteSet(ends(i)) /\ IsFiniteSet(since(i))
  <2>1. IsFiniteSet(1 .. i - 1)
    BY FS_Interval
  <2> QED BY <2>1, FS_Subset
<1>3. 1 .. i + 1 - 1 = (1 .. i - 1) \cup {i} /\ i \notin 1 .. i - 1
  OBVIOUS
<1>4. i \notin ends(i) /\ i \notin since(i)
  BY <1>3
<1>5. CASE T[i] = Newline
  <2>1. ends(i + 1) = ends(i) \cup {i}
    BY <1>3, <1>5
  <2>2. since(i + 1) = {}
    <3>1. \A j \in 1 .. i + 1 - 1 : i \in j .. i + 1 - 1
      OBVIOUS
    <3> QED BY <1>5, <3>1
  <2>3. Cardinality(ends(i) \cup {i}) = Cardinality(ends(i)) + 1
    BY <1>2, <1>4, FS_AddElement
  <2> HIDE DEF ends, since
  <2> QED BY <1>1, <1>5, <2>1, <2>2, <2>3, FS_EmptySet
<1>6. CASE T[i] # Newline
  <2>1. ends(i + 1) = ends(i)
    BY <1>3, <1>6
  <2>2. since(i + 1) = since(i) \cup {i}
    <3>1. \A j \in 1 .. i - 1 : j .. i + 1 - 1 = (j .. i - 1) \cup {i}
      OBVIOUS
    <3>2. \A j \in 1 .. i - 1 : (\A l \in j .. i + 1 - 1 : T[l] # Newline)
                                  <=> (\A l \in j .. i - 1 : T[l] # Newline)
      BY <1>6, <3>1
    <3>3. \A l \in i .. i + 1 - 1 : l = i
      OBVIOUS
    <3> QED BY <1>3, <1>6, <3>2, <3>3
  <2>3. Cardinality(since(i) \cup {i}) = Cardinality(since(i)) + 1
    BY <1>2, <1>4, FS_AddElement
  <2> HIDE DEF ends, since
  <2> QED BY <1>1, <1>6, <2>1, <2>2, <2>3
<1> QED BY <1>5, <1>6

\* A later character is at a later place.
LEMMA PlacesOrdered ==
  ASSUME NEW T, NEW i \in Nat \ {0}, NEW j \in Nat \ {0}, i < j
  PROVE  Earlier(RowOf(T, i), ColOf(T, i), RowOf(T, j), ColOf(T, j))
<1> DEFINE after == {n \in Nat : Earlier(RowOf(T, i), ColOf(T, i),
                                         RowOf(T, i + n + 1), ColOf(T, i + n + 1))}
<1>1. \A n \in Nat \ {0} : RowOf(T, n) \in Nat /\ ColOf(T, n) \in Nat
  BY PlaceFacts
<1>2. 0 \in after
  <2>1. i + 0 + 1 = i + 1 /\ i + 1 \in Nat \ {0}
    OBVIOUS
  <2> QED BY <1>1, <2>1, NextPlace DEF Earlier
<1>3. ASSUME NEW n \in Nat, n \in after PROVE n + 1 \in after
  <2>1. PICK m \in Nat \ {0} : m = i + n + 1 /\ i + (n + 1) + 1 = m + 1 /\ m + 1 \in Nat \ {0}
    OBVIOUS
  <2> QED BY <1>1, <1>3, <2>1, NextPlace DEF Earlier
<1> HIDE DEF after
<1>4. \A n \in Nat : n \in after
  BY <1>2, <1>3, Induction
<1>5. PICK n \in Nat : j = i + n + 1
  <2>1. j - i - 1 \in Nat /\ j = i + (j - i - 1) + 1
    OBVIOUS
  <2> QED BY <2>1
<1> QED BY <1>4, <1>5 DEF after

\* Of the text T the first p characters have been read, the last one is c, and e says
\* that none are left.  A line that has ended at or before the column col of its row:
PastOf(T, p, c, e, row, col) ==
  /\ c = Newline
  /\ IF e THEN \A i \in 1 .. Len(T) : Earlier(RowOf(T, i), ColOf(T, i), row, col)
     ELSE /\ p \in 1 .. Len(T) /\ T[p] = Newline
          /\ RowOf(T, p) = row /\ ColOf(T, p) <= col

\* Before, and after, the character at row and col has been read.
AheadOf(T, p, c, e, row, col) ==
  \/ PastOf(T, p, c, e, row, col)
  \/ /\ c # Newline /\ ~e /\ p \in 0 .. Len(T)
     /\ RowOf(T, p + 1) = row /\ ColOf(T, p + 1) = col
HeldOf(T, p, c, e, row, col) ==
  \/ PastOf(T, p, c, e, row, col)
  \/ /\ c # Newline /\ ~e /\ p \in 1 .. Len(T) /\ T[p] = c
     /\ RowOf(T, p) = row /\ ColOf(T, p) = col

LEMMA CharAtFacts ==
  ASSUME NEW S, NEW T \in Seq(S), NEW row, NEW col
  PROVE  \/ /\ CharAt(T, row, col) = Space
            /\ \A i \in 1 .. Len(T) : RowOf(T, i) = row /\ ColOf(T, i) = col => T[i] = Newline
         \/ \E i \in 1 .. Len(T) : /\ T[i] # Newline /\ RowOf(T, i) = row /\ ColOf(T, i) = col
                                   /\ CharAt(T, row, col) = T[i]
<1> DEFINE here == {i \in DOMAIN T : T[i] # Newline /\ RowOf(T, i) = row /\ ColOf(T, i) = col}
<1>1. DOMAIN T = 1 .. Len(T)
  BY LenProperties
<1>2. CharAt(T, row, col) = IF here = {} THEN Space ELSE T[CHOOSE i \in here : TRUE]
  BY DEF CharAt
<1>3. CASE here = {}
  <2>1. CharAt(T, row, col) = Space
    BY <1>2, <1>3
  <2> QED BY <1>1, <1>3, <2>1
<1>4. CASE here # {}
  <2>1. PICK i : i = CHOOSE h \in here : TRUE
    OBVIOUS
  <2>2. i \in here
    BY <1>4, <2>1
  <2>3. CharAt(T, row, col) = T[i]
    BY <1>2, <1>4, <2>1
  <2> QED BY <1>1, <2>2, <2>3
<1> QED BY <1>3, <1>4

\* One character at each place.
LEMMA OnePlace ==
  ASSUME NEW T, NEW i \in Nat \ {0}, NEW j \in Nat \ {0},
         RowOf(T, i) = RowOf(T, j), ColOf(T, i) = ColOf(T, j)
  PROVE  i = j
<1>1. RowOf(T, i) \in Nat /\ ColOf(T, i) \in Nat
  BY PlaceFacts
<1>2. i < j \/ j < i \/ i = j
  OBVIOUS
<1> QED BY <1>1, <1>2, PlacesOrdered DEF Earlier

LEMMA PastBlank ==
  ASSUME NEW S, NEW T \in Seq(S), NEW p, NEW c, NEW e \in BOOLEAN, NEW row \in Nat, NEW col \in Nat,
         PastOf(T, p, c, e, row, col), NEW d \in Nat, d >= col
  PROVE  CharAt(T, row, d) = Space
<1> SUFFICES ASSUME NEW i \in 1 .. Len(T), T[i] # Newline, RowOf(T, i) = row, ColOf(T, i) = d
             PROVE  FALSE
  BY CharAtFacts
<1>1. PICK N \in Nat : N = Len(T)
  BY LenProperties
<1>2. i \in Nat \ {0}
  BY <1>1
<1>3. CASE e
  BY <1>3 DEF PastOf, Earlier
<1>4. CASE ~e
  <2>1. /\ p \in Nat \ {0} /\ T[p] = Newline
        /\ RowOf(T, p) = row /\ ColOf(T, p) <= col /\ ColOf(T, p) \in Nat
    BY <1>1, <1>4, PlaceFacts DEF PastOf
  <2>2. i # p
    BY <2>1
  <2>3. CASE i < p
    <3>1. Earlier(RowOf(T, i), ColOf(T, i), RowOf(T, p), ColOf(T, p))
      BY <1>2, <2>1, <2>3, PlacesOrdered
    <3> QED BY <2>1, <3>1 DEF Earlier
  <2>4. CASE p < i
    <3>1. p + 1 \in Nat \ {0} /\ RowOf(T, p + 1) = row + 1
      BY <2>1, NextPlace
    <3>2. i = p + 1 \/ p + 1 < i
      BY <1>2, <2>1, <2>4
    <3>3. CASE i = p + 1
      BY <3>1, <3>3
    <3>4. CASE p + 1 < i
      <4>1. Earlier(RowOf(T, p + 1), ColOf(T, p + 1), RowOf(T, i), ColOf(T, i))
        BY <1>2, <3>1, <3>4, PlacesOrdered
      <4> QED BY <3>1, <4>1 DEF Earlier
    <3> QED BY <3>2, <3>3, <3>4
  <2> QED BY <1>2, <2>1, <2>2, <2>3, <2>4
<1> QED BY <1>3, <1>4

\* What is held is what the picture has there.
LEMMA HeldShows ==
  ASSUME NEW S, NEW T \in Seq(S), NEW p, NEW c, NEW e \in BOOLEAN, NEW row \in Nat, NEW col \in Nat,
         HeldOf(T, p, c, e, row, col)
  PROVE  CharAt(T, row, col) = Shown(c)
<1>1. CASE PastOf(T, p, c, e, row, col)
  <2>1. CharAt(T, row, col) = Space
    BY <1>1, PastBlank
  <2> QED BY <1>1, <2>1 DEF PastOf, Shown
<1>2. CASE ~PastOf(T, p, c, e, row, col)
  <2>1. PICK N \in Nat : N = Len(T)
    BY LenProperties
  <2>2. /\ p \in 1 .. N /\ T[p] = c /\ c # Newline
        /\ RowOf(T, p) = row /\ ColOf(T, p) = col
    BY <1>2, <2>1 DEF HeldOf
  <2>3. PICK i \in 1 .. N : /\ RowOf(T, i) = row /\ ColOf(T, i) = col
                            /\ CharAt(T, row, col) = T[i]
    BY <2>1, <2>2, CharAtFacts
  <2>4. i = p
    BY <2>2, <2>3, OnePlace
  <2> QED BY <2>2, <2>3, <2>4 DEF Shown
<1> QED BY <1>1, <1>2

\* A read of one character, or of none.
LEMMA ReadHolds ==
  ASSUME NEW S, NEW T \in Seq(S), NEW p, NEW c, NEW e \in BOOLEAN, NEW row \in Nat, NEW col \in Nat,
         AheadOf(T, p, c, e, row, col), c # Newline
  PROVE  /\ p \in 0 .. Len(T) /\ ~e
         /\ p < Len(T) => HeldOf(T, p + 1, T[p + 1], FALSE, row, col)
         /\ p = Len(T) => \A q : PastOf(T, q, Newline, TRUE, row, col)
<1>1. PICK N \in Nat : N = Len(T)
  BY LenProperties
<1>2. p \in 0 .. N /\ ~e /\ RowOf(T, p + 1) = row /\ ColOf(T, p + 1) = col
  BY <1>1 DEF AheadOf, PastOf
<1>3. ASSUME p < N PROVE HeldOf(T, p + 1, T[p + 1], FALSE, row, col)
  <2>1. p + 1 \in 1 .. N
    BY <1>1, <1>2, <1>3
  <2> QED BY <1>1, <1>2, <2>1 DEF HeldOf, PastOf
<1>4. ASSUME p = N, NEW i \in 1 .. N PROVE Earlier(RowOf(T, i), ColOf(T, i), row, col)
  <2>1. p + 1 \in Nat \ {0} /\ i \in Nat \ {0} /\ i < p + 1
    BY <1>1, <1>2, <1>4
  <2> QED BY <1>2, <2>1, PlacesOrdered
<1> QED BY <1>1, <1>2, <1>3, <1>4 DEF PastOf

\* The next column.
LEMMA HeldMoves ==
  ASSUME NEW S, NEW T \in Seq(S), NEW p, NEW c, NEW e \in BOOLEAN, NEW row \in Nat, NEW col \in Nat,
         HeldOf(T, p, c, e, row, col)
  PROVE  AheadOf(T, p, c, e, row, col + 1)
<1>1. PICK N \in Nat : N = Len(T)
  BY LenProperties
<1>2. \A i \in 1 .. N : i \in Nat \ {0} /\ RowOf(T, i) \in Nat /\ ColOf(T, i) \in Nat
  BY <1>1, PlaceFacts
<1>3. CASE PastOf(T, p, c, e, row, col)
  <2>1. PastOf(T, p, c, e, row, col + 1)
    <3>1. CASE e
      BY <1>1, <1>2, <1>3, <3>1 DEF PastOf, Earlier
    <3>2. CASE ~e
      BY <1>1, <1>2, <1>3, <3>2 DEF PastOf
    <3> QED BY <3>1, <3>2
  <2> QED BY <2>1 DEF AheadOf
<1>4. CASE ~PastOf(T, p, c, e, row, col)
  <2>1. /\ p \in 1 .. N /\ T[p] = c /\ c # Newline /\ ~e
        /\ RowOf(T, p) = row /\ ColOf(T, p) = col
    BY <1>1, <1>4 DEF HeldOf
  <2>2. RowOf(T, p + 1) = row /\ ColOf(T, p + 1) = col + 1
    BY <1>2, <2>1, NextPlace
  <2>3. p \in 0 .. N
    BY <2>1
  <2> QED BY <1>1, <2>1, <2>2, <2>3 DEF AheadOf
<1> QED BY <1>3, <1>4

\* The next row.
LEMMA PastMoves ==
  ASSUME NEW S, NEW T \in Seq(S), NEW p, NEW c, NEW e \in BOOLEAN, NEW row \in Nat, NEW col \in Nat,
         PastOf(T, p, c, e, row, col)
  PROVE  /\ e => \A q : PastOf(T, q, Newline, TRUE, row + 1, 0)
         /\ ~e => \A x : x # Newline => AheadOf(T, p, x, FALSE, row + 1, 0)
<1>1. PICK N \in Nat : N = Len(T)
  BY LenProperties
<1>2. \A i \in 1 .. N : i \in Nat \ {0} /\ RowOf(T, i) \in Nat /\ ColOf(T, i) \in Nat
  BY <1>1, PlaceFacts
<1>3. CASE e
  BY <1>1, <1>2, <1>3 DEF PastOf, Earlier
<1>4. CASE ~e
  <2>1. p \in 1 .. N /\ T[p] = Newline /\ RowOf(T, p) = row
    BY <1>1, <1>4 DEF PastOf
  <2>2. RowOf(T, p + 1) = row + 1 /\ ColOf(T, p + 1) = 0
    BY <1>2, <2>1, NextPlace
  <2>3. p \in 0 .. N
    BY <2>1
  <2> QED BY <1>1, <1>4, <2>2, <2>3 DEF AheadOf
<1> QED BY <1>3, <1>4

LEMMA AheadStarts ==
  ASSUME NEW S, NEW T \in Seq(S), NEW c, c # Newline
  PROVE  AheadOf(T, 0, c, FALSE, 0, 0)
<1>1. PICK N \in Nat : N = Len(T)
  BY LenProperties
<1>2. 0 \in 0 .. N /\ 0 + 1 = 1
  BY <1>1
<1> QED BY <1>1, <1>2, FirstPlace DEF AheadOf

\* Both texts are within these many rows and columns.
LEMMA WithinSize ==
  ASSUME NEW S, NEW T \in Seq(S), NEW r, NEW d, CharAt(T, r, d) # Space
  PROVE  r \in 0 .. Len(T) /\ d \in 0 .. Len(T)
<1>1. PICK N \in Nat : N = Len(T)
  BY LenProperties
<1>2. PICK i \in 1 .. N : RowOf(T, i) = r /\ ColOf(T, i) = d
  BY <1>1, CharAtFacts
<1>3. RowOf(T, i) \in 0 .. i - 1 /\ ColOf(T, i) \in 0 .. i - 1
  BY <1>1, PlaceFacts
<1> QED BY <1>1, <1>2, <1>3

LEMMA EndedBefore ==
  ASSUME NEW S, NEW T \in Seq(S), NEW p, NEW c, NEW row, NEW col,
         PastOf(T, p, c, TRUE, row, col), NEW r, NEW d, CharAt(T, r, d) # Space
  PROVE  Earlier(r, d, row, col)
BY CharAtFacts DEF PastOf
-----------------------------------------------------------------------------
(* fish: each of its two descriptors has delivered what comes before the     *)
(* row and column, and the cells before these have been drawn.               *)

Picture(k) == Text(Frames[k])
Desc(k) == IF k = 1 THEN client.fd0 ELSE client.fd1
OnFile(k) ==
  /\ Desc(k) \in FD /\ file_descriptor[Desc(k)].flags = "file"
  /\ opened[Desc(k)] = read_dentry_by_name(Frames[k])

FishTyped ==
  /\ {"pc", "fd", "fd0", "fd1", "row", "col", "c", "eof"} \subseteq DOMAIN client
  /\ client.row \in Nat /\ client.col \in Nat
  /\ client.c \in [1 .. 2 -> Byte \cup {"0", Newline}]
  /\ client.eof \in [1 .. 2 -> BOOLEAN]
  /\ output \in Seq(Range(output))

\* Has the character of file k at the row and column been read?
IsHeld(k) == client.pc = "cell" \/ (client.pc = "read2" /\ k = 1)

InStep(k) ==
  /\ ~client.eof[k] => OnFile(k)
  /\ LET p == Len(got[Desc(k)])
     IN  IF IsHeld(k)
         THEN HeldOf(Picture(k), p, client.c[k], client.eof[k], client.row, client.col)
         ELSE AheadOf(Picture(k), p, client.c[k], client.eof[k], client.row, client.col)

CellAt(r, d) == [row |-> r, col |-> d, on |-> CharAt(Picture(1), r, d),
                 off |-> CharAt(Picture(2), r, d)]
IsBlank(cell) == <<cell.on, cell.off>> = <<Space, Space>>
Drawn(out, row, col) ==
  \A x : x \in Range(out) <=>
           \E r, d \in Nat : Earlier(r, d, row, col) /\ x = CellAt(r, d) /\ ~IsBlank(x)

\* Nothing has been read or drawn.
Opening ==
  /\ output = <<>> /\ client.row = 0 /\ client.col = 0
  /\ client.c = <<"0", "0">> /\ client.eof = <<FALSE, FALSE>>

Drawing ==
  /\ {client.fd0, client.fd1} \subseteq FD /\ client.fd0 # client.fd1
  /\ InStep(1) /\ InStep(2)
  /\ Drawn(output, client.row, client.col)

Draws ==
  program = Fish =>
    /\ FishTyped
    /\ client.pc \in {"main", "first", "second", "read1", "read2", "cell", "rate", "close", "done"}
    /\ client.pc = "main" => Opening /\ FreeFDs(file_descriptor) = FD
    /\ client.pc = "first" => Opening /\ \E a : FreeFDs(file_descriptor) = FD \ {a}
    /\ client.pc = "second" =>
         /\ Opening /\ OnFile(1) /\ got[client.fd0] = <<>>
         /\ \E a : FreeFDs(file_descriptor) = FD \ {a, client.fd0}
    /\ client.pc \in {"read1", "read2", "cell"} => Drawing
    /\ client.pc \in {"rate", "close", "done"} => FishShows

LEMMA NameFound ==
  ASSUME NEW name \in Name
  PROVE  Found(read_dentry_by_name(name))
<1> DEFINE found == {i \in DOMAIN dentries : dentries[i].file_name = name}
<1>1. found # {}
  BY DEF Name
<1>2. ~(Len(name) > FILENAME_LEN)
  BY ImageAssumption DEF Name
<1>3. read_dentry_by_name(name) = dentries[CHOOSE i \in found : \A j \in found : i <= j]
  BY <1>1, <1>2 DEF read_dentry_by_name, TooLong
<1>4. (CHOOSE i \in found : \A j \in found : i <= j) \in found
  <2>1. found \subseteq Nat
    BY NameFacts
  <2>2. \E i \in found : \A j \in found : i <= j
    BY <1>1, <2>1, LeastNat
  <2> HIDE DEF found
  <2> QED BY <2>2
<1>5. \A i \in DOMAIN dentries : dentries[i] # NoDentry
  BY NameFacts DEF Range
<1> QED BY <1>3, <1>4, <1>5 DEF Found

LEMMA PictureFacts ==
  ASSUME NEW k \in 1 .. 2
  PROVE  LET e == read_dentry_by_name(Frames[k])
         IN  /\ Found(e) /\ e \in Range(dentries)
             /\ e.file_type = "file" /\ e.inode_number \in Inode
             /\ Picture(k) = Contents(e.inode_number) /\ Picture(k) \in Seq(Byte)
             /\ Len(Picture(k)) = inodes[e.inode_number].size
<1> DEFINE e == read_dentry_by_name(Frames[k])
<1>1. e.file_type = "file" /\ NoDentry.file_type = "none"
  BY ProgramsAssumption DEF ProgramsAssumption, NoDentry
<1>2. Found(e) /\ e \in Range(dentries)
  BY <1>1, ByName DEF Found
<1>3. e.inode_number \in Inode
  BY <1>2, NameFacts
<1>4. Picture(k) = Concatenation(e.inode_number)
  BY <1>1 DEF Picture, Text
<1> QED BY <1>1, <1>2, <1>3, <1>4, ContentsAreBlocks, FileFacts

\* Some descriptor of the table of three or more is left.
LEMMA ThreeFDs == \A a, b : FD \ {a, b} # {} /\ FD \ {a} # {} /\ FD # {}
<1> TAKE a, b
<1>1. FD_COUNT \in Nat /\ FD_COUNT > 4
  BY DescriptorAssumption, ProgramsAssumption DEF DescriptorAssumption, ProgramsAssumption
<1>2. 2 \in FD /\ 3 \in FD /\ 4 \in FD
  BY <1>1 DEF FD
<1> QED BY <1>2

\* The entry e has been opened as fd, which the client keeps in the field.
OpenedAs(field, pc, e, fd) ==
  /\ client' = [client EXCEPT ![field] = fd, !.pc = pc] /\ output' = output \o <<>>
  /\ file_descriptor' = [file_descriptor EXCEPT ![fd] = Entry(e)]
  /\ opened' = [opened EXCEPT ![fd] = e] /\ got' = [got EXCEPT ![fd] = <<>>]
  /\ FreeFDs(file_descriptor)' = FreeFDs(file_descriptor) \ {fd}
  /\ Entry(e).flags = e.file_type /\ program' = program

\* What is found is opened, if a descriptor is free.
LEMMA OpensOne ==
  ASSUME Typed, NEW name, NEW field, NEW pc, NEW message, Opens(name, field, pc, message),
         NEW e, e = read_dentry_by_name(name), Found(e), FreeFDs(file_descriptor) # {}
  PROVE  \E fd \in FreeFDs(file_descriptor) : OpenedAs(field, pc, e, fd)
<1> DEFINE t == file_descriptor
           fd == CHOOSE f \in FreeFDs(t) : \A g \in FreeFDs(t) : f <= g
           r == sys_open(t, name)
<1>1. name # NoName
  BY FoundName, ByName, NameFacts DEF Found
<1>2. r = [ret |-> fd, data |-> <<>>, table |-> [t EXCEPT ![fd] = Entry(e)]]
  BY <1>1 DEF sys_open
<1>3. fd \in FreeFDs(t)
  <2>1. FreeFDs(t) \subseteq Nat
    BY FDFacts DEF FreeFDs
  <2>2. \E f \in FreeFDs(t) : \A g \in FreeFDs(t) : f <= g
    BY <2>1, LeastNat
  <2> QED BY <2>2
<1> HIDE DEF fd
<1>4. fd \in FD /\ fd # -1
  BY <1>3, FDFacts DEF FreeFDs
<1>5. r.ret = fd /\ r.table = [t EXCEPT ![fd] = Entry(e)]
  BY <1>2
<1>6. SysOpen(name) /\ Moves([client EXCEPT ![field] = r.ret, !.pc = pc], <<>>)
  BY <1>4, <1>5 DEF Opens
<1>7. Entry(e).flags = e.file_type /\ e.file_type \in Type
  <2>1. e \in Range(dentries)
    BY ByName DEF Found
  <2> QED BY <2>1, NameFacts DEF Entry
<1> HIDE DEF r
<1>8. /\ client' = [client EXCEPT ![field] = fd, !.pc = pc] /\ output' = output \o <<>>
      /\ file_descriptor' = [t EXCEPT ![fd] = Entry(e)] /\ program' = program
  BY <1>5, <1>6 DEF SysOpen, Call, Moves, r
<1>9. opened' = [opened EXCEPT ![fd] = e] /\ got' = [got EXCEPT ![fd] = <<>>]
  BY <1>5, <1>6 DEF SysOpen, r
<1>10. FreeFDs(t)' = FreeFDs(t) \ {fd}
  <2>1. \A g \in FD : file_descriptor'[g] = IF g = fd THEN Entry(e) ELSE t[g]
    BY <1>4, <1>8 DEF Typed
  <2>2. Entry(e).flags # "empty"
    BY <1>7 DEF Type
  <2> QED BY <2>1, <2>2 DEF FreeFDs, IsOpen
<1> QED BY <1>3, <1>7, <1>8, <1>9, <1>10 DEF OpenedAs

\* A read of one byte.
LEMMA ReadOne ==
  ASSUME Typed, NEW k \in 1 .. 2, OnFile(k), Good(Desc(k))
  PROVE  LET r == sys_read(file_descriptor, Desc(k), 1)
             l == Len(got[Desc(k)])
         IN  /\ l \in 0 .. Len(Picture(k))
             /\ l < Len(Picture(k)) => r.ret # 0 /\ r.data = <<Picture(k)[l + 1]>>
             /\ l = Len(Picture(k)) => r.ret = 0 /\ r.data = <<>>
             /\ r.table = [file_descriptor EXCEPT ![Desc(k)].file_position = @ + Len(r.data)]
<1> DEFINE t == file_descriptor
<1>1. PICK fd \in FD : fd = Desc(k)
  BY DEF OnFile
<1>2. PICK e : e = read_dentry_by_name(Frames[k])
  OBVIOUS
<1>3. PICK n : n = e.inode_number
  OBVIOUS
<1>4. /\ n \in Inode /\ Picture(k) = Contents(n) /\ Len(Picture(k)) = inodes[n].size
      /\ inodes[n].size \in Nat /\ n % INODE_LIMIT = n
  BY <1>2, <1>3, PictureFacts, FileFacts
<1>5. t[fd].flags = "file" /\ opened[fd] = e
  BY <1>1, <1>2 DEF OnFile
<1>6. StreamOf(t[fd], e, got[fd]) /\ got[fd] \in Data
  BY <1>1, <1>5 DEF Good, Typed
<1>7. PICK l \in Nat : l = Len(got[fd])
  BY <1>6, LenProperties DEF Data
<1>8. t[fd].inode = n /\ t[fd].file_position = l /\ l <= inodes[n].size
  BY <1>3, <1>5, <1>6, <1>7 DEF StreamOf
<1>9. PICK d : d = read_data(n, l, 1)
  OBVIOUS
<1>10. PICK z \in Nat : z = inodes[n].size
  BY <1>4
<1>11. /\ d \in Seq(Byte)
       /\ Len(d) = IF 1 < z - l THEN 1 ELSE z - l
       /\ \A i \in 1 .. Len(d) : d[i] = Contents(n)[l + i]
  <2>1. n \in Inode /\ l \in Nat /\ 1 \in Nat /\ l <= inodes[n].size
    BY <1>4, <1>8
  <2> QED BY <1>9, <1>10, <2>1, ReadData
<1>12. PICK r : r = sys_read(t, fd, 1)
  OBVIOUS
<1>13. r = file_read(t, fd, 1)
  BY <1>5, <1>12 DEF sys_read, IsOpen
<1>14. read_data(t[fd].inode % INODE_LIMIT, t[fd].file_position, 1) = d
  BY <1>4, <1>8, <1>9
<1>15. /\ r.ret = Len(d) /\ r.data = d
       /\ r.table = [t EXCEPT ![fd].file_position = @ + Len(d)]
  BY <1>13, <1>14 DEF file_read
<1>16. ASSUME l < inodes[n].size PROVE Len(d) = 1 /\ d = <<Contents(n)[l + 1]>>
  <2>1. Len(d) = 1
    <3>1. l < z
      BY <1>10, <1>16
    <3>2. Len(d) = IF 1 < z - l THEN 1 ELSE z - l
      BY <1>11
    <3> QED BY <3>1, <3>2
  <2>2. d[1] = Contents(n)[l + 1]
    <3>1. 1 \in 1 .. Len(d)
      BY <2>1
    <3> QED BY <1>11, <3>1, Zenon
  <2>3. d = [i \in 1 .. 1 |-> d[i]]
    BY <1>11, <2>1, LenProperties
  <2> QED BY <2>1, <2>2, <2>3
<1>17. ASSUME l = inodes[n].size PROVE Len(d) = 0 /\ d = <<>>
  <2>1. Len(d) = 0
    <3>1. l = z
      BY <1>10, <1>17
    <3>2. Len(d) = IF 1 < z - l THEN 1 ELSE z - l
      BY <1>11
    <3> QED BY <3>1, <3>2
  <2> QED BY <1>11, <2>1, EmptySeq
<1>18. l \in 0 .. Len(Picture(k))
  BY <1>4, <1>8, <1>10
<1>19. /\ l < Len(Picture(k)) => r.ret # 0 /\ r.data = <<Picture(k)[l + 1]>>
       /\ l = Len(Picture(k)) => r.ret = 0 /\ r.data = <<>>
  <2>1. r.data = d /\ (r.ret = 0 <=> Len(d) = 0)
    BY <1>15
  <2>2. CASE l < inodes[n].size
    <3>1. d = <<Picture(k)[l + 1]>> /\ Len(d) = 1
      BY <1>4, <1>16, <2>2, Zenon
    <3>2. l # Len(Picture(k))
      BY <1>4, <1>10, <2>2
    <3>3. r.ret # 0
      BY <1>15, <3>1
    <3> QED BY <2>1, <3>1, <3>2, <3>3, Zenon
  <2>3. CASE l = inodes[n].size
    BY <1>4, <1>17, <1>10, <2>1, <2>3
  <2> QED BY <1>4, <1>8, <1>10, <2>2, <2>3
<1>20. r.table = [t EXCEPT ![fd].file_position = @ + Len(r.data)]
  BY <1>15
<1> QED BY <1>1, <1>7, <1>12, <1>18, <1>19, <1>20, Zenon

\* Nothing about file j has changed.
LEMMA InStepKept ==
  ASSUME NEW j \in 1 .. 2, InStep(j), Desc(j)' = Desc(j),
         client'.c[j] = client.c[j], client'.eof[j] = client.eof[j],
         client'.row = client.row, client'.col = client.col, IsHeld(j)' = IsHeld(j),
         ~client.eof[j] => /\ file_descriptor'[Desc(j)] = file_descriptor[Desc(j)]
                           /\ opened'[Desc(j)] = opened[Desc(j)],
         got'[Desc(j)] = got[Desc(j)]
  PROVE  InStep(j)'
<1>1. OnFile(j) /\ ~client.eof[j] => OnFile(j)'
  BY DEF OnFile
<1> QED BY <1>1, Zenon DEF InStep, Picture

LEMMA FishOpens ==
  ASSUME IInv, Draws, FishMain \/ FishFirst \/ FishSecond
  PROVE  Draws'
<1>1. Typed /\ program = Fish /\ FishTyped /\ Opening
  BY DEF IInv, FishMain, FishFirst, FishSecond, At, Draws
<1>2. <<>> \o <<>> = <<>>
  <2>1. \A s \in Seq({}) : s \o <<>> = s
    BY ConcatEmptySeq
  <2> QED BY <2>1, EmptySeq
<1>3. ASSUME NEW field \in {"fd", "fd0", "fd1"}, NEW pc, NEW fd,
             client' = [client EXCEPT ![field] = fd, !.pc = pc], output' = output \o <<>>
      PROVE  /\ FishTyped' /\ Opening' /\ client'.pc = pc
             /\ client'.fd = IF field = "fd" THEN fd ELSE client.fd
             /\ client'.fd0 = IF field = "fd0" THEN fd ELSE client.fd0
             /\ client'.fd1 = IF field = "fd1" THEN fd ELSE client.fd1
  <2>1. output' = <<>>
    BY <1>1, <1>2, <1>3 DEF Opening
  <2>2. output' \in Seq(Range(output'))
    BY <2>1, EmptySeq
  <2> QED BY <1>1, <1>3, <2>1, <2>2 DEF FishTyped, Opening
<1>4. CASE FishMain
  <2>1. Opens(Rtc, "fd", "first", <<>>) /\ FreeFDs(file_descriptor) = FD
    BY <1>4 DEF FishMain, At, Draws
  <2>2. PICK e : e = read_dentry_by_name(Rtc) /\ Found(e)
    BY ProgramsAssumption, NameFound
  <2>3. PICK fd : /\ client' = [client EXCEPT !["fd"] = fd, !.pc = "first"]
                  /\ output' = output \o <<>>
                  /\ FreeFDs(file_descriptor)' = FreeFDs(file_descriptor) \ {fd}
    <3>1. FreeFDs(file_descriptor) # {}
      BY <2>1, ThreeFDs
    <3>2. \E fd \in FreeFDs(file_descriptor) : OpenedAs("fd", "first", e, fd)
      BY <1>1, <2>1, <2>2, <3>1, OpensOne, Zenon
    <3> QED BY <3>2 DEF OpenedAs
  <2>4. FishTyped' /\ Opening' /\ client'.pc = "first"
    BY <1>3, <2>3
  <2> QED BY <2>1, <2>3, <2>4 DEF Draws
<1>5. CASE FishFirst
  <2>1. PICK a : FreeFDs(file_descriptor) = FD \ {a}
    BY <1>5 DEF FishFirst, At, Draws
  <2>2. PICK e : e = read_dentry_by_name(Frames[1]) /\ Found(e) /\ e.file_type = "file"
    BY PictureFacts
  <2>3. Opens(Frames[1], "fd0", "second", <<>>)
    BY <1>5 DEF FishFirst
  <2>4. PICK fd \in FreeFDs(file_descriptor) :
          /\ client' = [client EXCEPT !["fd0"] = fd, !.pc = "second"]
          /\ output' = output \o <<>>
          /\ file_descriptor' = [file_descriptor EXCEPT ![fd] = Entry(e)]
          /\ opened' = [opened EXCEPT ![fd] = e] /\ got' = [got EXCEPT ![fd] = <<>>]
          /\ FreeFDs(file_descriptor)' = FreeFDs(file_descriptor) \ {fd}
          /\ Entry(e).flags = "file"
    <3>1. FreeFDs(file_descriptor) # {}
      BY <2>1, ThreeFDs
    <3>2. \E fd \in FreeFDs(file_descriptor) : OpenedAs("fd0", "second", e, fd)
      BY <1>1, <2>2, <2>3, <3>1, OpensOne, Zenon
    <3> QED BY <2>2, <3>2 DEF OpenedAs
  <2>5. FishTyped' /\ Opening' /\ client'.pc = "second" /\ client'.fd0 = fd
    BY <1>3, <2>4
  <2>6. fd \in FD
    BY <2>4 DEF FreeFDs
  <2>7. /\ file_descriptor'[fd].flags = "file" /\ opened'[fd] = e /\ got'[fd] = <<>>
    BY <1>1, <2>4, <2>6 DEF Typed
  <2>8. OnFile(1)' /\ got'[client'.fd0] = <<>>
    BY <2>2, <2>5, <2>6, <2>7 DEF OnFile, Desc
  <2>9. FreeFDs(file_descriptor)' = FD \ {a, client'.fd0}
    BY <2>1, <2>4, <2>5
  <2> QED BY <2>5, <2>8, <2>9 DEF Draws
<1>6. CASE FishSecond
  <2>1. /\ OnFile(1) /\ got[client.fd0] = <<>>
        /\ \E a : FreeFDs(file_descriptor) = FD \ {a, client.fd0}
    BY <1>6 DEF FishSecond, At, Draws
  <2>2. PICK e : e = read_dentry_by_name(Frames[2]) /\ Found(e) /\ e.file_type = "file"
    BY PictureFacts
  <2>3. Opens(Frames[2], "fd1", "read1", <<>>)
    BY <1>6 DEF FishSecond
  <2>4. PICK fd \in FreeFDs(file_descriptor) :
          /\ client' = [client EXCEPT !["fd1"] = fd, !.pc = "read1"]
          /\ output' = output \o <<>>
          /\ file_descriptor' = [file_descriptor EXCEPT ![fd] = Entry(e)]
          /\ opened' = [opened EXCEPT ![fd] = e] /\ got' = [got EXCEPT ![fd] = <<>>]
          /\ Entry(e).flags = "file"
    <3>1. FreeFDs(file_descriptor) # {}
      BY <2>1, ThreeFDs
    <3>2. \E fd \in FreeFDs(file_descriptor) : OpenedAs("fd1", "read1", e, fd)
      BY <1>1, <2>2, <2>3, <3>1, OpensOne, Zenon
    <3> QED BY <2>2, <3>2 DEF OpenedAs
  <2>5. /\ FishTyped' /\ Opening' /\ client'.pc = "read1"
        /\ client'.fd1 = fd /\ client'.fd0 = client.fd0
    BY <1>3, <2>4
  <2>6. fd \in FD /\ client.fd0 \in FD /\ fd # client.fd0
    BY <2>1, <2>4 DEF FreeFDs, OnFile, Desc
  <2>7. /\ file_descriptor'[fd].flags = "file" /\ opened'[fd] = e /\ got'[fd] = <<>>
        /\ file_descriptor'[client.fd0] = file_descriptor[client.fd0]
        /\ opened'[client.fd0] = opened[client.fd0] /\ got'[client.fd0] = got[client.fd0]
    BY <1>1, <2>4, <2>6 DEF Typed
  <2>8. OnFile(1)' /\ OnFile(2)' /\ got'[Desc(1)'] = <<>> /\ got'[Desc(2)'] = <<>>
    BY <2>1, <2>2, <2>5, <2>6, <2>7 DEF OnFile, Desc
  <2>9. ASSUME NEW k \in 1 .. 2 PROVE InStep(k)'
    <3>1. client'.c[k] = "0" /\ client'.eof[k] = FALSE /\ client'.row = 0 /\ client'.col = 0
      <4>1. /\ client'.c = <<"0", "0">> /\ client'.eof = <<FALSE, FALSE>>
            /\ client'.row = 0 /\ client'.col = 0
        BY <2>5 DEF Opening
      <4>2. k = 1 \/ k = 2
        OBVIOUS
      <4>3. CASE k = 1
        BY <4>1, <4>3, SMT
      <4>4. CASE k = 2
        BY <4>1, <4>4, SMT
      <4> QED BY <4>3, <4>4, <4>2, Zenon
    <3>2. AheadOf(Picture(k), 0, "0", FALSE, 0, 0)
      BY PictureFacts, AheadStarts DEF Newline
    <3>3. OnFile(k)' /\ Len(got'[Desc(k)']) = 0
      BY <2>8, EmptySeq
    <3>4. ~IsHeld(k)'
      BY <2>5 DEF IsHeld
    <3>5. Picture(k)' = Picture(k)
      BY DEF Picture
    <3> QED BY <3>1, <3>2, <3>3, <3>4, <3>5 DEF InStep
  <2>10. Drawn(output, client.row, client.col)'
    <3>1. Range(<<>>) = {}
      BY DEF Range
    <3>2. \A r, d \in Nat : ~Earlier(r, d, 0, 0)
      BY DEF Earlier
    <3> QED BY <2>5, <3>1, <3>2 DEF Opening, Drawn
  <2>11. Drawing'
    BY <2>5, <2>6, <2>9, <2>10 DEF Drawing
  <2> QED BY <2>5, <2>11 DEF Draws
<1> QED BY <1>4, <1>5, <1>6


\* A read of file k, after which its character is x and y says whether it has ended.
ReadOf(k, x, y) ==
  client' = [client EXCEPT !.pc = IF k = 1 THEN "read2" ELSE "cell", !.c[k] = x, !.eof[k] = y]

LEMMA ReadOfFacts ==
  ASSUME FishTyped, NEW k \in 1 .. 2, NEW x \in Byte \cup {"0", Newline}, NEW y \in BOOLEAN,
         ReadOf(k, x, y), output' = output
  PROVE  /\ FishTyped' /\ client'.pc = IF k = 1 THEN "read2" ELSE "cell"
         /\ client'.c[k] = x /\ client'.eof[k] = y
         /\ \A j \in 1 .. 2 : /\ Desc(j)' = Desc(j)
                              /\ j # k => /\ client'.c[j] = client.c[j]
                                          /\ client'.eof[j] = client.eof[j]
         /\ client'.row = client.row /\ client'.col = client.col
<1>1. PICK c : c = [client.c EXCEPT ![k] = x]
  OBVIOUS
<1>2. PICK eof : eof = [client.eof EXCEPT ![k] = y]
  OBVIOUS
<1>3. /\ c \in [1 .. 2 -> Byte \cup {"0", Newline}] /\ eof \in [1 .. 2 -> BOOLEAN]
      /\ c[k] = x /\ eof[k] = y
      /\ \A j \in 1 .. 2 : j # k => c[j] = client.c[j] /\ eof[j] = client.eof[j]
  BY <1>1, <1>2 DEF FishTyped
<1>4. client' = [client EXCEPT !.pc = IF k = 1 THEN "read2" ELSE "cell", !.c = c, !.eof = eof]
  BY <1>1, <1>2 DEF ReadOf, FishTyped
<1>5. /\ DOMAIN client' = DOMAIN client
      /\ client'.pc = IF k = 1 THEN "read2" ELSE "cell"
      /\ client'.c = c /\ client'.eof = eof
      /\ client'.row = client.row /\ client'.col = client.col
      /\ client'.fd0 = client.fd0 /\ client'.fd1 = client.fd1
  BY <1>4 DEF FishTyped
<1>6. FishTyped'
  BY <1>3, <1>5 DEF FishTyped
<1>7. \A j \in 1 .. 2 : Desc(j)' = Desc(j)
  BY <1>5 DEF Desc
<1> QED BY <1>3, <1>5, <1>6, <1>7

\* The other file is where it was.
LEMMA FishRead ==
  ASSUME IInv, Draws, NEW k \in 1 .. 2, FishReads(k)
  PROVE  Draws'
<1>1. /\ program = Fish /\ FishTyped /\ Drawing /\ Typed
      /\ client.pc = IF k = 1 THEN "read1" ELSE "read2"
  BY DEF IInv, FishReads, At, Draws
<1>2. PICK j \in 1 .. 2 : j # k /\ \A i \in 1 .. 2 : i = j \/ i = k
  <2>1. CASE k = 1
    <3>1. 2 \in 1 .. 2 /\ 2 # k /\ \A i \in 1 .. 2 : i = 2 \/ i = k
      BY <2>1
    <3> QED BY <3>1
  <2>2. CASE k = 2
    <3>1. 1 \in 1 .. 2 /\ 1 # k /\ \A i \in 1 .. 2 : i = 1 \/ i = k
      BY <2>2
    <3> QED BY <3>1
  <2> QED BY <2>1, <2>2
<1>3. InStep(j) /\ InStep(k) /\ Desc(j) # Desc(k) /\ {Desc(j), Desc(k)} \subseteq FD
  <2>1. \A i \in 1 .. 2 : InStep(i)
    BY <1>1 DEF Drawing
  <2>2. {client.fd0, client.fd1} \subseteq FD /\ client.fd0 # client.fd1
    BY <1>1 DEF Drawing
  <2> QED BY <1>2, <2>1, <2>2 DEF Desc
<1>4. PICK fd : fd = Desc(k)
  OBVIOUS
<1>5. PICK T : T = Picture(k) /\ T \in Seq(Byte)
  BY PictureFacts
<1>6. PICK c, e, row, col : /\ c = client.c[k] /\ e = client.eof[k]
                            /\ row = client.row /\ col = client.col
  OBVIOUS
<1>7. e \in BOOLEAN /\ row \in Nat /\ col \in Nat /\ c \in Byte \cup {"0", Newline}
  BY <1>1, <1>6 DEF FishTyped
<1>8. /\ AheadOf(T, Len(got[fd]), c, e, row, col)
      /\ ~e => OnFile(k)
  <2>1. ~IsHeld(k)
    BY <1>1 DEF IsHeld
  <2> QED BY <1>3, <1>4, <1>5, <1>6, <2>1 DEF InStep
\* What remains to be shown of any read.
<1>9. ASSUME NEW x \in Byte \cup {"0", Newline}, NEW y \in BOOLEAN,
             ReadOf(k, x, y), output' = output, program' = program,
             ~y => OnFile(k) /\ file_descriptor'[fd].flags = "file" /\ opened'[fd] = opened[fd],
             HeldOf(T, Len(got'[fd]), x, y, row, col),
             OnFile(j) => /\ file_descriptor'[Desc(j)] = file_descriptor[Desc(j)]
                          /\ opened'[Desc(j)] = opened[Desc(j)],
             got'[Desc(j)] = got[Desc(j)]
      PROVE  Draws'
  <2>1. /\ FishTyped' /\ client'.pc = IF k = 1 THEN "read2" ELSE "cell"
        /\ client'.c[k] = x /\ client'.eof[k] = y
        /\ Desc(k)' = fd /\ Desc(j)' = Desc(j)
        /\ client'.c[j] = client.c[j] /\ client'.eof[j] = client.eof[j]
        /\ client'.row = row /\ client'.col = col
    <3>1. /\ FishTyped' /\ client'.pc = IF k = 1 THEN "read2" ELSE "cell"
          /\ client'.c[k] = x /\ client'.eof[k] = y
          /\ \A i \in 1 .. 2 :
               /\ Desc(i)' = Desc(i)
               /\ i # k => client'.c[i] = client.c[i] /\ client'.eof[i] = client.eof[i]
          /\ client'.row = client.row /\ client'.col = client.col
      BY <1>1, <1>9, ReadOfFacts
    <3> QED BY <1>2, <1>4, <1>6, <3>1
  <2>2. IsHeld(k)' /\ IsHeld(j)' = IsHeld(j)
    <3>1. CASE k = 1
      BY <1>1, <1>2, <2>1, <3>1 DEF IsHeld
    <3>2. CASE k # 1
      BY <1>1, <1>2, <2>1, <3>2 DEF IsHeld
    <3> QED BY <3>1, <3>2
  <2>3. InStep(k)'
    <3>1. ~client'.eof[k] => OnFile(k)'
      BY <1>4, <1>9, <2>1 DEF OnFile
    <3>2. Picture(k)' = T
      BY <1>5 DEF Picture
    <3> QED BY <1>9, <2>1, <2>2, <3>1, <3>2 DEF InStep
  <2>4. InStep(j)'
    <3>1. client'.row = client.row /\ client'.col = client.col
      BY <1>6, <2>1
    <3>2. ~client.eof[j] => OnFile(j)
      BY <1>3 DEF InStep
    <3> QED BY <1>3, <1>9, <2>1, <2>2, <3>1, <3>2, InStepKept
  <2>5. InStep(1)' /\ InStep(2)'
    <3>1. \A i \in 1 .. 2 : InStep(i)'
      BY <1>2, <2>3, <2>4
    <3> QED BY <3>1
  <2>6. Drawn(output, client.row, client.col)'
    <3>1. Drawn(output, client.row, client.col)
      BY <1>1 DEF Drawing
    <3>2. Drawn(output, row, col)
      BY <1>6, <3>1
    <3>3. \A r, d : CellAt(r, d)' = CellAt(r, d)
      BY DEF CellAt, Picture
    <3> QED BY <1>9, <2>1, <3>2 DEF Drawn, CellAt, Picture
  <2>7. {client'.fd0, client'.fd1} \subseteq FD /\ client'.fd0 # client'.fd1
    <3>1. {Desc(1)', Desc(2)'} \subseteq FD /\ Desc(1)' # Desc(2)'
      BY <1>2, <1>3, <1>4, <2>1
    <3> QED BY <3>1 DEF Desc
  <2>8. Drawing'
    BY <2>5, <2>6, <2>7 DEF Drawing
  <2>9. client'.pc \in {"read2", "cell"}
    BY <2>1
  <2> QED BY <1>9, <2>1, <2>8, <2>9 DEF Draws
<1>10. CASE c = Newline
  <2>1. UNCHANGED vars
        /\ Moves([client EXCEPT !.pc = IF k = 1 THEN "read2" ELSE "cell"], <<>>)
    BY <1>6, <1>10 DEF FishReads
  <2>2. ReadOf(k, c, e)
    <3>1. [client.c EXCEPT ![k] = c] = client.c /\ [client.eof EXCEPT ![k] = e] = client.eof
      BY <1>1, <1>6 DEF FishTyped
    <3> QED BY <1>1, <2>1, <3>1 DEF ReadOf, Moves, FishTyped
  <2>3. HeldOf(T, Len(got[fd]), c, e, row, col)
    BY <1>8, <1>10 DEF AheadOf, HeldOf
  <2>4. ~e => file_descriptor[fd].flags = "file"
    BY <1>4, <1>8 DEF OnFile
  <2>5. output' = output
    BY <1>1, <2>1, ConcatEmptySeq DEF Moves, FishTyped
  <2>6. /\ program' = program /\ file_descriptor' = file_descriptor
        /\ opened' = opened /\ got' = got
    BY <2>1 DEF vars
  <2> QED BY <1>7, <1>8, <1>9, <2>2, <2>3, <2>4, <2>5, <2>6
<1>11. CASE c # Newline
  <2>1. PICK r : r = sys_read(file_descriptor, fd, 1)
    OBVIOUS
  <2> DEFINE x == IF r.ret = 0 THEN Newline ELSE r.data[1]
             y == e \/ r.ret = 0
  <2>2. /\ SysRead(fd, 1) /\ output' = output \o <<>>
        /\ client' = [client EXCEPT !.pc = IF k = 1 THEN "read2" ELSE "cell",
                        !.c[k] = x, !.eof[k] = client.eof[k] \/ r.ret = 0]
    BY <1>4, <1>6, <1>11, <2>1 DEF FishReads, Moves, Desc
  <2>3. ReadOf(k, x, y) /\ output' = output
    BY <1>1, <1>6, <2>2, ConcatEmptySeq DEF ReadOf, FishTyped
  <2>4. /\ Len(got[fd]) \in 0 .. Len(T) /\ ~e
        /\ Len(got[fd]) < Len(T) =>
             HeldOf(T, Len(got[fd]) + 1, T[Len(got[fd]) + 1], FALSE, row, col)
        /\ Len(got[fd]) = Len(T) => \A q : PastOf(T, q, Newline, TRUE, row, col)
    BY <1>5, <1>7, <1>8, <1>11, ReadHolds
  <2>5. OnFile(k) /\ fd \in FD
    BY <1>4, <1>8, <2>4 DEF OnFile
  <2>6. Good(fd)
    <3>1. Runs
      BY <1>1, ProgramsAssumption, NameFacts DEF Runs
    <3> QED BY <2>5, <3>1 DEF IInv
  <2>7. PICK l \in Nat : l = Len(got[fd])
    BY <1>1, <2>5, LenProperties DEF Typed, Data
  <2>8. PICK N \in Nat : N = Len(T)
    BY <1>5, LenProperties
  <2>9. /\ l < N => r.ret # 0 /\ r.data = <<T[l + 1]>>
        /\ l = N => r.ret = 0 /\ r.data = <<>>
        /\ r.table = [file_descriptor EXCEPT ![fd].file_position = @ + Len(r.data)]
    BY <1>1, <1>4, <1>5, <2>1, <2>5, <2>6, <2>7, <2>8, ReadOne
  <2>10. /\ program' = program /\ opened' = opened
         /\ file_descriptor' = r.table /\ got' = [got EXCEPT ![fd] = got[fd] \o r.data]
    BY <2>1, <2>2, <2>5 DEF SysRead, Call
  <2>11. file_descriptor'[fd].flags = "file"
    <3>1. file_descriptor[fd].flags = "file"
      BY <1>4, <2>5 DEF OnFile
    <3> QED BY <1>1, <2>5, <2>9, <2>10, <3>1 DEF Typed, FileDesc
  <2>12. OnFile(j) => /\ file_descriptor'[Desc(j)] = file_descriptor[Desc(j)]
                      /\ opened'[Desc(j)] = opened[Desc(j)]
    BY <1>1, <1>3, <1>4, <2>9, <2>10 DEF OnFile, Typed
  <2>13. got'[Desc(j)] = got[Desc(j)]
    BY <1>1, <1>3, <1>4, <2>10 DEF Typed
  <2>14. got[fd] \in Data
    BY <1>1, <2>5 DEF Typed
  <2>15. CASE l < N
    <3>1. x = T[l + 1] /\ y = FALSE
      BY <2>4, <2>9, <2>15
    <3>2. T[l + 1] \in Byte
      BY <1>5, <2>8, <2>15, ElementOfSeq
    <3>3. Len(got'[fd]) = l + 1
      <4>1. r.data \in Data /\ Len(r.data) = 1
        <5>1. PICK b \in Byte : b = T[l + 1]
          BY <3>2
        <5>2. <<b>> \in Seq(Byte \cup Name) /\ Len(<<b>>) = 1
          OBVIOUS
        <5>3. r.data = <<b>>
          BY <2>9, <2>15, <5>1
        <5> QED BY <5>2, <5>3 DEF Data
      <4>2. PICK s, d \in Data : s = got[fd] /\ d = r.data
        BY <2>14, <4>1
      <4>3. Len(s \o d) = Len(s) + Len(d)
        BY <2>14, <4>2, ConcatProperties DEF Data
      <4>4. got'[fd] = s \o d
        BY <1>1, <2>5, <2>10, <4>2 DEF Typed
      <4> QED BY <2>7, <4>1, <4>2, <4>3, <4>4
    <3>4. HeldOf(T, Len(got'[fd]), x, y, row, col)
      BY <2>4, <2>7, <2>8, <2>15, <3>1, <3>3
    <3> HIDE DEF x, y
    <3> QED BY <1>9, <2>3, <2>5, <2>10, <2>11, <2>12, <2>13, <3>1, <3>2, <3>4
  <2>16. CASE l = N
    <3>1. x = Newline /\ y = TRUE
      BY <2>9, <2>16
    <3>2. HeldOf(T, Len(got'[fd]), x, y, row, col)
      BY <2>4, <2>7, <2>8, <2>16, <3>1 DEF HeldOf
    <3> HIDE DEF x, y
    <3> QED BY <1>9, <2>3, <2>10, <2>12, <2>13, <3>1, <3>2
  <2>17. l < N \/ l = N
    BY <2>4, <2>7, <2>8
  <2> QED BY <2>15, <2>16, <2>17
<1> QED BY <1>10, <1>11

\* What fish has before a cell is drawn, or at the end of a row.
LEMMA CellFacts ==
  ASSUME Draws, program = Fish, client.pc = "cell", NEW k \in 1 .. 2
  PROVE  /\ FishTyped /\ Drawing /\ client.row \in Nat /\ client.col \in Nat
         /\ client.eof[k] \in BOOLEAN /\ Picture(k) \in Seq(Byte)
         /\ Desc(k) \in FD /\ (~client.eof[k] => OnFile(k))
         /\ HeldOf(Picture(k), Len(got[Desc(k)]), client.c[k], client.eof[k],
                   client.row, client.col)
<1>1. FishTyped /\ Drawing
  BY DEF Draws
<1>2. InStep(k)
  <2>1. k = 1 \/ k = 2
    OBVIOUS
  <2> QED BY <1>1, <2>1 DEF Drawing
<1>3. IsHeld(k)
  BY DEF IsHeld
<1>4. Desc(k) \in FD
  BY <1>1 DEF Drawing, Desc
<1>5. client.row \in Nat /\ client.col \in Nat /\ client.eof[k] \in BOOLEAN
  BY <1>1 DEF FishTyped
<1> QED BY <1>1, <1>2, <1>3, <1>4, <1>5, PictureFacts DEF InStep

LEMMA FishDrawsCell ==
  ASSUME Draws, FishCell
  PROVE  Draws'
<1>1. /\ program = Fish /\ client.pc = "cell" /\ client.c # <<Newline, Newline>>
      /\ UNCHANGED vars
  BY DEF FishCell, At
<1>2. FishTyped /\ Drawing /\ client.row \in Nat /\ client.col \in Nat
  BY <1>1, CellFacts
<1>3. PICK row, col \in Nat : row = client.row /\ col = client.col
  BY <1>2
<1> DEFINE x == [row |-> client.row, col |-> client.col,
                 on |-> Shown(client.c[1]), off |-> Shown(client.c[2])]
           new == IF \A k \in 1 .. 2 : Shown(client.c[k]) = Space THEN <<>> ELSE <<x>>
<1>4. /\ client' = [client EXCEPT !.pc = "read1", !.col = client.col + 1]
      /\ output' = output \o new
  BY DEF FishCell, Moves
<1>5. /\ client'.pc = "read1" /\ client'.row = row /\ client'.col = col + 1
      /\ client'.c = client.c /\ client'.eof = client.eof
      /\ client'.fd0 = client.fd0 /\ client'.fd1 = client.fd1 /\ DOMAIN client' = DOMAIN client
  BY <1>2, <1>3, <1>4 DEF FishTyped
<1>6. /\ program' = program /\ file_descriptor' = file_descriptor
      /\ opened' = opened /\ got' = got
  BY <1>1 DEF vars
<1>7. ASSUME NEW k \in 1 .. 2
      PROVE  InStep(k)' /\ CharAt(Picture(k), row, col) = Shown(client.c[k])
  <2>1. PICK T : T = Picture(k) /\ T \in Seq(Byte)
    BY PictureFacts
  <2>2. PICK p, c, e : p = Len(got[Desc(k)]) /\ c = client.c[k] /\ e = client.eof[k]
    OBVIOUS
  <2>3. /\ HeldOf(T, p, c, e, row, col) /\ e \in BOOLEAN /\ (~e => OnFile(k))
    BY <1>1, <1>3, <2>1, <2>2, CellFacts
  <2>4. CharAt(T, row, col) = Shown(c)
    BY <2>1, <2>3, HeldShows
  <2>5. AheadOf(T, p, c, e, row, col + 1)
    BY <2>1, <2>3, HeldMoves
  <2>6. Desc(k)' = Desc(k) /\ ~IsHeld(k)' /\ Picture(k)' = T
    BY <1>5, <2>1 DEF Desc, IsHeld, Picture
  <2>7. ~e => OnFile(k)'
    BY <1>6, <2>3, <2>6 DEF OnFile
  <2>8. InStep(k)'
    BY <1>5, <1>6, <2>2, <2>5, <2>6, <2>7 DEF InStep
  <2> QED BY <2>1, <2>2, <2>4, <2>8
<1>8. x = CellAt(row, col)
  BY <1>3, <1>7 DEF CellAt
<1>9. (\A k \in 1 .. 2 : Shown(client.c[k]) = Space) <=> IsBlank(CellAt(row, col))
  BY <1>8 DEF IsBlank
<1> HIDE DEF x
<1>10. output' \in Seq(Range(output')) /\ Range(output') = Range(output) \cup Range(new)
  <2>1. PICK S : S = Range(output) \cup {x}
    OBVIOUS
  <2>2. output \in Seq(S)
    BY <1>2, <2>1, SeqMonotonic DEF FishTyped
  <2>3. new \in Seq(S)
    <3>1. <<>> \in Seq(S) /\ <<x>> \in Seq(S)
      BY <2>1
    <3> QED BY <3>1
  <2> HIDE DEF new
  <2>4. output \o new \in Seq(S)
    BY <2>2, <2>3, ConcatProperties
  <2> QED BY <1>4, <2>2, <2>3, <2>4, SeqOfRange, RangeConcatenation
<1>11. Range(new) = IF IsBlank(CellAt(row, col)) THEN {} ELSE {CellAt(row, col)}
  <2>1. Range(<<>>) = {} /\ Range(<<x>>) = {x}
    BY DEF Range
  <2> QED BY <1>8, <1>9, <2>1
<1> HIDE DEF new
<1>12. Drawn(output', row, col + 1)
  <2>1. Drawn(output, row, col)
    BY <1>2, <1>3 DEF Drawing
  <2>2. \A r, d \in Nat : Earlier(r, d, row, col + 1) <=>
                            Earlier(r, d, row, col) \/ (r = row /\ d = col)
    BY DEF Earlier
  <2> QED BY <1>10, <1>11, <2>1, <2>2 DEF Drawn
<1>13. Drawn(output, client.row, client.col)'
  BY <1>5, <1>12 DEF Drawn, CellAt, Picture
<1>14. FishTyped'
  BY <1>2, <1>5, <1>10 DEF FishTyped
<1>15. Drawing'
  BY <1>2, <1>5, <1>7, <1>13 DEF Drawing
<1> QED BY <1>1, <1>5, <1>6, <1>14, <1>15 DEF Draws

LEMMA FishEndsRow ==
  ASSUME Typed, Draws, FishRow
  PROVE  Draws'
<1>1. program = Fish /\ client.pc = "cell" /\ client.c = <<Newline, Newline>> /\ program' = program
  BY DEF FishRow, At
<1>2. FishTyped /\ Drawing /\ client.row \in Nat /\ client.col \in Nat
  BY <1>1, CellFacts
<1>3. PICK row, col \in Nat : row = client.row /\ col = client.col
  BY <1>2
<1>4. PICK c : c = [k \in 1 .. 2 |-> IF client.eof[k] THEN Newline ELSE "0"]
  OBVIOUS
<1>5. /\ client' = [client EXCEPT !.row = client.row + 1, !.col = 0, !.c = c,
                      !.pc = IF client.eof = <<TRUE, TRUE>> THEN "rate" ELSE "read1"]
      /\ output' = output
  BY <1>2, <1>4, ConcatEmptySeq DEF FishRow, Moves, FishTyped
<1>6. /\ client'.row = row + 1 /\ client'.col = 0 /\ client'.c = c /\ client'.eof = client.eof
      /\ client'.pc = IF client.eof = <<TRUE, TRUE>> THEN "rate" ELSE "read1"
      /\ client'.fd0 = client.fd0 /\ client'.fd1 = client.fd1 /\ DOMAIN client' = DOMAIN client
  BY <1>2, <1>3, <1>5 DEF FishTyped
<1>7. FishTyped'
  <2>1. c \in [1 .. 2 -> Byte \cup {"0", Newline}]
    BY <1>4
  <2> QED BY <1>2, <1>3, <1>5, <1>6, <2>1 DEF FishTyped
<1>8. Drawn(output, row, col)
  BY <1>2, <1>3 DEF Drawing
<1>9. ASSUME NEW k \in 1 .. 2
      PROVE  /\ Picture(k) \in Seq(Byte) /\ client.eof[k] \in BOOLEAN
             /\ PastOf(Picture(k), Len(got[Desc(k)]), Newline, client.eof[k], row, col)
             /\ ~client.eof[k] => OnFile(k)
  <2>1. client.c[k] = Newline
    BY <1>1
  <2>2. /\ HeldOf(Picture(k), Len(got[Desc(k)]), Newline, client.eof[k], row, col)
        /\ client.eof[k] \in BOOLEAN /\ Picture(k) \in Seq(Byte)
        /\ ~client.eof[k] => OnFile(k)
    BY <1>1, <1>3, <2>1, CellFacts
  <2> QED BY <2>2 DEF HeldOf
<1>10. CASE client.eof # <<TRUE, TRUE>>
  <2>1. ASSUME NEW k \in 1 .. 2 PROVE InStep(k)'
    <3>1. PICK T, p, e : T = Picture(k) /\ p = Len(got[Desc(k)]) /\ e = client.eof[k]
      OBVIOUS
    <3>2. /\ T \in Seq(Byte) /\ e \in BOOLEAN /\ PastOf(T, p, Newline, e, row, col)
          /\ ~e => OnFile(k)
      BY <1>9, <3>1
    <3>3. /\ e => \A q : PastOf(T, q, Newline, TRUE, row + 1, 0)
          /\ ~e => \A x : x # Newline => AheadOf(T, p, x, FALSE, row + 1, 0)
      BY <3>2, PastMoves
    <3>4. Desc(k)' = Desc(k) /\ ~IsHeld(k)' /\ Picture(k)' = T
      BY <1>6, <1>10, <3>1 DEF Desc, IsHeld, Picture
    <3>5. CASE e
      <4>1. client'.c[k] = Newline /\ client'.eof[k] = TRUE
        BY <1>4, <1>6, <3>1, <3>2, <3>5
      <4>2. AheadOf(T, Len(got'[Desc(k)]), Newline, TRUE, row + 1, 0)
        BY <3>3, <3>5 DEF AheadOf
      <4> QED BY <1>6, <3>4, <4>1, <4>2 DEF InStep
    <3>6. CASE ~e
      <4>1. client'.c[k] = "0" /\ client'.eof[k] = FALSE
        BY <1>4, <1>6, <3>1, <3>2, <3>6
      <4>2. /\ file_descriptor'[Desc(k)] = file_descriptor[Desc(k)]
            /\ opened'[Desc(k)] = opened[Desc(k)] /\ got'[Desc(k)] = got[Desc(k)]
        <5>1. Desc(k) \in FD /\ client.fd0 # client.fd1
          BY <1>2 DEF Drawing, Desc
        <5>2. ~(\/ client.eof[1] /\ Desc(k) = client.fd0
                \/ client.eof[2] /\ Desc(k) = client.fd1)
          <6>1. CASE k = 1
            BY <3>1, <3>6, <5>1, <6>1 DEF Desc
          <6>2. CASE k = 2
            BY <3>1, <3>6, <5>1, <6>2 DEF Desc
          <6> QED BY <6>1, <6>2
        <5> QED BY <5>1, <5>2 DEF FishRow
      <4>3. AheadOf(T, p, "0", FALSE, row + 1, 0)
        BY <3>3, <3>6 DEF Newline
      <4>4. OnFile(k)'
        BY <3>2, <3>4, <3>6, <4>2 DEF OnFile
      <4> QED BY <1>6, <3>1, <3>4, <4>1, <4>2, <4>3, <4>4 DEF InStep
    <3> QED BY <3>5, <3>6
  <2>2. Drawn(output, row + 1, 0)
    <3>1. \A r, d \in Nat : Earlier(r, d, row + 1, 0) <=>
                              Earlier(r, d, row, col) \/ (r = row /\ d >= col)
      BY DEF Earlier
    <3>2. ASSUME NEW d \in Nat, d >= col PROVE IsBlank(CellAt(row, d))
      <4>1. \A k \in 1 .. 2 : CharAt(Picture(k), row, d) = Space
        BY <1>9, <3>2, PastBlank
      <4> QED BY <4>1 DEF IsBlank, CellAt
    <3> QED BY <1>8, <3>1, <3>2 DEF Drawn
  <2>3. Drawn(output, client.row, client.col)'
    BY <1>5, <1>6, <2>2 DEF Drawn, CellAt, Picture
  <2>4. Drawing'
    BY <1>2, <1>6, <2>1, <2>3 DEF Drawing
  <2> QED BY <1>1, <1>6, <1>7, <1>10, <2>4 DEF Draws
<1>11. CASE client.eof = <<TRUE, TRUE>>
  <2> DEFINE size == Len(Picture(1)) + Len(Picture(2))
  <2>1. /\ Picture(1) \in Seq(Byte) /\ Picture(2) \in Seq(Byte)
        /\ PastOf(Picture(1), Len(got[Desc(1)]), Newline, TRUE, row, col)
        /\ PastOf(Picture(2), Len(got[Desc(2)]), Newline, TRUE, row, col)
    <3>1. 1 \in 1 .. 2 /\ 2 \in 1 .. 2
      OBVIOUS
    <3>2. client.eof[1] = TRUE /\ client.eof[2] = TRUE
      BY <1>11
    <3> QED BY <1>9, <3>1, <3>2, Zenon
  <2>2. PICK m, n \in Nat : m = Len(Picture(1)) /\ n = Len(Picture(2)) /\ size = m + n
    BY <2>1, LenProperties
  <2>3. ASSUME NEW r, NEW d, ~IsBlank(CellAt(r, d))
        PROVE  r \in 0 .. size /\ d \in 0 .. size /\ Earlier(r, d, row, col)
    <3>1. CharAt(Picture(1), r, d) # Space \/ CharAt(Picture(2), r, d) # Space
      BY <2>3 DEF IsBlank, CellAt
    <3>2. CASE CharAt(Picture(1), r, d) # Space
      <4>1. r \in 0 .. Len(Picture(1)) /\ d \in 0 .. Len(Picture(1))
        BY <2>1, <3>2, WithinSize
      <4>2. Earlier(r, d, row, col)
        BY <2>1, <3>2, EndedBefore
      <4> QED BY <2>2, <4>1, <4>2
    <3>3. CASE CharAt(Picture(2), r, d) # Space
      <4>1. r \in 0 .. Len(Picture(2)) /\ d \in 0 .. Len(Picture(2))
        BY <2>1, <3>3, WithinSize
      <4>2. Earlier(r, d, row, col)
        BY <2>1, <3>3, EndedBefore
      <4> QED BY <2>2, <4>1, <4>2
    <3> QED BY <3>1, <3>2, <3>3
  <2>4. 0 .. size \subseteq Nat
    BY <2>2
  <2> HIDE DEF size
  <2>5. Range(output) = {p \in {CellAt(r, d) : r \in 0 .. size, d \in 0 .. size} : ~IsBlank(p)}
    BY <1>8, <2>3, <2>4 DEF Drawn
  <2>6. FishShows'
    BY <1>5, <2>5 DEF FishShows, CellAt, IsBlank, Picture, size
  <2> QED BY <1>1, <1>6, <1>7, <1>11, <2>6 DEF Draws
<1> QED BY <1>10, <1>11

LEMMA DrawsStep ==
  ASSUME IInv, Draws, [PNext]_pvars
  PROVE  Draws'
<1>1. CASE Start
  <2>1. ClientTyped'
    BY <1>1, NewClientTyped DEF Start
  <2>2. \A fd \in FD : ~IsOpen(file_descriptor, fd)'
    BY <1>1, <2>1, ExecuteInv DEF Start
  <2>3. FreeFDs(file_descriptor)' = FD
    BY <2>2 DEF FreeFDs
  <2>4. FishTyped' /\ Opening' /\ client'.pc = "main"
    <3>1. \A c, d : <<c, c>> \in [1 .. 2 -> Byte \cup {c, d}]
      OBVIOUS
    <3>2. <<FALSE, FALSE>> \in [1 .. 2 -> BOOLEAN]
      <4>1. \A S, b : b \in S => <<b, b>> \in [1 .. 2 -> S]
        OBVIOUS
      <4> QED BY <4>1
    <3>3. output' = <<>> /\ output' \in Seq(Range(output'))
      BY <1>1, EmptySeq DEF Start
    <3>4. PICK g : client' = Client(g)
      BY <1>1 DEF Start
    <3>5. /\ {"pc", "fd", "fd0", "fd1", "row", "col", "c", "eof"} \subseteq DOMAIN client'
          /\ client'.pc = "main" /\ client'.row = 0 /\ client'.col = 0
          /\ client'.c = <<"0", "0">> /\ client'.eof = <<FALSE, FALSE>>
      BY <3>4 DEF Client
    <3> QED BY <3>1, <3>2, <3>3, <3>5 DEF FishTyped, Opening
  <2> QED BY <2>3, <2>4 DEF Draws
<1>2. CASE Halt
  BY <1>2, ProgramsAssumption, NameFacts DEF Halt, SysHalt, Draws
<1>3. CASE UNCHANGED pvars
  <2>1. UNCHANGED <<program, client, output, file_descriptor, opened, got>>
    BY <1>3 DEF pvars, vars
  <2>2. FreeFDs(file_descriptor)' = FreeFDs(file_descriptor)
    BY <2>1 DEF FreeFDs, IsOpen
  <2>3. FishTyped' = FishTyped /\ Opening' = Opening
    BY <2>1, Zenon DEF FishTyped, Opening
  <2>4. FishShows => FishShows'
    BY <2>1 DEF FishShows
  <2>5. \A k : OnFile(k)' = OnFile(k)
    BY <2>1, Zenon DEF OnFile, Desc
  <2>6. InStep(1)' = InStep(1) /\ InStep(2)' = InStep(2)
    BY <2>1, <2>5, Zenon DEF InStep, IsHeld, Desc, Picture
  <2>7. Drawing' = Drawing
    BY <2>1, <2>6, Zenon DEF Drawing, Drawn, CellAt, Picture
  <2> QED BY <2>1, <2>2, <2>5, <2>7, <2>3, <2>4, Zenon DEF Draws
<1>4. ASSUME program' = program, program # Fish PROVE Draws'
  BY <1>4 DEF Draws
<1>5. CASE AnyProgram
  BY <1>4, <1>5, LineStays DEF AnyProgram, IsClient
<1>6. CASE ClientStep
  <2>1. program' = program
    BY <1>6, LineStays
  <2>2. CASE CatMain \/ CatReads \/ LsMain \/ LsReads
    <3>1. program \in {Cat, Ls}
      BY <2>2, Zenon DEF CatMain, CatReads, LsMain, LsReads, At
    <3> QED BY <1>4, <2>1, <3>1, ProgramsAssumption
  <2>3. CASE GrepMain \/ GrepEntry \/ GrepOpens \/ GrepReads \/ GrepCloses
    <3>1. program = Grep
      BY <2>3, Zenon DEF GrepMain, GrepEntry, GrepOpens, GrepReads, GrepCloses, At
    <3> QED BY <1>4, <2>1, <3>1, ProgramsAssumption
  <2>4. CASE FishMain \/ FishFirst \/ FishSecond
    BY <2>4, FishOpens
  <2>5. CASE FishReads(1) \/ FishReads(2)
    <3>1. 1 \in 1 .. 2 /\ 2 \in 1 .. 2
      OBVIOUS
    <3> QED BY <2>5, <3>1, FishRead
  <2>6. CASE FishCell
    BY <2>6, FishDrawsCell
  <2>7. CASE FishRow
    BY <2>7, FishEndsRow DEF IInv
  <2>8. CASE FishRate \/ FishCloses
    <3>1. /\ program = Fish /\ FishTyped /\ FishShows
          /\ \/ Moves([client EXCEPT !.pc = "close"], <<>>)
             \/ Moves([client EXCEPT !.pc = "done"], <<>>)
      BY <2>8 DEF FishRate, FishCloses, At, Draws
    <3>2. output' = output
      BY <3>1, ConcatEmptySeq DEF Moves, FishTyped
    <3>3. FishTyped' /\ client'.pc \in {"close", "done"}
      BY <3>1, <3>2 DEF Moves, FishTyped
    <3>4. FishShows'
      BY <3>1, <3>2 DEF FishShows
    <3> QED BY <2>1, <3>1, <3>3, <3>4 DEF Draws
  <2> QED BY <1>6, <2>2, <2>3, <2>4, <2>5, <2>6, <2>7, <2>8 DEF ClientStep
<1> QED BY <1>1, <1>2, <1>3, <1>5, <1>6 DEF PNext

LEMMA ShowsFollow == FInv /\ Draws => FilesShown
<1> SUFFICES ASSUME FInv, Draws, client.pc = "done", program \in {Cat, Ls, Fish}
             PROVE  \E i, j \in 0 .. Len(line) :
                      LET args == SubSeq(line, i + 1, j)
                      IN  /\ IsSplit(line, program, args)
                          /\ program = Cat => CatShows(args)
                          /\ program = Ls => output = AllNames
                          /\ program = Fish => FishShows
  BY DEF FilesShown
<1>1. Runs
  BY ProgramsAssumption, NameFacts DEF Runs
<1>2. line \in Seq(Range(line)) /\ program = prog_name(line) /\ arg_buffer = arg_buffer_of(line)
  BY <1>1 DEF FInv, Parsed
<1>3. PICK i \in 0 .. Len(line), j \in 0 .. Len(line) :
        /\ arg_buffer_of(line) = SubSeq(line, i + 1, j)
        /\ IsSplit(line, prog_name(line), SubSeq(line, i + 1, j))
  BY <1>2, CommandIsSplit
<1>4. /\ program \in {Cat, Ls} => Finished
      /\ program = Fish => FishShows
  BY DEF FInv, Shows, Draws
<1>5. /\ program = Cat => CatShows(arg_buffer)
      /\ program = Ls => output = AllNames
  BY <1>4 DEF Finished
<1> QED BY <1>2, <1>3, <1>4, <1>5, Zenon

\* Whatever is typed, for every image, name, file and buffer size: cat shows the whole
\* file that the line names, ls every name of the directory, once and in order, and fish
\* every cell of its two pictures that is not blank, also when one of them is longer.
THEOREM CatLsAndFishShow == Spec => []FilesShown
<1>1. PInit => FInv /\ Draws
  <2> SUFFICES ASSUME PInit PROVE FInv /\ Draws
    OBVIOUS
  <2>1. IInv /\ program = NoName
    BY Starts DEF PInit, Init
  <2> QED BY <2>1, ProgramsAssumption, NameFacts DEF FInv, Parsed, Shows, Draws, Runs
<1>2. FInv /\ Draws /\ [PNext]_pvars => (FInv /\ Draws)'
  BY Steps, ParsedStep, ShowsStep, DrawsStep DEF FInv
<1> QED BY <1>1, <1>2, ShowsFollow, PTL DEF Spec

-----------------------------------------------------------------------------
(* grep.  Sequences that are joined.                                         *)

\* A function by its value at 0 and its steps.
Iterates(f, step, N) == f[0] = <<>> /\ \A n \in 1 .. N : f[n] = step[n][f[n - 1]]

LEMMA SeqRecursion ==
  ASSUME NEW S, NEW N \in Nat
  PROVE  \A step \in [1 .. N -> [Seq(S) -> Seq(S)]] :
           \E f \in [0 .. N -> Seq(S)] : Iterates(f, step, N)
<1> DEFINE U == Seq(S)
           none == <<>>
<1>1. none \in U
  OBVIOUS
<1> HIDE DEF U, none
<1>2. \A step \in [1 .. N -> [U -> U]] : \E f \in [0 .. N -> U] :
        f[0] = none /\ \A n \in 1 .. N : f[n] = step[n][f[n - 1]]
  BY <1>1, Recursion
<1> QED BY <1>2, Zenon DEF U, none, Iterates

LEMMA JoinedDef ==
  ASSUME NEW S, NEW parts \in Seq(Seq(S))
  PROVE  /\ Joined(parts) \in [0 .. Len(parts) -> Seq(S)]
         /\ Joined(parts)[0] = <<>>
         /\ \A n \in 1 .. Len(parts) : Joined(parts)[n] = Joined(parts)[n - 1] \o parts[n]
<1> DEFINE N == Len(parts)
           step == [n \in 1 .. N |-> [s \in Seq(S) |-> s \o parts[n]]]
           body(f, n) == IF n = 0 THEN <<>> ELSE f[n - 1] \o parts[n]
           joined[n \in 0 .. N] == IF n = 0 THEN <<>> ELSE joined[n - 1] \o parts[n]
<1>2. N \in Nat /\ \A n \in 1 .. N : parts[n] \in Seq(S)
  BY LenProperties, ElementOfSeq
<1>3. Joined(parts) = joined
  BY DEF Joined
<1>4. (\E f : f = [n \in 0 .. N |-> body(f, n)]) => joined = [n \in 0 .. N |-> body(joined, n)]
  OBVIOUS
<1> HIDE DEF joined, N
<1>5. step \in [1 .. N -> [Seq(S) -> Seq(S)]]
  <2>1. \A n \in 1 .. N, s \in Seq(S) : s \o parts[n] \in Seq(S)
    BY <1>2, ConcatProperties
  <2> QED BY <2>1
<1>6. ASSUME NEW f \in [0 .. N -> Seq(S)],
             Iterates(f, step, N)
      PROVE  f = [n \in 0 .. N |-> body(f, n)]
  <2>1. ASSUME NEW n \in 0 .. N, n # 0 PROVE f[n] = f[n - 1] \o parts[n]
    <3>1. n \in 1 .. N /\ n - 1 \in 0 .. N
      BY <1>2, <2>1
    <3> QED BY <1>6, <3>1 DEF Iterates
  <2> HIDE DEF step
  <2>2. ASSUME NEW n \in 0 .. N PROVE f[n] = body(f, n)
    BY <1>6, <2>1 DEF Iterates
  <2> HIDE DEF body
  <2> QED BY <2>2
<1> HIDE DEF step, body
<1>7. PICK f \in [0 .. N -> Seq(S)] : f = [n \in 0 .. N |-> body(f, n)]
  <2>1. PICK f \in [0 .. N -> Seq(S)] : Iterates(f, step, N)
    BY <1>2, <1>5, SeqRecursion
  <2> QED BY <1>6, <2>1, Zenon
<1>8. PICK g : g = joined /\ g = [n \in 0 .. N |-> body(g, n)]
  BY <1>4, <1>7
<1>9. \A n \in 0 .. N : g[n] = body(g, n)
  <2> HIDE DEF body
  <2> QED BY <1>2, <1>8
<1>10. g[0] = <<>> /\ \A n \in 1 .. N : g[n] = g[n - 1] \o parts[n]
  <2>1. 0 \in 0 .. N /\ \A n \in 1 .. N : n # 0 /\ n \in 0 .. N
    BY <1>2
  <2> QED BY <1>9, <2>1, Zenon DEF body
<1>11. g \in [0 .. N -> Seq(S)]
  <2> DEFINE Is == {n \in Nat : n <= N => g[n] \in Seq(S)}
  <2>1. 0 \in Is
    <3>1. 0 \in Nat /\ <<>> \in Seq(S)
      OBVIOUS
    <3> QED BY <1>10, <3>1, Zenon
  <2>2. ASSUME NEW n \in Nat, n \in Is PROVE n + 1 \in Is
    <3> SUFFICES ASSUME n + 1 <= N PROVE g[n + 1] \in Seq(S)
      OBVIOUS
    <3>1. PICK m \in 1 .. N : m = n + 1 /\ m - 1 = n
      <4>1. n + 1 \in 1 .. N /\ n + 1 - 1 = n
        BY <1>2
      <4> QED BY <4>1
    <3>2. PICK s \in Seq(S) : s = g[n]
      BY <1>2, <2>2
    <3>3. PICK t \in Seq(S) : t = parts[m]
      BY <1>2
    <3>4. g[m] = s \o t
      BY <1>10, <3>1, <3>2, <3>3, Zenon
    <3> QED BY <3>1, <3>4, ConcatProperties
  <2> HIDE DEF Is
  <2>3. \A n \in Nat : n \in Is
    BY <2>1, <2>2, Induction
  <2>4. \A n \in 0 .. N : g[n] \in Seq(S)
    BY <1>2, <2>3 DEF Is
  <2> HIDE DEF body
  <2> QED BY <1>8, <2>4
<1>12. Joined(parts) = g
  BY <1>3, <1>8
<1> QED BY <1>10, <1>11, <1>12, Zenon DEF N

\* What two calls of Joined have in common: the parts of p are those of P from b on.
IsShift(P, p, b, K) == \A i \in 1 .. K : P[b + i] = p[i]

LEMMA JoinedShift ==
  ASSUME NEW S, NEW P \in Seq(Seq(S)), NEW p \in Seq(Seq(S)),
         NEW b \in Nat, NEW K \in 0 .. Len(p), NEW c \in 0 .. Len(P), c = b + K,
         IsShift(P, p, b, K)
  PROVE  Joined(P)[c] = Then(Joined(P)[b], Joined(p)[K])
<1> USE DEF IsShift
<1>1. PICK F : F = Joined(P)
  OBVIOUS
<1>2. PICK f : f = Joined(p)
  OBVIOUS
<1>3. PICK N \in Nat, n \in Nat : N = Len(P) /\ n = Len(p)
  BY LenProperties
<1>4. /\ F \in [0 .. N -> Seq(S)] /\ F[0] = <<>>
      /\ \A m \in 1 .. N : F[m] = F[m - 1] \o P[m]
  BY <1>1, <1>3, JoinedDef
<1>5. /\ f \in [0 .. n -> Seq(S)] /\ f[0] = <<>>
      /\ \A m \in 1 .. n : f[m] = f[m - 1] \o p[m]
  BY <1>2, <1>3, JoinedDef
<1>6. K \in 0 .. n /\ b + K <= N
  BY <1>3
<1> DEFINE Is == {k \in Nat : k <= K => F[b + k] = Then(F[b], f[k])}
<1>7. 0 \in Is
  <2>1. b + 0 = b /\ b \in 0 .. N
    BY <1>6
  <2>2. F[b] \in Seq(S)
    BY <1>4, <2>1
  <2>3. F[b] = F[b] \o <<>>
    BY <2>2, ConcatEmptySeq
  <2>4. F[b + 0] = Then(F[b], f[0])
    BY <1>5, <2>1, <2>3, Zenon DEF Then
  <2> QED BY <2>4
<1>8. ASSUME NEW k \in Nat, k \in Is PROVE k + 1 \in Is
  <2> SUFFICES ASSUME k + 1 <= K PROVE F[b + (k + 1)] = Then(F[b], f[k + 1])
    OBVIOUS
  <2>1. /\ b + (k + 1) \in 1 .. N /\ b + (k + 1) - 1 = b + k /\ k + 1 \in 1 .. n
        /\ k + 1 - 1 = k /\ k + 1 \in 1 .. K /\ b \in 0 .. N /\ k \in 0 .. n
    BY <1>6
  <2>2. PICK x \in Seq(S) : x = F[b]
    BY <1>4, <2>1
  <2>3. PICK y \in Seq(S) : y = f[k]
    BY <1>5, <2>1
  <2>4. PICK z \in Seq(S) : z = p[k + 1]
    BY <1>3, <2>1, ElementOfSeq
  <2>5. P[b + (k + 1)] = z
    BY <2>1, <2>4, Zenon
  <2>6. F[b + k] = x \o y
    <3>1. F[b + k] = Then(F[b], f[k])
      BY <1>8, <2>1
    <3> QED BY <2>2, <2>3, <3>1, Zenon DEF Then
  <2>7. F[b + (k + 1)] = (x \o y) \o z
    <3>1. F[b + (k + 1)] = F[b + k] \o P[b + (k + 1)]
      <4>1. \A q \in 1 .. N : F[q] = F[q - 1] \o P[q]
        BY <1>4
      <4>2. PICK q \in 1 .. N : q = b + (k + 1) /\ q - 1 = b + k
        BY <2>1
      <4> QED BY <4>1, <4>2, Zenon
    <3> QED BY <3>1, <2>5, <2>6, Zenon
  <2>8. f[k + 1] = y \o z
    <3>1. \A q \in 1 .. n : f[q] = f[q - 1] \o p[q]
      BY <1>5
    <3>2. PICK q \in 1 .. n : q = k + 1 /\ q - 1 = k
      BY <2>1
    <3> QED BY <2>3, <2>4, <3>1, <3>2, Zenon
  <2>9. (x \o y) \o z = x \o (y \o z)
    <3>1. Then(x, Then(y, z)) = Then(Then(x, y), z)
      BY Thens
    <3> QED BY <3>1, Zenon DEF Then
  <2> QED BY <2>2, <2>7, <2>8, <2>9, Zenon DEF Then
<1> HIDE DEF Is
<1>9. \A k \in Nat : k \in Is
  BY <1>7, <1>8, Induction
<1>10. F[b + K] = Then(F[b], f[K])
  BY <1>6, <1>9 DEF Is
<1> QED BY <1>1, <1>2, <1>10, Zenon

LEMMA JoinedNone ==
  ASSUME NEW S, NEW parts \in Seq(Seq(S)), \A i \in 1 .. Len(parts) : parts[i] = <<>>
  PROVE  Joined(parts)[Len(parts)] = <<>>
<1>1. PICK f : f = Joined(parts)
  OBVIOUS
<1>2. PICK n \in Nat : n = Len(parts)
  BY LenProperties
<1>3. /\ f \in [0 .. n -> Seq(S)] /\ f[0] = <<>>
      /\ \A m \in 1 .. n : f[m] = f[m - 1] \o parts[m]
  BY <1>1, <1>2, JoinedDef
<1> DEFINE Is == {k \in Nat : k <= n => f[k] = <<>>}
<1>4. 0 \in Is
  BY <1>3
<1>5. ASSUME NEW k \in Nat, k \in Is PROVE k + 1 \in Is
  <2> SUFFICES ASSUME k + 1 <= n PROVE f[k + 1] = <<>>
    OBVIOUS
  <2>1. k + 1 \in 1 .. n /\ k + 1 - 1 = k /\ f[k] = <<>>
    BY <1>5
  <2>2. f[k + 1] = <<>> \o <<>>
    <3>1. \A q \in 1 .. n : f[q] = f[q - 1] \o parts[q]
      BY <1>3
    <3>2. PICK q \in 1 .. n : q = k + 1 /\ q - 1 = k
      BY <2>1
    <3> QED BY <1>2, <2>1, <3>1, <3>2, Zenon
  <2>3. <<>> \o <<>> = <<>>
    OBVIOUS
  <2> QED BY <2>2, <2>3
<1> HIDE DEF Is
<1>6. \A k \in Nat : k \in Is
  BY <1>4, <1>5, Induction
<1> QED BY <1>1, <1>2, <1>6 DEF Is

LEMMA JoinedSingles ==
  ASSUME NEW S, NEW m \in Seq(S), NEW parts \in Seq(Seq(S)), Len(parts) = Len(m),
         \A i \in 1 .. Len(m) : parts[i] = <<m[i]>>
  PROVE  Joined(parts)[Len(m)] = m
<1>1. PICK f : f = Joined(parts)
  OBVIOUS
<1>2. PICK n \in Nat : n = Len(m)
  BY LenProperties
<1>3. /\ f \in [0 .. n -> Seq(S)] /\ f[0] = <<>>
      /\ \A k \in 1 .. n : f[k] = f[k - 1] \o parts[k]
  BY <1>1, <1>2, JoinedDef
<1> DEFINE Is == {k \in Nat : k <= n => Len(f[k]) = k /\ \A i \in 1 .. k : f[k][i] = m[i]}
<1>4. 0 \in Is
  BY <1>3
<1>5. ASSUME NEW k \in Nat, k \in Is PROVE k + 1 \in Is
  <2> SUFFICES ASSUME k + 1 <= n
               PROVE  Len(f[k + 1]) = k + 1 /\ \A i \in 1 .. k + 1 : f[k + 1][i] = m[i]
    OBVIOUS
  <2>1. k + 1 \in 1 .. n /\ k + 1 - 1 = k /\ k \in 0 .. n
    OBVIOUS
  <2>2. PICK x \in Seq(S) : x = f[k]
    BY <1>3, <2>1
  <2>3. Len(x) = k /\ \A i \in 1 .. k : x[i] = m[i]
    BY <1>5, <2>2
  <2>4. PICK c \in S : c = m[k + 1]
    BY <1>2, <2>1, ElementOfSeq
  <2>5. parts[k + 1] = <<c>>
    BY <1>2, <2>1, <2>4, Zenon
  <2>6. f[k + 1] = x \o <<c>>
    <3>1. \A q \in 1 .. n : f[q] = f[q - 1] \o parts[q]
      BY <1>3
    <3>2. PICK q \in 1 .. n : q = k + 1 /\ q - 1 = k
      BY <2>1
    <3> QED BY <2>2, <2>5, <3>1, <3>2, Zenon
  <2>7. /\ Len(x \o <<c>>) = k + 1
        /\ \A i \in 1 .. k + 1 : (x \o <<c>>)[i] = IF i <= k THEN x[i] ELSE c
    BY <2>3
  <2> QED BY <2>3, <2>4, <2>6, <2>7
<1> HIDE DEF Is
<1>6. \A k \in Nat : k \in Is
  BY <1>4, <1>5, Induction
<1>7. f[n] \in Seq(S) /\ Len(f[n]) = n /\ \A i \in 1 .. n : f[n][i] = m[i]
  BY <1>3, <1>6 DEF Is
<1>8. f[n] = m
  BY <1>2, <1>7, SeqEqual
<1> QED BY <1>1, <1>2, <1>8

-----------------------------------------------------------------------------
(* What is shown of a name, when more is shown.                              *)

ShownParts(out, name) ==
  [k \in 1 .. Len(out) |-> IF out[k][1] = name THEN <<out[k]>> ELSE <<>>]

IsShown(p, out, name) ==
  \A k \in 1 .. Len(out) : p[k] = IF out[k][1] = name THEN <<out[k]>> ELSE <<>>

LEMMA ShownTyped ==
  ASSUME NEW S, NEW out \in Seq(S), NEW name
  PROVE  /\ ShownParts(out, name) \in Seq(Seq(S)) /\ Len(ShownParts(out, name)) = Len(out)
         /\ IsShown(ShownParts(out, name), out, name)
         /\ ShownOf(out, name) = Joined(ShownParts(out, name))[Len(out)]
         /\ ShownOf(out, name) \in Seq(S)
<1>1. PICK n \in Nat : n = Len(out)
  BY LenProperties
<1>2. \A k \in 1 .. n : (IF out[k][1] = name THEN <<out[k]>> ELSE <<>>) \in Seq(S)
  <2> TAKE k \in 1 .. n
  <2>1. PICK c \in S : c = out[k]
    BY <1>1, ElementOfSeq
  <2>2. <<c>> \in Seq(S) /\ <<>> \in Seq(S)
    OBVIOUS
  <2> QED BY <2>1, <2>2
<1>3. PICK p : p = ShownParts(out, name)
  OBVIOUS
<1>4. p = [k \in 1 .. n |-> IF out[k][1] = name THEN <<out[k]>> ELSE <<>>]
  BY <1>1, <1>3 DEF ShownParts
<1>5. p \in Seq(Seq(S)) /\ Len(p) = n
  <2>1. p \in [1 .. n -> Seq(S)]
    BY <1>2, <1>4, Zenon
  <2> QED BY <2>1
<1>6. \A k \in 1 .. n : p[k] = IF out[k][1] = name THEN <<out[k]>> ELSE <<>>
  BY <1>4, Zenon
<1>7. ShownOf(out, name) = Joined(p)[n]
  BY <1>1, <1>4 DEF ShownOf
<1>8. Joined(p)[n] \in Seq(S)
  <2>1. Joined(p) \in [0 .. Len(p) -> Seq(S)]
    BY <1>5, JoinedDef
  <2> QED BY <1>5, <2>1
<1>9. IsShown(p, out, name)
  BY <1>1, <1>6, Zenon DEF IsShown
<1> QED BY <1>1, <1>3, <1>5, <1>7, <1>8, <1>9, Zenon

\* What is added shows after what was shown; of another name nothing changes.
LEMMA ShownMore ==
  ASSUME NEW S, NEW out \in Seq(S), NEW m \in Seq(S), NEW name
  PROVE  /\ (\A i \in 1 .. Len(m) : m[i][1] = name) =>
              ShownOf(out \o m, name) = ShownOf(out, name) \o m
         /\ (\A i \in 1 .. Len(m) : m[i][1] # name) =>
              ShownOf(out \o m, name) = ShownOf(out, name)
<1>1. PICK a \in Nat, c \in Nat : a = Len(out) /\ c = Len(m)
  BY LenProperties
<1>2. PICK s \in Seq(S) : s = out \o m
  BY ConcatProperties
<1>3. /\ Len(s) = a + c
      /\ \A i \in 1 .. a : s[i] = out[i]
      /\ \A i \in 1 .. c : s[a + i] = m[i]
  BY <1>1, <1>2
<1>4. PICK P : P = ShownParts(s, name)
  OBVIOUS
<1>5. /\ P \in Seq(Seq(S)) /\ Len(P) = a + c
      /\ \A k \in 1 .. a + c : P[k] = IF s[k][1] = name THEN <<s[k]>> ELSE <<>>
      /\ ShownOf(s, name) = Joined(P)[a + c]
  <2>1. /\ P \in Seq(Seq(S)) /\ Len(P) = Len(s)
        /\ IsShown(P, s, name)
        /\ ShownOf(s, name) = Joined(P)[Len(s)]
    BY <1>4, ShownTyped, Zenon
  <2> QED BY <1>3, <2>1, Zenon DEF IsShown
<1>6. PICK p : p = ShownParts(out, name)
  OBVIOUS
<1>7. /\ p \in Seq(Seq(S)) /\ Len(p) = a
      /\ \A k \in 1 .. a : p[k] = IF out[k][1] = name THEN <<out[k]>> ELSE <<>>
      /\ ShownOf(out, name) = Joined(p)[a] /\ ShownOf(out, name) \in Seq(S)
  <2>1. /\ p \in Seq(Seq(S)) /\ Len(p) = Len(out)
        /\ IsShown(p, out, name)
        /\ ShownOf(out, name) = Joined(p)[Len(out)] /\ ShownOf(out, name) \in Seq(S)
    BY <1>6, ShownTyped, Zenon
  <2> QED BY <1>1, <2>1, Zenon DEF IsShown
<1>8. PICK q : q = ShownParts(m, name)
  OBVIOUS
<1>9. /\ q \in Seq(Seq(S)) /\ Len(q) = c
      /\ \A k \in 1 .. c : q[k] = IF m[k][1] = name THEN <<m[k]>> ELSE <<>>
  <2>1. /\ q \in Seq(Seq(S)) /\ Len(q) = Len(m)
        /\ IsShown(q, m, name)
    BY <1>8, ShownTyped, Zenon
  <2> QED BY <1>1, <2>1, Zenon DEF IsShown
<1>10. Joined(P)[a] = Joined(p)[a]
  <2>1. IsShift(P, p, 0, a)
    <3> SUFFICES ASSUME NEW i \in 1 .. a PROVE P[0 + i] = p[i]
      BY DEF IsShift
    <3>1. i \in 1 .. a + c /\ 0 + i = i
      OBVIOUS
    <3>2. s[i] = out[i]
      BY <1>3
    <3> QED BY <1>5, <1>7, <3>1, <3>2, Zenon
  <2>2. 0 \in Nat /\ a \in 0 .. Len(p) /\ a \in 0 .. Len(P)
    BY <1>5, <1>7
  <2>3. Joined(P)[a] = Then(Joined(P)[0], Joined(p)[a])
    <3>1. PICK b \in Nat : b = 0
      OBVIOUS
    <3>2. PICK z \in 0 .. Len(P) : z = a /\ z = b + a
      BY <2>2, <3>1
    <3>3. IsShift(P, p, b, a)
      BY <2>1, <3>1
    <3>4. P \in Seq(Seq(S)) /\ p \in Seq(Seq(S))
      BY <1>5, <1>7
    <3>5. Joined(P)[z] = Then(Joined(P)[b], Joined(p)[a])
      BY <2>2, <3>2, <3>3, <3>4, JoinedShift
    <3> QED BY <3>1, <3>2, <3>5
  <2>4. Joined(P)[0] = <<>>
    BY <1>5, JoinedDef
  <2>5. PICK x \in Seq(S) : x = Joined(p)[a]
    BY <1>7
  <2>6. <<>> \o x = x
    BY ConcatEmptySeq
  <2> QED BY <2>3, <2>4, <2>5, <2>6, Zenon DEF Then
<1>11. Joined(P)[a + c] = Joined(P)[a] \o Joined(q)[c]
  <2>1. IsShift(P, q, a, c)
    <3> SUFFICES ASSUME NEW i \in 1 .. c PROVE P[a + i] = q[i]
      BY DEF IsShift
    <3>1. a + i \in 1 .. a + c
      OBVIOUS
    <3>2. s[a + i] = m[i]
      BY <1>3
    <3> QED BY <1>5, <1>9, <3>1, <3>2, Zenon
  <2>2. c \in 0 .. Len(q)
    BY <1>9
  <2>3. PICK z \in 0 .. Len(P) : z = a + c
    BY <1>5
  <2>4. Joined(P)[z] = Then(Joined(P)[a], Joined(q)[c])
    BY <1>5, <1>9, <2>1, <2>2, <2>3, JoinedShift
  <2> QED BY <2>3, <2>4 DEF Then
<1>12. ASSUME \A i \in 1 .. c : m[i][1] = name PROVE Joined(q)[c] = m
  <2>1. Len(q) = Len(m) /\ \A i \in 1 .. Len(m) : q[i] = <<m[i]>>
    BY <1>1, <1>9, <1>12
  <2> QED BY <1>1, <1>9, <2>1, JoinedSingles
<1>13. ASSUME \A i \in 1 .. c : m[i][1] # name PROVE Joined(q)[c] = <<>>
  <2>1. \A i \in 1 .. Len(q) : q[i] = <<>>
    BY <1>9, <1>13
  <2> QED BY <1>9, <2>1, JoinedNone
<1>14. ShownOf(s, name) = ShownOf(out, name) \o Joined(q)[c]
  BY <1>5, <1>7, <1>10, <1>11, Zenon
<1>15. ShownOf(out, name) \o <<>> = ShownOf(out, name)
  BY <1>7, ConcatEmptySeq
<1> QED BY <1>1, <1>2, <1>12, <1>13, <1>14, <1>15, Zenon

\* Nothing is shown of any name at first.
LEMMA ShownNone == \A name : ShownOf(<<>>, name) = <<>>
<1> TAKE name
<1>1. <<>> \in Seq({}) /\ Len(<<>>) = 0
  OBVIOUS
<1>2. /\ ShownParts(<<>>, name) \in Seq(Seq({})) /\ Len(ShownParts(<<>>, name)) = 0
      /\ ShownOf(<<>>, name) = Joined(ShownParts(<<>>, name))[0]
  BY <1>1, ShownTyped
<1> QED BY <1>2, JoinedDef

-----------------------------------------------------------------------------
(* Lines of a text and pieces of the buffer.                                 *)

\* A finite set of naturals below a bound has a greatest element.
LEMMA MaxNat ==
  ASSUME NEW n \in Nat, NEW I, I \subseteq 0 .. n, I # {}
  PROVE  Max(I) \in I /\ \A j \in I : Max(I) >= j
<1> DEFINE gaps == {n - i : i \in I}
<1>1. gaps \subseteq Nat /\ gaps # {}
  <2>1. \A i \in I : n - i \in Nat
    OBVIOUS
  <2> QED BY <2>1
<1>2. PICK g \in gaps : \A h \in gaps : g <= h
  BY <1>1, LeastNat
<1>3. PICK i \in I : g = n - i
  BY <1>2
<1>4. \A j \in I : n - i <= n - j
  BY <1>2, <1>3
<1>5. \A j \in I : i >= j
  <2> TAKE j \in I
  <2>1. i \in 0 .. n /\ j \in 0 .. n
    OBVIOUS
  <2> QED BY <1>4, <2>1
<1> QED BY <1>3, <1>5 DEF Max

LEMMA TailFacts ==
  ASSUME NEW d, NEW n \in Nat
  PROVE  \E start \in 0 .. n :
           /\ TailStart(d, n) = start
           /\ start # 0 => d[start - 1] = Newline
           /\ \A i \in start .. n - 1 : d[i] # Newline
<1> DEFINE ends == {i \in 0 .. n - 1 : d[i] = Newline}
<1>1. CASE ends = {}
  <2>1. TailStart(d, n) = 0
    BY <1>1 DEF TailStart
  <2> QED BY <1>1, <2>1
<1>2. CASE ends # {}
  <2>1. Max(ends) \in ends /\ \A j \in ends : Max(ends) >= j
    <3>1. ends \subseteq 0 .. n
      OBVIOUS
    <3> HIDE DEF ends
    <3> QED BY <1>2, <3>1, MaxNat
  <2>2. PICK m \in 0 .. n - 1 : m = Max(ends) /\ d[m] = Newline /\ \A j \in ends : m >= j
    BY <2>1
  <2>3. TailStart(d, n) = m + 1
    BY <1>2, <2>2 DEF TailStart
  <2>4. \A i \in m + 1 .. n - 1 : d[i] # Newline
    BY <2>2
  <2>5. m + 1 \in 0 .. n /\ d[(m + 1) - 1] = Newline
    BY <2>2
  <2> HIDE DEF ends
  <2> QED BY <2>3, <2>4, <2>5
<1> QED BY <1>1, <1>2

LEMMA LineFacts ==
  ASSUME NEW S, NEW T \in Seq(S), NEW end \in 1 .. Len(T) + 1
  PROVE  \E m \in 0 .. end - 1 :
           /\ LineOf(T, end) = SubSeq(T, m + 1, end - 1)
           /\ m = 0 \/ T[m] = Newline
           /\ \A i \in m + 1 .. end - 1 : T[i] # Newline
<1>1. PICK e \in Nat : e = end /\ e # 0
  BY LenProperties
<1> DEFINE I == {0} \cup {i \in 1 .. e - 1 : T[i] = Newline}
<1>2. Max(I) \in I /\ \A j \in I : Max(I) >= j
  <2>1. I \subseteq 0 .. e /\ I # {}
    BY <1>1
  <2> HIDE DEF I
  <2> QED BY <1>1, <2>1, MaxNat
<1>3. PICK m \in 0 .. e - 1 : m = Max(I) /\ m \in I /\ \A j \in I : m >= j
  <2>1. \A i \in I : i \in 0 .. e - 1
    BY <1>1
  <2> HIDE DEF I
  <2> QED BY <1>2, <2>1
<1>4. LineOf(T, end) = SubSeq(T, m + 1, e - 1)
  BY <1>1, <1>3 DEF LineOf
<1>5. m = 0 \/ T[m] = Newline
  BY <1>3
<1>6. \A i \in m + 1 .. e - 1 : T[i] # Newline
  BY <1>3
<1> HIDE DEF I
<1> QED BY <1>1, <1>4, <1>5, <1>6

\* The n bytes of the buffer d are those of T from b on, where a line begins.
InBuffer(T, b, d, n) ==
  /\ b = 0 \/ T[b] = Newline
  /\ b + n <= Len(T)
  /\ \A i \in 0 .. n - 1 : d[i] = T[b + i + 1]

\* The start of the last piece before `to' is that of the line.
LEMMA PieceIsLine ==
  ASSUME NEW S, NEW T \in Seq(S), NEW b \in Nat, NEW d, NEW n \in Nat, InBuffer(T, b, d, n),
         NEW to \in 0 .. n
  PROVE  LineOf(T, b + to + 1) = Piece(d, TailStart(d, to), to)
<1>1. PICK N \in Nat : N = Len(T)
  BY LenProperties
<1>2. /\ b = 0 \/ T[b] = Newline
      /\ b + n <= N
      /\ \A i \in 0 .. n - 1 : d[i] = T[b + i + 1]
  BY <1>1 DEF InBuffer
<1>3. PICK start \in 0 .. to :
        /\ TailStart(d, to) = start
        /\ start # 0 => d[start - 1] = Newline
        /\ \A i \in start .. to - 1 : d[i] # Newline
  <2>1. to \in Nat
    OBVIOUS
  <2> QED BY <2>1, TailFacts
<1>4. PICK end \in 1 .. Len(T) + 1 : end = b + to + 1
  BY <1>1, <1>2
<1>5. PICK m \in 0 .. end - 1 :
        /\ LineOf(T, end) = SubSeq(T, m + 1, end - 1)
        /\ m = 0 \/ T[m] = Newline
        /\ \A i \in m + 1 .. end - 1 : T[i] # Newline
  BY LineFacts
<1>6. m = b + start
  <2>1. ~(m < b)
    <3> SUFFICES ASSUME m < b PROVE FALSE
      OBVIOUS
    <3>1. b \in m + 1 .. end - 1 /\ b # 0
      BY <1>4
    <3> QED BY <1>2, <1>5, <3>1
  <2>2. ~(m < b + start)
    <3> SUFFICES ASSUME m < b + start PROVE FALSE
      OBVIOUS
    <3>1. start # 0 /\ d[start - 1] = Newline
      BY <1>3, <2>1
    <3>2. start - 1 \in 0 .. n - 1
      BY <3>1
    <3>3. T[b + (start - 1) + 1] = Newline
      BY <1>2, <3>1, <3>2
    <3>4. b + (start - 1) + 1 = b + start /\ b + start \in m + 1 .. end - 1
      BY <1>4
    <3> QED BY <1>5, <3>3, <3>4
  <2>3. ~(m > b + start)
    <3> SUFFICES ASSUME m > b + start PROVE FALSE
      OBVIOUS
    <3>1. PICK i \in start .. to - 1 : i = m - b - 1
      BY <1>4
    <3>2. d[i] # Newline /\ d[i] = T[b + i + 1] /\ b + i + 1 = m /\ m # 0
      BY <1>2, <1>3, <3>1
    <3> QED BY <1>5, <3>2
  <2> QED BY <2>2, <2>3
<1>7. PICK s : s = SubSeq(T, m + 1, end - 1)
  OBVIOUS
<1>8. s = [i \in 1 .. to - start |-> d[start + i - 1]]
  <2>1. s \in Seq(S) /\ Len(s) = to - start
    <3>1. m + 1 \in 1 .. N + 1 /\ end - 1 \in 0 .. N /\ end - 1 = b + to /\ end - 1 <= N
      BY <1>1, <1>2, <1>4
    <3> QED BY <1>1, <1>6, <1>7, <3>1
  <2>2. \A i \in 1 .. to - start : s[i] = d[start + i - 1]
    <3> TAKE i \in 1 .. to - start
    <3>1. s[i] = T[m + i]
      <4>1. m + 1 \in 1 .. N + 1 /\ end - 1 \in 0 .. N /\ i \in 1 .. (end - 1) - (m + 1) + 1
        BY <1>1, <1>2, <1>4, <1>6
      <4>2. PICK x \in 1 .. N + 1, y \in 0 .. N : x = m + 1 /\ y = end - 1
        BY <4>1
      <4>3. i \in 1 .. y - x + 1 /\ s = SubSeq(T, x, y) /\ x + i - 1 = m + i
        BY <1>7, <4>1, <4>2
      <4>4. SubSeq(T, x, y)[i] = T[x + i - 1]
        BY <1>1, <4>3, SubSeqProperties
      <4> QED BY <4>3, <4>4
    <3>2. start + i - 1 \in 0 .. n - 1
      OBVIOUS
    <3>3. d[start + i - 1] = T[b + (start + i - 1) + 1]
      BY <1>2, <3>2
    <3>4. b + (start + i - 1) + 1 = m + i
      BY <1>6
    <3> QED BY <3>1, <3>3, <3>4
  <2>3. s = [i \in 1 .. to - start |-> s[i]]
    <3>1. to - start \in Nat
      OBVIOUS
    <3> QED BY <2>1, <3>1
  <2> QED BY <2>2, <2>3
<1> QED BY <1>3, <1>4, <1>5, <1>7, <1>8 DEF Piece

LEMMA FirstNUL ==
  ASSUME NEW S, NEW s \in Seq(S)
  PROVE  \E k \in 1 .. Len(s) + 1 :
           /\ k = FirstOf(s, IsNUL) /\ \A i \in 1 .. k - 1 : s[i] # NUL
           /\ k <= Len(s) => s[k] = NUL
<1> DEFINE I == {i \in 1 .. Len(s) : s[i] = NUL}
<1>1. FirstOf(s, IsNUL) =
        LET i == IF I # {} THEN Min(I) ELSE 0 IN IF i = 0 THEN Len(s) + 1 ELSE i
  BY DEF FirstOf, SelectInSeq, IsNUL
<1>2. PICK n \in Nat : n = Len(s)
  BY LenProperties
<1> DEFINE k == FirstOf(s, IsNUL)
<1> HIDE DEF k
<1>3. /\ k \in 1 .. n + 1 /\ (k <= n => k \in I)
      /\ \A j \in 1 .. k - 1 : j \notin I
  <2>1. I \subseteq 1 .. n
    BY <1>2
  <2>2. PICK i : i = IF I # {} THEN Min(I) ELSE 0
    OBVIOUS
  <2>3. k = IF i = 0 THEN n + 1 ELSE i
    BY <1>1, <1>2, <2>2 DEF k
  <2> HIDE DEF I
  <2> QED BY <2>1, <2>2, <2>3, LeastIndex
<1>4. \A i \in 1 .. k - 1 : i \in 1 .. n
  BY <1>3
<1>5. \A i \in 1 .. n : i \in I <=> s[i] = NUL
  BY <1>2
<1>6. k <= n => k \in 1 .. n
  BY <1>3
<1> HIDE DEF I
<1>7. /\ \A i \in 1 .. k - 1 : s[i] # NUL
      /\ k <= n => s[k] = NUL
  BY <1>3, <1>4, <1>5, <1>6, Zenon
<1> QED BY <1>2, <1>3, <1>7, Zenon DEF k

LEMMA NULWhole ==
  ASSUME NEW S, NEW s \in Seq(S)
  PROVE  UpToNUL(s) \in Seq(S) /\ (NUL \notin S => UpToNUL(s) = s)
<1>1. PICK n \in Nat : n = Len(s)
  BY LenProperties
<1>2. PICK k \in 1 .. n + 1 :
        /\ k = FirstOf(s, IsNUL)
        /\ k <= Len(s) => s[k] = NUL
  BY <1>1, FirstNUL
<1>3. UpToNUL(s) = SubSeq(s, 1, k - 1)
  BY <1>2 DEF UpToNUL
<1>4. k - 1 \in 0 .. Len(s)
  BY <1>1
<1>5. UpToNUL(s) \in Seq(S)
  BY <1>3, <1>4, Prefix
<1>6. ASSUME NUL \notin S PROVE UpToNUL(s) = s
  <2>1. ~(k <= n)
    <3> SUFFICES ASSUME k <= n PROVE FALSE
      OBVIOUS
    <3>1. k \in 1 .. Len(s)
      BY <1>1
    <3>2. s[k] \in S
      BY <3>1, ElementOfSeq
    <3> QED BY <1>1, <1>2, <1>6, <3>2
  <2>2. k - 1 = Len(s)
    BY <1>1, <2>1
  <2>3. /\ SubSeq(s, 1, k - 1) \in Seq(S) /\ Len(SubSeq(s, 1, k - 1)) = k - 1
        /\ \A i \in 1 .. k - 1 : SubSeq(s, 1, k - 1)[i] = s[i]
    BY <1>4, Prefix
  <2> QED BY <1>3, <2>2, <2>3, SeqEqual
<1> QED BY <1>5, <1>6

\* A text of the image.
LEMMA TextTyped ==
  ASSUME NEW name
  PROVE  Text(name) \in Seq(Byte) /\ Len(Text(name)) \in Nat
<1> DEFINE e == read_dentry_by_name(name)
<1>1. CASE e.file_type = "file"
  <2>1. e \in Range(dentries)
    BY <1>1, ByName DEF NoDentry
  <2>2. e.inode_number \in Inode
    BY <2>1, NameFacts
  <2>3. Text(name) = Contents(e.inode_number)
    BY <1>1, <2>2, ContentsAreBlocks DEF Text
  <2>4. Text(name) \in Seq(Byte)
    BY <2>2, <2>3, FileFacts
  <2> QED BY <2>4, LenProperties
<1>2. CASE e.file_type # "file"
  <2>1. Text(name) = <<>>
    BY <1>2 DEF Text
  <2> QED BY <2>1
<1> QED BY <1>1, <1>2

\* The parts of Hits and of Matches are of elements that carry the name.
Tagged(name, U) == \A x \in U : x[1] = name

MatchParts(d, stop, name, pattern) ==
  [i \in 1 .. stop + 1 |-> Match(d, stop, i - 1, name, pattern)]

LEMMA PartsTyped ==
  ASSUME NEW name, NEW pattern, NEW d, NEW stop \in Nat
  PROVE  \E U : /\ Tagged(name, U)
                /\ Hits(name, pattern) \in Seq(Seq(U))
                /\ Len(Hits(name, pattern)) = Len(Text(name)) + 1
                /\ MatchParts(d, stop, name, pattern) \in Seq(Seq(U))
                /\ Len(MatchParts(d, stop, name, pattern)) = stop + 1
<1> DEFINE shown(e) == <<name, LineOf(Text(name), e)>>
            match(i) == <<name, UpToNUL(Piece(d, TailStart(d, i), i))>>
<1>1. PICK N \in Nat : N = Len(Text(name))
  BY TextTyped
<1>2. PICK U : U = {shown(e) : e \in 1 .. N + 1} \cup {match(i - 1) : i \in 1 .. stop + 1}
  OBVIOUS
<1>3. Tagged(name, U)
  <2>1. \A e : shown(e)[1] = name
    OBVIOUS
  <2>2. \A i : match(i)[1] = name
    OBVIOUS
  <2> HIDE DEF shown, match
  <2> QED BY <1>2, <2>1, <2>2, Zenon DEF Tagged
<1>4. \A c \in U : <<c>> \in Seq(U)
  OBVIOUS
<1>5. <<>> \in Seq(U)
  OBVIOUS
<1>6. PICK h : h = Hits(name, pattern)
  OBVIOUS
<1>7. h \in [1 .. N + 1 -> Seq(U)]
  <2> DEFINE holds(e) == e \in LineEnds(Text(name)) /\ Holds(LineOf(Text(name), e), pattern)
  <2>1. h = [e \in 1 .. N + 1 |-> IF holds(e) THEN <<shown(e)>> ELSE <<>>]
    BY <1>1, <1>6 DEF Hits
  <2>2. \A e \in 1 .. N + 1 : shown(e) \in U
    BY <1>2
  <2> HIDE DEF shown, holds
  <2>3. \A e \in 1 .. N + 1 : (IF holds(e) THEN <<shown(e)>> ELSE <<>>) \in Seq(U)
    BY <1>4, <1>5, <2>2, Zenon
  <2> QED BY <2>1, <2>3, Zenon
<1>8. PICK m : m = MatchParts(d, stop, name, pattern)
  OBVIOUS
<1>9. m \in [1 .. stop + 1 -> Seq(U)]
  <2> DEFINE holds(i) == EndsLine(d, stop, i) /\ Holds(Piece(d, TailStart(d, i), i), pattern)
  <2>1. m = [i \in 1 .. stop + 1 |-> IF holds(i - 1) THEN <<match(i - 1)>> ELSE <<>>]
    BY <1>8 DEF MatchParts, Match
  <2>2. \A i \in 1 .. stop + 1 : match(i - 1) \in U
    BY <1>2
  <2> HIDE DEF match, holds
  <2>3. \A i \in 1 .. stop + 1 : (IF holds(i - 1) THEN <<match(i - 1)>> ELSE <<>>) \in Seq(U)
    BY <1>4, <1>5, <2>2, Zenon
  <2> QED BY <2>1, <2>3, Zenon
<1> HIDE DEF shown, match
<1>10. h \in Seq(Seq(U)) /\ Len(h) = N + 1
  BY <1>7
<1>11. m \in Seq(Seq(U)) /\ Len(m) = stop + 1
  BY <1>9
<1> QED BY <1>1, <1>3, <1>6, <1>8, <1>10, <1>11, Zenon

\* All that a scan prints carries the name of the file.
LEMMA MatchesTagged ==
  ASSUME NEW name, NEW pattern, NEW d, NEW n \in Nat, NEW cnt
  PROVE  \E U : /\ Tagged(name, U) /\ Matches(d, n, cnt, name, pattern) \in Seq(U)
<1>1. PICK stop \in 0 .. n : stop = ScanStop(d, n, cnt)
  BY TailFacts DEF ScanStop
<1>2. PICK p : p = MatchParts(d, stop, name, pattern)
  OBVIOUS
<1>3. PICK U : Tagged(name, U) /\ p \in Seq(Seq(U)) /\ Len(p) = stop + 1
  <2>1. stop \in Nat
    OBVIOUS
  <2> QED BY <1>2, <2>1, PartsTyped
<1>4. Joined(p)[stop + 1] \in Seq(U)
  <2>1. Joined(p) \in [0 .. Len(p) -> Seq(U)]
    BY <1>3, JoinedDef
  <2>2. stop + 1 \in 0 .. Len(p)
    BY <1>3
  <2> QED BY <2>1, <2>2
<1>5. Matches(d, n, cnt, name, pattern) = IF n = 0 THEN <<>> ELSE Joined(p)[stop + 1]
  BY <1>1, <1>2 DEF Matches, MatchParts
<1>6. <<>> \in Seq(U)
  OBVIOUS
<1> QED BY <1>3, <1>4, <1>5, <1>6, Zenon

\* Lines end in the text where pieces end in the buffer.
LEMMA EndFacts ==
  ASSUME NEW S, NEW T \in Seq(S), NEW b \in Nat, NEW d, NEW n \in Nat, InBuffer(T, b, d, n)
  PROVE  /\ \A e \in 0 .. n - 1 : d[e] = Newline <=> b + e + 1 \in LineEnds(T)
         /\ n > 0 /\ b + n = Len(T) /\ d[n - 1] # Newline => b + n + 1 \in LineEnds(T)
<1>1. PICK N \in Nat : N = Len(T)
  BY LenProperties
<1>2. b + n <= N /\ \A i \in 0 .. n - 1 : d[i] = T[b + i + 1]
  BY <1>1 DEF InBuffer
<1>3. DOMAIN T = 1 .. N
  BY <1>1, LenProperties
<1>4. ASSUME NEW e \in 0 .. n - 1 PROVE d[e] = Newline <=> b + e + 1 \in LineEnds(T)
  <2>1. b + e + 1 \in 1 .. N
    BY <1>2
  <2>2. PICK i \in 1 .. N : i = b + e + 1
    BY <2>1
  <2>3. d[e] = T[i] /\ i # Len(T) + 1
    BY <1>1, <1>2, <2>2
  <2>4. i \in LineEnds(T) <=> T[i] = Newline
    BY <1>3, <2>3 DEF LineEnds
  <2> QED BY <2>2, <2>3, <2>4
<1>5. ASSUME n > 0, b + n = N, d[n - 1] # Newline PROVE b + n + 1 \in LineEnds(T)
  <2>1. n - 1 \in 0 .. n - 1 /\ b + (n - 1) + 1 = N /\ N # 0
    BY <1>5
  <2>2. d[n - 1] = T[N]
    BY <1>2, <2>1
  <2>3. T # <<>> /\ Last(T) # Newline
    BY <1>1, <1>5, <2>1, <2>2 DEF Last
  <2>4. Len(T) + 1 \in LineEnds(T)
    BY <2>3 DEF LineEnds
  <2> QED BY <1>1, <1>5, <2>4
<1> QED BY <1>1, <1>4, <1>5

\* A piece of a text is printed where its line is to be shown, and as that line.
LEMMA MatchIsHit ==
  ASSUME NEW name, NEW pattern, NEW S, Text(name) \in Seq(S), NUL \notin S,
         NEW b \in Nat, NEW d, NEW n \in Nat, InBuffer(Text(name), b, d, n),
         NEW stop \in 0 .. n, NEW e \in 0 .. stop,
         EndsLine(d, stop, e) <=> b + e + 1 \in LineEnds(Text(name))
  PROVE  Hits(name, pattern)[b + e + 1] = Match(d, stop, e, name, pattern)
<1>1. PICK T \in Seq(S) : T = Text(name)
  OBVIOUS
<1>2. PICK N \in Nat : N = Len(T)
  BY LenProperties
<1>3. PICK end \in 1 .. N + 1 : end = b + e + 1
  BY <1>1, <1>2 DEF InBuffer
<1>4. PICK piece : piece = Piece(d, TailStart(d, e), e)
  OBVIOUS
<1>5. LineOf(T, end) = piece
  <2>1. e \in 0 .. n /\ InBuffer(T, b, d, n)
    BY <1>1
  <2>2. LineOf(T, b + e + 1) = Piece(d, TailStart(d, e), e)
    BY <2>1, PieceIsLine
  <2> QED BY <1>3, <1>4, <2>2
<1>6. UpToNUL(piece) = piece
  <2>1. end \in 1 .. Len(T) + 1
    BY <1>2
  <2>2. PICK m \in 0 .. end - 1 : LineOf(T, end) = SubSeq(T, m + 1, end - 1)
    BY <2>1, LineFacts
  <2>3. \A i \in m + 1 .. end - 1 : T[i] \in S
    <3>1. \A i \in m + 1 .. end - 1 : i \in 1 .. Len(T)
      BY <1>2
    <3> QED BY <3>1, ElementOfSeq
  <2>4. SubSeq(T, m + 1, end - 1) \in Seq(S)
    <3>1. m + 1 \in Int /\ end - 1 \in Int
      OBVIOUS
    <3> QED BY <2>3, <3>1, SubSeqProperties
  <2> QED BY <1>5, <2>2, <2>4, NULWhole
<1>7. Hits(name, pattern)[end] =
        IF end \in LineEnds(T) /\ Holds(LineOf(T, end), pattern)
        THEN <<<<name, LineOf(T, end)>>>> ELSE <<>>
  BY <1>1, <1>2 DEF Hits
<1>8. Match(d, stop, e, name, pattern) =
        IF EndsLine(d, stop, e) /\ Holds(piece, pattern)
        THEN <<<<name, UpToNUL(piece)>>>> ELSE <<>>
  BY <1>4 DEF Match
<1>9. EndsLine(d, stop, e) <=> end \in LineEnds(T)
  BY <1>1, <1>3
<1>10. CASE end \in LineEnds(T) /\ Holds(piece, pattern)
  BY <1>3, <1>5, <1>6, <1>7, <1>8, <1>9, <1>10, Zenon
<1>11. CASE ~(end \in LineEnds(T) /\ Holds(piece, pattern))
  BY <1>3, <1>5, <1>7, <1>8, <1>9, <1>11, Zenon
<1> QED BY <1>10, <1>11

\* The parts of Matches up to K are those of Hits from b on.
EndsAgree(d, stop, T, b, K) ==
  \A e \in 0 .. K - 1 : EndsLine(d, stop, e) <=> b + e + 1 \in LineEnds(T)

LEMMA MatchesShift ==
  ASSUME NEW name, NEW pattern, NEW S, Text(name) \in Seq(S), NUL \notin S,
         NEW b \in Nat, NEW d, NEW n \in Nat, InBuffer(Text(name), b, d, n),
         NEW stop \in 0 .. n, NEW K \in 0 .. stop + 1,
         EndsAgree(d, stop, Text(name), b, K), NEW c \in Nat, c = b + K
  PROVE  Joined(Hits(name, pattern))[c] =
           Then(Joined(Hits(name, pattern))[b], Joined(MatchParts(d, stop, name, pattern))[K])
<1>1. PICK h : h = Hits(name, pattern)
  OBVIOUS
<1>2. PICK p : p = MatchParts(d, stop, name, pattern)
  OBVIOUS
<1>3. PICK N \in Nat : N = Len(Text(name))
  BY LenProperties
<1>4. PICK U : /\ h \in Seq(Seq(U)) /\ Len(h) = N + 1
               /\ p \in Seq(Seq(U)) /\ Len(p) = stop + 1
  <2>1. stop \in Nat
    OBVIOUS
  <2> QED BY <1>1, <1>2, <1>3, <2>1, PartsTyped
<1>5. IsShift(h, p, b, K)
  <2> SUFFICES ASSUME NEW i \in 1 .. K PROVE h[b + i] = p[i]
    BY DEF IsShift
  <2>1. PICK e \in 0 .. stop : e = i - 1 /\ e \in 0 .. K - 1 /\ b + e + 1 = b + i
    OBVIOUS
  <2>2. EndsLine(d, stop, e) <=> b + e + 1 \in LineEnds(Text(name))
    BY <2>1 DEF EndsAgree
  <2>3. h[b + e + 1] = Match(d, stop, e, name, pattern)
    BY <1>1, <2>2, MatchIsHit
  <2>4. p[i] = Match(d, stop, i - 1, name, pattern)
    BY <1>2 DEF MatchParts
  <2> QED BY <2>1, <2>3, <2>4
<1>6. c \in 0 .. Len(h)
  BY <1>3, <1>4 DEF InBuffer
<1>7. Joined(h)[c] = Then(Joined(h)[b], Joined(p)[K])
  <2>1. K \in 0 .. Len(p)
    BY <1>4
  <2>2. PICK z \in 0 .. Len(h) : z = c /\ z = b + K
    BY <1>6
  <2>3. h \in Seq(Seq(U)) /\ p \in Seq(Seq(U))
    BY <1>4
  <2>4. Joined(h)[z] = Then(Joined(h)[b], Joined(p)[K])
    BY <1>5, <2>1, <2>2, <2>3, JoinedShift
  <2> QED BY <2>2, <2>4
<1> QED BY <1>1, <1>2, <1>7

\* Where no line is printed nothing is added.
LEMMA NoMatch ==
  ASSUME NEW name, NEW pattern, NEW d, NEW stop \in Nat, NEW e \in 0 .. stop,
         Match(d, stop, e, name, pattern) = <<>>
  PROVE  Joined(MatchParts(d, stop, name, pattern))[e + 1] =
           Joined(MatchParts(d, stop, name, pattern))[e]
<1>1. PICK p : p = MatchParts(d, stop, name, pattern)
  OBVIOUS
<1>2. PICK U : p \in Seq(Seq(U)) /\ Len(p) = stop + 1
  BY <1>1, PartsTyped
<1>3. PICK j : j = Joined(p)
  OBVIOUS
<1>4. j \in [0 .. Len(p) -> Seq(U)] /\ \A i \in 1 .. Len(p) : j[i] = j[i - 1] \o p[i]
  BY <1>2, <1>3, JoinedDef
<1>5. PICK i \in 1 .. Len(p) : i = e + 1 /\ i - 1 = e
  BY <1>2
<1>6. p[i] = <<>>
  BY <1>1, <1>2, <1>5 DEF MatchParts
<1>7. j[e] \in Seq(U)
  BY <1>2, <1>4
<1>8. j[e] \o <<>> = j[e]
  BY <1>7, ConcatEmptySeq
<1>9. j[i] = j[e] \o <<>>
  BY <1>4, <1>5, <1>6
<1> QED BY <1>1, <1>3, <1>5, <1>8, <1>9

\* What a scan prints: the lines up to where it ends, if a line ends there ...
LEMMA ScanHits ==
  ASSUME NEW name, NEW pattern, NEW S, Text(name) \in Seq(S), NUL \notin S,
         NEW b \in Nat, NEW d, NEW n \in Nat \ {0}, InBuffer(Text(name), b, d, n), NEW cnt,
         NEW stop \in 1 .. n, stop = ScanStop(d, n, cnt), d[stop - 1] = Newline
  PROVE  Joined(Hits(name, pattern))[b + stop] =
           Then(Joined(Hits(name, pattern))[b], Matches(d, n, cnt, name, pattern))
<1>1. PICK T \in Seq(S) : T = Text(name)
  OBVIOUS
<1>2. EndsAgree(d, stop, T, b, stop)
  <2> SUFFICES ASSUME NEW e \in 0 .. stop - 1
               PROVE  EndsLine(d, stop, e) <=> b + e + 1 \in LineEnds(T)
    BY DEF EndsAgree
  <2>1. EndsLine(d, stop, e) <=> d[e] = Newline
    BY DEF EndsLine
  <2>2. e \in 0 .. n - 1 /\ n \in Nat /\ InBuffer(T, b, d, n)
    BY <1>1
  <2> QED BY <2>1, <2>2, EndFacts
<1>3. Match(d, stop, stop, name, pattern) = <<>>
  BY DEF Match, EndsLine
<1>4. PICK p : p = MatchParts(d, stop, name, pattern)
  OBVIOUS
<1>5. /\ Joined(Hits(name, pattern))[b + stop] =
           Then(Joined(Hits(name, pattern))[b], Joined(p)[stop])
      /\ Joined(p)[stop + 1] = Joined(p)[stop]
  <2>1. stop \in 0 .. stop + 1 /\ stop \in 0 .. n /\ n \in Nat /\ stop \in 0 .. stop
    OBVIOUS
  <2>2. PICK c \in Nat : c = b + stop
    OBVIOUS
  <2>3. Joined(Hits(name, pattern))[c] = Then(Joined(Hits(name, pattern))[b], Joined(p)[stop])
    BY <1>1, <1>2, <1>4, <2>1, <2>2, MatchesShift
  <2>4. Joined(p)[stop + 1] = Joined(p)[stop]
    BY <1>3, <1>4, <2>1, NoMatch
  <2> QED BY <2>2, <2>3, <2>4
<1>6. Matches(d, n, cnt, name, pattern) = Joined(p)[stop + 1]
  BY <1>4 DEF Matches, MatchParts
<1> QED BY <1>5, <1>6, Zenon

\* ... and the last line of a text that has no newline at its end.
LEMMA ScanLast ==
  ASSUME NEW name, NEW pattern, NEW S, Text(name) \in Seq(S), NUL \notin S,
         NEW b \in Nat, NEW d, NEW n \in Nat \ {0}, InBuffer(Text(name), b, d, n), NEW cnt,
         n = ScanStop(d, n, cnt), d[n - 1] # Newline, b + n = Len(Text(name))
  PROVE  Joined(Hits(name, pattern))[b + n + 1] =
           Then(Joined(Hits(name, pattern))[b], Matches(d, n, cnt, name, pattern))
<1>1. PICK T \in Seq(S) : T = Text(name)
  OBVIOUS
<1>2. EndsAgree(d, n, T, b, n + 1)
  <2> SUFFICES ASSUME NEW e \in 0 .. n
               PROVE  EndsLine(d, n, e) <=> b + e + 1 \in LineEnds(T)
    BY DEF EndsAgree
  <2>1. n \in Nat /\ InBuffer(T, b, d, n) /\ n > 0 /\ b + n = Len(T)
    BY <1>1
  <2>2. CASE e = n
    <3>1. EndsLine(d, n, e)
      BY <2>2 DEF EndsLine
    <3>2. b + n + 1 \in LineEnds(T)
      BY <2>1, EndFacts
    <3> QED BY <2>2, <3>1, <3>2
  <2>3. CASE e # n
    <3>1. EndsLine(d, n, e) <=> d[e] = Newline
      BY <2>3 DEF EndsLine
    <3>2. e \in 0 .. n - 1
      BY <2>3
    <3> QED BY <2>1, <3>1, <3>2, EndFacts
  <2> QED BY <2>2, <2>3
<1>3. PICK p : p = MatchParts(d, n, name, pattern)
  OBVIOUS
<1>4. PICK K \in 0 .. n + 1 : K = n + 1
  OBVIOUS
<1>5. Joined(Hits(name, pattern))[b + K] = Then(Joined(Hits(name, pattern))[b], Joined(p)[K])
  <2>1. n \in 0 .. n /\ n \in Nat /\ EndsAgree(d, n, T, b, K)
    BY <1>2, <1>4
  <2>2. PICK c \in Nat : c = b + K
    OBVIOUS
  <2>3. Joined(Hits(name, pattern))[c] = Then(Joined(Hits(name, pattern))[b], Joined(p)[K])
    BY <1>1, <1>3, <2>1, <2>2, MatchesShift
  <2> QED BY <2>2, <2>3
<1>6. Matches(d, n, cnt, name, pattern) = Joined(p)[K]
  BY <1>3, <1>4 DEF Matches, MatchParts
<1>7. b + K = b + n + 1
  BY <1>4
<1> QED BY <1>5, <1>6, <1>7

-----------------------------------------------------------------------------
(* The buffer after a scan.                                                  *)

LEMMA BufSize == BUFSIZE \in Nat \ {0} /\ NUL # Newline
BY ProgramsAssumption DEF ProgramsAssumption, NUL, Newline

\* No newline is in the buffer from n on.
NoNewline(d, n) == \A i \in n .. BUFSIZE : d[i] # Newline

\* What a scan leaves in the buffer; start is that of its last piece.
IsScanned(d, n, cnt, start) ==
  /\ start # 0 => d[start - 1] = Newline
  /\ \A i \in start .. n - 1 : d[i] # Newline
  /\ TailKept(d, n, cnt) <=> start # 0 /\ start < n /\ cnt # 0
  /\ ScanStop(d, n, cnt) = IF TailKept(d, n, cnt) THEN start ELSE n
  /\ Scanned(d, n, cnt).last = IF TailKept(d, n, cnt) THEN n - start ELSE 0
  /\ NoNewline(Scanned(d, n, cnt).data, 0)
  /\ TailKept(d, n, cnt) /\ (\A i \in 0 .. n - 1 : d[i] # NUL) =>
       \A i \in 0 .. n - start - 1 : Scanned(d, n, cnt).data[i] = d[start + i]

LEMMA ScannedFacts ==
  ASSUME NEW d, NEW n \in 0 .. BUFSIZE, NEW cnt, NoNewline(d, n)
  PROVE  \E start \in 0 .. n : IsScanned(d, n, cnt, start)
<1>1. /\ BUFSIZE \in Nat /\ n \in Nat /\ NUL # Newline
      /\ \A i \in n .. BUFSIZE : d[i] # Newline
  BY BufSize DEF NoNewline
<1>2. PICK start \in 0 .. n :
        /\ TailStart(d, n) = start
        /\ start # 0 => d[start - 1] = Newline
        /\ \A i \in start .. n - 1 : d[i] # Newline
  BY <1>1, TailFacts
<1>3. PICK kept \in BOOLEAN : kept <=> TailKept(d, n, cnt)
  BY DEF TailKept
<1>4. kept <=> start # 0 /\ start < n /\ cnt # 0
  <2>1. d[n] # Newline
    BY <1>1
  <2> QED BY <1>2, <1>3, <2>1 DEF TailKept
<1> DEFINE end == IF start < n \/ n = 0 THEN n ELSE n - 1
           isNUL(i) == i = end \/ (i < n /\ d[i] = Newline)
<1>5. PICK marked : marked = [i \in 0 .. BUFSIZE |-> IF isNUL(i) THEN NUL ELSE d[i]]
  OBVIOUS
<1>6. \A i \in 0 .. BUFSIZE : marked[i] = IF isNUL(i) THEN NUL ELSE d[i]
  BY <1>5
<1>7. \A i \in 0 .. BUFSIZE : marked[i] # Newline
  <2> TAKE i \in 0 .. BUFSIZE
  <2>1. CASE i < n
    BY <1>1, <1>6, <2>1
  <2>2. CASE ~(i < n)
    <3>1. i \in n .. BUFSIZE
      BY <1>1, <2>2
    <3> QED BY <1>1, <1>6, <3>1
  <2> QED BY <2>1, <2>2
<1>8. PICK C : C = {marked[i] : i \in 0 .. BUFSIZE}
  OBVIOUS
<1>9. PICK x : x = Piece(marked, start, n)
  OBVIOUS
<1>10. /\ Len(x) = n - start
       /\ \A i \in 1 .. n - start : x[i] = marked[start + i - 1]
  <2>1. n - start \in Nat
    OBVIOUS
  <2> QED BY <1>9, <2>1 DEF Piece
<1>11. ASSUME NEW D, \A i \in start .. n - 1 : marked[i] \in D PROVE x \in Seq(D)
  <2>1. n - start \in Nat /\ \A i \in 1 .. n - start : start + i - 1 \in start .. n - 1
    OBVIOUS
  <2>2. x = [i \in 1 .. n - start |-> marked[start + i - 1]]
    BY <1>9 DEF Piece
  <2> QED BY <1>11, <2>1, <2>2
<1>12. UpToNUL(x) \in Seq(C)
  <2>1. \A i \in start .. n - 1 : marked[i] \in C
    BY <1>1, <1>8
  <2> QED BY <1>11, <2>1, NULWhole
<1>13. PICK tail : tail = UpToNUL(x) \o <<NUL>>
  OBVIOUS
<1>14. tail \in Seq(C \cup {NUL})
  <2>1. PICK y \in Seq(C) : y = UpToNUL(x)
    BY <1>12
  <2>2. y \in Seq(C \cup {NUL}) /\ <<NUL>> \in Seq(C \cup {NUL})
    OBVIOUS
  <2> QED BY <1>13, <2>1, <2>2, ConcatProperties
<1>15. PICK s : s = Scanned(d, n, cnt)
  OBVIOUS
<1>16. s = IF kept
           THEN [data |-> [i \in 0 .. BUFSIZE |-> IF i < Len(tail) THEN tail[i + 1] ELSE marked[i]],
                 last |-> n - start]
           ELSE [data |-> marked, last |-> 0]
  BY <1>2, <1>3, <1>5, <1>9, <1>13, <1>15 DEF Scanned
<1>17. s.last = IF kept THEN n - start ELSE 0
  BY <1>16
<1>18. \A i \in 0 .. BUFSIZE :
         s.data[i] = IF kept /\ i < Len(tail) THEN tail[i + 1] ELSE marked[i]
  BY <1>3, <1>16
<1>19. \A i \in 0 .. BUFSIZE : s.data[i] # Newline
  <2> TAKE i \in 0 .. BUFSIZE
  <2>1. CASE kept /\ i < Len(tail)
    <3>1. i + 1 \in 1 .. Len(tail)
      BY <1>14, <2>1, LenProperties
    <3>2. tail[i + 1] \in C \cup {NUL}
      BY <1>14, <3>1, ElementOfSeq
    <3>3. Newline \notin C \cup {NUL}
      BY <1>1, <1>7, <1>8
    <3> QED BY <1>18, <2>1, <3>2, <3>3
  <2>2. CASE ~(kept /\ i < Len(tail))
    BY <1>7, <1>18, <2>2
  <2> QED BY <2>1, <2>2
<1>20. ASSUME kept, \A i \in 0 .. n - 1 : d[i] # NUL, NEW i \in 0 .. n - start - 1
       PROVE  s.data[i] = d[start + i]
  <2>1. \A k \in start .. n - 1 : marked[k] = d[k] /\ d[k] # NUL
    <3> TAKE k \in start .. n - 1
    <3>1. d[k] # Newline /\ k # end /\ k \in 0 .. BUFSIZE /\ k \in 0 .. n - 1
      BY <1>1, <1>2, <1>4, <1>20
    <3> QED BY <1>6, <1>20, <3>1
  <2>2. PICK D : D = {d[k] : k \in start .. n - 1}
    OBVIOUS
  <2>3. x \in Seq(D) /\ NUL \notin D
    BY <1>11, <2>1, <2>2
  <2>4. UpToNUL(x) = x
    BY <2>3, NULWhole
  <2>5. PICK y \in Seq(D) : y = x /\ tail = y \o <<NUL>> /\ Len(y) = n - start
    BY <1>10, <1>13, <2>3, <2>4
  <2>6. Len(tail) = n - start + 1 /\ tail[i + 1] = y[i + 1]
    BY <2>5
  <2>7. i + 1 \in 1 .. n - start /\ start + (i + 1) - 1 = start + i /\ start + i \in start .. n - 1
    OBVIOUS
  <2>8. y[i + 1] = d[start + i]
    BY <1>10, <2>1, <2>5, <2>7
  <2>9. i \in 0 .. BUFSIZE /\ i < Len(tail)
    BY <1>1, <2>6
  <2> QED BY <1>18, <1>20, <2>6, <2>8, <2>9
<1>21. ScanStop(d, n, cnt) = IF kept THEN start ELSE n
  BY <1>2, <1>3 DEF ScanStop
<1> HIDE DEF isNUL, end
<1>22. kept /\ (\A i \in 0 .. n - 1 : d[i] # NUL) =>
         \A i \in 0 .. n - start - 1 : s.data[i] = d[start + i]
  BY <1>20
<1>23. NoNewline(s.data, 0)
  BY <1>19 DEF NoNewline
<1> QED BY <1>2, <1>3, <1>4, <1>15, <1>17, <1>21, <1>22, <1>23, Zenon DEF IsScanned

-----------------------------------------------------------------------------
(* The reads of grep.                                                        *)

\* A read changes the position of its descriptor, and no other.
LEMMA ReadKeeps ==
  ASSUME Typed, NEW fd, NEW n \in Int, SysRead(fd, n), fd \in FD => Good(fd)
  PROVE  /\ fd \in FD /\ opened' = opened /\ UNCHANGED <<line, program, arg_buffer>>
         /\ \A g \in FD : file_descriptor'[g].flags = file_descriptor[g].flags
         /\ FreeFDs(file_descriptor)' = FreeFDs(file_descriptor)
         /\ got' = [got EXCEPT ![fd] = got[fd] \o sys_read(file_descriptor, fd, n).data]
         /\ sys_read(file_descriptor, fd, n).ret # -1
<1>1. PICK r : r = sys_read(file_descriptor, fd, n)
  OBVIOUS
<1>2. r.ret # -1 /\ file_descriptor' = r.table /\ UNCHANGED <<line, program, arg_buffer, opened>>
  BY <1>1 DEF SysRead, Call
<1>3. PICK p \in FileDesc : /\ fd \in FD
                            /\ r.table = [file_descriptor EXCEPT ![fd] = p]
                            /\ StreamOf(p, opened[fd], got[fd] \o r.data)
  BY <1>1, <1>2, ReadFacts
<1>4. file_descriptor[fd].flags # "empty"
  BY <1>1, <1>2 DEF sys_read, IsOpen, Fails
<1>5. p.flags = file_descriptor[fd].flags
  BY <1>3, <1>4 DEF Good, StreamOf
<1>6. \A g \in FD : file_descriptor'[g].flags = file_descriptor[g].flags
  BY <1>2, <1>3, <1>5 DEF Typed
<1>7. FreeFDs(file_descriptor)' = FreeFDs(file_descriptor)
  BY <1>6 DEF FreeFDs, IsOpen
<1>8. got' = [got EXCEPT ![fd] = got[fd] \o r.data]
  BY <1>1, <1>3 DEF SysRead, Typed
<1> QED BY <1>1, <1>2, <1>3, <1>6, <1>7, <1>8

\* The next bytes of a text, cnt of the n that were asked for.
Delivers(r, T, l, cnt, n) ==
  /\ l + cnt <= Len(T)
  /\ r.ret = cnt /\ r.data \in Seq(Byte) /\ Len(r.data) = cnt
  /\ \A i \in 1 .. cnt : r.data[i] = T[l + i]
  /\ cnt < n => l + cnt = Len(T)

LEMMA ReadText ==
  ASSUME Typed, NEW name \in Name, name[1] # ".", NEW fd \in FD, Good(fd),
         file_descriptor[fd].flags # "empty", opened[fd] = read_dentry_by_name(name),
         NEW n \in Nat \ {0}, Len(got[fd]) <= Len(Text(name))
  PROVE  \E l \in Nat, cnt \in 0 .. n :
           /\ l = Len(got[fd])
           /\ Delivers(sys_read(file_descriptor, fd, n), Text(name), l, cnt, n)
           /\ Len(got[fd] \o sys_read(file_descriptor, fd, n).data) = l + cnt
<1> DEFINE t == file_descriptor
           r == sys_read(t, fd, n)
           T == Text(name)
<1>1. PICK e : e = read_dentry_by_name(name)
  OBVIOUS
<1>2. e \in Range(dentries) /\ e.file_name = name /\ e.file_type \in Type
  BY <1>1, NameFound, FoundName, ByName, NameFacts DEF Found
<1>3. e.file_type # "dir"
  BY <1>2, ProgramsAssumption DEF ProgramsAssumption
<1>4. /\ StreamOf(t[fd], e, got[fd]) /\ got[fd] \in Data /\ t[fd].flags = e.file_type
  BY <1>1 DEF Good, StreamOf, Typed
<1>5. PICK l \in Nat : l = Len(got[fd])
  BY <1>4, LenProperties DEF Data
<1>6. PICK z \in Nat : z = Len(T) /\ l <= z
  BY <1>5, TextTyped
<1>7. \A d \in Seq(Byte) : Len(got[fd] \o d) = l + Len(d)
  <2> TAKE d \in Seq(Byte)
  <2>1. PICK s \in Seq(Byte \cup Name) : s = d
    BY SeqMonotonic
  <2>2. PICK q \in Seq(Byte \cup Name) : q = got[fd]
    BY <1>4 DEF Data
  <2>3. Len(q \o s) = Len(q) + Len(s)
    BY ConcatProperties
  <2> QED BY <1>5, <2>1, <2>2, <2>3
<1>8. CASE e.file_type = "file"
  <2>1. PICK k \in Inode : k = e.inode_number
    BY <1>2, NameFacts
  <2>2. t[fd].inode = k /\ t[fd].file_position = l /\ k % INODE_LIMIT = k
    BY <1>4, <1>5, <1>8, <2>1, FileFacts DEF StreamOf
  <2>3. T = Contents(k) /\ z = inodes[k].size
    BY <1>1, <1>6, <1>8, <2>1, ContentsAreBlocks, FileFacts DEF Text
  <2>4. PICK d \in Seq(Byte) :
          /\ d = read_data(k, l, n)
          /\ Len(d) = IF n < z - l THEN n ELSE z - l
          /\ \A i \in 1 .. Len(d) : d[i] = T[l + i]
    <3>1. l <= inodes[k].size /\ n \in Nat
      BY <1>6, <2>3
    <3>2. PICK d : d = read_data(k, l, n)
      OBVIOUS
    <3>3. /\ d \in Seq(Byte) /\ Len(d) = IF n < inodes[k].size - l THEN n ELSE inodes[k].size - l
          /\ \A i \in 1 .. Len(d) : d[i] = Contents(k)[l + i]
      BY <3>1, <3>2, ReadData
    <3> QED BY <2>3, <3>2, <3>3
  <2>5. r.ret = Len(d) /\ r.data = d
    <3>1. r = file_read(t, fd, n)
      BY <1>4, <1>8 DEF sys_read, IsOpen
    <3>2. read_data(t[fd].inode % INODE_LIMIT, t[fd].file_position, n) = d
      BY <2>2, <2>4
    <3> QED BY <3>1, <3>2 DEF file_read
  <2>6. PICK cnt \in 0 .. n : cnt = Len(d)
    BY <1>6, <2>4
  <2>7. l + cnt <= z /\ (cnt < n => l + cnt = z)
    BY <1>6, <2>4, <2>6
  <2>8. /\ r.data \in Seq(Byte) /\ \A i \in 1 .. cnt : r.data[i] = T[l + i]
        /\ Len(got[fd] \o r.data) = l + cnt
    BY <1>7, <2>4, <2>5, <2>6
  <2>9. r.ret = cnt /\ Len(r.data) = cnt /\ l + cnt <= Len(T) /\ (cnt < n => l + cnt = Len(T))
    BY <1>6, <2>5, <2>6, <2>7
  <2> QED BY <1>5, <2>8, <2>9 DEF Delivers
<1>9. CASE e.file_type = "rtc"
  <2>1. r.ret = 0 /\ r.data = <<>>
    BY <1>4, <1>9 DEF sys_read, IsOpen
  <2>2. T = <<>>
    BY <1>1, <1>9 DEF Text
  <2>3. l = 0 /\ z = 0
    BY <1>6, <2>2
  <2>4. 0 \in 0 .. n /\ r.data \in Seq(Byte) /\ Len(r.data) = 0
    BY <2>1
  <2>5. Len(got[fd] \o r.data) = l + 0
    BY <1>7, <2>4
  <2>6. \A i \in 1 .. 0 : r.data[i] = T[l + i]
    OBVIOUS
  <2>7. PICK cnt \in 0 .. n : cnt = 0
    BY <2>4
  <2>8. r.ret = cnt /\ Len(r.data) = cnt /\ l + cnt <= Len(T) /\ (cnt < n => l + cnt = Len(T))
    BY <1>6, <2>1, <2>3, <2>4, <2>7
  <2>9. /\ r.data \in Seq(Byte) /\ \A i \in 1 .. cnt : r.data[i] = T[l + i]
        /\ Len(got[fd] \o r.data) = l + cnt
    BY <2>4, <2>5, <2>6, <2>7
  <2> QED BY <1>5, <2>8, <2>9 DEF Delivers
<1> QED BY <1>2, <1>3, <1>8, <1>9 DEF Type

-----------------------------------------------------------------------------
(* One read of a text and its scan.                                          *)

\* Where no newline is, a line is at least as long.
LEMMA LongLine ==
  ASSUME NEW S, NEW T \in Seq(S), NEW b \in Nat, NEW n \in Nat \ {0}, b + n <= Len(T),
         \A i \in b + 1 .. b + n : T[i] # Newline
  PROVE  \E end \in LineEnds(T) : Len(LineOf(T, end)) >= n
<1>1. PICK z \in Nat : z = Len(T) /\ DOMAIN T = 1 .. z
  BY LenProperties
<1> DEFINE After == {i \in b + n + 1 .. z : T[i] = Newline}
<1>2. \E end \in b + n + 1 .. z + 1 : /\ end \in LineEnds(T)
                                      /\ \A i \in b + 1 .. end - 1 : T[i] # Newline
  <2>1. CASE After = {}
    <3>1. T # <<>> /\ Last(T) = T[z] /\ T[z] # Newline
      BY <1>1, <2>1, EmptySeq DEF Last
    <3>2. z + 1 \in LineEnds(T)
      BY <1>1, <3>1 DEF LineEnds
    <3>3. \A i \in b + 1 .. z : T[i] # Newline
      BY <1>1, <2>1
    <3> QED BY <1>1, <3>2, <3>3
  <2>2. CASE After # {}
    <3>1. After \subseteq Nat
      OBVIOUS
    <3>2. PICK end \in After : \A i \in After : end <= i
      <4> HIDE DEF After
      <4> QED BY <2>2, <3>1, LeastNat
    <3>3. \A i \in b + 1 .. end - 1 : T[i] # Newline
      BY <1>1, <3>2
    <3>4. end \in LineEnds(T)
      BY <1>1, <3>2 DEF LineEnds
    <3> QED BY <1>1, <3>2, <3>3, <3>4
  <2> QED BY <2>1, <2>2
<1>3. PICK end \in b + n + 1 .. z + 1 : /\ end \in LineEnds(T)
                                        /\ \A i \in b + 1 .. end - 1 : T[i] # Newline
  BY <1>2
<1>4. end \in 1 .. Len(T) + 1
  BY <1>1, <1>3
<1>5. PICK m \in 0 .. end - 1 : LineOf(T, end) = SubSeq(T, m + 1, end - 1)
                                /\ (m = 0 \/ T[m] = Newline)
  BY <1>4, LineFacts
<1>6. m <= b
  BY <1>3, <1>5
<1>7. Len(SubSeq(T, m + 1, end - 1)) = (end - 1) - m
  <2>1. \A i \in m + 1 .. end - 1 : T[i] \in S
    BY <1>1, <1>3, <1>5, ElementOfSeq
  <2>2. PICK y \in 0 .. z, x \in 1 .. z + 1 : y = end - 1 /\ x = m + 1 /\ x <= y
    BY <1>3, <1>5, <1>6
  <2>3. \A i \in x .. y : T[i] \in S
    BY <2>1, <2>2
  <2>4. Len(SubSeq(T, x, y)) = (y - x) + 1
    BY <2>2, <2>3, SubSeqProperties
  <2> QED BY <1>5, <2>2, <2>4
<1> QED BY <1>3, <1>5, <1>6, <1>7

\* Behind the newline at the end of a text, or in an empty one, there is no line.
LEMMA NoLineBehind ==
  ASSUME NEW name, NEW pattern, NEW b \in Nat, b = Len(Text(name)),
         b = 0 \/ Text(name)[b] = Newline
  PROVE  Joined(Hits(name, pattern))[b + 1] = Joined(Hits(name, pattern))[b]
<1>1. PICK T \in Seq(Byte) : T = Text(name)
  BY TextTyped
<1>2. PICK p : p = Hits(name, pattern)
  OBVIOUS
<1>3. PICK U : p \in Seq(Seq(U)) /\ Len(p) = b + 1
  BY <1>2, PartsTyped
<1>4. PICK j : j = Joined(p)
  OBVIOUS
<1>5. j \in [0 .. Len(p) -> Seq(U)] /\ \A i \in 1 .. Len(p) : j[i] = j[i - 1] \o p[i]
  BY <1>3, <1>4, JoinedDef
<1>6. PICK i \in 1 .. Len(p) : i = b + 1 /\ i - 1 = b
  BY <1>3
<1>7. i \notin LineEnds(T)
  <2>1. DOMAIN T = 1 .. b
    BY <1>1, LenProperties
  <2>2. T = <<>> \/ Last(T) = Newline
    <3>1. CASE b = 0
      BY <1>1, <3>1, EmptySeq
    <3>2. CASE b # 0
      BY <1>1, <3>2 DEF Last
    <3> QED BY <3>1, <3>2
  <2> QED BY <1>6, <2>1, <2>2 DEF LineEnds
<1>8. p[i] = <<>>
  BY <1>1, <1>2, <1>6, <1>7 DEF Hits
<1>9. j[b] \in Seq(U)
  BY <1>3, <1>5
<1>10. j[b] \o <<>> = j[b]
  BY <1>9, ConcatEmptySeq
<1>11. j[i] = j[b] \o <<>>
  BY <1>5, <1>6, <1>8
<1> QED BY <1>2, <1>4, <1>6, <1>10, <1>11

\* What is left in the buffer of a text, whose lines are searched up to b.
HeldFrom(T, b, data, last) ==
  /\ b = 0 \/ b = Len(T) \/ T[b] = Newline
  /\ \A i \in 0 .. last - 1 : data[i] = T[b + i + 1]

\* The hits up to there, with the last line at the end of the text.
HitsBy(name, pattern, b) ==
  Joined(Hits(name, pattern))[IF b = Len(Text(name)) THEN b + 1 ELSE b]

\* The buffer d holds the bytes that were read behind those that it held.
IsFilled(d, n, data, last, bytes) ==
  /\ \A i \in 0 .. last - 1 : d[i] = data[i]
  /\ \A i \in last .. n - 1 : d[i] = bytes[i - last + 1]

LEMMA FilledFacts ==
  ASSUME NEW data, NEW bytes, NEW last \in Nat, NEW n \in last .. BUFSIZE,
         n = last + Len(bytes), NoNewline(data, 0), NEW d, d = Filled(data, last, bytes)
  PROVE  IsFilled(d, n, data, last, bytes) /\ NoNewline(d, n)
<1>1. BUFSIZE \in Nat /\ \A i \in 0 .. BUFSIZE : data[i] # Newline
  BY BufSize DEF NoNewline
<1>2. \A i \in 0 .. BUFSIZE : d[i] = IF i \in last .. n - 1 THEN bytes[i - last + 1] ELSE data[i]
  <2>1. last + Len(bytes) - 1 = n - 1
    OBVIOUS
  <2> QED BY <1>1, <2>1 DEF Filled
<1>3. \A i \in 0 .. n - 1 : i \in 0 .. BUFSIZE
  BY <1>1
<1>4. IsFilled(d, n, data, last, bytes)
  BY <1>2, <1>3 DEF IsFilled
<1>5. NoNewline(d, n)
  BY <1>1, <1>2 DEF NoNewline
<1> QED BY <1>4, <1>5

\* The bytes of a text that are read behind those that are held.
Continues(name, data, last, b, bytes) ==
  /\ IsText(name)
  /\ last < BUFSIZE /\ NoNewline(data, 0)
  /\ HeldFrom(Text(name), b, data, last)
  /\ last + Len(bytes) <= BUFSIZE /\ b + (last + Len(bytes)) <= Len(Text(name))
  /\ \A i \in 1 .. Len(bytes) : bytes[i] = Text(name)[b + last + i]
  /\ last + Len(bytes) < BUFSIZE => b + (last + Len(bytes)) = Len(Text(name))

\* What is searched and held behind a scan of the n bytes of d.
GoesOn(name, pattern, b, d, n, cnt) ==
  \E c \in 0 .. Len(Text(name)) :
    /\ c + Scanned(d, n, cnt).last = b + n
    /\ HeldFrom(Text(name), c, Scanned(d, n, cnt).data, Scanned(d, n, cnt).last)
    /\ HitsBy(name, pattern, c) =
         Then(HitsBy(name, pattern, b), Matches(d, n, cnt, name, pattern))

\* What grep has searched and what it holds go on, with the lines it prints.
LEMMA ScanGoesOn ==
  ASSUME NEW name, NEW pattern, NEW data, NEW last \in Nat, NEW b \in Nat, NEW bytes,
         Continues(name, data, last, b, bytes),
         NEW cnt \in Nat, cnt = Len(bytes), NEW n \in Nat, n = last + cnt,
         NEW d, d = Filled(data, last, bytes)
  PROVE  GoesOn(name, pattern, b, d, n, cnt)
<1>1. PICK S, T : T = Text(name) /\ T \in Seq(S) /\ NUL \notin S
  <2>1. Text(name) \in Seq(Byte)
    BY TextTyped
  <2>2. PICK S : S = Range(Text(name))
    OBVIOUS
  <2>3. Text(name) \in Seq(S)
    BY <2>1, <2>2, SeqOfRange
  <2> QED BY <2>2, <2>3 DEF IsText, Continues
<1>2. PICK z \in Nat : z = Len(T) /\ \A i \in 1 .. z : T[i] # NUL
  BY <1>1, LenProperties, ElementOfSeq
<1>3. /\ BUFSIZE \in Nat /\ n \in 0 .. BUFSIZE /\ b + n <= z
      /\ n < BUFSIZE => b + n = z
      /\ cnt = 0 => b + n = z
  BY <1>1, <1>2, BufSize DEF Continues
<1>4. /\ \A i \in 0 .. n - 1 : d[i] = T[b + i + 1]
      /\ NoNewline(d, n)
  <2>1. /\ \A i \in 0 .. last - 1 : d[i] = data[i]
        /\ \A i \in last .. n - 1 : d[i] = bytes[i - last + 1]
        /\ NoNewline(d, n)
    <3>1. n \in last .. BUFSIZE /\ n = last + Len(bytes) /\ last \in Nat
      BY <1>3
    <3>3. NoNewline(data, 0)
      BY DEF Continues
    <3>2. IsFilled(d, n, data, last, bytes) /\ NoNewline(d, n)
      BY <3>1, <3>3, FilledFacts
    <3> QED BY <3>2 DEF IsFilled
  <2>2. \A i \in 0 .. last - 1 : data[i] = T[b + i + 1]
    BY <1>1 DEF HeldFrom, Continues
  <2>3. \A i \in last .. n - 1 : bytes[i - last + 1] = T[b + i + 1]
    <3> TAKE i \in last .. n - 1
    <3>1. PICK x \in 1 .. cnt : x = i - last + 1 /\ b + last + x = b + i + 1
      OBVIOUS
    <3>2. bytes[x] = T[b + last + x]
      BY <1>1, <3>1 DEF Continues
    <3> QED BY <3>1, <3>2
  <2>4. \A i \in 0 .. n - 1 : i \in 0 .. last - 1 \/ i \in last .. n - 1
    OBVIOUS
  <2> QED BY <2>1, <2>2, <2>3, <2>4
<1>5. PICK start \in 0 .. n :
        /\ start # 0 => d[start - 1] = Newline
        /\ \A i \in start .. n - 1 : d[i] # Newline
        /\ TailKept(d, n, cnt) <=> start # 0 /\ start < n /\ cnt # 0
        /\ ScanStop(d, n, cnt) = IF TailKept(d, n, cnt) THEN start ELSE n
        /\ Scanned(d, n, cnt).last = IF TailKept(d, n, cnt) THEN n - start ELSE 0
        /\ TailKept(d, n, cnt) /\ (\A i \in 0 .. n - 1 : d[i] # NUL) =>
             \A i \in 0 .. n - start - 1 : Scanned(d, n, cnt).data[i] = d[start + i]
  <2>1. \E start \in 0 .. n : IsScanned(d, n, cnt, start)
    BY <1>3, <1>4, ScannedFacts
  <2> QED BY <2>1, Zenon DEF IsScanned
<1>6. PICK s : s = Scanned(d, n, cnt)
  OBVIOUS
<1>7. PICK m : m = Matches(d, n, cnt, name, pattern)
  OBVIOUS
<1> DEFINE H(c) == HitsBy(name, pattern, c)
           J == Joined(Hits(name, pattern))
<1>8. ASSUME NEW c \in 0 .. z, c + s.last = b + n, HeldFrom(T, c, s.data, s.last),
             H(c) = Then(H(b), m)
      PROVE  GoesOn(name, pattern, b, d, n, cnt)
  BY <1>1, <1>2, <1>6, <1>7, <1>8, Zenon DEF GoesOn
<1>9. CASE n = 0
  <2>1. b = z /\ cnt = 0 /\ last = 0 /\ s.last = 0
    BY <1>2, <1>3, <1>5, <1>6, <1>9
  <2>2. m = <<>>
    BY <1>7, <1>9 DEF Matches
  <2>3. PICK U : J \in [0 .. z + 1 -> Seq(U)]
    <3>1. PICK U : Hits(name, pattern) \in Seq(Seq(U)) /\ Len(Hits(name, pattern)) = z + 1
      BY <1>1, <1>2, PartsTyped
    <3> QED BY <3>1, JoinedDef
  <2>4. H(b) = J[z + 1]
    BY <1>1, <1>2, <2>1 DEF HitsBy
  <2>5. J[z + 1] \in Seq(U)
    BY <2>3
  <2>6. H(b) = Then(H(b), m)
    BY <2>2, <2>4, <2>5, ConcatEmptySeq DEF Then
  <2>7. HeldFrom(T, b, s.data, s.last)
    BY <1>2, <2>1 DEF HeldFrom
  <2> QED BY <1>3, <1>8, <2>1, <2>6, <2>7
<1>10. CASE n # 0
  <2>1. b < z /\ n \in Nat \ {0} /\ InBuffer(T, b, d, n)
    <3>1. b < z
      BY <1>2, <1>3, <1>10
    <3>2. b = 0 \/ T[b] = Newline
      BY <1>1, <1>2, <3>1 DEF HeldFrom, Continues
    <3> QED BY <1>2, <1>3, <1>4, <1>10, <3>1, <3>2 DEF InBuffer
  <2>2. H(b) = J[b]
    BY <1>1, <1>2, <2>1 DEF HitsBy
  <2>3. CASE TailKept(d, n, cnt)
    <3>1. start \in 1 .. n - 1 /\ s.last = n - start /\ start = ScanStop(d, n, cnt)
      BY <1>5, <1>6, <2>3
    <3>2. d[start - 1] = Newline /\ start \in 1 .. n
      BY <1>5, <3>1
    <3>3. J[b + start] = Then(J[b], m)
      BY <1>1, <1>7, <2>1, <3>1, <3>2, ScanHits
    <3>4. PICK c \in 0 .. z : c = b + start /\ c # z /\ c + s.last = b + n
      <4>1. PICK u \in 1 .. n - 1 : u = start /\ s.last = n - u
        BY <3>1
      <4>2. b + u \in 0 .. z /\ b + u # z /\ b + u + (n - u) = b + n
        BY <1>3
      <4> QED BY <4>1, <4>2
    <3>5. T[c] = Newline
      <4>1. PICK x \in 0 .. n - 1 : x = start - 1 /\ b + x + 1 = c
        BY <3>2, <3>4
      <4> QED BY <1>4, <3>2, <4>1
    <3>6. \A i \in 0 .. n - 1 : d[i] # NUL
      BY <1>2, <1>3, <1>4
    <3>7. \A i \in 0 .. s.last - 1 : s.data[i] = T[c + i + 1]
      <4>1. \A i \in 0 .. n - start - 1 : s.data[i] = d[start + i]
        BY <1>5, <1>6, <2>3, <3>6
      <4>2. \A i \in 0 .. n - start - 1 : d[start + i] = T[c + i + 1]
        <5> TAKE i \in 0 .. n - start - 1
        <5>1. PICK x \in 0 .. n - 1 : x = start + i
          OBVIOUS
        <5>2. b + x + 1 = c + i + 1
          BY <3>4, <5>1
        <5> QED BY <1>4, <5>1, <5>2
      <4> QED BY <3>1, <4>1, <4>2
    <3>8. HeldFrom(T, c, s.data, s.last)
      BY <3>5, <3>7 DEF HeldFrom
    <3>9. H(c) = Then(H(b), m)
      BY <1>1, <1>2, <2>2, <3>3, <3>4 DEF HitsBy
    <3> QED BY <1>8, <3>4, <3>8, <3>9
  <2>4. CASE ~TailKept(d, n, cnt)
    <3>1. s.last = 0 /\ n = ScanStop(d, n, cnt) /\ n \in 1 .. n
      BY <1>5, <1>6, <2>1, <2>4
    <3>2. PICK c \in 0 .. z : c = b + n /\ c + s.last = b + n
      BY <1>3, <3>1
    <3>3. T[c] = d[n - 1]
      BY <1>4, <2>1, <3>2
    <3>4. CASE d[n - 1] = Newline
      <4>1. J[b + n] = Then(J[b], m)
        BY <1>1, <1>7, <2>1, <3>1, <3>4, ScanHits
      <4>2. c = z => J[c + 1] = J[c]
        <5> SUFFICES ASSUME c = z PROVE J[c + 1] = J[c]
          OBVIOUS
        <5>1. c \in Nat /\ c = Len(Text(name)) /\ Text(name)[c] = Newline
          BY <1>1, <1>2, <3>3, <3>4
        <5> QED BY <5>1, NoLineBehind
      <4>3. H(c) = Then(H(b), m)
        BY <1>1, <1>2, <2>2, <3>2, <4>1, <4>2 DEF HitsBy
      <4>4. HeldFrom(T, c, s.data, s.last)
        BY <3>1, <3>3, <3>4 DEF HeldFrom
      <4> QED BY <1>8, <3>2, <4>3, <4>4
    <3>5. CASE d[n - 1] # Newline
      <4>1. start = 0 \/ cnt = 0
        BY <1>5, <2>1, <2>4, <3>5
      <4>2. b + n = z
        <5>1. CASE n < BUFSIZE \/ cnt = 0
          BY <1>3, <5>1
        <5>2. CASE ~(n < BUFSIZE \/ cnt = 0)
          <6>1. n = BUFSIZE /\ cnt # 0 /\ start = 0
            BY <1>3, <4>1, <5>2
          <6>2. \A i \in b + 1 .. b + n : T[i] # Newline
            <7> TAKE i \in b + 1 .. b + n
            <7>1. PICK x \in 0 .. n - 1 : i = b + x + 1
              <8>1. i - b - 1 \in 0 .. n - 1 /\ i = b + (i - b - 1) + 1
                BY <2>1
              <8> QED BY <8>1
            <7>2. d[x] # Newline
              BY <1>5, <6>1
            <7> QED BY <1>4, <7>1, <7>2
          <6>3. PICK end \in LineEnds(T) : Len(LineOf(T, end)) >= n
            BY <1>1, <1>2, <1>3, <2>1, <6>2, LongLine
          <6>4. Len(LineOf(T, end)) < n
            BY <1>1, <6>1, <6>3 DEF IsText, Continues
          <6>5. Len(LineOf(T, end)) \in Nat
            <7>1. end \in 1 .. Len(T) + 1
              BY <1>2, LenProperties, <6>3 DEF LineEnds
            <7>2. PICK q \in 0 .. end - 1 : LineOf(T, end) = SubSeq(T, q + 1, end - 1)
              BY <1>1, <7>1, LineFacts
            <7>3. \A i \in q + 1 .. end - 1 : T[i] \in S
              BY <1>1, <7>1, <7>2, ElementOfSeq
            <7>4. SubSeq(T, q + 1, end - 1) \in Seq(S)
              BY <1>2, <7>1, <7>2, <7>3, SubSeqProperties
            <7> QED BY <7>2, <7>4, LenProperties
          <6> QED BY <2>1, <6>3, <6>4, <6>5
        <5> QED BY <5>1, <5>2
      <4>3. J[b + n + 1] = Then(J[b], m)
        BY <1>1, <1>2, <1>7, <2>1, <3>1, <3>5, <4>2, ScanLast
      <4>4. H(c) = Then(H(b), m)
        BY <1>1, <1>2, <2>2, <3>2, <4>2, <4>3 DEF HitsBy
      <4>5. HeldFrom(T, c, s.data, s.last)
        BY <1>2, <3>1, <3>2, <4>2 DEF HeldFrom
      <4> QED BY <1>8, <3>2, <4>4, <4>5
    <3> QED BY <3>4, <3>5
  <2> QED BY <2>3, <2>4
<1> QED BY <1>9, <1>10
-----------------------------------------------------------------------------
(* grep: the directory and the file it reads, and what it has shown.         *)

\* The directory is open on client.fd.
OnDirectory ==
  /\ client.fd \in FD /\ file_descriptor[client.fd].flags # "empty"
  /\ opened[client.fd] = read_dentry_by_name(Dir)

\* What grep promises to search, and what it is to show of it.
Wanted(name) == IsText(name) /\ name[1] # "."
AllHits(name) == HitsBy(name, arg_buffer, Len(Text(name)))

\* Of the first k names everything is shown, of those behind them nothing; `but' is left out.
Searched(k, but) ==
  \A i \in 1 .. Len(dentries) :
    LET name == dentries[i].file_name
    IN  Wanted(name) /\ i # but =>
          ShownOf(output, name) = IF i <= k THEN AllHits(name) ELSE <<>>

\* The lines up to b are searched and shown, and the rest of what was read is held.
Searching(name) ==
  \E b \in 0 .. Len(Text(name)) :
    /\ b + client.last = Len(got[client.fd1])
    /\ HeldFrom(Text(name), b, client.data, client.last)
    /\ ShownOf(output, name) = HitsBy(name, arg_buffer, b)

\* The memory of the client; no newline is in its buffer between two calls.
GrepTyped ==
  /\ {"pc", "fd", "fd1", "data", "name", "last"} \subseteq DOMAIN client
  /\ client.pc \in {"main", "entry", "file", "search", "close", "done"}
  /\ client.last \in 0 .. BUFSIZE - 1
  /\ NoNewline(client.data, 0)
  /\ output \in Seq(Range(output))

\* The client is at the k-th name.
OnName(k) ==
  /\ k \in 1 .. Len(dentries)
  /\ client.name = dentries[k].file_name /\ client.name[1] # "."

\* The file of that name is open on client.fd1.
OnText ==
  /\ client.fd1 \in FD \ {client.fd}
  /\ file_descriptor[client.fd1].flags # "empty"
  /\ opened[client.fd1] = read_dentry_by_name(client.name)
  /\ FreeFDs(file_descriptor) = FD \ {client.fd, client.fd1}

\* The loop over the names, k of which are read.
InLoop(k) ==
  /\ client.pc \in {"entry", "file"} =>
       client.last = 0 /\ FreeFDs(file_descriptor) = FD \ {client.fd}
  /\ client.pc = "entry" => Searched(k, 0)
  /\ client.pc = "file" => OnName(k) /\ Searched(k - 1, 0)
  /\ client.pc = "search" =>
       /\ OnName(k) /\ OnText /\ Searched(k, k)
       /\ Len(got[client.fd1]) <= Len(Text(client.name))
       /\ Wanted(client.name) => Searching(client.name)
  /\ client.pc = "close" => OnText /\ Searched(k, 0)

\* What is true of grep at each of its calls.
Greps ==
  program = Grep =>
    /\ GrepTyped
    /\ client.pc = "main" => output = <<>> /\ client.last = 0 /\ FreeFDs(file_descriptor) = FD
    /\ client.pc \in {"entry", "file", "search", "close"} =>
         OnDirectory /\ HasArgs(arg_buffer, BUFSIZE) /\ InLoop(Len(got[client.fd]))
    /\ client.pc = "done" => GrepShows(arg_buffer)

LEMMA NameSize == FILENAME_LEN \in Nat \ {0}
<1>1. PICK i \in DOMAIN dentries : TRUE
  BY OpenDir, NameFacts
<1>2. Len(dentries[i].file_name) \in 1 .. FILENAME_LEN /\ FILENAME_LEN \in Nat
  BY ImageAssumption
<1> QED BY <1>2

\* The names are those of the entries, each of one only.
LEMMA NamesOnce ==
  /\ \A i \in 1 .. Len(dentries) : dentries[i].file_name \in Name
  /\ \A i, k \in 1 .. Len(dentries) : dentries[i].file_name = dentries[k].file_name => i = k
  /\ \A name \in Name : \E i \in 1 .. Len(dentries) : dentries[i].file_name = name
BY NameFacts, ImageAssumption DEF Name

\* The next name that the directory delivers.
LEMMA NextName ==
  ASSUME Typed, NEW fd \in FD, Good(fd), file_descriptor[fd].flags # "empty",
         opened[fd].file_type = "dir",
         sys_read(file_descriptor, fd, FILENAME_LEN).ret # 0
  PROVE  \E k \in 1 .. Len(dentries) :
           /\ k - 1 = Len(got[fd])
           /\ sys_read(file_descriptor, fd, FILENAME_LEN).data = <<dentries[k].file_name>>
           /\ Len(got[fd] \o <<dentries[k].file_name>>) = k
<1> DEFINE t == file_descriptor
           r == sys_read(t, fd, FILENAME_LEN)
<1>1. StreamOf(t[fd], opened[fd], got[fd]) /\ got[fd] \in Data /\ t[fd].flags = "dir"
  BY DEF Good, StreamOf, Typed
<1>2. PICK l \in Nat : l = Len(got[fd]) /\ t[fd].file_position = l
  BY <1>1, LenProperties DEF Data, StreamOf
<1>3. r = dir_read(t, fd, FILENAME_LEN)
  BY <1>1, NameSize DEF sys_read, IsOpen
<1>4. PICK next : next = read_dentry_by_index(l)
  OBVIOUS
<1>5. Found(next) /\ r.data = <<next.file_name>>
  <2>1. r.ret = IF Found(next) THEN FILENAME_LEN ELSE 0
    BY <1>2, <1>3, <1>4 DEF dir_read
  <2>2. r.data = IF r.ret = 0 THEN <<>> ELSE <<next.file_name>>
    BY <1>2, <1>3, <1>4 DEF dir_read
  <2> QED BY <2>1, <2>2
<1>6. PICK m \in Nat : m = Len(dentries)
  BY NameFacts
<1>7. l < m /\ next = dentries[l + 1] /\ dentries[l + 1].file_name \in Name
  BY <1>4, <1>5, <1>6, ByIndex
<1>8. PICK k \in 1 .. m : k = l + 1 /\ k - 1 = l
  BY <1>6, <1>7
<1>9. Len(got[fd] \o <<dentries[k].file_name>>) = k
  <2>1. PICK x \in Name : x = dentries[k].file_name
    BY <1>7, <1>8
  <2>2. PICK q \in Data : q = got[fd] /\ Len(q) = l
    BY <1>1, <1>2
  <2>3. <<x>> \in Seq(Byte \cup Name) /\ Len(<<x>>) = 1
    OBVIOUS
  <2>4. Len(q \o <<x>>) = Len(q) + 1
    BY <2>2, <2>3, ConcatProperties DEF Data
  <2> QED BY <1>8, <2>1, <2>2, <2>4
<1> QED BY <1>2, <1>5, <1>6, <1>7, <1>8, <1>9

\* The lines m of one file are added to what is shown.
Grows(out2, out, name, m) ==
  /\ out2 \in Seq(Range(out2))
  /\ ShownOf(out2, name) = Then(ShownOf(out, name), m)
  /\ \A other : other # name => ShownOf(out2, other) = ShownOf(out, other)

LEMMA ShownGrows ==
  ASSUME NEW out, out \in Seq(Range(out)), NEW name, NEW m, NEW U, Tagged(name, U), m \in Seq(U),
         NEW out2, out2 = out \o m
  PROVE  Grows(out2, out, name, m)
<1>1. PICK S : S = Range(out) \cup U
  OBVIOUS
<1>2. out \in Seq(S) /\ m \in Seq(S)
  BY <1>1, SeqMonotonic
<1>3. \A i \in 1 .. Len(m) : m[i][1] = name
  BY ElementOfSeq DEF Tagged
<1>4. out2 \in Seq(S)
  BY <1>2, ConcatProperties
<1>5. out2 \in Seq(Range(out2))
  BY <1>4, SeqOfRange
<1>6. ShownOf(out2, name) = ShownOf(out, name) \o m
  BY <1>2, <1>3, ShownMore
<1>7. ASSUME NEW other, other # name PROVE ShownOf(out2, other) = ShownOf(out, other)
  <2>1. \A i \in 1 .. Len(m) : m[i][1] # other
    BY <1>3, <1>7
  <2> QED BY <1>2, <2>1, ShownMore
<1> QED BY <1>5, <1>6, <1>7 DEF Grows, Then
-----------------------------------------------------------------------------
(* grep: the steps.                                                          *)

\* What was shown stays so while the output, the arguments and the program do.
LEMMA SearchedKept ==
  ASSUME UNCHANGED <<output, arg_buffer>>
  PROVE  /\ \A k, but : Searched(k, but)' = Searched(k, but)
         /\ GrepShows(arg_buffer)' = GrepShows(arg_buffer)
<1>1. \A name : AllHits(name)' = AllHits(name) /\ Wanted(name)' = Wanted(name)
  BY DEF AllHits, Wanted
<1>2. \A k, but : Searched(k, but)' = Searched(k, but)
  BY <1>1, Zenon DEF Searched
<1>3. GrepShows(arg_buffer)' = GrepShows(arg_buffer)
  BY DEF GrepShows
<1> QED BY <1>2, <1>3

LEMMA GrepStays ==
  ASSUME Greps, UNCHANGED pvars
  PROVE  Greps'
<1>1. UNCHANGED <<program, arg_buffer, client, output, file_descriptor, opened, got>>
  BY DEF pvars, vars
<1>2. GrepTyped' = GrepTyped
  BY <1>1, Zenon DEF GrepTyped
<1>3. FreeFDs(file_descriptor)' = FreeFDs(file_descriptor)
  BY <1>1 DEF FreeFDs, IsOpen
<1>4. OnDirectory' = OnDirectory /\ OnText' = OnText
  BY <1>1, <1>3, Zenon DEF OnDirectory, OnText
<1>5. \A k : OnName(k)' = OnName(k)
  BY <1>1, Zenon DEF OnName
<1>6. \A name : Searching(name)' = Searching(name)
  BY <1>1, Zenon DEF Searching
<1>7. \A k, but : Searched(k, but)' = Searched(k, but)
  BY <1>1, SearchedKept, Zenon
<1>8. \A k : InLoop(k)' = InLoop(k)
  BY <1>1, <1>3, <1>4, <1>5, <1>6, <1>7, Zenon DEF InLoop, Wanted
<1>9. GrepShows(arg_buffer)' = GrepShows(arg_buffer)
  BY <1>1, SearchedKept
<1>10. HasArgs(arg_buffer, BUFSIZE)' = HasArgs(arg_buffer, BUFSIZE)
  BY <1>1
<1> QED BY <1>1, <1>2, <1>3, <1>4, <1>8, <1>9, <1>10, Zenon DEF Greps

LEMMA GrepStarts ==
  ASSUME IInv, Start, Newline \notin Garbage
  PROVE  Greps'
<1>1. ClientTyped'
  BY NewClientTyped DEF Start
<1>2. \A fd \in FD : ~IsOpen(file_descriptor, fd)'
  BY <1>1, ExecuteInv DEF Start
<1>3. FreeFDs(file_descriptor)' = FD
  BY <1>2 DEF FreeFDs
<1>4. PICK g \in Garbage : client' = Client(g)
  BY DEF Start
<1>5. /\ {"pc", "fd", "fd1", "data", "name", "last"} \subseteq DOMAIN client'
      /\ client'.pc = "main" /\ client'.last = 0
      /\ client'.data = [i \in 0 .. BUFSIZE |-> g]
  BY <1>4 DEF Client
<1>6. NoNewline(client'.data, 0)
  BY <1>4, <1>5 DEF NoNewline
<1>7. output' = <<>> /\ output' \in Seq(Range(output'))
  BY EmptySeq DEF Start
<1>8. 0 \in 0 .. BUFSIZE - 1
  BY BufSize
<1>9. GrepTyped'
  BY <1>5, <1>6, <1>7, <1>8 DEF GrepTyped
<1> QED BY <1>3, <1>5, <1>7, <1>9 DEF Greps

\* sys_getargs hands out what there is, if it fits with a NUL.
LEMMA GivenArgs ==
  ASSUME Runs, Parsed
  PROVE  HasArgs(arg_buffer, BUFSIZE) <=> ~(arg_buffer = <<>> \/ Len(arg_buffer) >= BUFSIZE)
<1>1. Len(arg_buffer) \in Nat
  BY ArgsTyped DEF Parsed
<1> QED BY <1>1, BufSize DEF HasArgs

\* A step of the client's memory, which puts x into the field and prints nothing.
Notes(pc, field, x) ==
  /\ GrepTyped' /\ output' = output /\ client'.pc = pc
  /\ client'.last = client.last /\ client'.data = client.data
  /\ client'.fd = IF field = "fd" THEN x ELSE client.fd
  /\ client'.fd1 = IF field = "fd1" THEN x ELSE client.fd1
  /\ client'.name = IF field = "name" THEN x ELSE client.name

LEMMA GrepMoves ==
  ASSUME GrepTyped, NEW pc \in {"main", "entry", "file", "search", "close", "done"},
         NEW field \in {"fd", "fd1", "name"}, NEW x,
         client' = [client EXCEPT ![field] = x, !.pc = pc], output' = output \o <<>>
  PROVE  Notes(pc, field, x)
<1>1. output' = output
  BY ConcatEmptySeq DEF GrepTyped
<1>2. /\ client'.pc = pc /\ client'.last = client.last /\ client'.data = client.data
      /\ client'.fd = IF field = "fd" THEN x ELSE client.fd
      /\ client'.fd1 = IF field = "fd1" THEN x ELSE client.fd1
      /\ client'.name = IF field = "name" THEN x ELSE client.name
      /\ {"pc", "fd", "fd1", "data", "name", "last"} \subseteq DOMAIN client'
  BY DEF GrepTyped
<1> QED BY <1>1, <1>2 DEF GrepTyped, Notes

LEMMA GrepMains ==
  ASSUME FInv, Greps, GrepMain
  PROVE  Greps'
<1>1. /\ Typed /\ Parsed /\ program = Grep /\ Runs /\ client.pc = "main" /\ GrepTyped
      /\ output = <<>> /\ client.last = 0 /\ FreeFDs(file_descriptor) = FD
  BY ProgramsAssumption, NameFacts DEF FInv, IInv, GrepMain, At, Greps, Runs
<1>2. program' = program /\ arg_buffer' = arg_buffer
  BY LineStays DEF ClientStep
<1>3. CASE HasArgs(arg_buffer, BUFSIZE)
  <2>1. Opens(Dir, "fd", "entry", <<"directory open failed">>)
    BY <1>3 DEF GrepMain
  <2>2. PICK e : e = read_dentry_by_name(Dir) /\ Found(e)
    BY OpenDir
  <2>3. PICK fd \in FreeFDs(file_descriptor) : OpenedAs("fd", "entry", e, fd)
    <3>1. FreeFDs(file_descriptor) # {}
      BY <1>1, ThreeFDs
    <3> QED BY <1>1, <2>1, <2>2, <3>1, OpensOne, Zenon
  <2>4. /\ client' = [client EXCEPT !["fd"] = fd, !.pc = "entry"] /\ output' = output \o <<>>
        /\ file_descriptor' = [file_descriptor EXCEPT ![fd] = Entry(e)]
        /\ opened' = [opened EXCEPT ![fd] = e] /\ got' = [got EXCEPT ![fd] = <<>>]
        /\ FreeFDs(file_descriptor)' = FreeFDs(file_descriptor) \ {fd}
        /\ Entry(e).flags = e.file_type
    BY <2>3 DEF OpenedAs
  <2>5. fd \in FD
    BY <1>1, <2>3
  <2>6. /\ GrepTyped' /\ output' = <<>> /\ client'.pc = "entry" /\ client'.last = 0
        /\ client'.fd = fd
    <3>1. Notes("entry", "fd", fd)
      BY <1>1, <2>4, GrepMoves
    <3> QED BY <1>1, <3>1 DEF Notes
  <2>7. /\ file_descriptor'[fd].flags # "empty" /\ opened'[fd] = e /\ got'[fd] = <<>>
    <3>1. e.file_type = "dir"
      BY <2>2, ProgramsAssumption DEF ProgramsAssumption
    <3> QED BY <1>1, <2>4, <2>5, <3>1 DEF Typed
  <2>8. OnDirectory' /\ FreeFDs(file_descriptor)' = FD \ {client'.fd}
    BY <1>1, <2>2, <2>4, <2>5, <2>6, <2>7 DEF OnDirectory
  <2>9. Len(got'[client'.fd]) = 0
    BY <2>6, <2>7, EmptySeq
  <2>10. Searched(0, 0)'
    <3>1. \A name : ShownOf(output', name) = <<>>
      BY <2>6, ShownNone
    <3>2. \A i \in 1 .. Len(dentries) : ~(i <= 0)
      OBVIOUS
    <3> QED BY <3>1, <3>2 DEF Searched
  <2>11. InLoop(0)'
    BY <2>6, <2>8, <2>10 DEF InLoop
  <2>12. HasArgs(arg_buffer, BUFSIZE)'
    BY <1>2, <1>3
  <2> QED BY <2>6, <2>8, <2>9, <2>11, <2>12 DEF Greps
<1>4. CASE ~HasArgs(arg_buffer, BUFSIZE)
  <2>1. /\ client' = [client EXCEPT !.pc = "done"]
        /\ output' = output \o <<"could not read arguments">>
    BY <1>4 DEF GrepMain, Done, Moves
  <2>2. output' = <<"could not read arguments">>
    BY <1>1, <2>1, NoneBefore
  <2>3. output' \in Seq(Range(output'))
    <3>1. <<"could not read arguments">> \in Seq({"could not read arguments"})
      OBVIOUS
    <3> QED BY <2>2, <3>1, SeqOfRange
  <2>4. GrepTyped' /\ client'.pc = "done"
    BY <1>1, <2>1, <2>3 DEF GrepTyped
  <2>5. arg_buffer = <<>> \/ Len(arg_buffer) >= BUFSIZE
    BY <1>1, <1>4, GivenArgs
  <2>6. GrepShows(arg_buffer)'
    BY <1>2, <2>2, <2>5 DEF GrepShows
  <2> QED BY <2>4, <2>6 DEF Greps
<1> QED BY <1>3, <1>4

\* A name is read, and skipped or gone into; or there is none, and all is shown.
LEMMA GrepEntries ==
  ASSUME FInv, Greps, GrepEntry
  PROVE  Greps'
<1> DEFINE fd == client.fd
           r == sys_read(file_descriptor, fd, FILENAME_LEN)
<1>1. /\ Typed /\ Parsed /\ program = Grep /\ Runs /\ client.pc = "entry" /\ GrepTyped
      /\ OnDirectory /\ HasArgs(arg_buffer, BUFSIZE) /\ client.last = 0
      /\ FreeFDs(file_descriptor) = FD \ {fd} /\ Searched(Len(got[fd]), 0)
  BY ProgramsAssumption, NameFacts DEF FInv, IInv, GrepEntry, At, Greps, Runs, InLoop
<1>2. fd \in FD /\ Good(fd) /\ file_descriptor[fd].flags # "empty"
      /\ opened[fd] = read_dentry_by_name(Dir) /\ opened[fd].file_type = "dir"
  BY <1>1, ProgramsAssumption DEF OnDirectory, FInv, IInv, ProgramsAssumption
<1>3. SysRead(fd, FILENAME_LEN) /\ FILENAME_LEN \in Int
  BY NameSize DEF GrepEntry
<1>4. /\ opened' = opened /\ UNCHANGED <<line, program, arg_buffer>>
      /\ \A g \in FD : file_descriptor'[g].flags = file_descriptor[g].flags
      /\ FreeFDs(file_descriptor)' = FreeFDs(file_descriptor)
      /\ got' = [got EXCEPT ![fd] = got[fd] \o r.data]
  BY <1>1, <1>2, <1>3, ReadKeeps
<1>5. HasArgs(arg_buffer, BUFSIZE)'
  BY <1>1, <1>4
<1>6. ASSUME client'.fd = fd PROVE OnDirectory'
  BY <1>2, <1>4, <1>6 DEF OnDirectory
<1>7. CASE r.ret = 0
  <2>1. got[fd] = AllNames
    BY <1>1, <1>2, <1>7, NameSize, ReadAll
  <2>2. Moves([client EXCEPT !.pc = "done"], <<>>)
    BY <1>7 DEF GrepEntry
  <2>3. output' = output
    BY <1>1, <2>2, ConcatEmptySeq DEF Moves, GrepTyped
  <2>4. GrepTyped' /\ client'.pc = "done"
    BY <1>1, <2>2, <2>3 DEF Moves, GrepTyped
  <2>5. Len(AllNames) = Len(dentries)
    BY NameFacts DEF AllNames
  <2>6. Searched(Len(dentries), 0)
    BY <1>1, <2>1, <2>5
  <2>7. GrepShows(arg_buffer)
    <3>1. ~(arg_buffer = <<>> \/ Len(arg_buffer) >= BUFSIZE)
      BY <1>1, GivenArgs
    <3>2. ASSUME NEW name \in Name, Wanted(name)
          PROVE  ShownOf(output, name) = AllHits(name)
      <4>1. PICK i \in 1 .. Len(dentries) : dentries[i].file_name = name
        BY NamesOnce
      <4>2. i # 0 /\ i <= Len(dentries)
        BY NameFacts
      <4> QED BY <2>6, <3>2, <4>1, <4>2 DEF Searched
    <3> QED BY <3>1, <3>2 DEF GrepShows, Wanted, AllHits, HitsBy
  <2>8. GrepShows(arg_buffer)'
    BY <1>4, <2>3, <2>7, SearchedKept
  <2> QED BY <2>4, <2>8 DEF Greps
<1>8. CASE r.ret # 0
  <2>1. PICK k \in 1 .. Len(dentries) :
          /\ k - 1 = Len(got[fd]) /\ r.data = <<dentries[k].file_name>>
          /\ Len(got[fd] \o <<dentries[k].file_name>>) = k
    BY <1>1, <1>2, <1>8, NextName
  <2>2. PICK name : name = dentries[k].file_name
    OBVIOUS
  <2>3. r.data[1] = name
    BY <2>1, <2>2
  <2>4. Len(got'[fd]) = k
    BY <1>1, <1>2, <1>4, <2>1 DEF Typed
  <2>5. Searched(k - 1, 0)
    BY <1>1, <2>1
  <2>6. CASE name[1] = "."
    <3>1. client' = client /\ output' = output \o <<>>
      BY <1>8, <2>3, <2>6 DEF GrepEntry, Moves
    <3>2. output' = output
      BY <1>1, <3>1, ConcatEmptySeq DEF GrepTyped
    <3>3. GrepTyped'
      BY <1>1, <3>1, <3>2 DEF GrepTyped
    <3>4. Searched(k, 0)
      <4>1. \A i \in 1 .. Len(dentries) : i # k => (i <= k <=> i <= k - 1)
        BY NameFacts
      <4>2. ~Wanted(dentries[k].file_name)
        BY <2>2, <2>6 DEF Wanted
      <4> QED BY <2>5, <4>1, <4>2 DEF Searched
    <3>5. Searched(k, 0)'
      BY <1>4, <3>2, <3>4, SearchedKept
    <3>6. InLoop(k)'
      BY <1>1, <1>4, <3>1, <3>5 DEF InLoop
    <3> QED BY <1>1, <1>5, <1>6, <2>4, <3>1, <3>3, <3>6 DEF Greps
  <2>7. CASE name[1] # "."
    <3>1. client' = [client EXCEPT !["name"] = name, !.pc = "file"] /\ output' = output \o <<>>
      BY <1>8, <2>3, <2>7 DEF GrepEntry, Moves
    <3>2. /\ GrepTyped' /\ output' = output /\ client'.pc = "file" /\ client'.last = 0
          /\ client'.fd = fd /\ client'.name = name
      <4>1. Notes("file", "name", name)
        BY <1>1, <3>1, GrepMoves
      <4> QED BY <1>1, <4>1 DEF Notes
    <3>3. Searched(k - 1, 0)'
      BY <1>4, <2>5, <3>2, SearchedKept
    <3>4. OnName(k)'
      BY <2>2, <2>7, <3>2 DEF OnName
    <3>5. InLoop(k)'
      BY <1>1, <1>4, <3>2, <3>3, <3>4 DEF InLoop
    <3> QED BY <1>5, <1>6, <2>4, <3>2, <3>5 DEF Greps
  <2> QED BY <2>6, <2>7
<1> QED BY <1>7, <1>8

\* Nothing of a text is searched yet.
LEMMA SearchBegins ==
  ASSUME NEW name, NEW pattern, NEW data
  PROVE  0 <= Len(Text(name)) /\ HeldFrom(Text(name), 0, data, 0) /\ HitsBy(name, pattern, 0) = <<>>
<1>1. Len(Text(name)) \in Nat
  BY TextTyped
<1>2. HeldFrom(Text(name), 0, data, 0)
  BY DEF HeldFrom
<1>3. Joined(Hits(name, pattern))[0] = <<>>
  <2>1. PICK U : Hits(name, pattern) \in Seq(Seq(U))
    BY PartsTyped
  <2> QED BY <2>1, JoinedDef
<1>4. 0 = Len(Text(name)) => Joined(Hits(name, pattern))[0 + 1] = <<>>
  <2>1. 0 \in Nat
    OBVIOUS
  <2> QED BY <1>3, <2>1, NoLineBehind
<1> QED BY <1>1, <1>2, <1>3, <1>4 DEF HitsBy

LEMMA GrepOpensOne ==
  ASSUME FInv, Greps, GrepOpens
  PROVE  Greps'
<1>0. PICK dir, name, k : dir = client.fd /\ name = client.name /\ k = Len(got[dir])
  OBVIOUS
<1>1. /\ Typed /\ program = Grep /\ client.pc = "file" /\ GrepTyped
      /\ OnDirectory /\ HasArgs(arg_buffer, BUFSIZE) /\ client.last = 0
      /\ FreeFDs(file_descriptor) = FD \ {dir} /\ OnName(k) /\ Searched(k - 1, 0)
  BY <1>0 DEF FInv, IInv, GrepOpens, At, Greps, InLoop
<1>2. UNCHANGED <<program, arg_buffer>>
  BY LineStays DEF ClientStep
<1>3. name \in Name /\ k \in 1 .. Len(dentries) /\ name = dentries[k].file_name
  BY <1>0, <1>1, NamesOnce DEF OnName
<1>4. PICK e : e = read_dentry_by_name(name) /\ Found(e)
  BY <1>3, NameFound
<1>5. PICK fd \in FreeFDs(file_descriptor) : OpenedAs("fd1", "search", e, fd)
  <2>1. FreeFDs(file_descriptor) # {}
    BY <1>1, ThreeFDs
  <2>2. Opens(name, "fd1", "search", <<"file open failed">>)
    BY <1>0 DEF GrepOpens
  <2> QED BY <1>1, <1>4, <2>1, <2>2, OpensOne, Zenon
<1>6. /\ client' = [client EXCEPT !["fd1"] = fd, !.pc = "search"] /\ output' = output \o <<>>
      /\ file_descriptor' = [file_descriptor EXCEPT ![fd] = Entry(e)]
      /\ opened' = [opened EXCEPT ![fd] = e] /\ got' = [got EXCEPT ![fd] = <<>>]
      /\ FreeFDs(file_descriptor)' = FreeFDs(file_descriptor) \ {fd}
      /\ Entry(e).flags = e.file_type
  BY <1>5 DEF OpenedAs
<1>7. fd \in FD \ {dir} /\ dir \in FD
  BY <1>0, <1>1, <1>5 DEF OnDirectory
<1>8. /\ GrepTyped' /\ output' = output /\ client'.pc = "search" /\ client'.last = 0
      /\ client'.fd = dir /\ client'.fd1 = fd /\ client'.name = name
      /\ client'.data = client.data
  <2>1. Notes("search", "fd1", fd)
    BY <1>1, <1>6, GrepMoves
  <2> QED BY <1>0, <1>1, <2>1 DEF Notes
<1>9. /\ file_descriptor'[fd].flags # "empty" /\ opened'[fd] = e /\ got'[fd] = <<>>
      /\ file_descriptor'[dir] = file_descriptor[dir] /\ opened'[dir] = opened[dir]
      /\ got'[dir] = got[dir]
  <2>1. e.file_type # "empty"
    BY <1>4, ByName, NameFacts DEF Found, Type
  <2> QED BY <1>1, <1>6, <1>7, <2>1 DEF Typed
<1>10. OnDirectory'
  BY <1>0, <1>1, <1>7, <1>8, <1>9 DEF OnDirectory
<1>11. OnText'
  BY <1>1, <1>4, <1>6, <1>7, <1>8, <1>9 DEF OnText
<1>12. OnName(k)'
  BY <1>0, <1>1, <1>8, <1>9 DEF OnName
<1>13. Searched(k, k)'
  <2>1. \A i \in 1 .. Len(dentries) : i # k => (i <= k <=> i <= k - 1) /\ i # 0
    BY <1>3, NameFacts
  <2>2. Searched(k, k)
    BY <1>1, <2>1 DEF Searched
  <2> QED BY <1>2, <1>8, <1>9, <2>2, SearchedKept
<1>14. Len(got'[fd]) = 0
  BY <1>9, EmptySeq
<1>15. Wanted(name) => Searching(client.name)'
  <2> SUFFICES ASSUME Wanted(name) PROVE Searching(client.name)'
    OBVIOUS
  <2>1. ShownOf(output, name) = <<>>
    <3>1. k # 0 /\ ~(k <= k - 1)
      BY <1>3, NameFacts
    <3> QED BY <1>1, <1>3, <3>1 DEF Searched
  <2>2. /\ 0 <= Len(Text(name)) /\ HeldFrom(Text(name), 0, client.data, 0)
        /\ HitsBy(name, arg_buffer, 0) = <<>>
    BY SearchBegins
  <2>3. 0 \in 0 .. Len(Text(name)) /\ 0 + 0 = 0
    BY TextTyped
  <2> QED BY <1>2, <1>8, <1>14, <2>1, <2>2, <2>3 DEF Searching
<1>16. InLoop(k)'
  <2>1. Wanted(client.name)' => Searching(client.name)'
    BY <1>8, <1>15 DEF Wanted
  <2>2. Len(got'[client'.fd1]) <= Len(Text(client'.name))
    BY <1>8, <1>14, SearchBegins
  <2>3. OnName(k)' /\ OnText' /\ Searched(k, k)'
    BY <1>11, <1>12, <1>13
  <2> QED BY <1>8, <2>1, <2>2, <2>3 DEF InLoop
<1>17. Len(got'[client'.fd]) = k /\ HasArgs(arg_buffer, BUFSIZE)'
  BY <1>0, <1>1, <1>2, <1>8, <1>9
<1> QED BY <1>8, <1>10, <1>16, <1>17 DEF Greps

LEMMA GrepClosesOne ==
  ASSUME FInv, Greps, GrepCloses
  PROVE  Greps'
<1>0. PICK dir, fd, k : dir = client.fd /\ fd = client.fd1 /\ k = Len(got[dir])
  OBVIOUS
<1>1. /\ Typed /\ program = Grep /\ client.pc = "close" /\ GrepTyped
      /\ OnDirectory /\ HasArgs(arg_buffer, BUFSIZE) /\ OnText /\ Searched(k, 0)
  BY <1>0 DEF FInv, IInv, GrepCloses, At, Greps, InLoop
<1>2. UNCHANGED <<program, arg_buffer>>
  BY LineStays DEF ClientStep
<1>3. dir \in FD /\ fd \in FD \ {dir} /\ FreeFDs(file_descriptor) = FD \ {dir, fd}
  BY <1>0, <1>1 DEF OnDirectory, OnText
<1>4. /\ file_descriptor' = [file_descriptor EXCEPT ![fd] = Empty]
      /\ opened' = [opened EXCEPT ![fd] = NoDentry] /\ got' = [got EXCEPT ![fd] = <<>>]
  <2>1. Fails(file_descriptor).ret = -1
    BY DEF Fails
  <2> QED BY <1>0, <2>1 DEF GrepCloses, SysClose, Call, sys_close, IsOpen
<1>5. client' = [client EXCEPT !.pc = "entry", !.last = 0] /\ output' = output \o <<>>
  BY DEF GrepCloses, Moves
<1>6. output' = output
  BY <1>1, <1>5, ConcatEmptySeq DEF GrepTyped
<1>7. /\ GrepTyped' /\ client'.pc = "entry" /\ client'.last = 0 /\ client'.fd = dir
  <2>1. 0 \in 0 .. BUFSIZE - 1
    BY BufSize
  <2> QED BY <1>0, <1>1, <1>5, <1>6, <2>1 DEF GrepTyped
<1>8. /\ file_descriptor'[dir] = file_descriptor[dir] /\ opened'[dir] = opened[dir]
      /\ got'[dir] = got[dir]
  BY <1>1, <1>3, <1>4 DEF Typed
<1>9. FreeFDs(file_descriptor)' = FD \ {dir}
  <2>1. \A g \in FD : file_descriptor'[g] = IF g = fd THEN Empty ELSE file_descriptor[g]
    BY <1>1, <1>3, <1>4 DEF Typed
  <2> QED BY <1>3, <2>1 DEF FreeFDs, IsOpen, Empty
<1>10. OnDirectory' /\ Searched(k, 0)'
  BY <1>0, <1>1, <1>2, <1>6, <1>7, <1>8, SearchedKept DEF OnDirectory
<1>11. InLoop(k)'
  BY <1>7, <1>9, <1>10 DEF InLoop
<1>12. Len(got'[client'.fd]) = k /\ HasArgs(arg_buffer, BUFSIZE)'
  BY <1>0, <1>1, <1>2, <1>7, <1>8
<1> QED BY <1>7, <1>10, <1>11, <1>12 DEF Greps

\* A read of the text, and the scan of what it has brought.
LEMMA GrepReadsOn ==
  ASSUME FInv, Greps, GrepReads
  PROVE  Greps'
<1>1. PICK dir, fd, k, name, last :
        /\ dir = client.fd /\ fd = client.fd1 /\ k = Len(got[dir]) /\ name = client.name
        /\ last = client.last
  OBVIOUS
<1>2. /\ Typed /\ program = Grep /\ Runs /\ client.pc = "search" /\ GrepTyped
      /\ OnDirectory /\ HasArgs(arg_buffer, BUFSIZE) /\ OnName(k) /\ OnText /\ Searched(k, k)
      /\ Len(got[fd]) <= Len(Text(name)) /\ (Wanted(name) => Searching(name))
  BY <1>1, ProgramsAssumption, NameFacts DEF FInv, IInv, GrepReads, At, Greps, InLoop, Runs
<1>3. /\ dir \in FD /\ fd \in FD \ {dir} /\ Good(fd) /\ file_descriptor[fd].flags # "empty"
      /\ opened[fd] = read_dentry_by_name(name)
  BY <1>1, <1>2 DEF FInv, IInv, OnDirectory, OnText
<1>4. /\ k \in 1 .. Len(dentries) /\ name = dentries[k].file_name /\ name \in Name
      /\ name[1] # "."
  BY <1>1, <1>2, NamesOnce DEF OnName
<1>5. last \in 0 .. BUFSIZE - 1 /\ BUFSIZE \in Nat /\ NoNewline(client.data, 0)
  BY <1>1, <1>2, BufSize DEF GrepTyped
<1>6. PICK room \in Nat \ {0} : room = BUFSIZE - last
  BY <1>5
<1>7. PICK r : r = sys_read(file_descriptor, fd, room)
  OBVIOUS
<1>8. PICK d, n, s, m : /\ d = Filled(client.data, last, r.data) /\ n = last + r.ret
                        /\ s = Scanned(d, n, r.ret)
                        /\ m = Matches(d, n, r.ret, name, arg_buffer)
  OBVIOUS
<1>9. /\ SysRead(fd, room)
      /\ client' = [client EXCEPT !.data = s.data, !.last = s.last,
                                  !.pc = IF r.ret = 0 THEN "close" ELSE "search"]
      /\ output' = output \o m
  BY <1>1, <1>6, <1>7, <1>8 DEF GrepReads, Moves
<1>10. /\ opened' = opened /\ UNCHANGED <<line, program, arg_buffer>>
       /\ \A g \in FD : file_descriptor'[g].flags = file_descriptor[g].flags
       /\ FreeFDs(file_descriptor)' = FreeFDs(file_descriptor)
       /\ got' = [got EXCEPT ![fd] = got[fd] \o r.data]
  <2>1. fd \in FD /\ room \in Int
    BY <1>3, <1>6
  <2>2. SysRead(fd, room) /\ (fd \in FD => Good(fd))
    BY <1>3, <1>9
  <2> QED BY <1>2, <1>7, <2>1, <2>2, ReadKeeps, Zenon
<1>11. PICK l \in Nat, cnt \in 0 .. room : /\ l = Len(got[fd])
                                            /\ Delivers(r, Text(name), l, cnt, room)
                                            /\ Len(got[fd] \o r.data) = l + cnt
  <2>1. fd \in FD
    BY <1>3
  <2>2. /\ Good(fd) /\ file_descriptor[fd].flags # "empty"
        /\ opened[fd] = read_dentry_by_name(name) /\ Len(got[fd]) <= Len(Text(name))
        /\ name \in Name /\ name[1] # "." /\ Typed /\ room \in Nat \ {0}
    BY <1>2, <1>3, <1>4, <1>6
  <2>3. \E l \in Nat, cnt \in 0 .. room :
          /\ l = Len(got[fd])
          /\ Delivers(sys_read(file_descriptor, fd, room), Text(name), l, cnt, room)
          /\ Len(got[fd] \o sys_read(file_descriptor, fd, room).data) = l + cnt
    BY <2>1, <2>2, ReadText
  <2> QED BY <1>7, <2>3, Zenon
<1>12. /\ n \in last .. BUFSIZE /\ n = last + cnt /\ n \in Nat /\ last \in Nat /\ cnt \in Nat
      /\ r.ret = cnt /\ Len(r.data) = cnt
  BY <1>5, <1>6, <1>8, <1>11 DEF Delivers
<1>13. NoNewline(d, n)
  BY <1>5, <1>8, <1>12, FilledFacts
<1>14. PICK start \in 0 .. n : IsScanned(d, n, cnt, start)
  <2>1. n \in 0 .. BUFSIZE
    BY <1>5, <1>12
  <2> QED BY <1>13, <2>1, ScannedFacts
<1>15. /\ s.last \in 0 .. BUFSIZE - 1 /\ NoNewline(s.data, 0) /\ (cnt = 0 => s.last = 0)
  <2>1. s = Scanned(d, n, cnt)
    BY <1>8, <1>12
  <2>2. /\ s.last = (IF TailKept(d, n, cnt) THEN n - start ELSE 0)
        /\ TailKept(d, n, cnt) => start # 0 /\ start < n /\ cnt # 0
        /\ NoNewline(s.data, 0)
    BY <1>14, <2>1 DEF IsScanned
  <2>3. 0 \in 0 .. BUFSIZE - 1
    BY BufSize
  <2>4. start # 0 /\ start < n => n - start \in 0 .. BUFSIZE - 1
    BY <1>5, <1>12
  <2> QED BY <2>2, <2>3, <2>4
<1>16. PICK U : Tagged(name, U) /\ m \in Seq(U)
  BY <1>8, <1>12, MatchesTagged
<1>17. /\ output' \in Seq(Range(output'))
       /\ ShownOf(output', name) = Then(ShownOf(output, name), m)
       /\ \A other : other # name => ShownOf(output', other) = ShownOf(output, other)
  <2>1. output \in Seq(Range(output))
    BY <1>2 DEF GrepTyped
  <2>2. Grows(output', output, name, m)
    BY <1>9, <1>16, <2>1, ShownGrows
  <2> QED BY <2>2, Zenon DEF Grows
<1>18. /\ GrepTyped' /\ client'.fd = dir /\ client'.fd1 = fd /\ client'.name = name
       /\ client'.data = s.data /\ client'.last = s.last
       /\ client'.pc = IF r.ret = 0 THEN "close" ELSE "search"
  BY <1>1, <1>2, <1>9, <1>15, <1>17 DEF GrepTyped
<1>19. OnDirectory' /\ OnText' /\ OnName(k)' /\ got'[dir] = got[dir]
  <2>1. OnDirectory' /\ OnName(k)'
    BY <1>1, <1>2, <1>3, <1>10, <1>18 DEF OnDirectory, OnName
  <2>2. OnText'
    BY <1>1, <1>2, <1>3, <1>10, <1>18 DEF OnText
  <2> QED BY <1>2, <1>3, <1>10, <2>1, <2>2 DEF Typed
<1>20. PICK h : h = got'[fd] /\ Len(h) = l + cnt
  BY <1>2, <1>3, <1>10, <1>11 DEF Typed
<1>21. \A x : AllHits(x)' = AllHits(x)
  BY <1>10 DEF AllHits
<1>22. Searched(k, k)'
  <2> SUFFICES ASSUME NEW i \in 1 .. Len(dentries), Wanted(dentries[i].file_name), i # k
               PROVE  ShownOf(output', dentries[i].file_name) =
                        IF i <= k THEN AllHits(dentries[i].file_name)' ELSE <<>>
    BY DEF Searched, Wanted
  <2>1. dentries[i].file_name # name
    BY <1>4, NamesOnce
  <2>2. ShownOf(output, dentries[i].file_name) =
          IF i <= k THEN AllHits(dentries[i].file_name) ELSE <<>>
    BY <1>2 DEF Searched
  <2> QED BY <1>17, <1>21, <2>1, <2>2
<1>23. ASSUME Wanted(name)
       PROVE  \E c \in 0 .. Len(Text(name)) :
                /\ c + s.last = l + cnt /\ HeldFrom(Text(name), c, s.data, s.last)
                /\ ShownOf(output', name) = HitsBy(name, arg_buffer, c)
  <2>1. PICK b \in 0 .. Len(Text(name)) :
          /\ b + last = l /\ HeldFrom(Text(name), b, client.data, last)
          /\ ShownOf(output, name) = HitsBy(name, arg_buffer, b)
    BY <1>1, <1>2, <1>11, <1>23 DEF Searching
  <2>2. b \in Nat /\ b + n = l + cnt /\ b + last = l
    BY <1>12, <2>1
  <2>3. Continues(name, client.data, last, b, r.data)
    <3>1. IsText(name) /\ last < BUFSIZE /\ last + Len(r.data) = n /\ n <= BUFSIZE
      BY <1>5, <1>12, <1>23 DEF Wanted
    <3>2. \A i \in 1 .. Len(r.data) : r.data[i] = Text(name)[b + last + i]
      BY <1>11, <1>12, <2>2 DEF Delivers
    <3>3. b + n <= Len(Text(name)) /\ (n < BUFSIZE => b + n = Len(Text(name)))
      BY <1>5, <1>6, <1>11, <1>12, <2>2 DEF Delivers
    <3> QED BY <1>5, <2>1, <3>1, <3>2, <3>3 DEF Continues
  <2>4. PICK c \in 0 .. Len(Text(name)) :
          /\ c + Scanned(d, n, cnt).last = b + n
          /\ HeldFrom(Text(name), c, Scanned(d, n, cnt).data, Scanned(d, n, cnt).last)
          /\ HitsBy(name, arg_buffer, c) =
               Then(HitsBy(name, arg_buffer, b), Matches(d, n, cnt, name, arg_buffer))
    <3>1. cnt = Len(r.data) /\ d = Filled(client.data, last, r.data)
      BY <1>8, <1>12
    <3>2. GoesOn(name, arg_buffer, b, d, n, cnt)
      BY <1>12, <2>2, <2>3, <3>1, ScanGoesOn
    <3> QED BY <3>2, Zenon DEF GoesOn
  <2> QED BY <1>8, <1>12, <1>17, <2>1, <2>2, <2>4
<1>24. CASE cnt # 0
  <2>1. client'.pc = "search"
    BY <1>12, <1>18, <1>24
  <2>2. Wanted(client.name)' => Searching(client.name)'
    BY <1>10, <1>18, <1>20, <1>23 DEF Searching, Wanted
  <2>3. Len(got'[client'.fd1]) <= Len(Text(client'.name))
    BY <1>11, <1>18, <1>20 DEF Delivers
  <2>4. InLoop(k)'
    BY <1>19, <1>22, <2>1, <2>2, <2>3 DEF InLoop
  <2> QED BY <1>1, <1>2, <1>10, <1>18, <1>19, <2>1, <2>4 DEF Greps
<1>25. CASE cnt = 0
  <2>1. client'.pc = "close"
    BY <1>12, <1>18, <1>25
  <2>2. Wanted(name) => ShownOf(output', name) = AllHits(name)'
    <3> SUFFICES ASSUME Wanted(name) PROVE ShownOf(output', name) = AllHits(name)
      BY <1>21
    <3>1. PICK c \in 0 .. Len(Text(name)) :
            /\ c + s.last = l + cnt /\ ShownOf(output', name) = HitsBy(name, arg_buffer, c)
      BY <1>23
    <3>2. c = Len(Text(name))
      <4>1. l + cnt = Len(Text(name)) /\ s.last = 0
        BY <1>6, <1>11, <1>15, <1>25 DEF Delivers
      <4> QED BY <1>11, <3>1, <4>1
    <3> QED BY <3>1, <3>2 DEF AllHits
  <2>3. Searched(k, 0)'
    <3> SUFFICES ASSUME NEW i \in 1 .. Len(dentries), Wanted(dentries[i].file_name)
                 PROVE  ShownOf(output', dentries[i].file_name) =
                          IF i <= k THEN AllHits(dentries[i].file_name)' ELSE <<>>
      BY DEF Searched, Wanted
    <3>1. CASE i = k
      <4>1. i <= k
        BY <3>1
      <4> QED BY <1>4, <2>2, <3>1, <4>1
    <3>2. CASE i # k
      BY <1>22, <3>2 DEF Searched, Wanted
    <3> QED BY <3>1, <3>2
  <2>4. InLoop(k)'
    BY <1>19, <2>1, <2>3 DEF InLoop
  <2> QED BY <1>1, <1>2, <1>10, <1>18, <1>19, <2>1, <2>4 DEF Greps
<1> QED BY <1>24, <1>25

\* Greps is kept by every step.
LEMMA GrepsStep ==
  ASSUME FInv, Greps, [PNext]_pvars, Newline \notin Garbage
  PROVE  Greps'
<1>1. CASE Start
  BY <1>1, GrepStarts DEF FInv
<1>2. CASE Halt
  BY <1>2, ProgramsAssumption, NameFacts DEF Halt, SysHalt, Greps
<1>3. CASE UNCHANGED pvars
  BY <1>3, GrepStays
<1>4. ASSUME program' = program, program # Grep PROVE Greps'
  BY <1>4 DEF Greps
<1>5. CASE AnyProgram
  BY <1>4, <1>5, LineStays DEF AnyProgram, IsClient
<1>6. CASE ClientStep
  <2>1. program' = program
    BY <1>6, LineStays
  <2>2. CASE CatMain \/ CatReads \/ LsMain \/ LsReads
    <3>1. program \in {Cat, Ls}
      BY <2>2, Zenon DEF CatMain, CatReads, LsMain, LsReads, At
    <3> QED BY <1>4, <2>1, <3>1, ProgramsAssumption
  <2>3. CASE \/ FishMain \/ FishFirst \/ FishSecond \/ FishReads(1) \/ FishReads(2)
             \/ FishCell \/ FishRow \/ FishRate \/ FishCloses
    <3>1. program = Fish
      BY <2>3, Zenon DEF FishMain, FishFirst, FishSecond, FishReads, FishCell, FishRow,
         FishRate, FishCloses, At
    <3> QED BY <1>4, <2>1, <3>1, ProgramsAssumption
  <2> QED BY <1>6, <2>2, <2>3, GrepMains, GrepEntries, GrepOpensOne, GrepReadsOn, GrepClosesOne,
             Zenon DEF ClientStep
<1> QED BY <1>1, <1>2, <1>3, <1>5, <1>6 DEF PNext

\* The arguments that were searched for are those of the line that was typed.
LEMMA PatternsFollow == FInv /\ Greps => PatternsShown
<1> SUFFICES ASSUME FInv, Greps, client.pc = "done", program = Grep
             PROVE  \E i, j \in 0 .. Len(line) :
                      LET args == SubSeq(line, i + 1, j)
                      IN  IsSplit(line, program, args) /\ GrepShows(args)
  BY DEF PatternsShown
<1>1. Runs
  BY ProgramsAssumption, NameFacts DEF Runs
<1>2. line \in Seq(Range(line)) /\ program = prog_name(line) /\ arg_buffer = arg_buffer_of(line)
  BY <1>1 DEF FInv, Parsed
<1>3. PICK i \in 0 .. Len(line), j \in 0 .. Len(line) :
        /\ arg_buffer_of(line) = SubSeq(line, i + 1, j)
        /\ IsSplit(line, prog_name(line), SubSeq(line, i + 1, j))
  BY <1>2, CommandIsSplit
<1>4. GrepShows(arg_buffer)
  BY DEF Greps
<1> QED BY <1>2, <1>3, <1>4, Zenon

\* Whatever is typed, for every image and buffer size: grep shows every line of every text
\* that holds the pattern, once and in order, also where a read ends within the line or the
\* pattern, and no other line of it.  Its buffer is not set at first, and a newline that it
\* happens to hold there would be taken for one of the file: hence the assumption.
THEOREM GrepShowsLines ==
  ASSUME Newline \notin Garbage
  PROVE  Spec => []PatternsShown
<1>1. PInit => FInv /\ Greps
  <2> SUFFICES ASSUME PInit PROVE FInv /\ Greps
    OBVIOUS
  <2>1. IInv /\ program = NoName
    BY Starts DEF PInit, Init
  <2> QED BY <2>1, ProgramsAssumption, NameFacts DEF FInv, Parsed, Shows, Greps, Runs
<1>2. FInv /\ Greps /\ [PNext]_pvars => (FInv /\ Greps)'
  BY Steps, ParsedStep, ShowsStep, GrepsStep DEF FInv
<1> QED BY <1>1, <1>2, PatternsFollow, PTL DEF Spec
=============================================================================
