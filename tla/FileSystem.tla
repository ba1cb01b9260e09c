----------------------------- MODULE FileSystem ------------------------------
(***************************************************************************)
(* The read-only file system (file_system.c): a boot block with directory  *)
(* entries, one block per inode, and data blocks, which an inode names in  *)
(* the order of the file.  Pure lookups; nothing changes.                  *)
(***************************************************************************)
EXTENDS Integers, Sequences, SequencesExt

CONSTANTS
  TOTAL_BLOCK_SIZE,   \* 4096
  FILENAME_LEN,       \* 32
  dentries,           \* the entries of the boot block: file_name, file_type, inode_number
  inodes,             \* for each inode number: size, and blocks
  blocks,             \* for each data block number: its bytes, from 0 on
  Byte

\* A file name is a sequence of characters.
Inode == DOMAIN inodes
Name == {dentries[i].file_name : i \in DOMAIN dentries}
Type == {"rtc", "dir", "file"}

\* An image that createfs makes: names are distinct, inodes have the blocks that
\* their sizes need.  FEW inodes: their numbers pass through 8 bits of sys_read.
INODE_LIMIT == 256
ASSUME ImageAssumption ==
  /\ TOTAL_BLOCK_SIZE \in Nat \ {0} /\ FILENAME_LEN \in Nat
  /\ dentries \in Seq(Range(dentries))
  /\ \A i \in DOMAIN dentries : /\ Len(dentries[i].file_name) \in 1 .. FILENAME_LEN
                                /\ dentries[i].file_type \in Type
                                /\ dentries[i].inode_number \in Inode
  /\ \A i, j \in DOMAIN dentries : dentries[i].file_name = dentries[j].file_name => i = j
  /\ \E n \in 1 .. INODE_LIMIT : Inode = 0 .. n - 1
  /\ \A k \in Inode : /\ inodes[k].size \in Nat
                      /\ inodes[k].blocks \in Seq(DOMAIN blocks)
                      /\ inodes[k].size <= Len(inodes[k].blocks) * TOTAL_BLOCK_SIZE
  /\ \A b \in DOMAIN blocks : blocks[b] \in [0 .. TOTAL_BLOCK_SIZE - 1 -> Byte]

\* The two lookups return -1 for NoDentry.
NoName == <<>>
NoDentry == [file_name |-> NoName, file_type |-> "none", inode_number |-> 0]
\* Mutant: the result of the lookup is not looked at.
FoundAlways(dentry) == TRUE
Found(dentry) == dentry # NoDentry

\* read_dentry_by_name: the first entry that agrees with the name in all the
\* characters an entry has room for.  Mutant: longer names are not refused.
AnyLength(name) == FALSE
TooLong(name) == Len(name) > FILENAME_LEN

read_dentry_by_name(name) ==
  LET seen == IF Len(name) > FILENAME_LEN THEN SubSeq(name, 1, FILENAME_LEN) ELSE name
      found == {i \in DOMAIN dentries : dentries[i].file_name = seen}
  IN  IF TooLong(name) \/ found = {} THEN NoDentry
      ELSE dentries[CHOOSE i \in found : \A j \in found : i <= j]

\* read_dentry_by_index, from 0.
read_dentry_by_index(index) ==
  IF index >= Len(dentries) THEN NoDentry ELSE dentries[index + 1]

\* The block that holds byte `offset + i', and the place in it: the quotients are
\* of the offset and of what is left of it in its block.  Mutant: of i alone.
BlockOfIndex(offset, i) == offset \div TOTAL_BLOCK_SIZE + i \div TOTAL_BLOCK_SIZE
BlockOf(offset, i) ==
  offset \div TOTAL_BLOCK_SIZE + ((offset % TOTAL_BLOCK_SIZE) + i) \div TOTAL_BLOCK_SIZE
PlaceOf(offset, i) == ((offset % TOTAL_BLOCK_SIZE) + i) % TOTAL_BLOCK_SIZE

\* read_data: the bytes read, as long as length and the rest of the file allow.
read_data(inode, offset, length) ==
  LET remaining == inodes[inode].size - offset
      count == IF remaining <= 0 THEN 0 ELSE IF length < remaining THEN length ELSE remaining
  IN  [i \in 1 .. count |->
         blocks[inodes[inode].blocks[BlockOf(offset, i - 1) + 1]][PlaceOf(offset, i - 1)]]

\* check_executable: bytes 1 to 3 of the file, or of what the stack holds where the
\* file is shorter.
check_executable(dentry, stack, ELF) ==
  LET data == read_data(dentry.inode_number, 0, 4)
  IN  [i \in 1 .. 3 |-> IF i + 1 <= Len(data) THEN data[i + 1] ELSE stack[i]] = ELF

-----------------------------------------------------------------------------
(* Two references for read_data, which know nothing of offsets: byte by byte, *)
(* and the blocks one after the other, cut at the size of the file.          *)

Contents(inode) ==
  [i \in 1 .. inodes[inode].size |->
     LET number == inodes[inode].blocks[(i - 1) \div TOTAL_BLOCK_SIZE + 1]
     IN  blocks[number][(i - 1) % TOTAL_BLOCK_SIZE]]

BlockText(b) == [i \in 1 .. TOTAL_BLOCK_SIZE |-> blocks[b][i - 1]]
Concatenation(inode) ==
  LET numbers == inodes[inode].blocks
      text[n \in 0 .. Len(numbers)] ==
        IF n = 0 THEN <<>> ELSE text[n - 1] \o BlockText(numbers[n])
  IN  SubSeq(text[Len(numbers)], 1, inodes[inode].size)
=============================================================================
