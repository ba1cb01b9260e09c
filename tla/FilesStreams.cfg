SPECIFICATION Spec
CONSTANTS
  TOTAL_BLOCK_SIZE = 4
  FILENAME_LEN = 3
  dentries <- MCdentries
  inodes <- MCinodes
  blocks <- MCblocks
  Byte = {"a", "b", " ", "nl", "E", "L", "F"}
  FD_COUNT = 5
  Lengths = {0, 1, 3, 11}
  Frequencies = {0, 1, 2, 3, 4, 8}
  RTC_MIN = 2
  RTC_MAX = 4
  ELF <- MCELF
  Stacks <- MCStacks
  Lines <- MCLines
  Cat <- MCcat
  Ls <- MCls
  Grep <- MCgrep
  Fish <- MCfish
  Rtc <- MCrtc
  Frames <- MCFrames
  FISH_RATE = 4
  BUFSIZE = 5
  Garbage = {"b"}
  Openable <- MCOpenable
INVARIANTS
  TypeOK
  FilesStream
  RtcFrequencyValid
  FilesShown
  PatternsShown
  SyserrPasses
PROPERTIES
  StartsWithoutFiles
