SPECIFICATION Spec
CONSTANTS
  plain = plain
  seeking = seeking
  marking = marking
  Comp <- ThreeComps
  Seekable <- TwoSeek
  Marking <- TwoMark
  NumFrames = 3
  Offsets <- SomeOffsets
  Blank = Blank
INVARIANTS OwnPageShowsFrame LeftPageShowsFrame TimelineOfFrame
