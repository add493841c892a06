\* Sizes of one to three messages, three handles, six messages written.
SPECIFICATION Spec
CONSTANTS
  QueueLen = 1
  Default = 2
  FileSizes = {1, 3}
  Handles = 3
  MaxOut = 6
INVARIANTS TypeOK SizeBounded LogIsSuffix
