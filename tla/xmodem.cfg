\* Artwork of no bytes, one whole packet, a packet and a half, four packets,
\* and one that leaves 256 bytes; images of up to four packets, numbers that
\* wrap after three.
SPECIFICATION Spec
CONSTANTS
  Sizes = {0, 150, 352, 384}
  Lengths = {1, 3}
  Numbers = 3
  SyncTries = 2
  MaxRetrans = 2
  PayRetries = 2
  Handles = 2
INVARIANTS TypeOK UploadExact DownloadExact
PROPERTIES TransferEnds
