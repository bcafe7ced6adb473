SPECIFICATION GpioSpec
CONSTANTS
  Gpios = {5, 491}
  Slots = 2
  MaxFd = 3
  Closed = Closed
  Other = Other
INVARIANTS OwnsItsFd ClosesUnlessZero
PROPERTIES ReadsItsPin LostOnlyByReopening
