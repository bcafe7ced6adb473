SPECIFICATION CharSpec
CONSTANTS
  Calls = {"WifiServices", "Key", "MacAddress", "Diagnostics", "Message"}
  max_size = 8
  MaxReads = 3
  MaxOutput = 12
  Letter = {"a"}
  NameLen = 2
  MaxLines = 3
  Width = 5
  LineLen = 6
  Keyword = "key"
  sizeof_buf = 4
  Outputs <- MCOutputs
  BeyondBuffer <- MCBeyondBuffer
  Token <- MCToken
  ConfFiles <- MCConfFiles
  MacFiles <- MCMacFiles
  NotUtf8 <- MCNotUtf8
  Garbage <- MCGarbage
  Payloads <- MCPayloads
INVARIANTS PositiveIsPrefix ShortOnlyWhenFullOrFailed UnterminatedOnlyWhenGivenUp NoDuplicates ParsesLines ReplyFits ParsesConf MacStripped ParsedAsSent
PROPERTIES EndsIffWhole Returns ScanIsListed
CHECK_DEADLOCK FALSE
