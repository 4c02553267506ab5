SPECIFICATION RSpec
CONSTANTS
  Str <- MCStr
  Scalar <- MCScalar
  StackLimit = 3
  MaxDepth = 4
  CommentRuns <- MCCommentRuns
  Documents <- MCDocuments
  Values <- MCValues
  QuotedStrings <- MCQuotedStrings
  maxUInt = 31
  maxLargestUInt = 255
  MaxDigits = 4
  Char <- MCChar
  MaxLength = 7
INVARIANTS
  AcceptedIsJson JsonIsAccepted RelayedReadsTheSame
  UTF8ReadsBack WrittenIsAccepted
  IdIsDenoted WrittenReadsBack
  WellFormedIsParsed
