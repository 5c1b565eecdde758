CONSTANTS
  NoWords = NoWords
  UnknownError = UnknownError
  NoCode = NoCode
  StatusCodes = {"4000", "4010", "4040", "5000"}
  BadRequest = "4000"
  UnAuth = "4010"
  InternalServerError = "5000"
  Words = {NoWords, UnknownError, w1}
  MaxCodes = 4
SPECIFICATION TripSpec
INVARIANT CodeSurvives
CHECK_DEADLOCK FALSE
