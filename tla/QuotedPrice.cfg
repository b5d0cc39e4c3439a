\* A listing with pricing rules is quoted in the panel and booked.
SPECIFICATION Spec
CONSTANTS
  Scenes = {"Quotes"}
  fee1 = fee1 fee2 = fee2 pay1 = pay1 pay2 = pay2 waive1 = waive1 waive2 = waive2
  book = book settle = settle run1 = run1 run2 = run2 hold1 = hold1
  status1 = status1 status2 = status2 status3 = status3 photo1 = photo1 photo2 = photo2 photo3 = photo3
  apply1 = apply1 apply2 = apply2 apply3 = apply3 paper1 = paper1
  desk1 = desk1 desk2 = desk2 user1 = user1 user2 = user2 user3 = user3
  Fee = {fee1, fee2}
  FeeMinor <- MCFeeMinor
  Payment = {pay1, pay2}
  Waiver = {waive1, waive2}
  Amounts = {1, 2}
  Key = {book, settle}
  Attempt <- MCAttempt
  KeyOf <- MCKeyOf
  Body = {"first", "other"}
  BodyOf <- MCBodyOf
  Guarded = {book}
  NoAttempt = NoAttempt
  Registrant = {1, 2}
  Confirmation = {"c1", "c2", "c3"}
  Code = {1, 2}
  MaxCodeAttempts = 2
  Session = {1, 2, 3, 4}
  Login = {"l1", "l2"}
  Revocation = {"v1"}
  ResetToken = {1}
  MaxFailedLogins = 1
  Step = {1, 2, 3}
  Secret = {1, 2}
  Spare = {"spare"}
  Enrolment = {"e1", "e2"}
  Challenge = {"h1", "h2"}
  ResetCall = {"r1"}
  MaxChallengeAttempts = 1
  PurgeRun = {run1, run2}
  HoldCall = {hold1}
  Nobody = Nobody
  StatusCall = {status1, status2, status3}
  Photo = {photo1, photo2}
  MaxPhotos = 2
  Application = {apply1, apply2, apply3}
  Paper = {paper1}
  NoRequest = NoRequest
  BpsWhole = 10000
  BillingMonth = 3
  Stay <- MCStay
  Listing <- MCListing
  RuleBook <- MCRuleBook
  FeeBps = 500
  MaxFetches = 2
  MaxEdits = 1
  DeskCall = {desk1, desk2}
  Handler = {"h1"}
  NoHandler = NoHandler
  NoCall = NoCall
  Account = {user1, user2}
  Token = {1, 2, 3}
  TokenOf <- MCTokenOf
  Chat = {"chat1", "chat2"}
  Owner = {user1, user2, user3}
  Emailed = {user1, user2}
  Contact = {1, 2}
  Number = {7, 8}
  NoChat = NoChat
  NoNumber = NoNumber
  NoOwner = NoOwner
  Field = {"title", "price"}
  MaxTyped = 2
INVARIANT ShownIsRecorded
CHECK_DEADLOCK FALSE
