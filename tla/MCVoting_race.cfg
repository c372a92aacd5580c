SPECIFICATION Spec
CONSTANTS
  w1 = w1
  w2 = w2
  alice = alice
  bob = bob
  post = post
  comment = comment
  Worker = {w1, w2}
  User = {alice, bob}
  Remote = {bob}
  Target = {post, comment}
  Reply = {comment}
  LowQuality = {post}
  AuthorOf <- EachWritesOne
  SpicyUnder10 = 2
  SpicyUnder30 = 1
  SpicyUnder60 = 1
  VoteQuota = 2
  MaxRequests = 3
  MaxCrashes = 1
  MayOverrun = TRUE
SYMMETRY Workers
INVARIANTS
  TypeOK
  OneVotePerUser
  TallyMatchesVotes
  ReputationMatchesVotes
  LowQualityNeverGains
CHECK_DEADLOCK FALSE
