SPECIFICATION PostsSpec
CONSTANTS
  Posts = {p1, p2}
  OldPost = p1
  Texts = {t1}
  MaxLoads = 2
  MaxLikes = 3
  MaxFaults = 1
  Shown = {a, b}
  Comments = {c1, c2}
  MaxGets = 3
  MaxDetailFaults = 1
  Ids = {u1, u2, u3}
  Labels = {l1, l2}
  Pictures = {q1, q2}
  maxMemoryItems = 2
  MaxErrors = 1
  MaxAvatarLoads = 3
INVARIANTS FeedsAgree DetailIsOfPost PicturesAreOfTheirId
PROPERTIES AskedIsShown
CHECK_DEADLOCK FALSE
