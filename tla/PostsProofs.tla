---------------------------- MODULE PostsProofs ------------------------------
(* The posts, for every value of the constants: pictures are those of their *)
(* ids, a detail is of its post, and the feeds agree with the server.  Each *)
(* of the three modules has its invariant, with one lemma per action.       *)
EXTENDS PostFeeds, PostDetail, AvatarLoader, FiniteSetTheorems, SequenceTheorems, TLAPS

(* RemoveAt drops one element and keeps the order of the others.           *)
LEMMA RemoveAtKeeps ==
  ASSUME NEW S, NEW s \in Seq(S), NEW i \in 1..Len(s)
  PROVE  /\ RemoveAt(s, i) \in Seq(S)
         /\ Len(RemoveAt(s, i)) = Len(s) - 1
         /\ \A k \in 1..(Len(s) - 1) : RemoveAt(s, i)[k] = s[IF k < i THEN k ELSE k + 1]
<1> DEFINE a == SubSeq(s, 1, i - 1)
           b == SubSeq(s, i + 1, Len(s))
<1>1. a \in Seq(S) /\ Len(a) = i - 1 /\ \A k \in 1..(i - 1) : a[k] = s[k]
  BY SubSeqProperties, LenProperties
<1>2. b \in Seq(S) /\ Len(b) = Len(s) - i /\ \A k \in 1..(Len(s) - i) : b[k] = s[i + k]
  BY SubSeqProperties, LenProperties
<1>3. RemoveAt(s, i) = a \o b
  BY DEF RemoveAt
<1> HIDE DEF a, b
<1>4. /\ a \o b \in Seq(S) /\ Len(a \o b) = Len(a) + Len(b)
      /\ \A k \in 1..(Len(a) + Len(b)) : (a \o b)[k] = IF k <= Len(a) THEN a[k] ELSE b[k - Len(a)]
  BY <1>1, <1>2, ConcatProperties
<1> QED
  BY <1>1, <1>2, <1>3, <1>4

(***************************************************************************)
(* AvatarLoader: caches, labels and downloads agree.                       *)
(***************************************************************************)

(* Whatever is in memory, in a file or under way was asked for under its   *)
(* id.                                                                     *)
CachedAsked == \A id \in CachedIn(avatarCache) : avatarCache[id] \in asked[id]
FilesAsked  == \A id \in Ids, g \in BOOLEAN : disk[id][g] \in Pictures => disk[id][g] \in asked[id]
DownloadsAsked == \A d \in downloads : d.picture \in asked[d.id]

(* What is fetched is not in the cache, so that a file that is written     *)
(* anew, or not as a whole, is not the only one of a cached picture.       *)
FetchedInv == \A id \in CachedIn(avatarCache) : id \notin loadingAvatars

AvatarInv ==
  /\ AvatarTypeOK
  /\ LoadingIsDownloading
  /\ ShownIsAsked
  /\ CacheIsOnDisk
  /\ CachedAsked /\ FilesAsked /\ DownloadsAsked
  /\ FetchedInv

-----------------------------------------------------------------------------
(* The cache.                                                              *)

CacheTypeOK == avatarCache \in [Ids -> Pictures \cup {NotCached}]

(* What Put makes of the cache: the picture under its id, and of the other *)
(* ids what was there before, or nothing.                                  *)
LEMMA PutKeeps ==
  ASSUME CacheTypeOK, NEW id \in Ids, NEW picture \in Pictures, Put(id, picture),
         Cardinality(CachedIn(avatarCache)) <= maxMemoryItems
  PROVE  /\ CacheTypeOK' /\ Cardinality(CachedIn(avatarCache')) <= maxMemoryItems
         /\ avatarCache'[id] \in {picture, NotCached}
         /\ \A i \in Ids \ {id} : avatarCache'[i] \in {avatarCache[i], NotCached}
<1> DEFINE c == [avatarCache EXCEPT ![id] = picture]
<1>1. maxMemoryItems \in Nat /\ IsFiniteSet(Ids) /\ NotCached \notin Pictures
  BY AvatarAssumption
<1>2. c \in [Ids -> Pictures \cup {NotCached}] /\ c[id] = picture /\ \A i \in Ids \ {id} : c[i] = avatarCache[i]
  BY DEF CacheTypeOK
<1>3. CleanupCache(c, avatarCache')
  BY DEF Put
<1> HIDE DEF c
<1>4. CASE Cardinality(CachedIn(c)) <= maxMemoryItems /\ avatarCache' = c
  BY <1>2, <1>4 DEF CacheTypeOK
<1>5. ASSUME NEW oldest \in CachedIn(c), avatarCache' = [c EXCEPT ![oldest] = NotCached]
      PROVE  /\ CacheTypeOK' /\ Cardinality(CachedIn(avatarCache')) <= maxMemoryItems
             /\ avatarCache'[id] \in {picture, NotCached}
             /\ \A i \in Ids \ {id} : avatarCache'[i] \in {avatarCache[i], NotCached}
  <2>1. oldest \in Ids
    BY DEF CachedIn
  <2>2. /\ avatarCache' \in [Ids -> Pictures \cup {NotCached}]
        /\ avatarCache'[oldest] = NotCached /\ \A i \in Ids \ {oldest} : avatarCache'[i] = c[i]
    BY <1>2, <1>5, <2>1
  <2>3. CachedIn(avatarCache') \subseteq CachedIn(c) \ {oldest}
    BY <2>2 DEF CachedIn
  <2>4. CachedIn(c) \subseteq CachedIn(avatarCache) \cup {id} /\ CachedIn(avatarCache) \subseteq Ids
    BY <1>2 DEF CachedIn
  <2>5. IsFiniteSet(CachedIn(avatarCache)) /\ IsFiniteSet(CachedIn(c))
    BY <1>1, FS_Subset DEF CachedIn
  <2>6. Cardinality(CachedIn(c)) <= Cardinality(CachedIn(avatarCache)) + 1
    <3>1. /\ IsFiniteSet(CachedIn(avatarCache) \cup {id})
          /\ Cardinality(CachedIn(avatarCache) \cup {id}) \in {Cardinality(CachedIn(avatarCache)), Cardinality(CachedIn(avatarCache)) + 1}
      BY <2>5, FS_AddElement
    <3>2. Cardinality(CachedIn(c)) <= Cardinality(CachedIn(avatarCache) \cup {id})
      BY <2>4, <3>1, FS_Subset
    <3>3. /\ Cardinality(CachedIn(c)) \in Nat /\ Cardinality(CachedIn(avatarCache)) \in Nat
      BY <2>5, FS_CardinalityType
    <3> QED
      BY <3>1, <3>2, <3>3
  <2>7. IsFiniteSet(CachedIn(c) \ {oldest}) /\ Cardinality(CachedIn(c) \ {oldest}) = Cardinality(CachedIn(c)) - 1
    BY <2>5, FS_RemoveElement
  <2>8. Cardinality(CachedIn(avatarCache')) <= Cardinality(CachedIn(c) \ {oldest})
    BY <2>3, <2>7, FS_Subset
  <2>9. /\ Cardinality(CachedIn(c)) \in Nat /\ Cardinality(CachedIn(avatarCache)) \in Nat
        /\ Cardinality(CachedIn(avatarCache')) \in Nat
    BY <2>3, <2>5, <2>7, FS_Subset, FS_CardinalityType
  <2>10. Cardinality(CachedIn(avatarCache')) <= maxMemoryItems
    BY <1>1, <2>6, <2>7, <2>8, <2>9
  <2> QED
    BY <1>2, <2>2, <2>10 DEF CacheTypeOK
<1> QED
  BY <1>3, <1>4, <1>5 DEF CleanupCache

-----------------------------------------------------------------------------
(* The cache after a step.                                                 *)

(* A picture that is put in is in a file and was asked for; the files of   *)
(* other ids stay, and what was asked for does.                            *)
LEMMA CacheAfterPut ==
  ASSUME AvatarInv, NEW id \in Ids, NEW picture \in Pictures,
         Put(id, picture),
         \E g \in BOOLEAN : disk'[id][g] = picture,
         \A i \in Ids \ {id} : disk'[i] = disk[i],
         \A i \in Ids : asked[i] \subseteq asked'[i],
         picture \in asked'[id],
         loadingAvatars' \subseteq loadingAvatars, id \notin loadingAvatars'
  PROVE  CacheTypeOK' /\ CachedAsked' /\ CacheIsOnDisk' /\ FetchedInv'
<1>1. /\ CacheTypeOK' /\ Cardinality(CachedIn(avatarCache')) <= maxMemoryItems
      /\ avatarCache'[id] \in {picture, NotCached}
      /\ \A i \in Ids \ {id} : avatarCache'[i] \in {avatarCache[i], NotCached}
  BY PutKeeps DEF AvatarInv, AvatarTypeOK, CacheTypeOK, CacheIsOnDisk
<1>2. \A i \in CachedIn(avatarCache') : \/ i = id /\ avatarCache'[i] = picture
                                        \/ i \in CachedIn(avatarCache) \ {id} /\ avatarCache'[i] = avatarCache[i]
  BY <1>1 DEF CachedIn
<1>3. CachedIn(avatarCache) \subseteq Ids
  BY DEF CachedIn
<1>4. CachedAsked'
  BY <1>2, <1>3 DEF AvatarInv, CachedAsked
<1>5. CacheIsOnDisk'
  BY <1>1, <1>2, <1>3 DEF AvatarInv, CacheIsOnDisk
<1>6. FetchedInv'
  BY <1>2 DEF AvatarInv, FetchedInv
<1> QED
  BY <1>1, <1>4, <1>5, <1>6

(* The cache stays, and the files of what it holds do.                     *)
LEMMA CacheStays ==
  ASSUME AvatarInv, avatarCache' = avatarCache,
         \A i \in CachedIn(avatarCache) : disk'[i] = disk[i],
         \A i \in Ids : asked[i] \subseteq asked'[i],
         \A i \in CachedIn(avatarCache) : i \notin loadingAvatars'
  PROVE  CacheTypeOK' /\ CachedAsked' /\ CacheIsOnDisk' /\ FetchedInv'
<1>1. CacheTypeOK' /\ FetchedInv'
  BY DEF AvatarInv, AvatarTypeOK, CacheTypeOK, FetchedInv
<1>2. CachedIn(avatarCache) \subseteq Ids
  BY DEF CachedIn
<1>3. CachedAsked'
  BY <1>2 DEF AvatarInv, CachedAsked
<1>4. CacheIsOnDisk'
  BY DEF AvatarInv, CacheIsOnDisk
<1> QED
  BY <1>1, <1>3, <1>4

(* The other parts of the invariant.                                       *)
RestTypeOK ==
  /\ loadingAvatars \subseteq Ids /\ downloads \subseteq Downloads
  /\ disk \in [Ids -> [BOOLEAN -> Pictures \cup {NoFile, Broken}]]
  /\ currentId \in [Labels -> Ids \cup {NoId}] /\ shown \in [Labels -> Pictures \cup {DefaultAvatar}]
  /\ avatarLoads \in 0..MaxAvatarLoads /\ errors \in 0..MaxErrors /\ asked \in [Ids -> SUBSET Pictures]
RestInv == RestTypeOK /\ LoadingIsDownloading /\ ShownIsAsked /\ FilesAsked /\ DownloadsAsked

LEMMA AvatarParts ==
  AvatarInv <=> RestInv /\ CacheTypeOK /\ CachedAsked /\ CacheIsOnDisk /\ FetchedInv
BY DEF AvatarInv, RestInv, RestTypeOK, AvatarTypeOK, CacheTypeOK

LEMMA AvatarPartsNext ==
  RestInv' /\ CacheTypeOK' /\ CachedAsked' /\ CacheIsOnDisk' /\ FetchedInv' => AvatarInv'
BY DEF AvatarInv, RestInv, RestTypeOK, AvatarTypeOK, CacheTypeOK

(* A file that is broken, and the others that stay.                        *)
LEMMA FileBreaks ==
  ASSUME RestTypeOK, NEW d \in Downloads, disk' \in {disk, [disk EXCEPT ![d.id][d.isGroup] = Broken]}
  PROVE  /\ disk' \in [Ids -> [BOOLEAN -> Pictures \cup {NoFile, Broken}]]
         /\ \A i \in Ids \ {d.id} : disk'[i] = disk[i]
         /\ \A i \in Ids, g \in BOOLEAN : disk'[i][g] \in {disk[i][g], Broken}
<1>1. d.id \in Ids /\ d.isGroup \in BOOLEAN
  BY DEF Downloads
<1>2. CASE disk' = disk
  BY <1>2 DEF RestTypeOK
<1>3. CASE disk' = [disk EXCEPT ![d.id][d.isGroup] = Broken]
  BY <1>1, <1>3 DEF RestTypeOK
<1> QED
  BY <1>2, <1>3

-----------------------------------------------------------------------------
(* The steps.                                                              *)

(* What a label shows after an event.                                      *)
LEMMA EventIsShown ==
  ASSUME RestTypeOK, NEW id \in Ids, NEW picture \in Pictures \cup {DefaultAvatar},
         NEW labels \in [Labels -> Pictures \cup {DefaultAvatar}],
         shown' = HandleAvatarLoadStatus(labels, id, picture),
         currentId' \in [Labels -> Ids \cup {NoId}],
         \A l \in Labels : labels[l] # DefaultAvatar => currentId'[l] # NoId /\ labels[l] \in asked'[currentId'[l]],
         picture # DefaultAvatar => picture \in asked'[id]
  PROVE  ShownIsAsked' /\ shown' \in [Labels -> Pictures \cup {DefaultAvatar}]
<1>1. shown' = [l \in Labels |-> IF currentId'[l] = id THEN picture ELSE labels[l]]
  BY DEF HandleAvatarLoadStatus
<1>2. id # NoId
  BY AvatarAssumption
<1> QED
  BY <1>1, <1>2 DEF ShownIsAsked

(* The end of a download, whatever came: the id may be asked for again.    *)
LEMMA DownloadEnds ==
  ASSUME RestInv, NEW d \in downloads, Finished(d), loadingAvatars' = loadingAvatars \ {d.id}
  PROVE  /\ LoadingIsDownloading' /\ DownloadsAsked'
         /\ loadingAvatars' \subseteq Ids /\ downloads' \subseteq Downloads
         /\ d.id \in loadingAvatars /\ d.id \notin loadingAvatars' /\ d \in Downloads
<1>1. d.id \in loadingAvatars /\ d \in Downloads /\ \A e \in downloads : d.id = e.id => d = e
  BY DEF RestInv, RestTypeOK, LoadingIsDownloading
<1>2. downloads' = downloads \ {d} /\ asked' = asked
  BY DEF Finished
<1>3. LoadingIsDownloading'
  BY <1>1, <1>2 DEF RestInv, LoadingIsDownloading
<1>4. DownloadsAsked'
  BY <1>2 DEF RestInv, DownloadsAsked
<1> QED
  BY <1>1, <1>2, <1>3, <1>4 DEF RestInv, RestTypeOK

LEMMA LoadAvatarKeeps ==
  ASSUME AvatarInv, LoadAvatar
  PROVE  AvatarInv'
<1> PICK l \in Labels \cup {NoLabel}, id \in Ids, p \in Pictures, isGroup \in BOOLEAN :
      LET labels == [k \in Labels |-> IF k = l THEN DefaultAvatar ELSE shown[k]]
          picture == IF Cached(id) THEN avatarCache[id] ELSE disk[id][isGroup]
      IN /\ avatarLoads < MaxAvatarLoads /\ avatarLoads' = avatarLoads + 1
         /\ asked' = [asked EXCEPT ![id] = @ \cup {p}]
         /\ currentId' = [k \in Labels |-> IF k = l THEN id ELSE currentId[k]]
         /\ \/ /\ Cached(id) \/ (id \notin loadingAvatars /\ OnDisk(id, isGroup))
               /\ IF Cached(id) THEN UNCHANGED avatarCache ELSE Put(id, picture)
               /\ shown' = HandleAvatarLoadStatus(labels, id, picture)
               /\ UNCHANGED <<loadingAvatars, downloads>>
            \/ /\ ~Cached(id) /\ id \in loadingAvatars
               /\ shown' = labels /\ UNCHANGED <<avatarCache, loadingAvatars, downloads>>
            \/ /\ ~Cached(id) /\ id \notin loadingAvatars /\ ~OnDisk(id, isGroup)
               /\ loadingAvatars' = loadingAvatars \cup {id}
               /\ downloads' = downloads \cup {[id |-> id, picture |-> p, isGroup |-> isGroup]}
               /\ shown' = labels /\ UNCHANGED avatarCache
         /\ UNCHANGED <<disk, errors>>
  BY DEF LoadAvatar
<1> DEFINE labels == [k \in Labels |-> IF k = l THEN DefaultAvatar ELSE shown[k]]
           picture == IF Cached(id) THEN avatarCache[id] ELSE disk[id][isGroup]
           fetch == [id |-> id, picture |-> p, isGroup |-> isGroup]
<1>1. /\ avatarLoads' = avatarLoads + 1 /\ avatarLoads < MaxAvatarLoads
      /\ asked' = [asked EXCEPT ![id] = @ \cup {p}]
      /\ currentId' = [k \in Labels |-> IF k = l THEN id ELSE currentId[k]]
      /\ disk' = disk /\ errors' = errors
  OBVIOUS
<1>2. RestInv /\ CacheTypeOK /\ CachedAsked /\ CacheIsOnDisk /\ FetchedInv
  BY AvatarParts
<1>3. /\ avatarLoads' \in 0..MaxAvatarLoads /\ errors' \in 0..MaxErrors /\ asked' \in [Ids -> SUBSET Pictures]
      /\ currentId' \in [Labels -> Ids \cup {NoId}] /\ disk' \in [Ids -> [BOOLEAN -> Pictures \cup {NoFile, Broken}]]
  BY <1>1, <1>2, AvatarAssumption DEF RestInv, RestTypeOK
<1>4. \A i \in Ids : asked[i] \subseteq asked'[i]
  BY <1>1, <1>2 DEF RestInv, RestTypeOK
<1>5. p \in asked'[id]
  BY <1>1, <1>2 DEF RestInv, RestTypeOK
<1>6. FilesAsked'
  BY <1>1, <1>2, <1>4 DEF RestInv, FilesAsked
<1>7. /\ labels \in [Labels -> Pictures \cup {DefaultAvatar}]
      /\ \A k \in Labels : labels[k] # DefaultAvatar => currentId'[k] # NoId /\ labels[k] \in asked'[currentId'[k]]
  BY <1>1, <1>2, <1>4 DEF RestInv, RestTypeOK, ShownIsAsked
<1>8. CASE /\ Cached(id) \/ (id \notin loadingAvatars /\ OnDisk(id, isGroup))
           /\ IF Cached(id) THEN UNCHANGED avatarCache ELSE Put(id, picture)
           /\ shown' = HandleAvatarLoadStatus(labels, id, picture)
           /\ UNCHANGED <<loadingAvatars, downloads>>
  <2>1. /\ picture \in Pictures /\ picture \in asked[id] /\ id \notin loadingAvatars
        /\ \E g \in BOOLEAN : disk[id][g] = picture
    <3>1. CASE Cached(id)
      <4>1. id \in CachedIn(avatarCache) /\ picture = avatarCache[id] /\ picture \in Pictures
        BY <1>2, <3>1 DEF Cached, CachedIn, CacheTypeOK
      <4> QED
        BY <1>2, <4>1 DEF CachedAsked, CacheIsOnDisk, FetchedInv
    <3>2. CASE ~Cached(id)
      BY <1>2, <1>8, <3>2 DEF OnDisk, RestInv, FilesAsked
    <3> QED
      BY <3>1, <3>2
  <2>2. picture \in asked'[id]
    BY <2>1, <1>4
  <2> HIDE DEF picture, labels
  <2>3. CacheTypeOK' /\ CachedAsked' /\ CacheIsOnDisk' /\ FetchedInv'
    <3>1. CASE Cached(id)
      BY <1>1, <1>2, <1>4, <1>8, <3>1, CacheStays DEF FetchedInv
    <3>2. CASE ~Cached(id)
      BY <1>1, <1>4, <1>8, <2>1, <2>2, <3>2, CacheAfterPut
    <3> QED
      BY <3>1, <3>2
  <2>4. ShownIsAsked' /\ shown' \in [Labels -> Pictures \cup {DefaultAvatar}]
    BY <1>2, <1>3, <1>7, <1>8, <2>1, <2>2, EventIsShown DEF RestInv
  <2>5. LoadingIsDownloading' /\ loadingAvatars' \subseteq Ids /\ downloads' \subseteq Downloads
    BY <1>2, <1>8 DEF RestInv, RestTypeOK, LoadingIsDownloading
  <2>6. DownloadsAsked'
    BY <1>2, <1>4, <1>8 DEF RestInv, RestTypeOK, DownloadsAsked, Downloads
  <2> QED
    BY <1>3, <1>6, <2>3, <2>4, <2>5, <2>6, AvatarPartsNext DEF RestInv, RestTypeOK
<1>9. CASE /\ ~Cached(id) /\ id \in loadingAvatars
           /\ shown' = labels /\ UNCHANGED <<avatarCache, loadingAvatars, downloads>>
  <2>1. CacheTypeOK' /\ CachedAsked' /\ CacheIsOnDisk' /\ FetchedInv'
    BY <1>1, <1>2, <1>4, <1>9, CacheStays DEF FetchedInv
  <2>2. ShownIsAsked' /\ shown' \in [Labels -> Pictures \cup {DefaultAvatar}]
    BY <1>7, <1>9 DEF ShownIsAsked
  <2>3. LoadingIsDownloading' /\ loadingAvatars' \subseteq Ids /\ downloads' \subseteq Downloads
    BY <1>2, <1>9 DEF RestInv, RestTypeOK, LoadingIsDownloading
  <2>4. DownloadsAsked'
    BY <1>2, <1>4, <1>9 DEF RestInv, RestTypeOK, DownloadsAsked, Downloads
  <2> QED
    BY <1>3, <1>6, <2>1, <2>2, <2>3, <2>4, AvatarPartsNext DEF RestInv, RestTypeOK
<1>10. CASE /\ ~Cached(id) /\ id \notin loadingAvatars /\ ~OnDisk(id, isGroup)
            /\ loadingAvatars' = loadingAvatars \cup {id}
            /\ downloads' = downloads \cup {fetch}
            /\ shown' = labels /\ UNCHANGED avatarCache
  <2>1. CacheTypeOK' /\ CachedAsked' /\ CacheIsOnDisk' /\ FetchedInv'
    <3>1. \A i \in CachedIn(avatarCache) : i \notin loadingAvatars'
      BY <1>2, <1>10 DEF Cached, FetchedInv
    <3> QED
      BY <1>1, <1>4, <1>10, <3>1, CacheStays
  <2>2. ShownIsAsked' /\ shown' \in [Labels -> Pictures \cup {DefaultAvatar}]
    BY <1>7, <1>10 DEF ShownIsAsked
  <2>3. fetch \in Downloads /\ fetch.id = id /\ fetch.picture = p
    BY DEF Downloads
  <2> HIDE DEF fetch
  <2>4. loadingAvatars' \subseteq Ids /\ downloads' \subseteq Downloads
    BY <1>2, <1>10, <2>3 DEF RestInv, RestTypeOK
  <2>5. LoadingIsDownloading'
    BY <1>2, <1>10, <2>3 DEF RestInv, LoadingIsDownloading
  <2>6. DownloadsAsked'
    BY <1>2, <1>4, <1>5, <1>10, <2>3 DEF RestInv, RestTypeOK, DownloadsAsked, Downloads
  <2> QED
    BY <1>3, <1>6, <2>1, <2>2, <2>4, <2>5, <2>6, AvatarPartsNext DEF RestInv, RestTypeOK
<1> QED
  BY <1>8, <1>9, <1>10

LEMMA ProcessDownloadedAvatarKeeps ==
  ASSUME AvatarInv, NEW d \in downloads, ProcessDownloadedAvatar(d)
  PROVE  AvatarInv'
<1>1. /\ Finished(d) /\ loadingAvatars' = loadingAvatars \ {d.id}
      /\ disk' = [disk EXCEPT ![d.id][d.isGroup] = d.picture]
      /\ Put(d.id, d.picture)
      /\ shown' = HandleAvatarLoadStatus(shown, d.id, d.picture)
      /\ errors' = errors
  BY DEF ProcessDownloadedAvatar
<1>2. RestInv /\ CacheTypeOK /\ CachedAsked /\ CacheIsOnDisk /\ FetchedInv
  BY AvatarParts
<1>3. /\ LoadingIsDownloading' /\ DownloadsAsked'
      /\ loadingAvatars' \subseteq Ids /\ downloads' \subseteq Downloads
      /\ d.id \in loadingAvatars /\ d.id \notin loadingAvatars' /\ d \in Downloads
  BY <1>1, <1>2, DownloadEnds
<1>4. currentId' = currentId /\ avatarLoads' = avatarLoads /\ asked' = asked
  BY <1>1 DEF Finished
<1>5. d.id \in Ids /\ d.picture \in Pictures /\ d.isGroup \in BOOLEAN /\ d.picture \in asked[d.id]
  BY <1>2, <1>3 DEF Downloads, RestInv, DownloadsAsked
<1>6. /\ disk' \in [Ids -> [BOOLEAN -> Pictures \cup {NoFile, Broken}]]
      /\ disk'[d.id][d.isGroup] = d.picture
      /\ \A i \in Ids \ {d.id} : disk'[i] = disk[i]
      /\ \A g \in BOOLEAN : g # d.isGroup => disk'[d.id][g] = disk[d.id][g]
  BY <1>1, <1>2, <1>5 DEF RestInv, RestTypeOK
<1>7. CacheTypeOK' /\ CachedAsked' /\ CacheIsOnDisk' /\ FetchedInv'
  BY <1>1, <1>3, <1>4, <1>5, <1>6, CacheAfterPut
<1>8. ShownIsAsked' /\ shown' \in [Labels -> Pictures \cup {DefaultAvatar}]
  BY <1>1, <1>2, <1>4, <1>5, EventIsShown DEF RestInv, RestTypeOK, ShownIsAsked
<1>9. FilesAsked'
  BY <1>2, <1>4, <1>5, <1>6 DEF RestInv, FilesAsked
<1> QED
  BY <1>1, <1>2, <1>3, <1>4, <1>6, <1>7, <1>8, <1>9, AvatarPartsNext DEF RestInv, RestTypeOK

(* A download that ends without a picture.                                 *)
LEMMA DownloadIsLost ==
  ASSUME AvatarInv, NEW d \in downloads, Finished(d), loadingAvatars' = loadingAvatars \ {d.id},
         disk' \in {disk, [disk EXCEPT ![d.id][d.isGroup] = Broken]},
         avatarCache' = avatarCache, errors' \in 0..MaxErrors,
         shown' = shown \/ shown' = HandleAvatarLoadStatus(shown, d.id, DefaultAvatar)
  PROVE  AvatarInv'
<1>2. RestInv /\ CacheTypeOK /\ CachedAsked /\ CacheIsOnDisk /\ FetchedInv
  BY AvatarParts
<1>3. /\ LoadingIsDownloading' /\ DownloadsAsked'
      /\ loadingAvatars' \subseteq Ids /\ downloads' \subseteq Downloads
      /\ d.id \in loadingAvatars /\ d.id \notin loadingAvatars' /\ d \in Downloads
  BY <1>2, DownloadEnds
<1>4. currentId' = currentId /\ avatarLoads' = avatarLoads /\ asked' = asked
  BY DEF Finished
<1>5. d.id \in Ids /\ d.isGroup \in BOOLEAN /\ Broken \notin Pictures
  BY <1>3, AvatarAssumption DEF Downloads
<1>6. /\ disk' \in [Ids -> [BOOLEAN -> Pictures \cup {NoFile, Broken}]]
      /\ \A i \in Ids \ {d.id} : disk'[i] = disk[i]
      /\ \A i \in Ids, g \in BOOLEAN : disk'[i][g] \in {disk[i][g], Broken}
  BY <1>2, <1>3, FileBreaks DEF RestInv
<1>7. \A i \in CachedIn(avatarCache) : i \in Ids \ {d.id} /\ i \notin loadingAvatars'
  BY <1>2, <1>3 DEF FetchedInv, CachedIn
<1>8. CacheTypeOK' /\ CachedAsked' /\ CacheIsOnDisk' /\ FetchedInv'
  BY <1>4, <1>6, <1>7, CacheStays
<1>9. ShownIsAsked' /\ shown' \in [Labels -> Pictures \cup {DefaultAvatar}]
  <2>1. CASE shown' = shown
    BY <1>2, <1>4, <2>1 DEF RestInv, RestTypeOK, ShownIsAsked
  <2>2. CASE shown' = HandleAvatarLoadStatus(shown, d.id, DefaultAvatar)
    BY <1>2, <1>4, <1>5, <2>2, EventIsShown DEF RestInv, RestTypeOK, ShownIsAsked
  <2> QED
    BY <2>1, <2>2
<1>10. FilesAsked'
  BY <1>2, <1>4, <1>5, <1>6 DEF RestInv, FilesAsked
<1> QED
  BY <1>2, <1>3, <1>4, <1>6, <1>8, <1>9, <1>10, AvatarPartsNext DEF RestInv, RestTypeOK

LEMMA RestartProgramKeeps ==
  ASSUME AvatarInv, RestartProgram
  PROVE  AvatarInv'
<1>1. /\ errors < MaxErrors /\ errors' = errors + 1
      /\ \/ disk' = disk
         \/ \E d \in downloads : disk' = [disk EXCEPT ![d.id][d.isGroup] = Broken]
      /\ avatarCache' = [i \in Ids |-> NotCached] /\ loadingAvatars' = {} /\ downloads' = {}
      /\ currentId' = [l \in Labels |-> NoId] /\ shown' = [l \in Labels |-> DefaultAvatar]
      /\ avatarLoads' = avatarLoads /\ asked' = asked
  BY DEF RestartProgram
<1>2. RestInv
  BY AvatarParts
<1>3. Broken \notin Pictures /\ MaxErrors \in Nat /\ maxMemoryItems \in Nat
  BY AvatarAssumption
<1>4. /\ disk' \in [Ids -> [BOOLEAN -> Pictures \cup {NoFile, Broken}]]
      /\ \A i \in Ids, g \in BOOLEAN : disk'[i][g] \in {disk[i][g], Broken}
  <2>1. CASE disk' = disk
    BY <1>2, <2>1 DEF RestInv, RestTypeOK
  <2>2. ASSUME NEW d \in downloads, disk' = [disk EXCEPT ![d.id][d.isGroup] = Broken]
        PROVE  /\ disk' \in [Ids -> [BOOLEAN -> Pictures \cup {NoFile, Broken}]]
               /\ \A i \in Ids, g \in BOOLEAN : disk'[i][g] \in {disk[i][g], Broken}
    <3>1. d \in Downloads
      BY <1>2 DEF RestInv, RestTypeOK
    <3> QED
      BY <1>2, <2>2, <3>1, FileBreaks DEF RestInv
  <2> QED
    BY <1>1, <2>1, <2>2
<1>5. CacheTypeOK' /\ CachedAsked' /\ CacheIsOnDisk' /\ FetchedInv'
  <2>1. CachedIn(avatarCache') = {} /\ Cardinality({}) = 0
    BY <1>1, FS_EmptySet DEF CachedIn
  <2> QED
    BY <1>1, <1>3, <2>1 DEF CacheTypeOK, CachedAsked, CacheIsOnDisk, FetchedInv
<1>6. FilesAsked'
  BY <1>1, <1>2, <1>3, <1>4 DEF RestInv, FilesAsked
<1>7. LoadingIsDownloading' /\ DownloadsAsked' /\ ShownIsAsked'
  BY <1>1 DEF LoadingIsDownloading, DownloadsAsked, ShownIsAsked
<1>8. RestTypeOK'
  BY <1>1, <1>2, <1>3, <1>4 DEF RestInv, RestTypeOK
<1> QED
  BY <1>5, <1>6, <1>7, <1>8, AvatarPartsNext DEF RestInv

LEMMA AvatarInitEstablishes == AvatarInit => AvatarInv
<1> SUFFICES ASSUME AvatarInit PROVE AvatarInv
  OBVIOUS
<1>1. maxMemoryItems \in Nat /\ MaxAvatarLoads \in Nat /\ MaxErrors \in Nat /\ NoFile \notin Pictures
  BY AvatarAssumption
<1>2. CacheTypeOK /\ CachedAsked /\ CacheIsOnDisk /\ FetchedInv
  <2>1. CachedIn(avatarCache) = {} /\ Cardinality({}) = 0
    BY FS_EmptySet DEF AvatarInit, CachedIn
  <2> QED
    BY <1>1, <2>1 DEF AvatarInit, CacheTypeOK, CachedAsked, CacheIsOnDisk, FetchedInv
<1>3. RestInv
  BY <1>1 DEF AvatarInit, RestInv, RestTypeOK, LoadingIsDownloading, ShownIsAsked, FilesAsked, DownloadsAsked
<1> QED
  BY <1>2, <1>3, AvatarParts

(* The invariant of caches, labels and downloads: every step of            *)
(* AvatarLoader.cpp keeps it.                                              *)
THEOREM AvatarInductive == AvatarSpec => []AvatarInv
<1>1. AvatarInit => AvatarInv
  BY AvatarInitEstablishes
<1>2. AvatarInv /\ [AvatarNext]_avatarVars => AvatarInv'
  <2> SUFFICES ASSUME AvatarInv, [AvatarNext]_avatarVars PROVE AvatarInv'
    OBVIOUS
  <2>1. CASE LoadAvatar
    BY <2>1, LoadAvatarKeeps
  <2>3. CASE RestartProgram
    BY <2>3, RestartProgramKeeps
  <2>4. ASSUME NEW d \in downloads, ProcessDownloadedAvatar(d) PROVE AvatarInv'
    BY <2>4, ProcessDownloadedAvatarKeeps
  <2>5. errors < MaxErrors => errors + 1 \in 0..MaxErrors
    BY AvatarAssumption DEF AvatarInv, AvatarTypeOK
  <2>6. ASSUME NEW d \in downloads, DownloadFails(d) PROVE AvatarInv'
    BY <2>5, <2>6, DownloadIsLost DEF DownloadFails
  <2>7. ASSUME NEW d \in downloads, FileUnreadable(d) PROVE AvatarInv'
    BY <2>5, <2>7, DownloadIsLost DEF FileUnreadable
  <2>8. CASE UNCHANGED avatarVars
    BY <2>8 DEF avatarVars, AvatarInv, AvatarTypeOK, LoadingIsDownloading, ShownIsAsked, CachedIn,
                CacheIsOnDisk, CachedAsked, FilesAsked, DownloadsAsked, FetchedInv
  <2> QED
    BY <2>1, <2>3, <2>4, <2>6, <2>7, <2>8 DEF AvatarNext
<1> QED
  BY <1>1, <1>2, PTL DEF AvatarSpec

(* For any number of labels, pictures and faults: a picture is fetched     *)
(* once at a time, a label shows the default or a picture of the id it     *)
(* has now, and what is evicted from memory is still in a file.            *)
THEOREM PicturesStay == AvatarSpec => []PicturesAreOfTheirId
<1>1. AvatarInv => PicturesAreOfTheirId
  BY DEF AvatarInv, PicturesAreOfTheirId
<1> QED
  BY <1>1, AvatarInductive, PTL

(***************************************************************************)
(* PostDetail: what is opened, listed and written belongs to the post that *)
(* was clicked.                                                            *)
(***************************************************************************)

GetRecord  == [post : Shown, served : BOOLEAN, comments : Seq(Comments), dismissed : BOOLEAN]
ViewRecord == [post : Shown, comments : Seq(Entries), count : Nat]
SendRecord == [post : Shown, text : Comments, served : BOOLEAN]
DetailTypes ==
  /\ overlay \in BOOLEAN /\ closing \in BOOLEAN /\ late \in BOOLEAN
  /\ detail = NoDetail \/ \E v \in ViewRecord : detail = <<v>>
  /\ gets \in Seq(GetRecord) /\ commentSends \subseteq SendRecord
  /\ serverComments \in [Shown -> Seq(Comments)]
  /\ clicks \in 0..MaxGets /\ detailFaults \in 0..MaxDetailFaults
  /\ clicked \in Shown \cup {NoPost} /\ written \subseteq Entries

(* The comments t are of a post, each was written under it and is there    *)
(* once.                                                                   *)
WrittenOnce(p, t) ==
  \A i, j \in 1..Len(t) : /\ [post |-> p, text |-> t[i]] \in written
                          /\ t[i] = t[j] => i = j

(* Each request, the server and the view know comments that were written,  *)
(* and what is not with the server yet is not there under another request. *)
ServerKnows == \A p \in Shown : WrittenOnce(p, serverComments[p])
GetsKnow    == \A i \in 1..Len(gets) : WrittenOnce(gets[i].post, gets[i].comments)
ViewKnows   == Open => \A i \in 1..Len(View.comments) : View.comments[i] \in written
SendsAreNew ==
  \A c \in commentSends :
    /\ [post |-> c.post, text |-> c.text] \in written
    /\ ~c.served => \A i \in 1..Total(c.post) : serverComments[c.post][i] # c.text

(* At most one request is of the overlay there is, for the post that was   *)
(* clicked, and when it has opened the view there is none.                 *)
GetIsClicked ==
  \A i \in 1..Len(gets) : ~gets[i].dismissed =>
    /\ overlay /\ gets[i].post = clicked
    /\ Open => late
    /\ \A j \in 1..Len(gets) : ~gets[j].dismissed => i = j

DetailInv ==
  /\ DetailTypes
  /\ DetailIsClicked /\ GetIsClicked
  /\ CommentsAreOfPost
  /\ ServerKnows /\ GetsKnow /\ ViewKnows /\ SendsAreNew

-----------------------------------------------------------------------------
(* Requests for posts.                                                     *)

(* A request is answered or fails; the others stay, in their order.        *)
LEMMA GetIsRemoved ==
  ASSUME DetailInv, NEW i \in 1..Len(gets), gets' = RemoveAt(gets, i), written' = written
  PROVE  /\ gets' \in Seq(GetRecord) /\ GetsKnow'
         /\ \A k \in 1..Len(gets') : LET m == IF k < i THEN k ELSE k + 1
                                     IN m \in 1..Len(gets) /\ m # i /\ gets'[k] = gets[m]
<1>1. gets \in Seq(GetRecord) /\ Len(gets) \in Nat
  BY DEF DetailInv, DetailTypes
<1>2. /\ gets' \in Seq(GetRecord) /\ Len(gets') = Len(gets) - 1
      /\ \A k \in 1..(Len(gets) - 1) : gets'[k] = gets[IF k < i THEN k ELSE k + 1]
  BY <1>1, RemoveAtKeeps
<1>3. \A k \in 1..Len(gets') : LET m == IF k < i THEN k ELSE k + 1
                               IN m \in 1..Len(gets) /\ m # i /\ gets'[k] = gets[m]
  BY <1>1, <1>2
<1>4. GetsKnow'
  BY <1>3 DEF DetailInv, GetsKnow, WrittenOnce
<1> QED
  BY <1>2, <1>3, <1>4

LEMMA RemainingAreClicked ==
  ASSUME DetailInv, NEW i \in 1..Len(gets), gets' = RemoveAt(gets, i), written' = written,
         overlay' = overlay, clicked' = clicked,
         (\E j \in 1..Len(gets) \ {i} : ~gets[j].dismissed) => (Open => late)'
  PROVE  GetIsClicked'
<1>1. \A k \in 1..Len(gets') : LET m == IF k < i THEN k ELSE k + 1
                               IN m \in 1..Len(gets) /\ m # i /\ gets'[k] = gets[m]
  BY GetIsRemoved
<1> SUFFICES ASSUME NEW k \in 1..Len(gets'), ~gets'[k].dismissed
             PROVE  /\ overlay /\ gets'[k].post = clicked
                    /\ (Open => late)'
                    /\ \A l \in 1..Len(gets') : ~gets'[l].dismissed => k = l
  BY DEF GetIsClicked
<1> DEFINE m(n) == IF n < i THEN n ELSE n + 1
<1>2. \A n \in 1..Len(gets') : m(n) \in 1..Len(gets) /\ m(n) # i /\ gets'[n] = gets[m(n)]
  BY <1>1
<1>3. \A n \in 1..Len(gets') : ~gets'[n].dismissed => m(k) = m(n)
  BY <1>2 DEF DetailInv, GetIsClicked
<1>4. \A n \in 1..Len(gets') : n \in Int /\ i \in Int
  BY GetIsRemoved
<1>5. \A n \in 1..Len(gets') : m(k) = m(n) => k = n
  BY <1>4
<1>6. (Open => late)'
  BY <1>2
<1> HIDE DEF m
<1> QED
  BY <1>2, <1>3, <1>5, <1>6 DEF DetailInv, GetIsClicked

(* The overlay is taken away.                                              *)
LEMMA AllAreDismissed ==
  ASSUME DetailInv, gets' = Dismissed, written' = written
  PROVE  gets' \in Seq(GetRecord) /\ GetsKnow' /\ GetIsClicked'
<1>1. gets \in Seq(GetRecord) /\ Len(gets) \in Nat
  BY DEF DetailInv, DetailTypes
<1>2. gets' = [i \in 1..Len(gets) |-> [gets[i] EXCEPT !.dismissed = TRUE]]
  BY DEF Dismissed
<1>3. \A i \in 1..Len(gets) :
        LET g == [gets[i] EXCEPT !.dismissed = TRUE]
        IN g \in GetRecord /\ g.dismissed /\ g.post = gets[i].post /\ g.comments = gets[i].comments
  <2> TAKE i \in 1..Len(gets)
  <2>1. gets[i] \in GetRecord
    BY <1>1
  <2> QED
    BY <2>1 DEF GetRecord
<1>4. gets' \in Seq(GetRecord) /\ Len(gets') = Len(gets)
  BY <1>1, <1>2, <1>3
<1>5. \A i \in 1..Len(gets') : gets'[i].dismissed /\ gets'[i].post = gets[i].post
                               /\ gets'[i].comments = gets[i].comments
  BY <1>2, <1>3, <1>4
<1>6. GetsKnow'
  BY <1>4, <1>5 DEF DetailInv, GetsKnow, WrittenOnce
<1>7. GetIsClicked'
  BY <1>5 DEF GetIsClicked
<1> QED
  BY <1>4, <1>6, <1>7

(* The parts that a step leaves alone.                                     *)
LEMMA ServerUnchanged ==
  ASSUME DetailInv, UNCHANGED <<serverComments, written>>, commentSends' \subseteq commentSends
  PROVE  /\ serverComments' \in [Shown -> Seq(Comments)] /\ written' \subseteq Entries
         /\ commentSends' \subseteq SendRecord
         /\ ServerKnows' /\ SendsAreNew'
<1>1. ServerKnows'
  BY DEF DetailInv, ServerKnows, WrittenOnce
<1>2. SendsAreNew'
  BY DEF DetailInv, SendsAreNew, Total
<1> QED
  BY <1>1, <1>2 DEF DetailInv, DetailTypes

LEMMA ViewUnchanged ==
  ASSUME DetailInv, UNCHANGED <<detail, late, written>>
  PROVE  /\ detail' = NoDetail \/ \E v \in ViewRecord : detail' = <<v>>
         /\ late' \in BOOLEAN
         /\ CommentsAreOfPost' /\ ViewKnows'
BY DEF DetailInv, DetailTypes, CommentsAreOfPost, ViewKnows, Open, View

(* The view, if there is one.                                              *)
LEMMA ViewHasType ==
  ASSUME DetailInv, Open
  PROVE  View \in ViewRecord /\ detail = <<View>>
BY DEF DetailInv, DetailTypes, Open, View

LEMMA OpenIs == ASSUME NEW v, detail' = <<v>> PROVE Open' /\ View' = v
BY DEF Open, View, NoDetail

(* What setPostData shows of a list: all of it, in the other order.        *)
LEMMA ReversedList ==
  ASSUME NEW p \in Shown, NEW t \in Seq(Comments), WrittenOnce(p, t)
  PROVE  LET r == Reverse([i \in 1..Len(t) |-> [post |-> p, text |-> t[i]]])
         IN /\ r \in Seq(Entries) /\ Len(r) = Len(t)
            /\ \A i \in 1..Len(t) : r[i].post = p /\ r[i] \in written
            /\ \A i, j \in 1..Len(t) : r[i] = r[j] => i = j
<1> DEFINE n == Len(t)
           s == [i \in 1..n |-> [post |-> p, text |-> t[i]]]
           r == Reverse(s)
<1>1. n \in Nat /\ \A i \in 1..n : t[i] \in Comments
  OBVIOUS
<1>2. s \in Seq(Entries) /\ Len(s) = n
  BY <1>1 DEF Entries
<1>3. r = [i \in 1..n |-> s[(n - i) + 1]]
  BY <1>2 DEF Reverse
<1>4. \A i \in 1..n : (n - i) + 1 \in 1..n /\ r[i] = [post |-> p, text |-> t[(n - i) + 1]]
  BY <1>1, <1>3
<1> HIDE DEF s
<1>5. r \in Seq(Entries) /\ Len(r) = n
  <2>1. \A i \in 1..n : s[(n - i) + 1] \in Entries
    BY <1>1, <1>2
  <2> HIDE DEF r
  <2> QED
    BY <1>1, <1>3, <2>1
<1> HIDE DEF r
<1>6. \A i \in 1..n : r[i].post = p /\ r[i].text = t[(n - i) + 1] /\ r[i] \in written
  <2> TAKE i \in 1..n
  <2> DEFINE k == (n - i) + 1
  <2>1. k \in 1..n /\ r[i] = [post |-> p, text |-> t[k]]
    BY <1>4
  <2>2. [post |-> p, text |-> t[k]] \in written
    BY <2>1 DEF WrittenOnce
  <2> QED
    BY <2>1, <2>2
<1> HIDE DEF n
<1>7. ASSUME NEW i \in 1..n, NEW j \in 1..n, r[i] = r[j] PROVE i = j
  <2>1. t[(n - i) + 1] = t[(n - j) + 1]
    BY <1>6, <1>7
  <2>2. (n - i) + 1 = (n - j) + 1
    BY <1>4, <2>1 DEF WrittenOnce, n
  <2> QED
    BY <1>1, <2>2
<1> QED
  BY <1>5, <1>6, <1>7 DEF r, s, n

-----------------------------------------------------------------------------
(* The steps.                                                              *)

LEMMA OnPostClickedKeeps ==
  ASSUME DetailInv, OnPostClicked
  PROVE  DetailInv'
<1>1. PICK p \in Shown : /\ gets' = Append(gets, [post |-> p, served |-> FALSE, comments |-> <<>>, dismissed |-> FALSE])
                         /\ clicked' = p
  BY DEF OnPostClicked
<1>2. /\ ~overlay /\ clicks < MaxGets /\ clicks' = clicks + 1 /\ overlay' = TRUE
      /\ UNCHANGED <<detail, closing, commentSends, serverComments, detailFaults, written, late>>
  BY DEF OnPostClicked
<1> DEFINE g == [post |-> p, served |-> FALSE, comments |-> <<>>, dismissed |-> FALSE]
<1>3. g \in GetRecord /\ ~g.dismissed /\ g.post = p /\ g.comments = <<>>
  BY DEF GetRecord
<1> HIDE DEF g
<1>4. gets \in Seq(GetRecord) /\ Len(gets) \in Nat /\ MaxGets \in Nat /\ clicks \in 0..MaxGets
  BY PostDetailAssumption DEF DetailInv, DetailTypes
<1>5. /\ gets' \in Seq(GetRecord) /\ Len(gets') = Len(gets) + 1
      /\ gets'[Len(gets) + 1] = g /\ \A i \in 1..Len(gets) : gets'[i] = gets[i]
  BY <1>1, <1>3, <1>4, AppendProperties DEF g
<1>6. \A i \in 1..Len(gets) : gets[i].dismissed
  BY <1>2 DEF DetailInv, GetIsClicked
<1>7. Open => late
  BY <1>2 DEF DetailInv, DetailIsClicked
<1>8. /\ serverComments' \in [Shown -> Seq(Comments)] /\ written' \subseteq Entries
      /\ commentSends' \subseteq SendRecord /\ ServerKnows' /\ SendsAreNew'
  BY <1>2, ServerUnchanged
<1>9. /\ detail' = NoDetail \/ \E v \in ViewRecord : detail' = <<v>>
      /\ late' \in BOOLEAN /\ CommentsAreOfPost' /\ ViewKnows'
  BY <1>2, ViewUnchanged
<1>10. DetailTypes'
  BY <1>1, <1>2, <1>4, <1>5, <1>8, <1>9 DEF DetailInv, DetailTypes
<1>11. DetailIsClicked'
  BY <1>2, <1>7 DEF DetailIsClicked, Open
<1>12. GetsKnow'
  <2> SUFFICES ASSUME NEW i \in 1..Len(gets') PROVE WrittenOnce(gets'[i].post, gets'[i].comments)
    BY <1>2 DEF GetsKnow, WrittenOnce
  <2>1. CASE i = Len(gets) + 1
    BY <1>3, <1>5, <2>1 DEF WrittenOnce
  <2>2. CASE i \in 1..Len(gets)
    BY <1>5, <2>2 DEF DetailInv, GetsKnow
  <2> QED
    BY <1>4, <1>5, <2>1, <2>2
<1>13. GetIsClicked'
  <2>1. \A i \in 1..Len(gets') : ~gets'[i].dismissed => i = Len(gets) + 1
    BY <1>4, <1>5, <1>6
  <2>2. gets'[Len(gets) + 1].post = clicked'
    BY <1>1, <1>3, <1>5
  <2> QED
    BY <1>2, <1>7, <2>1, <2>2 DEF GetIsClicked, Open
<1> QED
  BY <1>8, <1>9, <1>10, <1>11, <1>12, <1>13 DEF DetailInv

LEMMA ServeGetKeeps ==
  ASSUME DetailInv, NEW i, ServeGet(i)
  PROVE  DetailInv'
<1>1. /\ i \in 1..Len(gets)
      /\ gets' = [gets EXCEPT ![i].served = TRUE, ![i].comments = serverComments[gets[i].post]]
      /\ UNCHANGED <<overlay, detail, closing, commentSends, serverComments, clicks, detailFaults, clicked, written, late>>
  BY DEF ServeGet
<1>2. gets \in Seq(GetRecord) /\ Len(gets) \in Nat /\ gets[i] \in GetRecord
  BY <1>1 DEF DetailInv, DetailTypes
<1>3. gets[i].post \in Shown /\ serverComments[gets[i].post] \in Seq(Comments)
  BY <1>2 DEF DetailInv, DetailTypes, GetRecord
<1> DEFINE g == [gets[i] EXCEPT !.served = TRUE, !.comments = serverComments[gets[i].post]]
<1>4. /\ g \in GetRecord /\ g.post = gets[i].post /\ g.dismissed = gets[i].dismissed
      /\ g.comments = serverComments[gets[i].post]
  BY <1>2, <1>3 DEF GetRecord
<1>5. gets' = [gets EXCEPT ![i] = g]
  BY <1>1, <1>2 DEF GetRecord
<1> HIDE DEF g
<1>6. /\ gets' \in Seq(GetRecord) /\ Len(gets') = Len(gets) /\ gets'[i] = g
      /\ \A j \in 1..Len(gets) : j # i => gets'[j] = gets[j]
  <2>1. i \in 1..Len(gets)
    BY <1>1
  <2> QED
    BY <2>1, <1>2, <1>4, <1>5
<1>7. /\ serverComments' \in [Shown -> Seq(Comments)] /\ written' \subseteq Entries
      /\ commentSends' \subseteq SendRecord /\ ServerKnows' /\ SendsAreNew'
  BY <1>1, ServerUnchanged
<1>8. /\ detail' = NoDetail \/ \E v \in ViewRecord : detail' = <<v>>
      /\ late' \in BOOLEAN /\ CommentsAreOfPost' /\ ViewKnows'
  BY <1>1, ViewUnchanged
<1>9. DetailTypes'
  BY <1>1, <1>6, <1>7, <1>8 DEF DetailInv, DetailTypes
<1>10. DetailIsClicked'
  BY <1>1 DEF DetailInv, DetailIsClicked, Open, View
<1>11. GetsKnow'
  <2> SUFFICES ASSUME NEW j \in 1..Len(gets') PROVE WrittenOnce(gets'[j].post, gets'[j].comments)
    BY <1>1 DEF GetsKnow, WrittenOnce
  <2>1. CASE j = i
    BY <1>3, <1>4, <1>6, <2>1 DEF DetailInv, ServerKnows
  <2>2. CASE j # i
    BY <1>6, <2>2 DEF DetailInv, GetsKnow
  <2> QED
    BY <2>1, <2>2
<1>12. \A j \in 1..Len(gets) : gets'[j].dismissed = gets[j].dismissed /\ gets'[j].post = gets[j].post
  BY <1>4, <1>6
<1>13. GetIsClicked'
  BY <1>1, <1>6, <1>12 DEF DetailInv, GetIsClicked, Open
<1> QED
  BY <1>7, <1>8, <1>9, <1>10, <1>11, <1>13 DEF DetailInv

LEMMA DetailFaultIsCounted ==
  ASSUME DetailInv, DetailFault
  PROVE  detailFaults' \in 0..MaxDetailFaults
BY PostDetailAssumption DEF DetailInv, DetailTypes, DetailFault

LEMMA GetSucceedsKeeps ==
  ASSUME DetailInv, NEW i, GetSucceeds(i)
  PROVE  DetailInv'
<1>1. /\ i \in 1..Len(gets) /\ gets' = RemoveAt(gets, i)
      /\ detail' = <<SetPostData(IF Open THEN View.comments ELSE <<>>, gets[i].post, gets[i].comments)>>
      /\ late' = (late \/ gets[i].dismissed)
      /\ UNCHANGED <<overlay, closing, commentSends, serverComments, clicks, detailFaults, clicked, written>>
  BY DEF GetSucceeds
<1> DEFINE p == gets[i].post
           t == gets[i].comments
           before == IF Open THEN View.comments ELSE <<>>
           r == Reverse([k \in 1..Len(t) |-> [post |-> p, text |-> t[k]]])
           v == [post |-> p, comments |-> before \o r, count |-> Len(t)]
<1>2. p \in Shown /\ t \in Seq(Comments) /\ WrittenOnce(p, t) /\ gets[i].dismissed \in BOOLEAN /\ late \in BOOLEAN
  <2>1. gets[i] \in GetRecord /\ late \in BOOLEAN
    BY <1>1 DEF DetailInv, DetailTypes
  <2>2. WrittenOnce(p, t)
    BY <1>1 DEF DetailInv, GetsKnow
  <2> QED
    BY <2>1, <2>2 DEF GetRecord
<1>3. /\ r \in Seq(Entries) /\ Len(r) = Len(t)
      /\ \A k \in 1..Len(t) : r[k].post = p /\ r[k] \in written
      /\ \A j, k \in 1..Len(t) : r[j] = r[k] => j = k
  BY <1>2, ReversedList
<1>4. before \in Seq(Entries) /\ \A k \in 1..Len(before) : before[k] \in written
  BY ViewHasType DEF ViewRecord, DetailInv, ViewKnows
<1>5. detail' = <<v>>
  BY <1>1 DEF SetPostData
<1> HIDE DEF r, before, p
<1>6. /\ before \o r \in Seq(Entries) /\ Len(before \o r) = Len(before) + Len(r)
      /\ \A k \in 1..(Len(before) + Len(r)) : (before \o r)[k] = IF k <= Len(before) THEN before[k] ELSE r[k - Len(before)]
  BY <1>3, <1>4, ConcatProperties
<1>7. v \in ViewRecord /\ v.post = p /\ v.comments = before \o r /\ v.count = Len(t)
  BY <1>2, <1>6 DEF ViewRecord
<1> HIDE DEF t, v
<1>8. Open' /\ View' = v
  BY <1>5, OpenIs
<1>9. ViewKnows'
  <2> SUFFICES ASSUME NEW k \in 1..Len(v.comments) PROVE v.comments[k] \in written
    BY <1>1, <1>8 DEF ViewKnows
  <2>1. Len(before) \in Nat /\ Len(r) \in Nat /\ k \in 1..(Len(before) + Len(r))
    BY <1>3, <1>4, <1>6, <1>7
  <2>2. CASE k <= Len(before)
    BY <1>4, <1>6, <1>7, <2>1, <2>2
  <2>3. CASE ~(k <= Len(before))
    <3>1. k - Len(before) \in 1..Len(t)
      BY <1>3, <2>1, <2>3
    <3> QED
      BY <1>3, <1>6, <1>7, <2>1, <2>3, <3>1
  <2> QED
    BY <2>2, <2>3
<1>10. ~late' => overlay /\ p = clicked /\ ~Open
  BY <1>1, <1>2 DEF DetailInv, GetIsClicked, p
<1>11. DetailIsClicked'
  BY <1>1, <1>7, <1>8, <1>10 DEF DetailIsClicked
<1>12. CommentsAreOfPost'
  <2> SUFFICES ASSUME ~late' PROVE /\ v.count = Len(v.comments)
                                   /\ \A j, k \in 1..Len(v.comments) : /\ v.comments[j].post = v.post
                                                                       /\ v.comments[j] = v.comments[k] => j = k
    BY <1>8 DEF CommentsAreOfPost
  <2>1. before = <<>>
    BY <1>10 DEF before
  <2>2. before \o r = r
    BY <1>3, <2>1
  <2> QED
    BY <1>3, <1>7, <2>2
<1>13. gets' \in Seq(GetRecord) /\ GetsKnow'
  BY <1>1, GetIsRemoved
<1>14. GetIsClicked'
  <2>1. (\E j \in 1..Len(gets) \ {i} : ~gets[j].dismissed) => late'
    BY <1>1, <1>2 DEF DetailInv, GetIsClicked
  <2> QED
    BY <1>1, <2>1, RemainingAreClicked
<1>15. /\ serverComments' \in [Shown -> Seq(Comments)] /\ written' \subseteq Entries
       /\ commentSends' \subseteq SendRecord /\ ServerKnows' /\ SendsAreNew'
  BY <1>1, ServerUnchanged
<1>16. late' \in BOOLEAN
  BY <1>1, <1>2
<1>17. DetailTypes'
  BY <1>1, <1>5, <1>7, <1>13, <1>15, <1>16 DEF DetailInv, DetailTypes
<1> QED
  BY <1>9, <1>11, <1>12, <1>13, <1>14, <1>15, <1>17 DEF DetailInv

LEMMA GetFailsKeeps ==
  ASSUME DetailInv, NEW i, GetFails(i)
  PROVE  DetailInv'
<1>1. /\ i \in 1..Len(gets) /\ gets' = RemoveAt(gets, i)
      /\ UNCHANGED <<overlay, detail, closing, commentSends, serverComments, clicks, clicked, written, late>>
  BY DEF GetFails
<1>2. detailFaults' \in 0..MaxDetailFaults
  BY DetailFaultIsCounted DEF GetFails
<1>3. gets' \in Seq(GetRecord) /\ GetsKnow'
  BY <1>1, GetIsRemoved
<1>4. GetIsClicked'
  <2>1. (\E j \in 1..Len(gets) \ {i} : ~gets[j].dismissed) => (Open => late)'
    BY <1>1 DEF DetailInv, GetIsClicked, Open
  <2> QED
    BY <1>1, <2>1, RemainingAreClicked
<1>5. /\ serverComments' \in [Shown -> Seq(Comments)] /\ written' \subseteq Entries
      /\ commentSends' \subseteq SendRecord /\ ServerKnows' /\ SendsAreNew'
  BY <1>1, ServerUnchanged
<1>6. /\ detail' = NoDetail \/ \E v \in ViewRecord : detail' = <<v>>
      /\ late' \in BOOLEAN /\ CommentsAreOfPost' /\ ViewKnows'
  BY <1>1, ViewUnchanged
<1>7. DetailTypes'
  BY <1>1, <1>2, <1>3, <1>5, <1>6 DEF DetailInv, DetailTypes
<1>8. DetailIsClicked'
  BY <1>1 DEF DetailInv, DetailIsClicked, Open, View
<1> QED
  BY <1>3, <1>4, <1>5, <1>6, <1>7, <1>8 DEF DetailInv

LEMMA OnOverlayClickedKeeps ==
  ASSUME DetailInv, OnOverlayClicked
  PROVE  DetailInv'
<1>1. /\ overlay
      /\ \/ (Open /\ closing' = TRUE /\ overlay' = overlay /\ gets' = gets)
         \/ (~Open /\ overlay' = FALSE /\ gets' = Dismissed /\ closing' = closing)
      /\ UNCHANGED <<detail, commentSends, serverComments, clicks, detailFaults, clicked, written, late>>
  BY DEF OnOverlayClicked
<1>2. gets' \in Seq(GetRecord) /\ GetsKnow' /\ GetIsClicked'
  <2>1. CASE gets' = Dismissed
    BY <1>1, <2>1, AllAreDismissed
  <2>2. CASE gets' = gets /\ overlay' = overlay
    BY <1>1, <2>2 DEF DetailInv, DetailTypes, GetsKnow, WrittenOnce, GetIsClicked, Open
  <2> QED
    BY <1>1, <2>1, <2>2
<1>3. /\ serverComments' \in [Shown -> Seq(Comments)] /\ written' \subseteq Entries
      /\ commentSends' \subseteq SendRecord /\ ServerKnows' /\ SendsAreNew'
  BY <1>1, ServerUnchanged
<1>4. /\ detail' = NoDetail \/ \E v \in ViewRecord : detail' = <<v>>
      /\ late' \in BOOLEAN /\ CommentsAreOfPost' /\ ViewKnows'
  BY <1>1, ViewUnchanged
<1>5. DetailTypes'
  BY <1>1, <1>2, <1>3, <1>4 DEF DetailInv, DetailTypes
<1>6. DetailIsClicked'
  BY <1>1 DEF DetailInv, DetailIsClicked, Open, View
<1> QED
  BY <1>2, <1>3, <1>4, <1>5, <1>6 DEF DetailInv

LEMMA AnimationEndsKeeps ==
  ASSUME DetailInv, AnimationEnds
  PROVE  DetailInv'
<1>1. /\ closing' = FALSE /\ overlay' = FALSE /\ gets' = Dismissed /\ detail' = NoDetail
      /\ commentSends' \subseteq commentSends
      /\ late' = FALSE
      /\ UNCHANGED <<serverComments, clicks, detailFaults, clicked, written>>
  BY DEF AnimationEnds
<1>2. gets' \in Seq(GetRecord) /\ GetsKnow' /\ GetIsClicked'
  BY <1>1, AllAreDismissed
<1>3. /\ serverComments' \in [Shown -> Seq(Comments)] /\ written' \subseteq Entries
      /\ commentSends' \subseteq SendRecord /\ ServerKnows' /\ SendsAreNew'
  BY <1>1, ServerUnchanged
<1>4. DetailTypes'
  BY <1>1, <1>2, <1>3 DEF DetailInv, DetailTypes
<1>5. DetailIsClicked' /\ CommentsAreOfPost' /\ ViewKnows'
  BY <1>1 DEF DetailIsClicked, CommentsAreOfPost, ViewKnows, Open
<1> QED
  BY <1>2, <1>3, <1>4, <1>5 DEF DetailInv

LEMMA CommentIsAdded ==
  ASSUME NEW v \in ViewRecord, NEW a, NEW n
  PROVE  [v EXCEPT !.comments = a, !.count = n] = [post |-> v.post, comments |-> a, count |-> n]
<1> DEFINE x == [v EXCEPT !.comments = a, !.count = n]
<1>1. x \in [post : {v.post}, comments : {a}, count : {n}]
  BY DEF ViewRecord
<1> HIDE DEF x
<1>2. x = [post |-> x.post, comments |-> x.comments, count |-> x.count] /\ x.post = v.post /\ x.comments = a /\ x.count = n
  BY <1>1
<1> QED
  BY <1>2 DEF x

LEMMA WriteCommentKeeps ==
  ASSUME DetailInv, WriteComment
  PROVE  DetailInv'
<1>1. Open /\ UNCHANGED <<overlay, closing, gets, serverComments, clicks, detailFaults, clicked, late>>
  BY DEF WriteComment
<1>2. PICK t \in Comments \ {w.text : w \in written} :
        /\ detail' = <<[View EXCEPT !.comments = Append(@, [post |-> View.post, text |-> t]), !.count = @ + 1]>>
        /\ commentSends' = commentSends \cup {[post |-> View.post, text |-> t, served |-> FALSE]}
        /\ written' = written \cup {[post |-> View.post, text |-> t]}
  BY DEF WriteComment
<1> DEFINE p == View.post
           old == View.comments
           e == [post |-> p, text |-> t]
           s == [post |-> p, text |-> t, served |-> FALSE]
           v == [post |-> p, comments |-> Append(old, e), count |-> View.count + 1]
<1>3. View \in ViewRecord
  BY <1>1, ViewHasType
<1>4. p \in Shown /\ old \in Seq(Entries) /\ Len(old) \in Nat /\ View.count \in Nat
      /\ View = [post |-> p, comments |-> old, count |-> View.count]
  BY <1>3 DEF ViewRecord
<1>5. e \in Entries /\ e.post = p /\ e.text = t /\ s \in SendRecord /\ s.post = p /\ s.text = t /\ ~s.served
  BY <1>4 DEF Entries, SendRecord
<1>6. detail' = <<v>> /\ commentSends' = commentSends \cup {s} /\ written' = written \cup {e}
  <2>1. [View EXCEPT !.comments = Append(@, e), !.count = @ + 1] = v
    BY <1>3, CommentIsAdded
  <2> QED
    BY <1>2, <2>1
<1>7. written \subseteq Entries /\ \A w \in written : w.text # t
  BY <1>2 DEF DetailInv, DetailTypes
<1>8. e \notin written
  BY <1>5, <1>7
<1> HIDE DEF e, s, p, old
<1>9. /\ Append(old, e) \in Seq(Entries) /\ Len(Append(old, e)) = Len(old) + 1
      /\ Append(old, e)[Len(old) + 1] = e
      /\ \A k \in 1..Len(old) : Append(old, e)[k] = old[k]
  BY <1>4, <1>5, AppendProperties
<1>10. v \in ViewRecord /\ v.post = p /\ v.comments = Append(old, e) /\ v.count = View.count + 1
  BY <1>4, <1>9 DEF ViewRecord
<1> HIDE DEF v
<1>11. Open' /\ View' = v
  BY <1>6, OpenIs
<1>12. \A k \in 1..Len(v.comments) : k = Len(old) + 1 \/ k \in 1..Len(old)
  BY <1>4, <1>9, <1>10
<1>13. \A k \in 1..Len(old) : old[k] \in written
  BY <1>1 DEF DetailInv, ViewKnows, old
<1>14. ViewKnows'
  BY <1>6, <1>9, <1>10, <1>11, <1>12, <1>13 DEF ViewKnows
<1>15. DetailIsClicked'
  BY <1>1, <1>10, <1>11 DEF DetailInv, DetailIsClicked, p
<1>16. CommentsAreOfPost'
  <2> SUFFICES ASSUME ~late PROVE /\ v.count = Len(v.comments)
                                  /\ \A j, k \in 1..Len(v.comments) : /\ v.comments[j].post = v.post
                                                                      /\ v.comments[j] = v.comments[k] => j = k
    BY <1>1, <1>11 DEF CommentsAreOfPost
  <2>1. /\ View.count = Len(old)
        /\ \A j, k \in 1..Len(old) : /\ old[j].post = p
                                     /\ old[j] = old[k] => j = k
    BY <1>1 DEF DetailInv, CommentsAreOfPost, old, p
  <2>2. \A j \in 1..Len(old) : old[j] # e
    BY <1>8, <1>13
  <2> QED
    BY <1>5, <1>9, <1>10, <1>12, <2>1, <2>2
<1>17. \A q, u : WrittenOnce(q, u) => WrittenOnce(q, u)'
  BY <1>6 DEF WrittenOnce
<1>18. GetsKnow' /\ GetIsClicked'
  BY <1>1, <1>6, <1>11 DEF DetailInv, GetsKnow, GetIsClicked, WrittenOnce
<1>19. ServerKnows'
  BY <1>1, <1>6 DEF DetailInv, ServerKnows, WrittenOnce
<1>20. SendsAreNew'
  <2>1. \A i \in 1..Len(serverComments[p]) : serverComments[p][i] # t
    <3> TAKE i \in 1..Len(serverComments[p])
    <3>1. [post |-> p, text |-> serverComments[p][i]] \in written
      BY <1>4 DEF DetailInv, ServerKnows, WrittenOnce
    <3> QED
      BY <1>7, <3>1
  <2> SUFFICES ASSUME NEW c \in commentSends'
               PROVE  /\ [post |-> c.post, text |-> c.text] \in written'
                      /\ ~c.served => \A i \in 1..Len(serverComments[c.post]) : serverComments[c.post][i] # c.text
    BY <1>1 DEF SendsAreNew, Total
  <2>2. CASE c = s
    BY <1>5, <1>6, <2>1, <2>2 DEF e
  <2>3. CASE c \in commentSends
    BY <1>6, <2>3 DEF DetailInv, SendsAreNew, Total
  <2> QED
    BY <1>6, <2>2, <2>3
<1>21. DetailTypes'
  BY <1>1, <1>5, <1>6, <1>10 DEF DetailInv, DetailTypes
<1> QED
  BY <1>14, <1>15, <1>16, <1>18, <1>19, <1>20, <1>21 DEF DetailInv

LEMMA ServeCommentKeeps ==
  ASSUME DetailInv, NEW c \in commentSends, ServeComment(c)
  PROVE  DetailInv'
<1>1. /\ ~c.served
      /\ commentSends' = (commentSends \ {c}) \cup {[c EXCEPT !.served = TRUE]}
      /\ serverComments' = [serverComments EXCEPT ![c.post] = Append(@, c.text)]
      /\ UNCHANGED <<overlay, detail, closing, gets, clicks, detailFaults, clicked, written, late>>
  BY DEF ServeComment
<1>2. c \in SendRecord /\ commentSends \subseteq SendRecord
  BY DEF DetailInv, DetailTypes
<1> DEFINE p == c.post
           t == c.text
           old == serverComments[p]
           new == Append(old, t)
           s == [c EXCEPT !.served = TRUE]
<1>3. /\ s \in SendRecord /\ s.served /\ s.post = p /\ s.text = t
      /\ p \in Shown /\ t \in Comments
  BY <1>2 DEF SendRecord
<1>4. serverComments \in [Shown -> Seq(Comments)] /\ old \in Seq(Comments) /\ Len(old) \in Nat
  BY <1>3 DEF DetailInv, DetailTypes
<1>5. /\ [post |-> p, text |-> t] \in written
      /\ \A i \in 1..Len(old) : old[i] # t
  BY <1>1 DEF DetailInv, SendsAreNew, Total
<1>6. commentSends' = (commentSends \ {c}) \cup {s} /\ serverComments' = [serverComments EXCEPT ![p] = new]
  BY <1>1
<1>7. /\ new \in Seq(Comments) /\ Len(new) = Len(old) + 1 /\ new[Len(old) + 1] = t
      /\ \A k \in 1..Len(old) : new[k] = old[k]
  BY <1>3, <1>4, AppendProperties
<1> HIDE DEF s, new, old
<1>8. /\ serverComments' \in [Shown -> Seq(Comments)] /\ serverComments'[p] = new
      /\ \A q \in Shown : q # p => serverComments'[q] = serverComments[q]
  BY <1>3, <1>4, <1>6, <1>7
<1>9. WrittenOnce(p, old)
  BY <1>3 DEF DetailInv, ServerKnows, old
<1>10. \A k \in 1..Len(new) : k = Len(old) + 1 \/ k \in 1..Len(old)
  BY <1>4, <1>7
<1>11. WrittenOnce(p, new)
  BY <1>5, <1>7, <1>9, <1>10 DEF WrittenOnce
<1>12. ServerKnows'
  <2> SUFFICES ASSUME NEW q \in Shown PROVE WrittenOnce(q, serverComments'[q])
    BY <1>1 DEF ServerKnows, WrittenOnce
  <2> QED
    BY <1>8, <1>11 DEF DetailInv, ServerKnows
<1>13. SendsAreNew'
  <2> SUFFICES ASSUME NEW a \in commentSends'
               PROVE  /\ [post |-> a.post, text |-> a.text] \in written
                      /\ ~a.served => \A i \in 1..Len(serverComments'[a.post]) : serverComments'[a.post][i] # a.text
    BY <1>1 DEF SendsAreNew, Total
  <2>1. CASE a = s
    BY <1>3, <1>5, <2>1
  <2>2. CASE a \in commentSends /\ a # c
    <3>1. a \in SendRecord /\ a.post \in Shown /\ [post |-> a.post, text |-> a.text] \in written
      BY <1>2, <2>2 DEF SendRecord, DetailInv, SendsAreNew
    <3>2. ASSUME ~a.served PROVE \A i \in 1..Len(serverComments'[a.post]) : serverComments'[a.post][i] # a.text
      <4>1. \A i \in 1..Len(serverComments[a.post]) : serverComments[a.post][i] # a.text
        BY <2>2, <3>2 DEF DetailInv, SendsAreNew, Total
      <4>2. CASE a.post # p
        BY <1>8, <3>1, <4>1, <4>2
      <4>3. CASE a.post = p
        <5>1. a.text # t
          BY <1>1, <1>2, <2>2, <3>1, <3>2, <4>3 DEF SendRecord
        <5> QED
          BY <1>7, <1>8, <1>10, <4>1, <4>3, <5>1 DEF old
      <4> QED
        BY <4>2, <4>3
    <3> QED
      BY <3>1, <3>2
  <2> QED
    BY <1>6, <2>1, <2>2
<1>14. /\ detail' = NoDetail \/ \E v \in ViewRecord : detail' = <<v>>
       /\ late' \in BOOLEAN /\ CommentsAreOfPost' /\ ViewKnows'
  BY <1>1, ViewUnchanged
<1>15. DetailTypes'
  BY <1>1, <1>2, <1>3, <1>6, <1>8, <1>14 DEF DetailInv, DetailTypes
<1>16. DetailIsClicked' /\ GetsKnow' /\ GetIsClicked'
  BY <1>1 DEF DetailInv, DetailIsClicked, Open, View, GetsKnow, WrittenOnce, GetIsClicked
<1> QED
  BY <1>12, <1>13, <1>14, <1>15, <1>16 DEF DetailInv

LEMMA CommentAnsweredKeeps ==
  ASSUME DetailInv, NEW c \in commentSends, CommentAnswered(c)
  PROVE  DetailInv'
<1>1. /\ commentSends' \subseteq commentSends
      /\ UNCHANGED <<overlay, detail, closing, gets, serverComments, clicks, clicked, written, late>>
  BY DEF CommentAnswered
<1>2. detailFaults' \in 0..MaxDetailFaults
  BY DetailFaultIsCounted DEF CommentAnswered, DetailInv, DetailTypes
<1>3. /\ serverComments' \in [Shown -> Seq(Comments)] /\ written' \subseteq Entries
      /\ commentSends' \subseteq SendRecord /\ ServerKnows' /\ SendsAreNew'
  BY <1>1, ServerUnchanged
<1>4. /\ detail' = NoDetail \/ \E v \in ViewRecord : detail' = <<v>>
      /\ late' \in BOOLEAN /\ CommentsAreOfPost' /\ ViewKnows'
  BY <1>1, ViewUnchanged
<1>5. DetailTypes'
  BY <1>1, <1>2, <1>3, <1>4 DEF DetailInv, DetailTypes
<1>6. DetailIsClicked' /\ GetsKnow' /\ GetIsClicked'
  BY <1>1 DEF DetailInv, DetailIsClicked, Open, View, GetsKnow, WrittenOnce, GetIsClicked
<1> QED
  BY <1>3, <1>4, <1>5, <1>6 DEF DetailInv

LEMMA DetailInitEstablishes == PostDetailInit => DetailInv
<1> SUFFICES ASSUME PostDetailInit PROVE DetailInv
  OBVIOUS
<1>1. DetailTypes
  <2>1. gets \in Seq(GetRecord) /\ serverComments \in [Shown -> Seq(Comments)]
    BY DEF PostDetailInit
  <2>2. clicks \in 0..MaxGets /\ detailFaults \in 0..MaxDetailFaults
    BY PostDetailAssumption DEF PostDetailInit
  <2>3. overlay \in BOOLEAN /\ closing \in BOOLEAN /\ late \in BOOLEAN
    BY DEF PostDetailInit
  <2> QED
    BY <2>1, <2>2, <2>3 DEF PostDetailInit, DetailTypes
<1>2. DetailIsClicked /\ CommentsAreOfPost /\ ViewKnows
  BY DEF PostDetailInit, DetailIsClicked, CommentsAreOfPost, ViewKnows, Open
<1>3. GetIsClicked /\ GetsKnow /\ SendsAreNew
  BY DEF PostDetailInit, GetIsClicked, GetsKnow, SendsAreNew
<1>4. ServerKnows
  BY DEF PostDetailInit, ServerKnows, WrittenOnce
<1> QED
  BY <1>1, <1>2, <1>3, <1>4 DEF DetailInv

(* The invariant of the open post: every step of PostDetailView.cpp and of *)
(* the overlay keeps it.                                                   *)
THEOREM DetailInductive == PostDetailSpec => []DetailInv
<1>1. PostDetailInit => DetailInv
  BY DetailInitEstablishes
<1>2. DetailInv /\ [PostDetailNext]_detailVars => DetailInv'
  <2> SUFFICES ASSUME DetailInv, [PostDetailNext]_detailVars PROVE DetailInv'
    OBVIOUS
  <2>1. CASE OnPostClicked
    BY <2>1, OnPostClickedKeeps
  <2>2. CASE OnOverlayClicked
    BY <2>2, OnOverlayClickedKeeps
  <2>3. CASE AnimationEnds
    BY <2>3, AnimationEndsKeeps
  <2>4. CASE WriteComment
    BY <2>4, WriteCommentKeeps
  <2>5. ASSUME NEW i \in 1..MaxGets, ServeGet(i) PROVE DetailInv'
    BY <2>5, ServeGetKeeps
  <2>6. ASSUME NEW i \in 1..MaxGets, GetSucceeds(i) PROVE DetailInv'
    BY <2>6, GetSucceedsKeeps
  <2>7. ASSUME NEW i \in 1..MaxGets, GetFails(i) PROVE DetailInv'
    BY <2>7, GetFailsKeeps
  <2>8. ASSUME NEW c \in commentSends, ServeComment(c) PROVE DetailInv'
    BY <2>8, ServeCommentKeeps
  <2>9. ASSUME NEW c \in commentSends, CommentAnswered(c) PROVE DetailInv'
    BY <2>9, CommentAnsweredKeeps
  <2>10. CASE UNCHANGED detailVars
    BY <2>10 DEF detailVars, DetailInv, DetailTypes, DetailIsClicked, GetIsClicked, CommentsAreOfPost, ServerKnows,
                 GetsKnow, ViewKnows, SendsAreNew, WrittenOnce, Open, View, Total
  <2> QED
    BY <2>1, <2>2, <2>3, <2>4, <2>5, <2>6, <2>7, <2>8, <2>9, <2>10 DEF PostDetailNext
<1> QED
  BY <1>1, <1>2, PTL DEF PostDetailSpec

(* For any posts, comments and number of clicks, answered in any order:    *)
(* the view has the post that was clicked last and the comments of that    *)
(* post, once each, and the server has each comment once, under the post   *)
(* it was written under.                                                   *)
THEOREM DetailStaysOfPost == PostDetailSpec => []DetailIsOfPost
<1>1. DetailInv => DetailIsOfPost
  <2> SUFFICES ASSUME DetailInv PROVE DetailIsOfPost
    OBVIOUS
  <2>1. PostDetailTypeOK
    <3>1. \A i \in 1..Len(gets) : gets[i] \in GetRecord
      BY DEF DetailInv, DetailTypes
    <3>2. Open => View \in ViewRecord
      BY ViewHasType
    <3> QED
      BY <3>1, <3>2 DEF DetailInv, DetailTypes, PostDetailTypeOK, GetRecord, ViewRecord, SendRecord
  <2>2. CommentsReachTheirPost
    BY DEF DetailInv, ServerKnows, WrittenOnce, CommentsReachTheirPost, Total
  <2> QED
    BY <2>1, <2>2 DEF DetailInv, DetailIsOfPost
<1> QED
  BY <1>1, DetailInductive, PTL

(***************************************************************************)
(* PostFeeds: bar, pages, hearts and the new post.                         *)
(***************************************************************************)

PreviewRecord == [liked : BOOLEAN, shown : BOOLEAN, image : BOOLEAN, pending : Seq(Clicks)]
LoadStates    == {NotServed} \cup {<<l>> : l \in Lists}
FeedSends     == [post : Posts, served : BOOLEAN]

PageTypes ==
  /\ selectedItem \in BarItems /\ currentPage \in 0..CreatePage /\ visible \in BOOLEAN
  /\ firstShow \in [Feeds -> BOOLEAN] /\ needReload \in [Feeds -> BOOLEAN]
LoadTypes == loads \in [Feeds -> Seq(LoadStates)] /\ \A f \in Feeds : Len(loads[f]) <= MaxLoads
ItemTypes ==
  /\ DOMAIN items = Feeds
  /\ \A f \in Feeds : \A p \in DOMAIN items[f] : items[f][p] \in PreviewRecord
ServerTypes ==
  /\ form \in Texts \cup {Empty} /\ sends \subseteq FeedSends
  /\ exists \subseteq Posts /\ liked \in [Posts -> BOOLEAN] /\ likes \in 0..MaxLikes /\ faults \in 0..MaxFaults
  /\ told \subseteq exists /\ crossed \in BOOLEAN /\ blurred \subseteq (Feeds \X Posts)

(* What a feed lists, or was answered and will list, is with the server;   *)
(* and an answer that the home page will take has all that was reported.   *)
ListsExist ==
  /\ \A f \in Feeds : DOMAIN items[f] \subseteq exists
  /\ \A f \in Feeds : \A i \in 1..Len(loads[f]) : loads[f][i] # NotServed =>
       /\ DOMAIN loads[f][i][1] \subseteq exists
       /\ f = Home /\ ~crossed => told \subseteq DOMAIN loads[f][i][1]

(* The home page has what was reported, or knows that it is old.           *)
ToldIsKnown == crossed \/ needReload[Home] \/ told \subseteq DOMAIN items[Home]

(* The clicks that the server has not carried out yet.                     *)
Unserved(pending) == {k \in 1..Len(pending) : ~pending[k].served}
OddlyMany(pending) == Cardinality(Unserved(pending)) % 2 = 1

(* A heart differs from the server's by an odd number of clicks under way; *)
(* a click that is alone will put back the heart it found.                 *)
HeartInv ==
  \A f \in Feeds : \A p \in DOMAIN items[f] :
    /\ <<f, p>> \notin blurred => (items[f][p].liked = liked[p] <=> ~OddlyMany(items[f][p].pending))
    /\ \A k \in 1..Len(items[f][p].pending) : items[f][p].pending[k].alone =>
         Len(items[f][p].pending) = 1 /\ items[f][p].pending[k].old = ~items[f][p].liked

(* What is under way for the writing page.                                 *)
DraftInv ==
  /\ \A s \in sends : s.served => s.post \in exists
  /\ \A r, s \in sends : r.post = s.post => r = s

FeedInv ==
  /\ PageTypes /\ LoadTypes /\ ItemTypes /\ ServerTypes
  /\ BarShowsPage /\ ListsExist /\ ToldIsKnown
  /\ HeartInv /\ DraftInv

-----------------------------------------------------------------------------
(* Counting the clicks under way.                                          *)

LEMMA UnservedCount ==
  ASSUME NEW q \in Seq(Clicks)
  PROVE  IsFiniteSet(Unserved(q)) /\ Cardinality(Unserved(q)) \in Nat
<1>1. IsFiniteSet(1..Len(q))
  BY FS_Interval
<1>2. IsFiniteSet(Unserved(q))
  BY <1>1, FS_Subset DEF Unserved
<1> QED
  BY <1>2, FS_CardinalityType

LEMMA NoClicksCount == ~OddlyMany(<<>>)
<1>1. Unserved(<<>>) = {}
  BY DEF Unserved
<1> QED
  BY <1>1, FS_EmptySet DEF OddlyMany

LEMMA OneMore ==
  ASSUME NEW n \in Nat
  PROVE  (n + 1) % 2 = 1 <=> ~(n % 2 = 1)
OBVIOUS

(* A click on a heart that was o: one more.                                *)
Clicked(q, o) ==
  Append([k \in 1..Len(q) |-> [q[k] EXCEPT !.alone = FALSE]],
         [old |-> o, served |-> FALSE, alone |-> q = <<>>])

OneMoreClick(r, q, o) ==
  /\ r \in Seq(Clicks)
  /\ OddlyMany(r) <=> ~OddlyMany(q)
  /\ \A k \in 1..Len(r) : r[k].alone => Len(r) = 1 /\ r[k].old = o

LEMMA ClickIsCounted ==
  ASSUME NEW q \in Seq(Clicks), NEW o \in BOOLEAN
  PROVE  OneMoreClick(Clicked(q, o), q, o)
<1> DEFINE s == [k \in 1..Len(q) |-> [q[k] EXCEPT !.alone = FALSE]]
           c == [old |-> o, served |-> FALSE, alone |-> q = <<>>]
           r == Append(s, c)
<1>1. \A k \in 1..Len(q) : LET e == [q[k] EXCEPT !.alone = FALSE]
                           IN e \in Clicks /\ e.served = q[k].served /\ ~e.alone
  <2> TAKE k \in 1..Len(q)
  <2>1. q[k] \in Clicks
    OBVIOUS
  <2> QED
    BY <2>1 DEF Clicks
<1>2. s \in Seq(Clicks) /\ Len(s) = Len(q) /\ Len(q) \in Nat
  BY <1>1
<1>3. \A k \in 1..Len(q) : s[k].served = q[k].served /\ ~s[k].alone
  BY <1>1
<1>4. c \in Clicks /\ ~c.served /\ c.old = o /\ (c.alone => q = <<>>)
  BY DEF Clicks
<1> HIDE DEF s, c
<1>5. /\ r \in Seq(Clicks) /\ Len(r) = Len(q) + 1 /\ r[Len(q) + 1] = c
      /\ \A k \in 1..Len(q) : r[k] = s[k]
  BY <1>2, <1>4, AppendProperties
<1> HIDE DEF r
<1>6. Unserved(r) = Unserved(q) \cup {Len(q) + 1} /\ Len(q) + 1 \notin Unserved(q)
  BY <1>2, <1>3, <1>4, <1>5 DEF Unserved
<1>7. Cardinality(Unserved(r)) = Cardinality(Unserved(q)) + 1
  BY <1>6, UnservedCount, FS_AddElement
<1>8. OddlyMany(r) <=> ~OddlyMany(q)
  BY <1>7, UnservedCount, OneMore DEF OddlyMany
<1>9. ASSUME NEW k \in 1..Len(r), r[k].alone PROVE Len(r) = 1 /\ r[k].old = o
  <2>1. k = Len(q) + 1 \/ k \in 1..Len(q)
    BY <1>2, <1>5
  <2>2. k = Len(q) + 1
    BY <1>3, <1>5, <1>9, <2>1
  <2>3. q = <<>>
    BY <1>4, <1>5, <1>9, <2>2
  <2> QED
    BY <1>4, <1>5, <2>2, <2>3
<1> QED
  BY <1>5, <1>8, <1>9 DEF OneMoreClick, Clicked, r, s, c

(* The server carries one out: one less.                                   *)
LEMMA ServiceIsCounted ==
  ASSUME NEW q \in Seq(Clicks), NEW k \in 1..Len(q), ~q[k].served
  PROVE  LET r == [q EXCEPT ![k].served = TRUE]
         IN /\ r \in Seq(Clicks) /\ Len(r) = Len(q)
            /\ OddlyMany(r) <=> ~OddlyMany(q)
            /\ \A j \in 1..Len(q) : r[j].alone = q[j].alone /\ r[j].old = q[j].old
<1> DEFINE e == [q[k] EXCEPT !.served = TRUE]
           r == [q EXCEPT ![k].served = TRUE]
<1>1. q[k] \in Clicks /\ Len(q) \in Nat
  OBVIOUS
<1>2. e \in Clicks /\ e.served /\ e.alone = q[k].alone /\ e.old = q[k].old
  BY <1>1 DEF Clicks
<1>3. r = [q EXCEPT ![k] = e]
  OBVIOUS
<1> HIDE DEF e, r
<1>4. r \in Seq(Clicks) /\ Len(r) = Len(q) /\ r[k] = e /\ \A j \in 1..Len(q) : j # k => r[j] = q[j]
  BY <1>1, <1>2, <1>3
<1>5. Unserved(r) = Unserved(q) \ {k} /\ k \in Unserved(q)
  BY <1>2, <1>4 DEF Unserved
<1>6. Cardinality(Unserved(r)) = Cardinality(Unserved(q)) - 1
  BY <1>5, UnservedCount, FS_RemoveElement
<1>7. Cardinality(Unserved(r)) \in Nat /\ Cardinality(Unserved(q)) = Cardinality(Unserved(r)) + 1
  BY <1>4, <1>6, UnservedCount
<1>8. OddlyMany(r) <=> ~OddlyMany(q)
  BY <1>7, OneMore DEF OddlyMany
<1>9. \A j \in 1..Len(q) : r[j].alone = q[j].alone /\ r[j].old = q[j].old
  BY <1>2, <1>4
<1> QED
  BY <1>4, <1>8, <1>9 DEF r

(* The answer to one that was carried out: as many as before.              *)
LEMMA AnswerIsCounted ==
  ASSUME NEW q \in Seq(Clicks), NEW k \in 1..Len(q)
  PROVE  LET r == RemoveAt(q, k)
         IN /\ r \in Seq(Clicks) /\ Len(r) = Len(q) - 1
            /\ q[k].served => (OddlyMany(r) <=> OddlyMany(q))
            /\ \A j \in 1..Len(r) : \E i \in 1..Len(q) : r[j] = q[i]
<1> DEFINE r == RemoveAt(q, k)
           m == [j \in 1..(Len(q) - 1) |-> IF j < k THEN j ELSE j + 1]
<1>0. Len(q) \in Nat
  OBVIOUS
<1>1. /\ r \in Seq(Clicks) /\ Len(r) = Len(q) - 1
      /\ \A j \in 1..(Len(q) - 1) : r[j] = q[IF j < k THEN j ELSE j + 1]
  BY RemoveAtKeeps, Zenon
<1>2. \A j \in 1..Len(r) : m[j] \in (1..Len(q)) \ {k} /\ r[j] = q[m[j]]
  BY <1>0, <1>1
<1>3. \A i, j \in 1..Len(r) : m[i] = m[j] => i = j
  BY <1>0, <1>1
<1>4. \A i \in (1..Len(q)) \ {k} : \E j \in 1..Len(r) : m[j] = i
  <2> TAKE i \in (1..Len(q)) \ {k}
  <2> DEFINE j == IF i < k THEN i ELSE i - 1
  <2>1. j \in 1..Len(r) /\ m[j] = i
    BY <1>0, <1>1
  <2> QED
    BY <2>1
<1> HIDE DEF r, m
<1>5. ASSUME q[k].served PROVE Cardinality(Unserved(r)) = Cardinality(Unserved(q))
  <2> DEFINE S == Unserved(r)
             T == Unserved(q)
             f == [j \in S |-> m[j]]
  <2>1. f \in [S -> T]
    BY <1>2 DEF Unserved
  <2>2. \A i, j \in S : f[i] = f[j] => i = j
    BY <1>3 DEF Unserved
  <2>3. \A t \in T : \E j \in S : f[j] = t
    <3> TAKE t \in T
    <3>1. t \in (1..Len(q)) \ {k} /\ ~q[t].served
      BY <1>5 DEF Unserved
    <3>2. PICK j \in 1..Len(r) : m[j] = t
      BY <1>4, <3>1
    <3>3. j \in S
      BY <1>2, <3>1, <3>2 DEF Unserved
    <3> QED
      BY <3>2, <3>3
  <2>4. IsFiniteSet(S)
    BY <1>1, UnservedCount
  <2> HIDE DEF f, S, T
  <2>5. f \in Bijection(S, T)
    BY <2>1, <2>2, <2>3 DEF Bijection, Injection, Surjection, IsInjective
  <2>6. ExistsBijection(S, T)
    BY <2>5 DEF ExistsBijection
  <2> QED
    BY <2>4, <2>6, FS_Bijection DEF S, T
<1>6. q[k].served => (OddlyMany(r) <=> OddlyMany(q))
  BY <1>5 DEF OddlyMany
<1>7. \A j \in 1..Len(r) : \E i \in 1..Len(q) : r[j] = q[i]
  BY <1>2
<1> QED
  BY <1>1, <1>6, <1>7 DEF r

-----------------------------------------------------------------------------
(* What a step leaves, by parts of the invariant.                          *)

(* The answers there are were there before.                                *)
LoadsFrom ==
  \A f \in Feeds : \A j \in 1..Len(loads'[f]) : loads'[f][j] # NotServed =>
    \E i \in 1..Len(loads[f]) : loads'[f][j] = loads[f][i]

(* The same posts are listed, with the same hearts and clicks.             *)
ItemsStay ==
  \A f \in Feeds :
    /\ DOMAIN items'[f] = DOMAIN items[f]
    /\ \A p \in DOMAIN items[f] : /\ items'[f][p].liked = items[f][p].liked
                                  /\ items'[f][p].pending = items[f][p].pending

LEMMA HeartsStay ==
  ASSUME HeartInv, ItemsStay, liked' = liked, blurred \subseteq blurred'
  PROVE  HeartInv'
<1> SUFFICES ASSUME NEW f \in Feeds, NEW p \in DOMAIN items'[f]
             PROVE  /\ <<f, p>> \notin blurred' =>
                         (items'[f][p].liked = liked[p] <=> ~OddlyMany(items'[f][p].pending))
                    /\ \A k \in 1..Len(items'[f][p].pending) : items'[f][p].pending[k].alone =>
                         Len(items'[f][p].pending) = 1 /\ items'[f][p].pending[k].old = ~items'[f][p].liked
  BY DEF HeartInv, OddlyMany, Unserved
<1>1. p \in DOMAIN items[f] /\ items'[f][p].liked = items[f][p].liked /\ items'[f][p].pending = items[f][p].pending
  BY DEF ItemsStay
<1> QED
  BY <1>1 DEF HeartInv

LEMMA ListsStay ==
  ASSUME ListsExist, LoadsFrom, \A f \in Feeds : DOMAIN items'[f] = DOMAIN items[f],
         exists \subseteq exists', told' = told, crossed' = crossed
  PROVE  ListsExist'
<1>1. \A f \in Feeds : DOMAIN items'[f] \subseteq exists'
  BY DEF ListsExist
<1>2. ASSUME NEW f \in Feeds, NEW j \in 1..Len(loads'[f]), loads'[f][j] # NotServed
      PROVE  /\ DOMAIN loads'[f][j][1] \subseteq exists'
             /\ f = Home /\ ~crossed' => told' \subseteq DOMAIN loads'[f][j][1]
  <2>1. PICK i \in 1..Len(loads[f]) : loads'[f][j] = loads[f][i]
    BY <1>2 DEF LoadsFrom
  <2>2. loads[f][i] # NotServed
    BY <1>2, <2>1
  <2>3. /\ DOMAIN loads[f][i][1] \subseteq exists
        /\ f = Home /\ ~crossed => told \subseteq DOMAIN loads[f][i][1]
    BY <2>2 DEF ListsExist
  <2> QED
    BY <2>1, <2>3
<1> QED
  BY <1>1, <1>2 DEF ListsExist

LEMMA LoadsStay ==
  ASSUME LoadTypes, loads' = loads
  PROVE  LoadTypes' /\ LoadsFrom
BY DEF LoadTypes, LoadsFrom

LEMMA DraftStays ==
  ASSUME DraftInv, sends' \subseteq sends, form' = form \/ form' = Empty, exists' = exists
  PROVE  DraftInv'
BY DEF DraftInv

(* A page is shown: feeds may be fetched, widgets appear.                  *)
LEMMA PageIsShown ==
  ASSUME FeedInv, NEW p \in 0..CreatePage, NEW v \in BOOLEAN, NEW reload \in BOOLEAN, ShowPage(p, v, reload)
  PROVE  /\ currentPage' = p /\ visible' = v
         /\ firstShow' \in [Feeds -> BOOLEAN] /\ needReload' \in [Feeds -> BOOLEAN]
         /\ needReload[Home] \/ reload => needReload'[Home]
         /\ LoadTypes' /\ LoadsFrom
         /\ ItemTypes' /\ ItemsStay
<1> DEFINE appears == {f \in Feeds : v /\ p = f /\ ~(visible /\ currentPage = f)}
           fetches(f) == (IF f \in appears /\ (firstShow[f] \/ needReload[f]) THEN <<NotServed>> ELSE <<>>)
                         \o (IF reload /\ f = Home /\ v THEN <<NotServed>> ELSE <<>>)
<1>1. /\ currentPage' = p /\ visible' = v
      /\ needReload' = IF reload THEN [needReload EXCEPT ![Home] = TRUE] ELSE needReload
      /\ firstShow' = [f \in Feeds |-> firstShow[f] /\ f \notin appears]
      /\ loads' = [f \in Feeds |-> loads[f] \o fetches(f)]
      /\ \A f \in Feeds : Len(loads'[f]) <= MaxLoads
      /\ items' = [f \in Feeds |-> IF f \in appears
                                   THEN [q \in DOMAIN items[f] |-> [items[f][q] EXCEPT !.shown = TRUE]]
                                   ELSE items[f]]
  BY DEF ShowPage
<1>2. firstShow' \in [Feeds -> BOOLEAN]
  BY <1>1
<1>3. needReload' \in [Feeds -> BOOLEAN] /\ (needReload[Home] \/ reload => needReload'[Home])
  BY <1>1 DEF FeedInv, PageTypes, Feeds, Home
<1>4. ASSUME NEW f \in Feeds
      PROVE  /\ loads'[f] \in Seq(LoadStates)
             /\ \A j \in 1..Len(loads'[f]) : loads'[f][j] # NotServed =>
                  \E i \in 1..Len(loads[f]) : loads'[f][j] = loads[f][i]
  <2> DEFINE new == fetches(f)
  <2>1. new \in Seq({NotServed})
    <3> DEFINE a == IF f \in appears /\ (firstShow[f] \/ needReload[f]) THEN <<NotServed>> ELSE <<>>
               b == IF reload /\ f = Home /\ v THEN <<NotServed>> ELSE <<>>
    <3>1. a \in Seq({NotServed}) /\ b \in Seq({NotServed})
      <4>1. \A x : <<x>> \in Seq({x}) /\ <<>> \in Seq({x})
        OBVIOUS
      <4>2. a \in {<<>>, <<NotServed>>} /\ b \in {<<>>, <<NotServed>>}
        BY Zenon
      <4> HIDE DEF a, b
      <4> QED
        BY <4>1, <4>2, Zenon
    <3>2. new = a \o b
      OBVIOUS
    <3> HIDE DEF a, b, new
    <3> QED
      BY <3>1, <3>2, ConcatProperties
  <2>2. \A j \in 1..Len(new) : new[j] = NotServed
    BY <2>1
  <2>3. loads'[f] = loads[f] \o new
    BY <1>1
  <2> HIDE DEF new
  <2>4. loads[f] \in Seq(LoadStates) /\ new \in Seq(LoadStates) /\ Len(loads[f]) \in Nat /\ Len(new) \in Nat
    BY <2>1 DEF FeedInv, LoadTypes, LoadStates
  <2>5. /\ loads[f] \o new \in Seq(LoadStates) /\ Len(loads[f] \o new) = Len(loads[f]) + Len(new)
        /\ \A j \in 1..(Len(loads[f]) + Len(new)) :
             (loads[f] \o new)[j] = IF j <= Len(loads[f]) THEN loads[f][j] ELSE new[j - Len(loads[f])]
    BY <2>4, ConcatProperties
  <2>6. ASSUME NEW j \in 1..Len(loads'[f]), loads'[f][j] # NotServed
        PROVE  j \in 1..Len(loads[f]) /\ loads'[f][j] = loads[f][j]
    <3>1. CASE j <= Len(loads[f])
      BY <2>3, <2>4, <2>5, <2>6, <3>1
    <3>2. CASE ~(j <= Len(loads[f]))
      <4>1. j - Len(loads[f]) \in 1..Len(new)
        BY <2>3, <2>4, <2>5, <2>6, <3>2
      <4> QED
        BY <2>2, <2>3, <2>4, <2>5, <2>6, <3>2, <4>1
    <3> QED
      BY <3>1, <3>2
  <2> QED
    BY <2>3, <2>5, <2>6
<1>5. LoadTypes' /\ LoadsFrom
  BY <1>1, <1>4 DEF LoadTypes, LoadsFrom
<1>6. ASSUME NEW f \in Feeds
      PROVE  /\ DOMAIN items'[f] = DOMAIN items[f]
             /\ \A q \in DOMAIN items[f] : /\ items'[f][q] \in PreviewRecord
                                           /\ items'[f][q].liked = items[f][q].liked
                                           /\ items'[f][q].pending = items[f][q].pending
  <2>1. \A q \in DOMAIN items[f] : items[f][q] \in PreviewRecord
    BY DEF FeedInv, ItemTypes
  <2>2. CASE f \in appears
    <3>1. items'[f] = [q \in DOMAIN items[f] |-> [items[f][q] EXCEPT !.shown = TRUE]]
      BY <1>1, <2>2
    <3> HIDE DEF appears
    <3>2. \A q \in DOMAIN items[f] : items'[f][q] = [items[f][q] EXCEPT !.shown = TRUE]
      BY <3>1
    <3> QED
      BY <2>1, <3>1, <3>2 DEF PreviewRecord
  <2>3. CASE f \notin appears
    BY <1>1, <2>1, <2>3
  <2> QED
    BY <2>2, <2>3
<1>7. ItemTypes' /\ ItemsStay
  <2>1. DOMAIN items' = Feeds
    BY <1>1
  <2> QED
    BY <1>6, <2>1 DEF ItemTypes, ItemsStay
<1> QED
  BY <1>1, <1>2, <1>3, <1>5, <1>7

(* One widget changes.                                                     *)
OnlyItem(f, p, x) ==
  /\ \A g \in Feeds : DOMAIN items'[g] = DOMAIN items[g]
  /\ items'[f][p] = x
  /\ \A g \in Feeds : \A q \in DOMAIN items[g] : (g # f \/ q # p) => items'[g][q] = items[g][q]

LEMMA ItemIsReplaced ==
  ASSUME FeedInv, NEW f \in Feeds, NEW p \in DOMAIN items[f], NEW x \in PreviewRecord,
         items' = [items EXCEPT ![f][p] = x]
  PROVE  ItemTypes' /\ OnlyItem(f, p, x)
<1>1. DOMAIN items = Feeds /\ \A g \in Feeds : \A q \in DOMAIN items[g] : items[g][q] \in PreviewRecord
  BY DEF FeedInv, ItemTypes
<1>2. items' = [items EXCEPT ![f] = [items[f] EXCEPT ![p] = x]]
  OBVIOUS
<1>3. DOMAIN items' = Feeds /\ items'[f] = [items[f] EXCEPT ![p] = x] /\ \A g \in Feeds : g # f => items'[g] = items[g]
  BY <1>1, <1>2
<1>4. \A g \in Feeds : DOMAIN items'[g] = DOMAIN items[g]
  BY <1>3
<1>5. items'[f][p] = x /\ \A q \in DOMAIN items[f] : q # p => items'[f][q] = items[f][q]
  BY <1>3
<1>6. ItemTypes'
  BY <1>1, <1>3, <1>4, <1>5 DEF ItemTypes
<1> QED
  BY <1>3, <1>4, <1>5, <1>6 DEF OnlyItem

(* Its heart and its clicks do not.                                        *)
LEMMA ItemKeepsHeart ==
  ASSUME FeedInv, NEW f \in Feeds, NEW p \in DOMAIN items[f], NEW x \in PreviewRecord,
         items' = [items EXCEPT ![f][p] = x],
         x.liked = items[f][p].liked, x.pending = items[f][p].pending
  PROVE  ItemsStay
<1>1. OnlyItem(f, p, x)
  BY ItemIsReplaced
<1> QED
  BY <1>1 DEF OnlyItem, ItemsStay

LEMMA FaultIsCounted ==
  ASSUME FeedInv, Fault
  PROVE  faults' \in 0..MaxFaults
BY PostFeedsAssumption DEF FeedInv, ServerTypes, Fault

-----------------------------------------------------------------------------
(* The steps: pages and fetching.                                          *)

(* Only what is shown changes.                                             *)
LEMMA ShowingKeeps ==
  ASSUME FeedInv, LoadTypes', LoadsFrom, ItemTypes', ItemsStay,
         UNCHANGED <<form, sends, serverVars, likes, faults, historyVars>>
  PROVE  ServerTypes' /\ ListsExist' /\ HeartInv' /\ DraftInv'
<1>1. /\ form' = form /\ sends' = sends /\ exists' = exists /\ liked' = liked /\ likes' = likes /\ faults' = faults
      /\ told' = told /\ crossed' = crossed /\ blurred' = blurred
  BY DEF serverVars, historyVars
<1>2. ServerTypes'
  BY <1>1 DEF FeedInv, ServerTypes
<1>3. ListsExist'
  BY <1>1, ListsStay DEF FeedInv, ItemsStay
<1>4. HeartInv'
  BY <1>1, HeartsStay DEF FeedInv
<1>5. DraftInv'
  BY <1>1, DraftStays DEF FeedInv
<1> QED
  BY <1>2, <1>3, <1>4, <1>5

LEMMA ToldStays ==
  ASSUME FeedInv, ItemsStay, told' = told, crossed' = crossed, needReload[Home] => needReload'[Home]
  PROVE  ToldIsKnown'
<1>1. DOMAIN items'[Home] = DOMAIN items[Home]
  BY DEF ItemsStay, Feeds, Home
<1> QED
  BY <1>1 DEF FeedInv, ToldIsKnown

LEMMA NavigateKeeps ==
  ASSUME FeedInv, Navigate
  PROVE  FeedInv'
<1>1. /\ ShowPage(currentPage, ~visible, FALSE)
      /\ UNCHANGED <<selectedItem, form, sends, serverVars, likes, faults, historyVars>>
  BY DEF Navigate
<1>2. currentPage \in 0..CreatePage /\ (~visible) \in BOOLEAN /\ FALSE \in BOOLEAN
  BY DEF FeedInv, PageTypes
<1>3. /\ currentPage' = currentPage /\ visible' = (~visible)
      /\ firstShow' \in [Feeds -> BOOLEAN] /\ needReload' \in [Feeds -> BOOLEAN]
      /\ needReload[Home] => needReload'[Home]
      /\ LoadTypes' /\ LoadsFrom /\ ItemTypes' /\ ItemsStay
  BY <1>1, <1>2, PageIsShown
<1>4. ServerTypes' /\ ListsExist' /\ HeartInv' /\ DraftInv'
  BY <1>1, <1>3, ShowingKeeps
<1>5. told' = told /\ crossed' = crossed /\ selectedItem' = selectedItem
  BY <1>1 DEF historyVars
<1>6. ToldIsKnown'
  BY <1>3, <1>5, ToldStays
<1>7. PageTypes' /\ BarShowsPage'
  BY <1>2, <1>3, <1>5 DEF FeedInv, PageTypes, BarShowsPage
<1> QED
  BY <1>3, <1>4, <1>6, <1>7 DEF FeedInv

LEMMA OnItemClickedKeeps ==
  ASSUME FeedInv, OnItemClicked
  PROVE  FeedInv'
<1>1. PICK i \in BarItems : /\ selectedItem' = i
                            /\ ShowPage(IF i <= CreatePage THEN i ELSE currentPage, visible, FALSE)
  BY DEF OnItemClicked
<1>2. UNCHANGED <<form, sends, serverVars, likes, faults, historyVars>>
  BY DEF OnItemClicked
<1> DEFINE p == IF i <= CreatePage THEN i ELSE currentPage
<1>3. p \in 0..CreatePage /\ visible \in BOOLEAN /\ FALSE \in BOOLEAN /\ (i <= CreatePage => p = i)
  BY DEF FeedInv, PageTypes, BarItems, CreatePage
<1>4. ShowPage(p, visible, FALSE)
  BY <1>1
<1> HIDE DEF p
<1>5. /\ currentPage' = p /\ visible' = visible
      /\ firstShow' \in [Feeds -> BOOLEAN] /\ needReload' \in [Feeds -> BOOLEAN]
      /\ needReload[Home] => needReload'[Home]
      /\ LoadTypes' /\ LoadsFrom /\ ItemTypes' /\ ItemsStay
  BY <1>3, <1>4, PageIsShown
<1>6. ServerTypes' /\ ListsExist' /\ HeartInv' /\ DraftInv'
  BY <1>2, <1>5, ShowingKeeps
<1>7. told' = told /\ crossed' = crossed
  BY <1>2 DEF historyVars
<1>8. ToldIsKnown'
  BY <1>5, <1>7, ToldStays
<1>9. PageTypes' /\ BarShowsPage'
  BY <1>1, <1>3, <1>5 DEF PageTypes, BarShowsPage
<1> QED
  BY <1>5, <1>6, <1>8, <1>9 DEF FeedInv

(* Steps that leave the pages and the writing of a post alone.             *)
LEMMA PagesStay ==
  ASSUME FeedInv, UNCHANGED pageVars, needReload' \in [Feeds -> BOOLEAN]
  PROVE  PageTypes' /\ BarShowsPage'
BY DEF FeedInv, PageTypes, BarShowsPage, pageVars

LEMMA ServeLoadKeeps ==
  ASSUME FeedInv, NEW f \in Feeds, NEW i, ServeLoad(f, i)
  PROVE  FeedInv'
<1>1. /\ i \in 1..Len(loads[f]) /\ loads[f][i] = NotServed
      /\ loads' = [loads EXCEPT ![f][i] = <<[p \in exists |-> liked[p]]>>]
      /\ UNCHANGED <<pageVars, needReload, items, form, sends, serverVars, likes, faults, historyVars>>
  BY DEF ServeLoad
<1> DEFINE l == [p \in exists |-> liked[p]]
<1>2. l \in Lists /\ DOMAIN l = exists
  <2>1. exists \in SUBSET Posts /\ l \in [exists -> BOOLEAN]
    BY DEF FeedInv, ServerTypes
  <2> HIDE DEF l
  <2> QED
    BY <2>1 DEF Lists
<1> DEFINE x == <<l>>
<1> HIDE DEF l
<1>3. x \in LoadStates /\ x[1] = l
  BY <1>2 DEF LoadStates
<1>4. loads \in [Feeds -> Seq(LoadStates)] /\ loads[f] \in Seq(LoadStates) /\ Len(loads[f]) \in Nat
  BY DEF FeedInv, LoadTypes
<1>5. loads' = [loads EXCEPT ![f][i] = x]
  BY <1>1 DEF l
<1> HIDE DEF x
<1>6. loads' = [loads EXCEPT ![f] = [loads[f] EXCEPT ![i] = x]]
  BY <1>5
<1> DEFINE new == [loads[f] EXCEPT ![i] = x]
<1>7. /\ new \in Seq(LoadStates) /\ Len(new) = Len(loads[f]) /\ new[i] = x
      /\ \A j \in 1..Len(loads[f]) : j # i => new[j] = loads[f][j]
  BY <1>1, <1>3, <1>4
<1> HIDE DEF new
<1>8. /\ loads' \in [Feeds -> Seq(LoadStates)] /\ loads'[f] = new /\ \A g \in Feeds : g # f => loads'[g] = loads[g]
  BY <1>4, <1>6, <1>7 DEF new
<1>9. LoadTypes'
  BY <1>7, <1>8 DEF FeedInv, LoadTypes
<1>10. /\ form' = form /\ sends' = sends /\ exists' = exists /\ liked' = liked /\ likes' = likes /\ faults' = faults
       /\ told' = told /\ crossed' = crossed /\ blurred' = blurred
       /\ items' = items /\ needReload' = needReload
  BY <1>1 DEF serverVars, historyVars
<1>11. ListsExist'
  <2>1. told \subseteq exists
    BY DEF FeedInv, ServerTypes
  <2> SUFFICES ASSUME NEW g \in Feeds, NEW j \in 1..Len(loads'[g]), loads'[g][j] # NotServed
               PROVE  /\ DOMAIN loads'[g][j][1] \subseteq exists
                      /\ g = Home /\ ~crossed => told \subseteq DOMAIN loads'[g][j][1]
    BY <1>10 DEF FeedInv, ListsExist
  <2>2. CASE g = f /\ j = i
    BY <1>2, <1>3, <1>7, <1>8, <2>1, <2>2
  <2>3. CASE ~(g = f /\ j = i)
    <3>1. j \in 1..Len(loads[g]) /\ loads'[g][j] = loads[g][j]
      BY <1>7, <1>8, <2>3
    <3> QED
      BY <3>1 DEF FeedInv, ListsExist
  <2> QED
    BY <2>2, <2>3
<1>12. ItemTypes' /\ ServerTypes' /\ ToldIsKnown' /\ DraftInv'
  BY <1>10 DEF FeedInv, ItemTypes, ServerTypes, ToldIsKnown, DraftInv
<1>13. HeartInv'
  BY <1>10, HeartsStay DEF FeedInv, ItemsStay
<1>14. PageTypes' /\ BarShowsPage'
  BY <1>1, <1>10, PagesStay DEF FeedInv, PageTypes
<1> QED
  BY <1>9, <1>11, <1>12, <1>13, <1>14 DEF FeedInv

(* A fetch is answered or fails.                                           *)
LEMMA LoadIsRemoved ==
  ASSUME FeedInv, NEW f \in Feeds, NEW i \in 1..Len(loads[f]), loads' = [loads EXCEPT ![f] = RemoveAt(@, i)]
  PROVE  LoadTypes' /\ LoadsFrom
<1> DEFINE q == loads[f]
           r == RemoveAt(q, i)
<1>1. loads \in [Feeds -> Seq(LoadStates)] /\ q \in Seq(LoadStates) /\ Len(q) \in Nat /\ Len(q) <= MaxLoads
      /\ MaxLoads \in Nat
  BY PostFeedsAssumption DEF FeedInv, LoadTypes
<1>2. /\ r \in Seq(LoadStates) /\ Len(r) = Len(q) - 1
      /\ \A k \in 1..(Len(q) - 1) : r[k] = q[IF k < i THEN k ELSE k + 1]
  BY <1>1, RemoveAtKeeps
<1>3. loads' = [loads EXCEPT ![f] = r]
  OBVIOUS
<1> HIDE DEF r
<1>4. loads' \in [Feeds -> Seq(LoadStates)] /\ loads'[f] = r /\ \A g \in Feeds : g # f => loads'[g] = loads[g]
  BY <1>1, <1>2, <1>3
<1>5. LoadTypes'
  BY <1>1, <1>2, <1>4 DEF FeedInv, LoadTypes
<1>6. \A k \in 1..Len(r) : \E m \in 1..Len(q) : r[k] = q[m]
  <2> TAKE k \in 1..Len(r)
  <2> DEFINE m == IF k < i THEN k ELSE k + 1
  <2>1. m \in 1..Len(q) /\ r[k] = q[m]
    BY <1>1, <1>2
  <2> QED
    BY <2>1
<1>7. LoadsFrom
  <2> SUFFICES ASSUME NEW g \in Feeds, NEW j \in 1..Len(loads'[g])
               PROVE  \E m \in 1..Len(loads[g]) : loads'[g][j] = loads[g][m]
    BY DEF LoadsFrom
  <2>1. CASE g = f
    BY <1>4, <1>6, <2>1
  <2>2. CASE g # f
    BY <1>4, <2>2
  <2> QED
    BY <2>1, <2>2
<1> QED
  BY <1>5, <1>7

LEMMA LoadFailsKeeps ==
  ASSUME FeedInv, NEW f \in Feeds, NEW i, LoadFails(f, i)
  PROVE  FeedInv'
<1>1. /\ i \in 1..Len(loads[f]) /\ Fault
      /\ loads' = [loads EXCEPT ![f] = RemoveAt(@, i)]
      /\ UNCHANGED <<pageVars, needReload, items, form, sends, serverVars, likes, historyVars>>
  BY DEF LoadFails
<1>2. LoadTypes' /\ LoadsFrom
  BY <1>1, LoadIsRemoved
<1>3. /\ form' = form /\ sends' = sends /\ exists' = exists /\ liked' = liked /\ likes' = likes
      /\ told' = told /\ crossed' = crossed /\ blurred' = blurred
      /\ items' = items /\ needReload' = needReload
  BY <1>1 DEF serverVars, historyVars
<1>4. faults' \in 0..MaxFaults
  BY <1>1, FaultIsCounted
<1>5. ItemTypes' /\ ServerTypes' /\ ToldIsKnown' /\ DraftInv'
  BY <1>3, <1>4 DEF FeedInv, ItemTypes, ServerTypes, ToldIsKnown, DraftInv
<1>6. HeartInv'
  BY <1>3, HeartsStay DEF FeedInv, ItemsStay
<1>7. ListsExist'
  BY <1>2, <1>3, ListsStay DEF FeedInv
<1>8. PageTypes' /\ BarShowsPage'
  BY <1>1, <1>3, PagesStay DEF FeedInv, PageTypes
<1> QED
  BY <1>2, <1>5, <1>6, <1>7, <1>8 DEF FeedInv

LEMMA LoadSucceedsKeeps ==
  ASSUME FeedInv, NEW f \in Feeds, NEW i, LoadSucceeds(f, i)
  PROVE  FeedInv'
<1> DEFINE list == loads[f][i][1]
           open == {p \in DOMAIN items[f] : \E k \in 1..Len(items[f][p].pending) : ~items[f][p].pending[k].served}
           new == [p \in DOMAIN list |-> PreviewItem(list[p])]
<1>1. /\ i \in 1..Len(loads[f]) /\ loads[f][i] # NotServed
      /\ needReload' = [needReload EXCEPT ![f] = FALSE]
      /\ loads' = [loads EXCEPT ![f] = RemoveAt(@, i)]
      /\ UNCHANGED <<pageVars, form, sends, exists, likes, faults, told, crossed>>
  BY DEF LoadSucceeds
<1> DEFINE turned(done) == [p \in Posts |-> IF p \in done THEN ~liked[p] ELSE liked[p]]
           dim(done) == {b \in blurred : b[1] # f}
                          \cup {<<f, p>> : p \in {q \in DOMAIN list : list[q] # liked'[q]}}
                          \cup (Feeds \X done)
<1>20. \E done \in SUBSET open : items' = [items EXCEPT ![f] = new] /\ liked' = turned(done) /\ blurred' = dim(done)
  BY Zenon DEF LoadSucceeds
<1>2. PICK done \in SUBSET open : items' = [items EXCEPT ![f] = new] /\ liked' = turned(done) /\ blurred' = dim(done)
  BY <1>20, Zenon
<1>21. ASSUME NEW p \in DOMAIN list, <<f, p>> \notin blurred' PROVE list[p] = liked'[p]
  <2>1. SUFFICES ASSUME list[p] # liked'[p] PROVE FALSE
    OBVIOUS
  <2> DEFINE S == {q \in DOMAIN list : list[q] # liked'[q]}
             T == {<<f, q>> : q \in S}
  <2>2. p \in S
    BY <2>1
  <2>3. T \subseteq blurred'
    BY <1>2
  <2> HIDE DEF S
  <2>4. <<f, p>> \in T
    BY <2>2
  <2> QED
    BY <1>21, <2>3, <2>4
<1>22. ASSUME NEW g \in Feeds, NEW p \in done PROVE <<g, p>> \in blurred'
  <2>1. <<g, p>> \in (Feeds \X done)
    OBVIOUS
  <2> QED
    BY <1>2, <2>1
<1>23. ASSUME NEW g \in Feeds, NEW p, g # f, <<g, p>> \in blurred PROVE <<g, p>> \in blurred'
  BY <1>2, <1>23
<1>3. list \in Lists /\ DOMAIN list \subseteq exists /\ (f = Home /\ ~crossed => told \subseteq DOMAIN list)
  <2>1. loads[f][i] \in LoadStates
    BY <1>1 DEF FeedInv, LoadTypes
  <2>2. list \in Lists
    BY <1>1, <2>1 DEF LoadStates
  <2> QED
    BY <1>1, <2>2 DEF FeedInv, ListsExist
<1>4. \A p \in DOMAIN list : list[p] \in BOOLEAN
  <2>1. PICK S \in SUBSET Posts : list \in [S -> BOOLEAN]
    BY <1>3 DEF Lists
  <2> HIDE DEF list
  <2> QED
    BY <2>1
<1>5. done \subseteq DOMAIN items[f] /\ DOMAIN items[f] \subseteq exists /\ exists \subseteq Posts
  BY DEF FeedInv, ListsExist, ServerTypes
<1>6. LoadTypes' /\ LoadsFrom
  BY <1>1, LoadIsRemoved
<1> HIDE DEF list, open
<1>7. /\ DOMAIN new = DOMAIN list
      /\ \A p \in DOMAIN list : /\ new[p] \in PreviewRecord
                                /\ new[p].liked = list[p] /\ new[p].pending = <<>>
  BY <1>4 DEF PreviewItem, PreviewRecord
<1> HIDE DEF new
<1>8. DOMAIN items = Feeds
  BY DEF FeedInv, ItemTypes
<1>9. DOMAIN items' = Feeds /\ items'[f] = new /\ \A g \in Feeds : g # f => items'[g] = items[g]
  BY <1>2, <1>8
<1>10. ItemTypes'
  BY <1>7, <1>9 DEF FeedInv, ItemTypes
<1>11. needReload' \in [Feeds -> BOOLEAN] /\ (f # Home => needReload'[Home] = needReload[Home])
  BY <1>1 DEF FeedInv, PageTypes, Feeds, Home
<1>12. PageTypes' /\ BarShowsPage'
  BY <1>1, <1>11, PagesStay
<1>13. liked' \in [Posts -> BOOLEAN]
  BY <1>2 DEF FeedInv, ServerTypes
<1>14. blurred' \subseteq (Feeds \X Posts)
  <2>1. blurred \subseteq (Feeds \X Posts) /\ DOMAIN list \subseteq Posts /\ done \subseteq Posts
    BY <1>3, <1>5 DEF FeedInv, ServerTypes
  <2> QED
    BY <1>2, <2>1
<1>15. ServerTypes'
  BY <1>1, <1>13, <1>14 DEF FeedInv, ServerTypes
<1>16. DraftInv'
  BY <1>1, DraftStays DEF FeedInv
<1>17. ListsExist'
  <2>1. \A g \in Feeds : DOMAIN items'[g] \subseteq exists
    BY <1>3, <1>7, <1>9 DEF FeedInv, ListsExist
  <2> SUFFICES ASSUME NEW g \in Feeds, NEW j \in 1..Len(loads'[g]), loads'[g][j] # NotServed
               PROVE  /\ DOMAIN loads'[g][j][1] \subseteq exists
                      /\ g = Home /\ ~crossed => told \subseteq DOMAIN loads'[g][j][1]
    BY <1>1, <2>1 DEF ListsExist
  <2>2. PICK m \in 1..Len(loads[g]) : loads'[g][j] = loads[g][m]
    BY <1>6 DEF LoadsFrom
  <2>3. loads[g][m] # NotServed
    BY <2>2
  <2>4. /\ DOMAIN loads[g][m][1] \subseteq exists
        /\ g = Home /\ ~crossed => told \subseteq DOMAIN loads[g][m][1]
    BY <2>3 DEF FeedInv, ListsExist
  <2> QED
    BY <2>2, <2>4
<1>18. ToldIsKnown'
  <2>1. CASE f = Home
    BY <1>1, <1>3, <1>7, <1>9, <2>1 DEF ToldIsKnown
  <2>2. CASE f # Home
    BY <1>1, <1>9, <1>11, <2>2 DEF FeedInv, ToldIsKnown, Feeds, Home
  <2> QED
    BY <2>1, <2>2
<1>19. HeartInv'
  <2> SUFFICES ASSUME NEW g \in Feeds, NEW p \in DOMAIN items'[g]
               PROVE  /\ <<g, p>> \notin blurred' =>
                           (items'[g][p].liked = liked'[p] <=> ~OddlyMany(items'[g][p].pending))
                      /\ \A k \in 1..Len(items'[g][p].pending) : items'[g][p].pending[k].alone =>
                           Len(items'[g][p].pending) = 1 /\ items'[g][p].pending[k].old = ~items'[g][p].liked
    BY DEF HeartInv, OddlyMany, Unserved
  <2>1. CASE g = f
    <3>1. p \in DOMAIN list /\ items'[g][p].liked = list[p] /\ items'[g][p].pending = <<>>
      BY <1>7, <1>9, <2>1
    <3>2. <<g, p>> \notin blurred' => list[p] = liked'[p]
      BY <1>21, <2>1, <3>1
    <3> QED
      BY <3>1, <3>2, NoClicksCount
  <2>2. CASE g # f
    <3>1. p \in DOMAIN items[g] /\ items'[g] = items[g]
      BY <1>9, <2>2
    <3>2. p \in Posts
      BY <3>1 DEF FeedInv, ListsExist, ServerTypes
    <3>3. ASSUME <<g, p>> \notin blurred' PROVE <<g, p>> \notin blurred /\ p \notin done
      BY <1>22, <1>23, <2>2, <3>3
    <3>4. p \notin done => liked'[p] = liked[p]
      BY <1>2, <3>2
    <3>5. /\ <<g, p>> \notin blurred => (items[g][p].liked = liked[p] <=> ~OddlyMany(items[g][p].pending))
          /\ \A k \in 1..Len(items[g][p].pending) : items[g][p].pending[k].alone =>
               Len(items[g][p].pending) = 1 /\ items[g][p].pending[k].old = ~items[g][p].liked
      BY <3>1 DEF FeedInv, HeartInv
    <3> QED
      BY <3>1, <3>3, <3>4, <3>5
  <2> QED
    BY <2>1, <2>2
<1> QED
  BY <1>6, <1>10, <1>12, <1>15, <1>16, <1>17, <1>18, <1>19 DEF FeedInv

-----------------------------------------------------------------------------
(* The steps: pictures and hearts.                                         *)

(* A widget changes, and nothing else but the history.                     *)
LEMMA ItemStep ==
  ASSUME FeedInv, NEW f \in Feeds, NEW p \in DOMAIN items[f], NEW x \in PreviewRecord,
         items' = [items EXCEPT ![f][p] = x],
         UNCHANGED <<pageVars, needReload, loads, form, sends, exists, told, crossed>>
  PROVE  /\ PageTypes' /\ LoadTypes' /\ ItemTypes'
         /\ BarShowsPage' /\ ListsExist' /\ ToldIsKnown' /\ DraftInv'
<1>1. ItemTypes' /\ OnlyItem(f, p, x)
  BY ItemIsReplaced
<1>2. \A g \in Feeds : DOMAIN items'[g] = DOMAIN items[g]
  BY <1>1 DEF OnlyItem
<1>3. needReload \in [Feeds -> BOOLEAN]
  BY DEF FeedInv, PageTypes
<1>4. PageTypes' /\ BarShowsPage'
  BY <1>3, PagesStay
<1>5. LoadTypes' /\ LoadsFrom
  BY LoadsStay DEF FeedInv
<1>6. ListsExist'
  BY <1>2, <1>5, ListsStay DEF FeedInv
<1>7. ToldIsKnown'
  BY <1>2 DEF FeedInv, ToldIsKnown, Feeds, Home
<1>8. DraftInv'
  BY DraftStays DEF FeedInv
<1> QED
  BY <1>1, <1>4, <1>5, <1>6, <1>7, <1>8

LEMMA ImageStepKeeps ==
  ASSUME FeedInv, NEW f \in Feeds, NEW p, ImageArrives(f, p) \/ ImageFails(f, p)
  PROVE  FeedInv'
<1>1. p \in DOMAIN items[f]
  BY DEF ImageArrives, ImageFails
<1>2. items[f][p] \in PreviewRecord
  BY <1>1 DEF FeedInv, ItemTypes
<1>3. PICK x \in PreviewRecord : /\ items' = [items EXCEPT ![f][p] = x]
                                 /\ x.liked = items[f][p].liked /\ x.pending = items[f][p].pending
  <2>1. CASE ImageArrives(f, p)
    <3> DEFINE x == [items[f][p] EXCEPT !.image = FALSE, !.shown = TRUE]
    <3>1. x \in PreviewRecord /\ x.liked = items[f][p].liked /\ x.pending = items[f][p].pending
      BY <1>2 DEF PreviewRecord
    <3>2. items' = [items EXCEPT ![f][p] = x]
      BY <2>1 DEF ImageArrives
    <3> HIDE DEF x
    <3> QED
      BY <3>1, <3>2
  <2>2. CASE ImageFails(f, p)
    <3> DEFINE x == [items[f][p] EXCEPT !.image = FALSE]
    <3>1. x \in PreviewRecord /\ x.liked = items[f][p].liked /\ x.pending = items[f][p].pending
      BY <1>2 DEF PreviewRecord
    <3>2. items' = [items EXCEPT ![f][p] = x]
      BY <2>2 DEF ImageFails
    <3> HIDE DEF x
    <3> QED
      BY <3>1, <3>2
  <2> QED
    BY <2>1, <2>2
<1>4. /\ UNCHANGED <<pageVars, needReload, loads, form, sends, serverVars, likes, historyVars>>
      /\ faults' \in 0..MaxFaults
  BY FaultIsCounted DEF ImageArrives, ImageFails, FeedInv, ServerTypes
<1>5. /\ UNCHANGED <<pageVars, needReload, loads, form, sends, exists, liked, likes>>
      /\ UNCHANGED <<told, crossed, blurred>>
  BY <1>4 DEF serverVars, historyVars
<1>6. /\ PageTypes' /\ LoadTypes' /\ ItemTypes'
      /\ BarShowsPage' /\ ListsExist' /\ ToldIsKnown' /\ DraftInv'
  BY <1>1, <1>3, <1>5, ItemStep
<1>7. ServerTypes'
  BY <1>4, <1>5 DEF FeedInv, ServerTypes
<1>8. HeartInv'
  BY <1>1, <1>3, <1>5, ItemKeepsHeart, HeartsStay DEF FeedInv
<1> QED
  BY <1>6, <1>7, <1>8 DEF FeedInv

LEMMA OtherHeart ==
  ASSUME NEW a \in BOOLEAN, NEW b \in BOOLEAN
  PROVE  (~a) = b <=> ~(a = b)
OBVIOUS

LEMMA OnClickLikeKeeps ==
  ASSUME FeedInv, NEW f \in Feeds, NEW p, OnClickLike(f, p)
  PROVE  FeedInv'
<1> DEFINE w == items[f][p]
           q == w.pending
           r == Clicked(q, w.liked)
           x == [w EXCEPT !.liked = ~w.liked, !.pending = r]
<1>1. /\ p \in DOMAIN items[f] /\ likes < MaxLikes /\ likes' = likes + 1
      /\ items' = [items EXCEPT ![f][p] = x]
      /\ UNCHANGED <<pageVars, needReload, loads, form, sends, serverVars, faults, historyVars>>
  BY DEF OnClickLike, Clicked
<1>2. w \in PreviewRecord /\ p \in Posts
  BY <1>1 DEF FeedInv, ItemTypes, ListsExist, ServerTypes
<1>3. w.liked \in BOOLEAN /\ q \in Seq(Clicks)
  BY <1>2 DEF PreviewRecord
<1>4. /\ r \in Seq(Clicks)
      /\ OddlyMany(r) <=> ~OddlyMany(q)
      /\ \A k \in 1..Len(r) : r[k].alone => Len(r) = 1 /\ r[k].old = w.liked
  <2>1. \A s \in Seq(Clicks), o \in BOOLEAN : OneMoreClick(Clicked(s, o), s, o)
    BY ClickIsCounted
  <2>2. OneMoreClick(r, q, w.liked)
    BY <1>3, <2>1
  <2> QED
    BY <2>2 DEF OneMoreClick
<1> HIDE DEF r
<1>5. x \in PreviewRecord /\ x.liked = ~w.liked /\ x.pending = r
  BY <1>2, <1>3, <1>4 DEF PreviewRecord
<1> HIDE DEF x
<1>6. /\ UNCHANGED <<pageVars, needReload, loads, form, sends, exists, told, crossed>>
      /\ liked' = liked /\ blurred' = blurred /\ faults' = faults
  BY <1>1 DEF serverVars, historyVars
<1>7. /\ PageTypes' /\ LoadTypes' /\ ItemTypes'
      /\ BarShowsPage' /\ ListsExist' /\ ToldIsKnown' /\ DraftInv'
  BY <1>1, <1>5, <1>6, ItemStep
<1>8. likes' \in 0..MaxLikes
  BY <1>1, PostFeedsAssumption DEF FeedInv, ServerTypes
<1>9. ServerTypes'
  BY <1>6, <1>8 DEF FeedInv, ServerTypes
<1>10. OnlyItem(f, p, x)
  BY <1>1, <1>5, ItemIsReplaced
<1>11. HeartInv'
  <2> SUFFICES ASSUME NEW g \in Feeds, NEW o \in DOMAIN items'[g]
               PROVE  /\ <<g, o>> \notin blurred =>
                           (items'[g][o].liked = liked[o] <=> ~OddlyMany(items'[g][o].pending))
                      /\ \A k \in 1..Len(items'[g][o].pending) : items'[g][o].pending[k].alone =>
                           Len(items'[g][o].pending) = 1 /\ items'[g][o].pending[k].old = ~items'[g][o].liked
    BY <1>6 DEF HeartInv, OddlyMany, Unserved
  <2>1. o \in DOMAIN items[g]
    BY <1>10 DEF OnlyItem
  <2>2. /\ <<g, o>> \notin blurred => (items[g][o].liked = liked[o] <=> ~OddlyMany(items[g][o].pending))
        /\ \A k \in 1..Len(items[g][o].pending) : items[g][o].pending[k].alone =>
             Len(items[g][o].pending) = 1 /\ items[g][o].pending[k].old = ~items[g][o].liked
    BY <2>1 DEF FeedInv, HeartInv
  <2>3. CASE g = f /\ o = p
    <3>1. items'[g][o] = x
      BY <1>10, <2>3 DEF OnlyItem
    <3>2. liked[p] \in BOOLEAN
      BY <1>2 DEF FeedInv, ServerTypes
    <3>3. <<f, p>> \notin blurred => (w.liked = liked[p] <=> ~OddlyMany(q))
      BY <2>2, <2>3
    <3>4. (~w.liked) = liked[p] <=> ~(w.liked = liked[p])
      BY <1>3, <3>2, OtherHeart
    <3>5. <<f, p>> \notin blurred => (x.liked = liked[p] <=> ~OddlyMany(x.pending))
      <4>1. x.liked = liked[p] <=> ~(w.liked = liked[p])
        BY <1>5, <3>4, Zenon
      <4>2. OddlyMany(x.pending) <=> ~OddlyMany(q)
        BY <1>4, <1>5
      <4> QED
        BY <3>3, <4>1, <4>2, Zenon
    <3>6. (~x.liked) = w.liked
      BY <1>3, <1>5
    <3>7. \A k \in 1..Len(x.pending) : x.pending[k].alone => Len(x.pending) = 1 /\ x.pending[k].old = ~x.liked
      <4>1. x.pending = r
        BY <1>5
      <4>2. \A k \in 1..Len(r) : r[k].alone => Len(r) = 1 /\ r[k].old = ~x.liked
        BY <1>4, <3>6
      <4> HIDE DEF r, x
      <4> QED
        BY <4>1, <4>2, Zenon
    <3> QED
      BY <2>3, <3>1, <3>5, <3>7
  <2>4. CASE ~(g = f /\ o = p)
    <3>1. items'[g][o] = items[g][o]
      BY <1>10, <2>1, <2>4 DEF OnlyItem
    <3> QED
      BY <2>2, <3>1
  <2> QED
    BY <2>3, <2>4
<1> QED
  BY <1>7, <1>9, <1>11 DEF FeedInv

LEMMA ServeLikeKeeps ==
  ASSUME FeedInv, NEW f \in Feeds, NEW p, NEW k, ServeLike(f, p, k)
  PROVE  FeedInv'
<1> DEFINE w == items[f][p]
           q == w.pending
           r == [q EXCEPT ![k].served = TRUE]
           x == [w EXCEPT !.pending = r]
<1>1. /\ p \in DOMAIN items[f] /\ k \in 1..Len(q) /\ ~q[k].served
      /\ liked' = [liked EXCEPT ![p] = ~liked[p]]
      /\ blurred' = blurred \cup {<<g, p>> : g \in Feeds \ {f}}
      /\ UNCHANGED <<pageVars, needReload, loads, form, sends, exists, likes, faults, told, crossed>>
  BY DEF ServeLike
<1>2. items' = [items EXCEPT ![f][p] = x]
  BY DEF ServeLike
<1>3. w \in PreviewRecord /\ p \in Posts
  BY <1>1 DEF FeedInv, ItemTypes, ListsExist, ServerTypes
<1>4. w.liked \in BOOLEAN /\ q \in Seq(Clicks)
  BY <1>3 DEF PreviewRecord
<1>5. /\ r \in Seq(Clicks) /\ Len(r) = Len(q)
      /\ OddlyMany(r) <=> ~OddlyMany(q)
      /\ \A j \in 1..Len(q) : r[j].alone = q[j].alone /\ r[j].old = q[j].old
  <2> HIDE DEF q, w
  <2> QED
    BY <1>1, <1>4, ServiceIsCounted
<1> HIDE DEF r
<1>6. x \in PreviewRecord /\ x.liked = w.liked /\ x.pending = r
  BY <1>3, <1>5 DEF PreviewRecord
<1> HIDE DEF x
<1>7. /\ PageTypes' /\ LoadTypes' /\ ItemTypes'
      /\ BarShowsPage' /\ ListsExist' /\ ToldIsKnown' /\ DraftInv'
  BY <1>1, <1>2, <1>6, ItemStep
<1>8. liked \in [Posts -> BOOLEAN]
  BY DEF FeedInv, ServerTypes
<1>9. liked' \in [Posts -> BOOLEAN] /\ liked'[p] = ~liked[p] /\ \A o \in Posts : o # p => liked'[o] = liked[o]
  BY <1>1, <1>3, <1>8
<1>10. blurred' \subseteq (Feeds \X Posts)
  BY <1>1, <1>3 DEF FeedInv, ServerTypes
<1>11. ServerTypes'
  BY <1>1, <1>9, <1>10 DEF FeedInv, ServerTypes
<1>12. OnlyItem(f, p, x)
  BY <1>1, <1>2, <1>6, ItemIsReplaced
<1>13. HeartInv'
  <2> SUFFICES ASSUME NEW g \in Feeds, NEW o \in DOMAIN items'[g]
               PROVE  /\ <<g, o>> \notin blurred' =>
                           (items'[g][o].liked = liked'[o] <=> ~OddlyMany(items'[g][o].pending))
                      /\ \A j \in 1..Len(items'[g][o].pending) : items'[g][o].pending[j].alone =>
                           Len(items'[g][o].pending) = 1 /\ items'[g][o].pending[j].old = ~items'[g][o].liked
    BY DEF HeartInv, OddlyMany, Unserved
  <2>1. o \in DOMAIN items[g] /\ o \in Posts
    BY <1>12 DEF OnlyItem, FeedInv, ListsExist, ServerTypes
  <2>2. /\ <<g, o>> \notin blurred => (items[g][o].liked = liked[o] <=> ~OddlyMany(items[g][o].pending))
        /\ \A j \in 1..Len(items[g][o].pending) : items[g][o].pending[j].alone =>
             Len(items[g][o].pending) = 1 /\ items[g][o].pending[j].old = ~items[g][o].liked
    BY <2>1 DEF FeedInv, HeartInv
  <2>3. <<g, o>> \notin blurred' => <<g, o>> \notin blurred
    BY <1>1
  <2>4. CASE g = f /\ o = p
    <3>1. items'[g][o] = x
      BY <1>12, <2>4 DEF OnlyItem
    <3>2. <<f, p>> \notin blurred => (w.liked = liked[p] <=> ~OddlyMany(q))
      BY <2>2, <2>4
    <3>3. w.liked = ~liked[p] <=> ~(w.liked = liked[p])
      <4>1. liked[p] \in BOOLEAN
        BY <1>3, <1>8
      <4>2. (~liked[p]) = w.liked <=> ~(liked[p] = w.liked)
        BY <1>4, <4>1, OtherHeart
      <4> QED
        BY <4>2, Zenon
    <3>4. <<f, p>> \notin blurred => (x.liked = liked'[p] <=> ~OddlyMany(x.pending))
      <4>1. x.liked = liked'[p] <=> ~(w.liked = liked[p])
        BY <1>6, <1>9, <3>3, Zenon
      <4>2. OddlyMany(x.pending) <=> ~OddlyMany(q)
        BY <1>5, <1>6
      <4> QED
        BY <3>2, <4>1, <4>2, Zenon
    <3>5. \A j \in 1..Len(x.pending) : x.pending[j].alone => Len(x.pending) = 1 /\ x.pending[j].old = ~x.liked
      <4>1. \A j \in 1..Len(q) : q[j].alone => Len(q) = 1 /\ q[j].old = ~w.liked
        BY <2>2, <2>4
      <4> QED
        BY <1>5, <1>6, <4>1
    <3> QED
      BY <2>3, <2>4, <3>1, <3>4, <3>5
  <2>5. CASE ~(g = f /\ o = p)
    <3>1. items'[g][o] = items[g][o]
      BY <1>12, <2>1, <2>5 DEF OnlyItem
    <3>2. <<g, o>> \notin blurred' => liked'[o] = liked[o]
      BY <1>1, <1>9, <2>1, <2>5
    <3> QED
      BY <2>2, <2>3, <3>1, <3>2
  <2> QED
    BY <2>4, <2>5
<1> QED
  BY <1>7, <1>11, <1>13 DEF FeedInv

(* The answer to a click: the click goes, and the heart becomes h; b tells  *)
(* whether it is still accounted for.                                      *)
LikeAnswer(f, p, k, h, b) ==
  LET item == items[f][p]
      click == item.pending[k]
  IN /\ items' = [items EXCEPT ![f][p] = [item EXCEPT !.liked = h, !.pending = RemoveAt(item.pending, k)]]
     /\ blurred' = blurred \cup b
     /\ UNCHANGED <<pageVars, needReload, loads, form, sends, serverVars, likes, told, crossed>>
     /\ faults' \in 0..MaxFaults
     /\ b = {} => \/ h = item.liked /\ click.served
                  \/ ~click.served /\ click.alone /\ h = click.old

LEMMA LikeAnswerKeeps ==
  ASSUME FeedInv, NEW f \in Feeds, NEW p \in DOMAIN items[f], NEW k \in 1..Len(items[f][p].pending),
         NEW h \in BOOLEAN, NEW b \in SUBSET {<<f, p>>}, LikeAnswer(f, p, k, h, b)
  PROVE  FeedInv'
<1> DEFINE w == items[f][p]
           q == w.pending
           r == RemoveAt(q, k)
           x == [w EXCEPT !.liked = h, !.pending = r]
<1>1. items' = [items EXCEPT ![f][p] = x]
  BY DEF LikeAnswer
<1>2. /\ UNCHANGED <<pageVars, needReload, loads, form, sends, exists, told, crossed>>
      /\ liked' = liked /\ likes' = likes /\ faults' \in 0..MaxFaults /\ blurred' = blurred \cup b
  BY DEF LikeAnswer, serverVars
<1>3. w \in PreviewRecord /\ p \in Posts
  BY DEF FeedInv, ItemTypes, ListsExist, ServerTypes
<1>4. w.liked \in BOOLEAN /\ q \in Seq(Clicks) /\ Len(q) \in Nat /\ k \in 1..Len(q)
  BY <1>3 DEF PreviewRecord
<1>5. /\ r \in Seq(Clicks) /\ Len(r) = Len(q) - 1
      /\ q[k].served => (OddlyMany(r) <=> OddlyMany(q))
      /\ \A j \in 1..Len(r) : \E i \in 1..Len(q) : r[j] = q[i]
  <2> HIDE DEF q, w
  <2> QED
    BY <1>4, AnswerIsCounted
<1> HIDE DEF r
<1>6. x \in PreviewRecord /\ x.liked = h /\ x.pending = r
  BY <1>3, <1>5 DEF PreviewRecord
<1> HIDE DEF x
<1>7. /\ PageTypes' /\ LoadTypes' /\ ItemTypes'
      /\ BarShowsPage' /\ ListsExist' /\ ToldIsKnown' /\ DraftInv'
  BY <1>1, <1>2, <1>6, ItemStep
<1>8. liked \in [Posts -> BOOLEAN] /\ liked[p] \in BOOLEAN
  BY <1>3 DEF FeedInv, ServerTypes
<1>9. ServerTypes'
  <2>1. blurred' \subseteq (Feeds \X Posts)
    BY <1>2, <1>3 DEF FeedInv, ServerTypes
  <2> QED
    BY <1>2, <2>1 DEF FeedInv, ServerTypes
<1>10. OnlyItem(f, p, x)
  BY <1>1, <1>6, ItemIsReplaced
<1>11. HeartInv'
  <2> SUFFICES ASSUME NEW g \in Feeds, NEW o \in DOMAIN items'[g]
               PROVE  /\ <<g, o>> \notin blurred' =>
                           (items'[g][o].liked = liked[o] <=> ~OddlyMany(items'[g][o].pending))
                      /\ \A j \in 1..Len(items'[g][o].pending) : items'[g][o].pending[j].alone =>
                           Len(items'[g][o].pending) = 1 /\ items'[g][o].pending[j].old = ~items'[g][o].liked
    BY <1>2 DEF HeartInv, OddlyMany, Unserved
  <2>1. o \in DOMAIN items[g]
    BY <1>10 DEF OnlyItem
  <2>2. /\ <<g, o>> \notin blurred => (items[g][o].liked = liked[o] <=> ~OddlyMany(items[g][o].pending))
        /\ \A j \in 1..Len(items[g][o].pending) : items[g][o].pending[j].alone =>
             Len(items[g][o].pending) = 1 /\ items[g][o].pending[j].old = ~items[g][o].liked
    BY <2>1 DEF FeedInv, HeartInv
  <2>3. CASE g = f /\ o = p
    <3>1. items'[g][o] = x
      BY <1>10, <2>3 DEF OnlyItem
    <3>2. /\ <<f, p>> \notin blurred => (w.liked = liked[p] <=> ~OddlyMany(q))
          /\ \A j \in 1..Len(q) : q[j].alone => Len(q) = 1 /\ q[j].old = ~w.liked
      BY <2>2, <2>3
    <3>3. <<f, p>> \notin blurred' => (h = liked[p] <=> ~OddlyMany(r))
      <4>1. SUFFICES ASSUME <<f, p>> \notin blurred' PROVE h = liked[p] <=> ~OddlyMany(r)
        OBVIOUS
      <4>2. b = {} /\ <<f, p>> \notin blurred
        BY <1>2, <4>1
      <4>3. CASE h = w.liked /\ q[k].served
        <5> HIDE DEF q, w
        <5> QED
          BY <1>5, <3>2, <4>2, <4>3
      <4>4. CASE ~q[k].served /\ q[k].alone /\ h = q[k].old
        <5>1. Len(q) = 1 /\ h = ~w.liked
          BY <3>2, <4>4
        <5>2. r = <<>>
          BY <1>4, <1>5, <5>1
        <5>3. ~OddlyMany(r)
          BY <5>2, NoClicksCount
        <5>4. OddlyMany(q)
          <6>1. k = 1
            BY <5>1
          <6>2. Unserved(q) = {1}
            BY <4>4, <5>1, <6>1 DEF Unserved
          <6>3. Cardinality(Unserved(q)) = 1
            BY <6>2, FS_Singleton
          <6> QED
            BY <6>3 DEF OddlyMany
        <5>5. ~(w.liked = liked[p])
          BY <3>2, <4>2, <5>4
        <5>6. (~w.liked) = liked[p] <=> ~(w.liked = liked[p])
          BY <1>4, <1>8, OtherHeart
        <5>7. h = liked[p]
          BY <5>1, <5>5, <5>6
        <5> QED
          BY <5>3, <5>7
      <4> QED
        BY <4>2, <4>3, <4>4 DEF LikeAnswer
    <3>4. \A j \in 1..Len(r) : r[j].alone => Len(r) = 1 /\ r[j].old = ~h
      <4> SUFFICES ASSUME NEW j \in 1..Len(r), r[j].alone PROVE FALSE
        OBVIOUS
      <4>1. PICK i \in 1..Len(q) : r[j] = q[i]
        BY <1>5
      <4>2. Len(q) = 1
        BY <3>2, <4>1
      <4> QED
        BY <1>5, <4>2
    <3> QED
      BY <1>6, <2>3, <3>1, <3>3, <3>4
  <2>4. CASE ~(g = f /\ o = p)
    <3>1. items'[g][o] = items[g][o]
      BY <1>10, <2>1, <2>4 DEF OnlyItem
    <3>2. <<g, o>> \notin blurred' => <<g, o>> \notin blurred
      BY <1>2
    <3> QED
      BY <2>2, <3>1, <3>2
  <2> QED
    BY <2>3, <2>4
<1> QED
  BY <1>7, <1>9, <1>11 DEF FeedInv

LEMMA LikeSucceedsKeeps ==
  ASSUME FeedInv, NEW f \in Feeds, NEW p, NEW k, LikeSucceeds(f, p, k)
  PROVE  FeedInv'
<1> DEFINE w == items[f][p]
           r == RemoveAt(w.pending, k)
<1>1. /\ p \in DOMAIN items[f] /\ k \in 1..Len(w.pending) /\ w.pending[k].served
      /\ UNCHANGED <<pageVars, needReload, loads, form, sends, serverVars, likes, told, crossed>>
      /\ faults' = faults /\ blurred' = blurred
  BY DEF LikeSucceeds, historyVars
<1>2. w \in PreviewRecord
  BY <1>1 DEF FeedInv, ItemTypes
<1>3. items' = [items EXCEPT ![f][p].pending = r]
  BY DEF LikeSucceeds
<1>4. items' = [items EXCEPT ![f][p] = [w EXCEPT !.pending = r]]
  BY <1>3
<1> HIDE DEF r
<1>5. w.liked \in BOOLEAN /\ [w EXCEPT !.pending = r] = [w EXCEPT !.liked = w.liked, !.pending = r]
  BY <1>2 DEF PreviewRecord
<1>6. faults \in 0..MaxFaults
  BY DEF FeedInv, ServerTypes
<1>7. items' = [items EXCEPT ![f][p] = [w EXCEPT !.liked = w.liked, !.pending = r]]
  BY <1>4, <1>5
<1>8. LikeAnswer(f, p, k, w.liked, {})
  BY <1>1, <1>6, <1>7 DEF LikeAnswer, r
<1> QED
  BY <1>1, <1>5, <1>8, LikeAnswerKeeps

LEMMA LikeFailsKeeps ==
  ASSUME FeedInv, NEW f \in Feeds, NEW p, NEW k, LikeFails(f, p, k)
  PROVE  FeedInv'
<1> DEFINE w == items[f][p]
           q == w.pending
           b == IF q[k].served \/ ~q[k].alone THEN {<<f, p>>} ELSE {}
<1>1. /\ p \in DOMAIN items[f] /\ k \in 1..Len(q) /\ Fault
      /\ items' = [items EXCEPT ![f][p] = [w EXCEPT !.liked = q[k].old, !.pending = RemoveAt(q, k)]]
      /\ blurred' = IF q[k].served \/ ~q[k].alone THEN blurred \cup {<<f, p>>} ELSE blurred
      /\ UNCHANGED <<pageVars, needReload, loads, form, sends, serverVars, likes, told, crossed>>
  BY DEF LikeFails
<1>2. w \in PreviewRecord
  BY <1>1 DEF FeedInv, ItemTypes
<1>3. q[k] \in Clicks
  BY <1>1, <1>2 DEF PreviewRecord
<1>4. q[k].old \in BOOLEAN /\ q[k].served \in BOOLEAN /\ q[k].alone \in BOOLEAN
  BY <1>3 DEF Clicks
<1>5. faults' \in 0..MaxFaults
  BY <1>1, FaultIsCounted
<1>6. blurred' = blurred \cup b /\ b \in SUBSET {<<f, p>>}
  BY <1>1
<1>7. b = {} => ~q[k].served /\ q[k].alone
  OBVIOUS
<1> HIDE DEF b
<1>8. LikeAnswer(f, p, k, q[k].old, b)
  BY <1>1, <1>5, <1>6, <1>7 DEF LikeAnswer
<1> QED
  BY <1>1, <1>4, <1>6, <1>8, LikeAnswerKeeps

-----------------------------------------------------------------------------
(* The steps: writing a post.                                              *)

(* The feeds are left alone.                                               *)
LEMMA WritingStep ==
  ASSUME FeedInv, UNCHANGED <<pageVars, needReload, loads, items, liked, likes, told, crossed, blurred>>,
         exists \subseteq exists'
  PROVE  /\ PageTypes' /\ LoadTypes' /\ ItemTypes'
         /\ BarShowsPage' /\ ListsExist' /\ ToldIsKnown' /\ HeartInv'
<1>1. needReload \in [Feeds -> BOOLEAN]
  BY DEF FeedInv, PageTypes
<1>2. PageTypes' /\ BarShowsPage'
  BY <1>1, PagesStay
<1>3. LoadTypes' /\ LoadsFrom
  BY LoadsStay DEF FeedInv
<1>4. ItemTypes' /\ ToldIsKnown'
  BY DEF FeedInv, ItemTypes, ToldIsKnown
<1>5. ListsExist'
  BY <1>3, ListsStay DEF FeedInv
<1>6. HeartInv'
  BY HeartsStay DEF FeedInv, ItemsStay
<1> QED
  BY <1>2, <1>3, <1>4, <1>5, <1>6

LEMMA EditFormKeeps ==
  ASSUME FeedInv, EditForm
  PROVE  FeedInv'
<1>1. /\ form' \in Texts \cup {Empty} /\ sends' = sends
      /\ UNCHANGED <<pageVars, needReload, loads, items, liked, likes, told, crossed, blurred>>
      /\ exists' = exists /\ faults' = faults
  BY DEF EditForm, serverVars, historyVars
<1>2. ServerTypes' /\ DraftInv'
  BY <1>1 DEF FeedInv, ServerTypes, DraftInv
<1> QED
  BY <1>1, <1>2, WritingStep DEF FeedInv

LEMMA SendPostKeeps ==
  ASSUME FeedInv, SendPost
  PROVE  FeedInv'
<1>1. /\ form # Empty
      /\ UNCHANGED <<pageVars, needReload, loads, items, liked, likes, told, crossed, blurred>>
      /\ exists' = exists /\ faults' = faults /\ form' = form
  BY DEF SendPost, serverVars, historyVars
<1>2. PICK p \in Posts \ (exists \cup {s.post : s \in sends}) :
        sends' = sends \cup {[post |-> p, served |-> FALSE]}
  BY DEF SendPost
<1> DEFINE n == [post |-> p, served |-> FALSE]
<1>3. n \in FeedSends /\ n.post = p /\ ~n.served /\ \A s \in sends : s.post # p
  BY <1>1 DEF FeedInv, ServerTypes, FeedSends
<1> HIDE DEF n
<1>4. sends' = sends \cup {n}
  BY <1>2 DEF n
<1>5. ServerTypes'
  BY <1>1, <1>3, <1>4 DEF FeedInv, ServerTypes
<1>6. DraftInv'
  BY <1>1, <1>3, <1>4 DEF FeedInv, DraftInv
<1> QED
  BY <1>1, <1>5, <1>6, WritingStep DEF FeedInv

LEMMA ServeSendKeeps ==
  ASSUME FeedInv, NEW s, ServeSend(s)
  PROVE  FeedInv'
<1> DEFINE e == [s EXCEPT !.served = TRUE]
<1>1. /\ s \in sends /\ sends' = (sends \ {s}) \cup {e}
      /\ exists' = exists \cup {s.post}
      /\ UNCHANGED <<pageVars, needReload, loads, items, liked, likes, told, crossed, blurred>>
      /\ form' = form /\ faults' = faults
  BY DEF ServeSend, historyVars
<1>2. s \in FeedSends /\ s.post \in Posts
  BY <1>1 DEF FeedInv, ServerTypes, FeedSends
<1>3. e \in FeedSends /\ e.post = s.post
  BY <1>2 DEF FeedSends
<1> HIDE DEF e
<1>4. ServerTypes'
  BY <1>1, <1>2, <1>3 DEF FeedInv, ServerTypes
<1>5. DraftInv'
  <2>1. ASSUME NEW d \in sends' PROVE d.served => d.post \in exists'
    BY <1>1, <1>3 DEF FeedInv, DraftInv
  <2>2. \A r \in sends' : \A d \in sends' : r.post = d.post => r = d
    BY <1>1, <1>3 DEF FeedInv, DraftInv
  <2> QED
    BY <1>1, <2>1, <2>2 DEF DraftInv
<1> QED
  BY <1>1, <1>4, <1>5, WritingStep DEF FeedInv

LEMMA SendFailsKeeps ==
  ASSUME FeedInv, NEW s, SendFails(s)
  PROVE  FeedInv'
<1>1. /\ sends' \subseteq sends /\ Fault
      /\ UNCHANGED <<pageVars, needReload, loads, items, liked, likes, told, crossed, blurred>>
      /\ exists' = exists /\ form' = form
  BY DEF SendFails, serverVars, historyVars
<1>2. faults' \in 0..MaxFaults
  BY <1>1, FaultIsCounted
<1>3. ServerTypes'
  BY <1>1, <1>2 DEF FeedInv, ServerTypes
<1>4. DraftInv'
  BY <1>1, DraftStays DEF FeedInv
<1> QED
  BY <1>1, <1>3, <1>4, WritingStep DEF FeedInv

LEMMA SendSucceedsKeeps ==
  ASSUME FeedInv, NEW s, SendSucceeds(s)
  PROVE  FeedInv'
<1>1. /\ s \in sends /\ s.served /\ sends' = sends \ {s} /\ form' = Empty
      /\ told' = told \cup {s.post} /\ crossed' = (loads[Home] # <<>>)
      /\ ShowPage(Home, visible, TRUE) /\ selectedItem' = Home
      /\ exists' = exists /\ liked' = liked /\ likes' = likes /\ faults' = faults
      /\ blurred' = blurred
  BY DEF SendSucceeds, OnPostCreated, serverVars
<1>2. Home \in 0..CreatePage /\ visible \in BOOLEAN /\ TRUE \in BOOLEAN /\ Home \in BarItems
  BY DEF FeedInv, PageTypes, Home, CreatePage, BarItems
<1>3. /\ currentPage' = Home /\ visible' = visible
      /\ firstShow' \in [Feeds -> BOOLEAN] /\ needReload' \in [Feeds -> BOOLEAN]
      /\ needReload'[Home]
      /\ LoadTypes' /\ LoadsFrom /\ ItemTypes' /\ ItemsStay
  BY <1>1, <1>2, PageIsShown
<1>4. PageTypes' /\ BarShowsPage' /\ ToldIsKnown'
  BY <1>1, <1>2, <1>3 DEF PageTypes, BarShowsPage, ToldIsKnown
<1>5. s.post \in exists
  BY <1>1 DEF FeedInv, DraftInv
<1>6. ServerTypes'
  <2>1. crossed' \in BOOLEAN
    BY <1>1 DEF FeedInv, ServerTypes
  <2> QED
    BY <1>1, <1>5, <2>1 DEF FeedInv, ServerTypes
<1>7. DraftInv'
  BY <1>1, DraftStays DEF FeedInv
<1>8. HeartInv'
  BY <1>1, <1>3, HeartsStay DEF FeedInv
<1>9. ListsExist'
  <2>1. \A f \in Feeds : DOMAIN items'[f] \subseteq exists'
    BY <1>1, <1>3 DEF FeedInv, ListsExist, ItemsStay
  <2> SUFFICES ASSUME NEW g \in Feeds, NEW j \in 1..Len(loads'[g]), loads'[g][j] # NotServed
               PROVE  /\ DOMAIN loads'[g][j][1] \subseteq exists
                      /\ g = Home /\ ~crossed' => told' \subseteq DOMAIN loads'[g][j][1]
    BY <1>1, <2>1 DEF ListsExist
  <2>2. PICK m \in 1..Len(loads[g]) : loads'[g][j] = loads[g][m]
    BY <1>3 DEF LoadsFrom
  <2>3. loads[g][m] # NotServed
    BY <2>2
  <2>4. DOMAIN loads[g][m][1] \subseteq exists
    BY <2>3 DEF FeedInv, ListsExist
  <2>5. g = Home => crossed'
    <3>1. loads[g] # <<>>
      BY <2>2
    <3> QED
      BY <1>1, <3>1, Zenon
  <2> QED
    BY <2>2, <2>4, <2>5
<1> QED
  BY <1>3, <1>4, <1>6, <1>7, <1>8, <1>9 DEF FeedInv

-----------------------------------------------------------------------------
(* The invariant is inductive.                                             *)

LEMMA FeedInit ==
  ASSUME PostFeedsInit
  PROVE  FeedInv
<1>1. /\ loads = [f \in Feeds |-> <<>>] /\ items = [f \in Feeds |-> <<>>]
      /\ selectedItem = Home /\ currentPage = Home /\ visible = FALSE /\ exists \subseteq Posts /\ sends = {} /\ told = {}
  BY DEF PostFeedsInit
<1>2. \A f \in Feeds : DOMAIN items[f] = {} /\ loads[f] = <<>> /\ Len(loads[f]) = 0
  BY <1>1
<1>3. PageTypes /\ BarShowsPage
  <2>1. selectedItem = 0 /\ currentPage = 0
    BY <1>1 DEF Home
  <2>4. selectedItem \in BarItems /\ currentPage \in 0..CreatePage
    BY <2>1 DEF BarItems, CreatePage
  <2>5. visible \in BOOLEAN
    BY <1>1
  <2>2. firstShow = [f \in Feeds |-> TRUE] /\ needReload = [f \in Feeds |-> FALSE]
    BY DEF PostFeedsInit
  <2>3. firstShow \in [Feeds -> BOOLEAN] /\ needReload \in [Feeds -> BOOLEAN]
    BY <2>2
  <2> QED
    BY <2>1, <2>3, <2>4, <2>5 DEF PageTypes, BarShowsPage
<1>4. LoadTypes
  BY <1>1, <1>2, PostFeedsAssumption DEF LoadTypes
<1>5. ItemTypes /\ ListsExist /\ HeartInv
  BY <1>1, <1>2 DEF ItemTypes, ListsExist, HeartInv
<1>6. ServerTypes
  <2>1. liked = [p \in Posts |-> FALSE]
    BY DEF PostFeedsInit
  <2>2. liked \in [Posts -> BOOLEAN]
    BY <2>1
  <2>3. likes \in 0..MaxLikes /\ faults \in 0..MaxFaults
    BY PostFeedsAssumption DEF PostFeedsInit
  <2>4. exists \subseteq Posts
    BY <1>1
  <2> QED
    BY <1>1, <2>2, <2>3, <2>4 DEF PostFeedsInit, ServerTypes
<1>7. ToldIsKnown /\ DraftInv
  BY <1>1 DEF ToldIsKnown, DraftInv
<1> QED
  BY <1>3, <1>4, <1>5, <1>6, <1>7 DEF FeedInv

LEMMA FeedStep ==
  ASSUME FeedInv, [PostFeedsNext]_postFeedVars
  PROVE  FeedInv'
<1>1. CASE Navigate \/ OnItemClicked \/ EditForm \/ SendPost
  BY <1>1, NavigateKeeps, OnItemClickedKeeps, EditFormKeeps, SendPostKeeps
<1>2. ASSUME NEW s \in sends, SendStep(s) PROVE FeedInv'
  BY <1>2, ServeSendKeeps, SendSucceedsKeeps, SendFailsKeeps DEF SendStep
<1>3. ASSUME NEW f \in Feeds, NEW i \in 1..MaxLoads, LoadStep(f, i) PROVE FeedInv'
  BY <1>3, ServeLoadKeeps, LoadSucceedsKeeps, LoadFailsKeeps DEF LoadStep
<1>4. ASSUME NEW f \in Feeds, NEW p \in Posts, ImageArrives(f, p) \/ ImageFails(f, p) \/ OnClickLike(f, p)
      PROVE  FeedInv'
  BY <1>4, ImageStepKeeps, OnClickLikeKeeps
<1>5. ASSUME NEW f \in Feeds, NEW p \in Posts, NEW k \in 1..MaxLikes, LikeStep(f, p, k) PROVE FeedInv'
  BY <1>5, ServeLikeKeeps, LikeSucceedsKeeps, LikeFailsKeeps DEF LikeStep
<1>6. CASE UNCHANGED postFeedVars
  <2>1. /\ UNCHANGED <<pageVars, needReload, loads, items, liked, likes, told, crossed, blurred>>
        /\ exists' = exists /\ form' = form /\ sends' = sends /\ faults' = faults
    BY <1>6 DEF postFeedVars, pageVars
  <2>2. ServerTypes' /\ DraftInv'
    BY <2>1 DEF FeedInv, ServerTypes, DraftInv
  <2> QED
    BY <2>1, <2>2, WritingStep DEF FeedInv
<1> QED
  BY <1>1, <1>2, <1>3, <1>4, <1>5, <1>6 DEF PostFeedsNext

(* The invariant of the feeds holds in every reachable state.              *)
THEOREM FeedInductive == PostFeedsSpec => []FeedInv
<1>1. PostFeedsInit => FeedInv
  BY FeedInit
<1>2. FeedInv /\ [PostFeedsNext]_postFeedVars => FeedInv'
  BY FeedStep
<1> QED
  BY <1>1, <1>2, PTL DEF PostFeedsSpec

(* Bar, pages and hearts agree with each other and with the server: the    *)
(* bar marks the page on the stack also after a post was sent; a post whose *)
(* success was reported is listed or the page will fetch it, unless the     *)
(* last success crossed a fetch that began before; and a heart with no      *)
(* click under way is the server's, unless a list, a click in the other     *)
(* feed or a failure crossed the click (PostApplication::onPostCreated, PostFeedPage::reloadData,               *)
(* PostPreviewItem::onClickLike).                                          *)
THEOREM FeedsStay == PostFeedsSpec => []FeedsAgree
<1>1. ASSUME FeedInv PROVE FeedsAgree
  <2>1. ASSUME NEW f \in Feeds
        PROVE  /\ Len(loads[f]) <= MaxLoads
               /\ \A i \in 1..Len(loads[f]) : loads[f][i] = NotServed \/ loads[f][i][1] \in Lists
    <3>1. loads[f] \in Seq(LoadStates)
      BY <1>1 DEF FeedInv, LoadTypes
    <3>2. \A i \in 1..Len(loads[f]) : loads[f][i] \in LoadStates
      BY <3>1
    <3>3. \A x \in LoadStates : x = NotServed \/ x[1] \in Lists
      BY DEF LoadStates
    <3> QED
      BY <1>1, <3>2, <3>3 DEF FeedInv, LoadTypes
  <2>2. ASSUME NEW f \in Feeds, NEW p \in DOMAIN items[f]
        PROVE  /\ items[f][p].liked \in BOOLEAN /\ items[f][p].shown \in BOOLEAN /\ items[f][p].image \in BOOLEAN
               /\ \A k \in 1..Len(items[f][p].pending) : items[f][p].pending[k] \in Clicks
    <3>1. items[f][p] \in PreviewRecord
      BY <1>1 DEF FeedInv, ItemTypes
    <3>2. items[f][p].pending \in Seq(Clicks)
      BY <3>1 DEF PreviewRecord
    <3> QED
      BY <3>1, <3>2 DEF PreviewRecord
  <2>3. PostFeedsTypeOK
    BY <1>1, <2>1, <2>2 DEF FeedInv, PageTypes, ListsExist, ServerTypes, FeedSends, PostFeedsTypeOK
  <2>4. BarShowsPage /\ CreatedIsListed
    BY <1>1 DEF FeedInv, ToldIsKnown, CreatedIsListed
  <2>5. HeartsAgree
    BY <1>1, NoClicksCount DEF FeedInv, HeartInv, HeartsAgree
  <2> QED
    BY <2>3, <2>4, <2>5 DEF FeedsAgree
<1> QED
  BY <1>1, FeedInductive, PTL

===============================================================================
