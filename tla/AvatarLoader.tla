------------------------------ MODULE AvatarLoader ------------------------------
(* The pictures of users and groups (AvatarLoader.cpp): a memory cache by   *)
(* id, files by id and kind, one download per id, and the labels, which     *)
(* take every event about the id they have.                                 *)
EXTENDS Naturals, FiniteSets

CONSTANTS
  Ids,
  Labels,
  Pictures,        \* what an address leads to
  maxMemoryItems,
  MaxAvatarLoads,        \* bound: requests of a run
  MaxErrors        \* bound: downloads that fail and restarts

NoId == "no id"
NoLabel == "no label"
DefaultAvatar == "default"
NotCached == "not cached"
NoFile == "no file"
Broken == "broken"

ASSUME AvatarAssumption ==
  /\ maxMemoryItems \in Nat \ {0} /\ MaxAvatarLoads \in Nat /\ MaxErrors \in Nat
  /\ NoId \notin Ids /\ {NotCached, NoFile, Broken} \cap Pictures = {} /\ IsFiniteSet(Ids)

VARIABLES
  avatarCache,     \* the picture in memory, by id
  loadingAvatars,
  downloads,       \* requests under way
  disk,            \* the files
  currentId, shown,  \* of the labels
  avatarLoads, errors,
  asked            \* history: pictures asked for, by id

avatarVars == <<avatarCache, loadingAvatars, downloads, disk, currentId, shown, avatarLoads, errors, asked>>

Downloads == [id : Ids, picture : Pictures, isGroup : BOOLEAN]

AvatarInit ==
  /\ avatarCache = [i \in Ids |-> NotCached] /\ loadingAvatars = {} /\ downloads = {}
  /\ disk = [i \in Ids |-> [g \in BOOLEAN |-> NoFile]]
  /\ currentId = [l \in Labels |-> NoId] /\ shown = [l \in Labels |-> DefaultAvatar]
  /\ avatarLoads = 0 /\ errors = 0 /\ asked = [i \in Ids |-> {}]

-----------------------------------------------------------------------------
CachedIn(cache) == {i \in Ids : cache[i] # NotCached}
Cached(id) == id \in CachedIn(avatarCache)

(* cleanupCache: one entry leaves when there is one too many, the new one   *)
(* not excepted.  It is the one used longest ago by the computer's clock,   *)
(* which may stand still between two uses and may be set: any entry.  The   *)
(* files are looked for in a directory above theirs, and none is removed.   *)
CleanupCache(cache, caches) ==
  \/ Cardinality(CachedIn(cache)) <= maxMemoryItems /\ caches = cache
  \/ /\ Cardinality(CachedIn(cache)) > maxMemoryItems
     /\ \E oldest \in CachedIn(cache) : caches = [cache EXCEPT ![oldest] = NotCached]

Put(id, picture) == CleanupCache([avatarCache EXCEPT ![id] = picture], avatarCache')

(* Faulty: a label takes every event.                                       *)
HandleAvatarLoadStatus_AnyId(labels, id, picture) == [l \in Labels |-> picture]

(* The event, to all labels.                                                *)
HandleAvatarLoadStatus(labels, id, picture) ==
  [l \in Labels |-> IF currentId'[l] = id THEN picture ELSE labels[l]]

OnDisk(id, isGroup) == disk[id][isGroup] \in Pictures

-----------------------------------------------------------------------------
(* AvatarLoader::loadAvatar, and that of a label before.  Views that paint  *)
(* pictures themselves ask without a label, and paint what getAvatar has.   *)
LoadAvatar ==
  \E l \in Labels \cup {NoLabel} : \E id \in Ids, p \in Pictures, isGroup \in BOOLEAN :
    LET labels == [k \in Labels |-> IF k = l THEN DefaultAvatar ELSE shown[k]]
        picture == IF Cached(id) THEN avatarCache[id] ELSE disk[id][isGroup]
    IN /\ avatarLoads < MaxAvatarLoads /\ avatarLoads' = avatarLoads + 1
       /\ asked' = [asked EXCEPT ![id] = @ \cup {p}]
       /\ currentId' = [k \in Labels |-> IF k = l THEN id ELSE currentId[k]]
       /\ \/ /\ Cached(id) \/ (id \notin loadingAvatars /\ OnDisk(id, isGroup))
             /\ IF Cached(id) THEN UNCHANGED avatarCache ELSE Put(id, picture)
             /\ shown' = HandleAvatarLoadStatus(labels, id, picture)
             /\ UNCHANGED <<loadingAvatars, downloads>>
          \/ /\ ~Cached(id) /\ id \in loadingAvatars
             /\ shown' = labels /\ UNCHANGED <<avatarCache, loadingAvatars, downloads>>
          \/ /\ ~Cached(id) /\ id \notin loadingAvatars /\ ~OnDisk(id, isGroup)
             /\ loadingAvatars' = loadingAvatars \cup {id}
             /\ downloads' = downloads \cup {[id |-> id, picture |-> p, isGroup |-> isGroup]}
             /\ shown' = labels /\ UNCHANGED avatarCache
       /\ UNCHANGED <<disk, errors>>

-----------------------------------------------------------------------------
(* Replies.                                                                 *)

Finished(d) == d \in downloads /\ downloads' = downloads \ {d} /\ UNCHANGED <<currentId, avatarLoads, asked>>

(* Faulty: the event is left out.                                           *)
ProcessDownloadedAvatar_Silent(d) ==
  /\ Finished(d)
  /\ loadingAvatars' = loadingAvatars \ {d.id}
  /\ disk' = [disk EXCEPT ![d.id][d.isGroup] = d.picture]
  /\ Put(d.id, d.picture)
  /\ UNCHANGED <<shown, errors>>

(* processDownloadedAvatar: the file is written and read back.              *)
ProcessDownloadedAvatar(d) ==
  /\ Finished(d)
  /\ loadingAvatars' = loadingAvatars \ {d.id}
  /\ disk' = [disk EXCEPT ![d.id][d.isGroup] = d.picture]
  /\ Put(d.id, d.picture)
  /\ shown' = HandleAvatarLoadStatus(shown, d.id, d.picture)
  /\ UNCHANGED errors

(* An error of the network, data that is no picture, or a file that could   *)
(* not be written as a whole.                                               *)
DownloadFails(d) ==
  /\ Finished(d) /\ errors < MaxErrors /\ errors' = errors + 1
  /\ loadingAvatars' = loadingAvatars \ {d.id}
  /\ disk' \in {disk, [disk EXCEPT ![d.id][d.isGroup] = Broken]}
  /\ shown' = HandleAvatarLoadStatus(shown, d.id, DefaultAvatar)
  /\ UNCHANGED avatarCache

(* Written, but not to be read back: no event at all.                       *)
FileUnreadable(d) ==
  /\ Finished(d) /\ errors < MaxErrors /\ errors' = errors + 1
  /\ loadingAvatars' = loadingAvatars \ {d.id}
  /\ disk' = [disk EXCEPT ![d.id][d.isGroup] = Broken]
  /\ UNCHANGED <<avatarCache, shown>>

(* The program ends, perhaps while a file is written, and is started again. *)
RestartProgram ==
  /\ errors < MaxErrors /\ errors' = errors + 1
  /\ \/ UNCHANGED disk
     \/ \E d \in downloads : disk' = [disk EXCEPT ![d.id][d.isGroup] = Broken]
  /\ avatarCache' = [i \in Ids |-> NotCached] /\ loadingAvatars' = {} /\ downloads' = {}
  /\ currentId' = [l \in Labels |-> NoId] /\ shown' = [l \in Labels |-> DefaultAvatar]
  /\ UNCHANGED <<avatarLoads, asked>>

AvatarNext ==
  \/ LoadAvatar \/ RestartProgram
  \/ \E d \in downloads : ProcessDownloadedAvatar(d) \/ DownloadFails(d) \/ FileUnreadable(d)

AvatarFairness ==
  WF_avatarVars(\E d \in downloads : ProcessDownloadedAvatar(d) \/ DownloadFails(d) \/ FileUnreadable(d))

AvatarSpec == AvatarInit /\ [][AvatarNext]_avatarVars /\ AvatarFairness

-----------------------------------------------------------------------------
AvatarTypeOK ==
  /\ avatarCache \in [Ids -> Pictures \cup {NotCached}]
  /\ loadingAvatars \subseteq Ids /\ downloads \subseteq Downloads
  /\ disk \in [Ids -> [BOOLEAN -> Pictures \cup {NoFile, Broken}]]
  /\ currentId \in [Labels -> Ids \cup {NoId}] /\ shown \in [Labels -> Pictures \cup {DefaultAvatar}]
  /\ avatarLoads \in 0..MaxAvatarLoads /\ errors \in 0..MaxErrors /\ asked \in [Ids -> SUBSET Pictures]

(* An id is being loaded exactly while one request for it is under way:     *)
(* after a failure it can be asked for again, and it is not fetched twice.  *)
LoadingIsDownloading ==
  /\ loadingAvatars = {d.id : d \in downloads}
  /\ \A d, e \in downloads : d.id = e.id => d = e

(* A label shows the default or a picture that was asked for under the id   *)
(* it has now, never one of an id it had before.                            *)
ShownIsAsked ==
  \A l \in Labels : shown[l] # DefaultAvatar => currentId[l] # NoId /\ shown[l] \in asked[currentId[l]]

(* What the memory holds is also in a file of that id, so that the next     *)
(* start shows the same, and the limit is kept whenever a call is over.     *)
CacheIsOnDisk ==
  /\ Cardinality(CachedIn(avatarCache)) <= maxMemoryItems
  /\ \A id \in CachedIn(avatarCache) : \E g \in BOOLEAN : disk[id][g] = avatarCache[id]

(* Every label that was given an id shows a picture in the end, also when  *)
(* another label asked first; unless something failed.                      *)
AskedIsShown ==
  \A l \in Labels :
    (currentId[l] # NoId /\ shown[l] = DefaultAvatar) ~> (errors > 0 \/ shown[l] # DefaultAvatar)

(* Labels, caches and downloads agree.                                      *)
PicturesAreOfTheirId ==
  /\ AvatarTypeOK
  /\ LoadingIsDownloading
  /\ ShownIsAsked
  /\ CacheIsOnDisk
===============================================================================
