---------------------------- MODULE ImageLoader ----------------------------
(***************************************************************************)
(* loadImage of helper/ImageLoader.cpp: a cache of decoded images with a   *)
(* byte budget, a directory of downloaded files and the downloads.         *)
(*                                                                         *)
(* Loads start on MAIN and are answered there.  The callback of a download *)
(* runs on a thread of the network library: it decodes, posts the answer,  *)
(* writes the file under the mutex of its name and fills the cache under   *)
(* the cache's mutex.  Two loads of one url both download it, and a load   *)
(* may read a file that is being written.  What the decoder says of data   *)
(* is open; a file cut short it refuses.                                   *)
(***************************************************************************)
EXTENDS Naturals, Sequences, FiniteSets, SequencesExt, Lists

CONSTANTS
    Requests,       \* calls of loadImage
    Urls,
    File,           \* the name under which a url is stored, GetFilename
    Sizes,          \* what estimatedSize can be; 0 stands for no image
    maxMemorySize,
    None

VARIABLES
    cacheList,      \* url and size, most recently used first
    cacheMap,       \* keys of the map into the list
    currentMemorySize,
    file,           \* "none", "partial" or "whole", by name
    fileWriteLock,  \* holder of the mutex of a name
    request,        \* url, progress and outcome of each load
    posted,         \* answers on their way to MAIN, in order
    answers         \* calls of onCallback, by request

ConstantsTyped == Sizes \subseteq Nat /\ maxMemorySize \in Nat

vars == <<cacheList, cacheMap, currentMemorySize, file, fileWriteLock, request, posted, answers>>
cache == <<cacheList, cacheMap, currentMemorySize>>

TotalSize(list) == FoldLeft(LAMBDA sum, item : sum + item.size, 0, list)
CachedUrls(list) == {list[i].url : i \in DOMAIN list}
Item(u) == CHOOSE item \in ToSet(cacheList) : item.url = u

Init ==
    /\ cacheList = <<>> /\ cacheMap = {} /\ currentMemorySize = 0
    /\ file = [f \in {File[u] : u \in Urls} |-> "none"]
    /\ fileWriteLock = [f \in {File[u] : u \in Urls} |-> None]
    /\ request = [r \in Requests |-> [url |-> None, at |-> "new", image |-> 0,
                                      written |-> TRUE]]
    /\ posted = <<>>
    /\ answers = [r \in Requests |-> 0]

-----------------------------------------------------------------------------
getCachedImage(u) ==
    /\ u \in cacheMap
    /\ cacheList' = <<Item(u)>> \o Without(cacheList, {Item(u)})
    /\ UNCHANGED <<cacheMap, currentMemorySize>>

(* variant: the bytes of the image that is replaced stay counted           *)
RemoveUncounted(u) ==
    [list |-> Without(cacheList, {item \in ToSet(cacheList) : item.url = u}),
     size |-> currentMemorySize]

removeFromCache(u) ==
    IF u \in cacheMap
    THEN [list |-> Without(cacheList, {Item(u)}), size |-> currentMemorySize - Item(u).size]
    ELSE [list |-> cacheList, size |-> currentMemorySize]

(* How much of the list stays: the back goes while the image does not fit. *)
Fitting(list, used, size) ==
    CHOOSE n \in 0 .. Len(list) :
        LET Left(k) == used - TotalSize(SubSeq(list, k + 1, Len(list)))
        IN  /\ n > 0 => Left(n) + size <= maxMemorySize
            /\ \A k \in n + 1 .. Len(list) : Left(k) + size > maxMemorySize

cacheImage(u, size) ==
    LET rest == removeFromCache(u)
        kept == SubSeq(rest.list, 1, Fitting(rest.list, rest.size, size))
        evicted == SubSeq(rest.list, Len(kept) + 1, Len(rest.list))
    IN  /\ cacheList' = <<[url |-> u, size |-> size]>> \o kept
        /\ cacheMap' = (cacheMap \ CachedUrls(evicted)) \cup {u}
        /\ currentMemorySize' = rest.size - TotalSize(evicted) + size

-----------------------------------------------------------------------------
Url(r) == request[r].url
onCallback(r) == answers' = [answers EXCEPT ![r] = @ + 1]
runTask(r) == posted' = Append(posted, r)
Goes(r, at) == request' = [request EXCEPT ![r].at = at]

(* loadImage on MAIN: from the cache, or from the file, whoever is writing *)
(* it, or by a download, which may not even start.                         *)
Started(r, u, at) ==
    /\ request[r].at = "new"
    /\ request' = [request EXCEPT ![r] = [url |-> u, at |-> at, image |-> 0,
                                          written |-> TRUE]]
    /\ UNCHANGED <<file, fileWriteLock, posted>>

loadCached(r, u) ==
    Started(r, u, "done") /\ getCachedImage(u) /\ onCallback(r)

loadImageFromUri(r, u) ==
    /\ u \notin cacheMap /\ file[File[u]] # "none"
    /\ Started(r, u, "done")
    /\ \/ file[File[u]] = "whole" /\ \E size \in Sizes : cacheImage(u, size)
       \/ UNCHANGED cache
    /\ onCallback(r)

Download(r, u) ==
    /\ u \notin cacheMap /\ file[File[u]] = "none"
    /\ \E at \in {"fetching", "refused"} : Started(r, u, at)
    /\ UNCHANGED <<answers, cache>>

(* The callback of the download: the answer is posted before the file is   *)
(* written,                                                                *)
downloadFailed(r) ==
    /\ request[r].at = "fetching"
    /\ runTask(r) /\ Goes(r, "done")
    /\ UNCHANGED <<answers, cache, file, fileWriteLock>>

(* variant: data that cannot be decoded is not answered                    *)
AnswerDecoded(r, size) ==
    /\ request[r].at = "fetching"
    /\ IF size > 0 THEN runTask(r) ELSE UNCHANGED posted
    /\ request' = [request EXCEPT ![r] = [@ EXCEPT !.at = "fetched", !.image = size]]
    /\ UNCHANGED <<answers, cache, file, fileWriteLock>>

loadImageFromData(r, size) ==
    /\ request[r].at = "fetching"
    /\ runTask(r)
    /\ request' = [request EXCEPT ![r] = [@ EXCEPT !.at = "fetched", !.image = size]]
    /\ UNCHANGED <<answers, cache, file, fileWriteLock>>

(* the file is opened, and so cut to nothing, under the mutex of its name, *)
OpenFile(r) ==
    /\ request[r].at = "fetched" /\ fileWriteLock[File[Url(r)]] = None
    /\ fileWriteLock' = [fileWriteLock EXCEPT ![File[Url(r)]] = r]
    /\ file' = [file EXCEPT ![File[Url(r)]] = "partial"]
    /\ Goes(r, "writing")
    /\ UNCHANGED <<answers, cache, posted>>

WriteFile(r) ==
    /\ request[r].at = "writing"
    /\ file' = [file EXCEPT ![File[Url(r)]] = "whole"]
    /\ fileWriteLock' = [fileWriteLock EXCEPT ![File[Url(r)]] = None]
    /\ Goes(r, IF request[r].image > 0 THEN "caching" ELSE "done")
    /\ UNCHANGED <<answers, cache, posted>>

(* or it cannot be opened or written: what is there stays, and an error is *)
(* posted after the answer.                                                *)
WriteFileFailed(r) ==
    /\ \/ request[r].at = "fetched" /\ fileWriteLock[File[Url(r)]] = None
       \/ request[r].at = "writing"
    /\ fileWriteLock' = [fileWriteLock EXCEPT ![File[Url(r)]] = None]
    /\ runTask(r)
    /\ request' = [request EXCEPT ![r] = [@ EXCEPT !.at = "done", !.written = FALSE]]
    /\ UNCHANGED <<answers, cache, file>>

cacheDownloaded(r) ==
    /\ request[r].at = "caching"
    /\ cacheImage(Url(r), request[r].image) /\ Goes(r, "done")
    /\ UNCHANGED <<answers, file, fileWriteLock, posted>>

runPosted ==
    /\ posted # <<>>
    /\ onCallback(Head(posted)) /\ posted' = Tail(posted)
    /\ UNCHANGED <<cache, file, fileWriteLock, request>>

Next ==
    \/ \E r \in Requests :
        \/ \E u \in Urls : loadCached(r, u) \/ loadImageFromUri(r, u) \/ Download(r, u)
        \/ downloadFailed(r)
        \/ \E size \in Sizes \cup {0} : loadImageFromData(r, size)
        \/ OpenFile(r) \/ WriteFile(r) \/ WriteFileFailed(r)
        \/ cacheDownloaded(r)
    \/ runPosted

Spec == Init /\ [][Next]_vars

-----------------------------------------------------------------------------
(* List, map and byte count stay one cache while MAIN and the threads of   *)
(* several downloads, also of one url, use it in turns; the budget is only *)
(* exceeded by a single image larger than it (cacheImage, removeFromCache, *)
(* getCachedImage).                                                        *)
CacheAccounted ==
    /\ CachedUrls(cacheList) = cacheMap /\ Len(cacheList) = Cardinality(cacheMap)
    /\ currentMemorySize = TotalSize(cacheList)
    /\ currentMemorySize <= maxMemorySize \/ Len(cacheList) = 1

(* When a load is over it has been answered once.  The exceptions are the  *)
(* code's: twice if the file could not be written, never if the download   *)
(* did not start.                                                          *)
AnsweredOnce ==
    \A r \in Requests :
        request[r].at \in {"done", "refused"} /\ r \notin ToSet(posted) =>
            answers[r] = CASE request[r].at = "refused" -> 0
                           [] ~request[r].written -> 2
                           [] OTHER -> 1
=============================================================================
