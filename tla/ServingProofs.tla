--------------------------- MODULE ServingProofs ---------------------------
(***************************************************************************)
(* Theorems about the download of a URL (UrlFetch), about the evidence     *)
(* files and the result cache (Evidence), and about the verdict            *)
(* (Verdicts), for any URLs, limits, cases, contents, deletions, attempts, *)
(* deaths of workers, checkpoints, weights and scores.  UrlFetch: a        *)
(* rejection is final because the URLs requested are as many as the        *)
(* requests.  Evidence: the invariant says what the handlers and the       *)
(* deliveries of each case work on, what their files hold before and after *)
(* a row names them, that whatever is named is written, and, while no two  *)
(* runs of a case overlap, that it has the content it is known by; one     *)
(* lemma for each variable says what a step makes of it.  Verdicts: a      *)
(* total is a fold, which is unfolded here without induction (a smallest   *)
(* set for which it could not be unfolded leads to a contradiction), and   *)
(* the orders of the means, of the rules and of the calibration follow.    *)
(***************************************************************************)
EXTENDS MCSafety, FiniteSetTheorems, TLAPS

\* Counting in the instance of UrlFetch is counting in FiniteSets.
LEMMA SameFiniteSets ==
  ASSUME NEW S
  PROVE  U!Cardinality(S) = Cardinality(S)
BY DEF U!Cardinality, Cardinality

\* The URLs requested are as many as the requests, and the next one is not among them.
LoopInv ==
  /\ visited \in Seq(Url) /\ current \notin U!Requested
  /\ IsFiniteSet(U!Requested) /\ Cardinality(U!Requested) = Len(visited)

\* Nothing is broken before a request; a transfer is broken exactly if its body is not whole.
TransferInv ==
  /\ fetching \in {"validate", "request"} => body = None /\ ~broken
  /\ fetching = "receive" => body \in U!Body /\ U!Possible(body) /\ broken = ~body.whole

FetchInv == U!TypeOK /\ LoopInv /\ TransferInv /\ RejectedForGood

-----------------------------------------------------------------------------
\* Before the first request nothing was asked for, and nothing has failed.
LEMMA FetchInit == U!Init => FetchInv
<1> SUFFICES ASSUME U!Init PROVE FetchInv
  OBVIOUS
<1>1. U!Requested = {} /\ visited = <<>>
  BY DEF U!Init, U!Requested
<1>2. QED
  BY <1>1, FetchAssumption, FS_EmptySet
  DEF U!Init, FetchInv, LoopInv, TransferInv, U!TypeOK, RejectedForGood, U!RejectedForGood

\* The checks of a body end in one of three ways, and reject it only if it came whole, if its length
\* was not declared, or if it is over the cap.
LEMMA VerdictCases ==
  ASSUME FetchInv, NEW b \in U!Body, U!Possible(b)
  PROVE  /\ U!Verdict(b).how \in {"rejected", "failed", "fetched"}
         /\ U!Verdict(b).how = "rejected" => U!Verdict(b).why # "redirects"
         /\ U!Verdict(b).how = "rejected" => b.whole \/ b.declared = None \/ b.total > MAX_DOWNLOAD
<1> DEFINE cs == U!Checks(b)
           first == CHOOSE i \in DOMAIN cs : cs[i].hit /\ \A j \in 1..i - 1 : ~cs[j].hit
<1>1. DOMAIN cs = 1..7 /\ cs[7].hit
  BY DEF U!Checks
<1>2. first \in 1..7 /\ cs[first].hit /\ \A j \in 1..first - 1 : ~cs[j].hit
  <2>1. \E i \in 1..7 : cs[i].hit /\ \A j \in 1..i - 1 : ~cs[j].hit
    <3> HIDE DEF cs
    <3>1. CASE cs[1].hit
      BY <3>1
    <3>2. CASE ~cs[1].hit /\ cs[2].hit
      BY <3>2
    <3>3. CASE ~cs[1].hit /\ ~cs[2].hit /\ cs[3].hit
      BY <3>3
    <3>4. CASE ~cs[1].hit /\ ~cs[2].hit /\ ~cs[3].hit /\ cs[4].hit
      BY <3>4
    <3>5. CASE ~cs[1].hit /\ ~cs[2].hit /\ ~cs[3].hit /\ ~cs[4].hit /\ cs[5].hit
      BY <3>5
    <3>6. CASE ~cs[1].hit /\ ~cs[2].hit /\ ~cs[3].hit /\ ~cs[4].hit /\ ~cs[5].hit /\ cs[6].hit
      BY <3>6
    <3>7. CASE ~cs[1].hit /\ ~cs[2].hit /\ ~cs[3].hit /\ ~cs[4].hit /\ ~cs[5].hit /\ ~cs[6].hit
      BY <3>7, <1>1
    <3>8. QED
      BY <3>1, <3>2, <3>3, <3>4, <3>5, <3>6, <3>7
  <2>2. QED
    BY <1>1, <2>1
<1>3. U!Verdict(b) = cs[first]
  BY DEF U!Verdict
<1>4. /\ cs[1].hit => b.total > MAX_DOWNLOAD
      /\ U!Cut(b) => cs[2].hit
      /\ \A i \in 1..7 : /\ cs[i].how \in {"rejected", "failed", "fetched"}
                         /\ cs[i].how = "rejected" => i # 2 /\ cs[i].why \in {"size", "empty", "format"}
  <2>1. (cs[1].hit => b.total > MAX_DOWNLOAD) /\ (U!Cut(b) => cs[2].hit)
    BY DEF U!Checks
  <2>2. /\ \A i \in {1, 5} : cs[i].how = "rejected" /\ cs[i].why = "size"
        /\ \A i \in {2, 4} : cs[i].how = "failed"
        /\ cs[3].how = "rejected" /\ cs[3].why = "empty"
        /\ cs[6].how = "rejected" /\ cs[6].why = "format"
        /\ cs[7].how = "fetched"
    BY DEF U!Checks
  <2> HIDE DEF cs
  <2>3. QED
    BY <2>1, <2>2
<1> HIDE DEF cs, first
<1>5. /\ cs[first].how \in {"rejected", "failed", "fetched"}
      /\ cs[first].how = "rejected" => cs[first].why # "redirects"
  BY <1>2, <1>4
<1>6. cs[first].how = "rejected" => b.whole \/ b.declared = None \/ b.total > MAX_DOWNLOAD
  <2> SUFFICES ASSUME cs[first].how = "rejected", ~b.whole, b.declared # None
               PROVE  b.total > MAX_DOWNLOAD
    OBVIOUS
  <2>1. cs[2].hit
    BY <1>4 DEF U!Cut, U!Possible, U!Body
  <2>2. first = 1
    BY <1>2, <1>4, <2>1
  <2>3. QED
    BY <1>2, <1>4, <2>2
<1>7. QED
  BY <1>3, <1>5, <1>6

\* Every step of download_media keeps the invariant: a request is for a URL that was not asked before,
\* and a redirect to a URL already seen is refused.
LEMMA FetchNext ==
  ASSUME FetchInv, [U!Next]_U!vars
  PROVE  FetchInv'
<1>i. U!TypeOK /\ LoopInv /\ TransferInv /\ RejectedForGood
  BY DEF FetchInv
<1>n. Len(visited) \in Nat
  BY <1>i DEF LoopInv
<1>c. Cardinality(U!Requested) = U!Cardinality(U!Requested)
  BY SameFiniteSets
<1>r. UNCHANGED visited => UNCHANGED U!Requested
  BY DEF U!Requested
<1>1. CASE U!Validate
  BY <1>1, <1>i, <1>n, <1>c, <1>r DEF U!Validate,
     FetchInv, U!TypeOK, LoopInv, TransferInv, RejectedForGood, U!RejectedForGood, U!End, U!Reject, U!Fail,
     U!MoreHops
<1>2. CASE U!TooMany
  BY <1>2, FetchAssumption, <1>i, <1>n, <1>c, <1>r DEF U!TooMany,
     FetchInv, U!TypeOK, LoopInv, TransferInv, RejectedForGood, U!RejectedForGood, U!End, U!Reject, U!Fail,
     U!MoreHops
<1>3. CASE U!Redirected
  <2>1. CASE U!Fail("no target")
    BY <1>3, <2>1, <1>i, <1>n, <1>c, <1>r DEF U!Redirected,
     FetchInv, U!TypeOK, LoopInv, TransferInv, RejectedForGood, U!RejectedForGood, U!End, U!Reject, U!Fail,
     U!MoreHops
  <2>2. CASE U!Reject("circle")
    BY <1>3, <2>2, <1>i, <1>n, <1>c, <1>r DEF U!Redirected,
     FetchInv, U!TypeOK, LoopInv, TransferInv, RejectedForGood, U!RejectedForGood, U!End, U!Reject, U!Fail,
     U!MoreHops
  <2>3. ASSUME NEW to \in Url, to \notin U!Requested \cup {current},
               fetching' = "validate", current' = to, visited' = Append(visited, current),
               UNCHANGED <<body, reason, try, broken>>, fetching = "request"
        PROVE  FetchInv'
    <3>1. Len(visited') = Len(visited) + 1 /\ visited' \in Seq(Url)
      BY <2>3, <1>i DEF LoopInv, U!TypeOK
    <3>2. U!Requested' = U!Requested \cup {current}
      <4>1. /\ \A i \in 1..Len(visited) : visited'[i] = visited[i]
            /\ visited'[Len(visited) + 1] = current
        BY <2>3, <1>i DEF LoopInv, U!TypeOK
      <4>2. 1..Len(visited') = 1..Len(visited) \cup {Len(visited) + 1}
        BY <3>1, <1>n
      <4>3. QED
        BY <4>1, <4>2 DEF U!Requested
    <3>3. IsFiniteSet(U!Requested') /\ Cardinality(U!Requested') = Cardinality(U!Requested) + 1
      BY <3>2, <1>i, FS_AddElement DEF LoopInv
    <3>4. QED
      BY <2>3, <3>1, <3>2, <3>3, <1>i
      DEF FetchInv, U!TypeOK, LoopInv, TransferInv, RejectedForGood, U!RejectedForGood
  <2>4. QED
    BY <1>3, <2>1, <2>2, <2>3, <1>i DEF U!Redirected, U!MoreHops
<1>4. CASE U!Refused
  BY <1>4, <1>i, <1>n, <1>c, <1>r DEF U!Refused,
     FetchInv, U!TypeOK, LoopInv, TransferInv, RejectedForGood, U!RejectedForGood, U!End, U!Reject, U!Fail,
     U!MoreHops
<1>5. CASE U!NoAnswer
  BY <1>5, <1>i, <1>n, <1>c, <1>r DEF U!NoAnswer,
     FetchInv, U!TypeOK, LoopInv, TransferInv, RejectedForGood, U!RejectedForGood, U!End, U!Reject, U!Fail,
     U!MoreHops
<1>6. CASE U!Answered
  BY <1>6, <1>i, <1>n, <1>c, <1>r DEF U!Answered,
     FetchInv, U!TypeOK, LoopInv, TransferInv, RejectedForGood, U!RejectedForGood, U!End, U!Reject, U!Fail,
     U!MoreHops
<1>7. CASE U!Received
  BY <1>7, <1>i, <1>n, <1>c, <1>r, VerdictCases DEF U!Received,
     FetchInv, U!TypeOK, LoopInv, TransferInv, RejectedForGood, U!RejectedForGood, U!End, U!Reject, U!Fail,
     U!MoreHops
<1>8. CASE U!Retry
  <2>0. visited' = <<>> /\ Len(<<>>) = 0 /\ 1..0 = {}
    BY <1>8 DEF U!Retry
  <2>1. U!Requested' = {}
    BY <2>0 DEF U!Requested
  <2>2. current' \in Url
    BY <1>8, <1>i DEF U!Retry, U!TypeOK, LoopInv
  <2>3. QED
    BY <1>8, <1>i, FetchAssumption, <2>0, <2>1, <2>2, FS_EmptySet DEF U!Retry, FetchInv, U!TypeOK, LoopInv,
       TransferInv, RejectedForGood, U!RejectedForGood
<1>9. CASE UNCHANGED U!vars
  BY <1>9, <1>i, <1>n, <1>c, <1>r DEF U!vars,
     FetchInv, U!TypeOK, LoopInv, TransferInv, RejectedForGood, U!RejectedForGood, U!End, U!Reject, U!Fail,
     U!MoreHops
<1>10. QED
  BY <1>1, <1>2, <1>3, <1>4, <1>5, <1>6, <1>7, <1>8, <1>9 DEF U!Next

\* For every set of URLs, every limit and whatever the origins answer: download_media rejects a URL for
\* good over no body known to be cut short below the cap, for redirects only after more than
\* MAX_REDIRECTS of them, and never after a URL was requested twice.
THEOREM RejectionsFinal == U!Spec => []RejectedForGood
<1>1. FetchInv => RejectedForGood
  BY DEF FetchInv
<1>2. QED
  BY <1>1, FetchInit, FetchNext, PTL DEF U!Spec

-----------------------------------------------------------------------------
Payload == [file : E!File \cup {None}]

EvRow ==
  [status : {"absent", "processing", "settled", "failed"}, file : E!File \cup {None},
   shared : BOOLEAN, verdict : Content \cup {None}]
EvTypes ==
  /\ row \in [Case -> EvRow]
  /\ stored \in [E!File -> Content \cup {None}]
  /\ payload \in [Content -> Payload \cup {None}]
  /\ alias \in Content \cup {None} /\ page \in Content
  /\ api \in [Case -> {"start", "write", "insert", "remember", "answer", "over"}]
  /\ work \in [E!Delivery -> {"unsent", "sent", "over"} \cup E!Running]
  /\ del \in [Case -> [pc : {"idle", "delete", "count", "unlink", "over"}, file : E!File \cup {None}]]
  /\ sha \in [E!File -> Content \cup {None}] /\ hit \in [E!File -> Payload \cup {None}]
  /\ overlapped \in BOOLEAN

\* A delivery that has its content; one that may still touch the row, the files or the cache.
Holding == {"record", "index", "look", "run", "refer", "cache", "alias"}
Active(d) == work[d] \notin {"unsent", "over", "ack"}

\* What handlers and deliveries work on; and, unless a message was delivered again beside its retry, a
\* case has one delivery at work.
ControlInv ==
  /\ \A c \in Case :
       /\ api[c] = "write" => c \in Upload
       /\ c \in Upload /\ api[c] # "start" => sha[<<c, 0>>] = Bytes[c]
       /\ hit[<<c, 0>>] # None => sha[<<c, 0>>] \in Content
  /\ \A d \in E!Delivery :
       /\ api[d[1]] # "over" => work[d] = "unsent"
       /\ d[1] \in Upload => work[d] \notin {"fetch", "record", "index", "look"}
       /\ d[1] \in Upload /\ work[d] \notin {"unsent", "over"} => sha[d] = Bytes[d[1]]
       /\ work[d] \in Holding => sha[d] \in Content
       /\ hit[d] # None <=> work[d] = "cache"
  /\ ~overlapped => \A d, e \in E!Delivery : d[1] = e[1] /\ Active(d) /\ Active(e) => d = e

\* What has written a file is past naming it in its row, and will not write it again.
Written(f) ==
  \/ f \in E!Delivery /\ work[f] \notin {"unsent", "sent", "fetch", "record"}
  \/ \E c \in Case : f = <<c, 0>> /\ api[c] \notin {"start", "write", "insert"}

\* Such a file has this content, or is gone.
Kept(f, x) == Written(f) /\ stored[f] \in {None, x}

\* The file of an upload, and of a download, until its row names it, and after.
FilesInv ==
  /\ \A c \in Upload :
       /\ api[c] = "insert" => stored[<<c, 0>>] = Bytes[c]
       /\ api[c] \notin {"start", "write"} => stored[<<c, 0>>] \in {None, Bytes[c]}
  /\ \A d \in E!Delivery : d[1] \notin Upload =>
       /\ work[d] = "record" => stored[d] = sha[d]
       /\ work[d] \in Holding => stored[d] \in {None, sha[d]}

\* The file in a row: that of the upload, or, unless runs overlap, that of the delivery at work.
RowsInv ==
  /\ \A c \in Case :
       /\ ~E!Live(c) => row[c] = E!NoRow
       /\ E!Live(c) /\ c \in Upload => row[c].file = <<c, 0>> /\ ~row[c].shared
       /\ c \notin Upload /\ api[c] # "over" => row[c].file = None
  /\ ~overlapped => \A d \in E!Delivery :
       E!Live(d[1]) /\ d[1] \notin Upload /\ work[d] \in {"index", "look", "run", "refer"} => row[d[1]].file = d

\* Whatever names a file names one that is written.
NamesInv ==
  /\ \A c \in Case :
       /\ row[c].file # None => Written(row[c].file)
       /\ del[c].file # None => Written(del[c].file)
       /\ del[c].pc \in {"count", "unlink"} => del[c].file # None
  /\ \A f \in E!File : hit[f] # None /\ hit[f].file # None => Written(hit[f].file)
  /\ \A x \in Content : payload[x] # None /\ payload[x].file # None => Written(payload[x].file)

\* What is cached for a content, or a settled row with its verdict, names a file of that content.
ContentInv ==
  ~overlapped =>
    /\ \A x \in Content : payload[x] # None /\ payload[x].file # None => Kept(payload[x].file, x)
    /\ \A f \in E!File : hit[f] # None /\ hit[f].file # None => Kept(hit[f].file, sha[f])
    /\ \A c \in Case \ repointed :
         row[c].status = "settled" /\ row[c].file # None => Kept(row[c].file, row[c].verdict)

\* A deletion about to unlink a file found no row that names it: those that do by now share it.
UnlinkInv ==
  \A e, c \in Case : del[e].pc = "unlink" /\ E!Live(c) /\ row[c].file = del[e].file => row[c].shared

EvidenceInv ==
  EvTypes /\ ControlInv /\ FilesInv /\ RowsInv /\ NamesInv /\ ContentInv /\ UnlinkInv /\ OwnFileStays

-----------------------------------------------------------------------------
\* The names of the files under uploads/.
LEMMA FileNames ==
  /\ E!Delivery \subseteq E!File /\ None \notin E!File
  /\ \A c \in Case : <<c, 0>> \in E!File /\ <<c, 0>> \notin E!Delivery /\ <<c, 0>>[1] = c
  /\ \A d \in E!Delivery : d[1] \in Case
  /\ \A f \in E!File : f \notin E!Delivery => \E c \in Case : f = <<c, 0>>
<1>1. E!Deliveries \in Nat
  BY FetchAssumption, EvidenceAssumption DEF E!Deliveries
<1> QED
  BY <1>1, EvidenceAssumption DEF E!Delivery, E!File

\* What a step makes of the handler of a case ...
ApiMove(c) ==
  \/ UNCHANGED <<api[c], sha[<<c, 0>>], hit[<<c, 0>>]>>
  \/ /\ api[c] = "start" /\ api'[c] = IF c \in Upload THEN "write" ELSE "insert"
     /\ sha'[<<c, 0>>] = IF c \in Upload THEN Bytes[c] ELSE alias
     /\ hit'[<<c, 0>>] = IF sha'[<<c, 0>>] = None THEN None ELSE payload[sha'[<<c, 0>>]]
  \/ /\ \/ api[c] = "write" /\ api'[c] = "insert" /\ stored'[<<c, 0>>] = sha[<<c, 0>>]
        \/ <<api[c], api'[c]>> \in
             {<<"insert", "remember">>, <<"insert", "answer">>, <<"remember", "answer">>, <<"answer", "over">>}
     /\ UNCHANGED <<sha[<<c, 0>>], hit[<<c, 0>>]>>

\* ... of a delivery ...
SentNow(d) ==
  /\ work[d] = "unsent" /\ work'[d] = "sent" /\ api'[d[1]] = "over"
  /\ sha'[d] = (IF d[1] \in Upload THEN Bytes[d[1]] ELSE None) /\ hit'[d] = hit[d]
  /\ \A e \in E!Delivery : e[1] = d[1] /\ e # d /\ Active(e)' => overlapped'
WorkMove(d) ==
  \/ UNCHANGED <<work[d], sha[d], hit[d]>>
  \/ SentNow(d)
  \/ /\ \/ work[d] = "sent" /\ work'[d] = IF d[1] \in Upload THEN "run" ELSE "fetch"
        \/ <<work[d], work'[d]>> \in {<<"index", "look">>, <<"look", "run">>, <<"run", "refer">>, <<"alias", "ack">>}
        \/ work[d] = "record" /\ work'[d] = "index" /\ (E!Live(d[1])' => row'[d[1]].file = d)
        \/ work[d] \in E!Trying /\ work'[d] = "ack"
     /\ UNCHANGED <<sha[d], hit[d]>>
  \/ work[d] = "fetch" /\ work'[d] = "record" /\ stored'[d] = page /\ sha'[d] = page /\ hit'[d] = hit[d]
  \/ work[d] = "refer" /\ work'[d] = "cache" /\ sha'[d] = sha[d] /\ hit'[d] = E!Ref(row[d[1]].file)
  \/ work[d] = "cache" /\ work'[d] \in {"alias", "ack"} /\ sha'[d] = sha[d] /\ hit'[d] = None
  \/ work[d] \in E!Running /\ work'[d] = "over" /\ sha'[d] = None /\ hit'[d] = None

\* ... of a file, a cached payload ...
DiskMove(f) ==
  \/ UNCHANGED stored[f]
  \/ \E c \in Case : f = <<c, 0>> /\ api[c] = "write" /\ api'[c] = "insert" /\ stored'[f] = sha[f]
  \/ f \in E!Delivery /\ work[f] = "fetch" /\ work'[f] = "record" /\ stored'[f] = page /\ sha'[f] = page
  \/ \E c \in Case : del[c].pc = "unlink" /\ del[c].file = f /\ stored'[f] = None
PayloadMove(x) ==
  \/ UNCHANGED payload[x]
  \/ \E d \in E!Delivery : work[d] = "cache" /\ sha[d] = x /\ payload'[x] = hit[d]

\* ... of a deletion ...
DelMove(c) ==
  \/ UNCHANGED del[c]
  \/ E!Live(c) /\ del'[c] = [pc |-> "delete", file |-> row[c].file]
  \/ /\ del[c].pc = "delete"
     /\ del'[c] = [pc |-> IF del[c].file = None THEN "over" ELSE "count", file |-> del[c].file]
  \/ /\ del[c].pc = "count" /\ UNCHANGED row
     /\ del'[c] = [pc |-> IF E!StillReferenced(del[c].file) THEN "over" ELSE "unlink", file |-> del[c].file]
  \/ del[c].pc = "unlink" /\ del'[c] = [pc |-> "over", file |-> None]

\* ... and of the row of a case.
Inserted(c) ==
  /\ api[c] = "insert" /\ api'[c] \in {"remember", "answer"}
  /\ row'[c] = [status |-> "processing", file |-> IF c \in Upload THEN <<c, 0>> ELSE None,
                shared |-> FALSE, verdict |-> None]
Answered(c) ==
  /\ api[c] = "answer" /\ api'[c] = "over" /\ hit[<<c, 0>>] # None /\ E!Live(c)
  /\ row'[c] = E!Replayed(row[c], sha[<<c, 0>>], hit[<<c, 0>>])
Recorded(c) ==
  /\ \E d \in E!Delivery :
       d[1] = c /\ work[d] = "record" /\ work'[d] = "index" /\ row'[c] = [row[c] EXCEPT !.file = d]
  /\ E!Live(c) /\ (row[c].status = "settled" => c \in repointed')
SettledNow(c) ==
  /\ \E d \in E!Delivery : /\ d[1] = c /\ work[d] \in {"look", "run"}
                           /\ row'[c] = [row[c] EXCEPT !.status = "settled", !.verdict = sha[d]]
  /\ E!Live(c)
RowMove(c) ==
  \/ UNCHANGED row[c] /\ (c \in repointed => c \in repointed' \/ row[c].status # "settled")
  \/ Inserted(c) \/ Answered(c) \/ Recorded(c) \/ SettledNow(c)
  \/ E!Live(c) /\ \E there \in {"processing", "failed"} : row'[c] = [row[c] EXCEPT !.status = there]
  \/ row'[c] = E!NoRow

\* The steps of the handler; a worker keeps its content and its payload under names of its own.
LEMMA ApiMoves ==
  ASSUME EvTypes, ControlInv, [E!Next]_E!vars, NEW c \in Case
  PROVE  ApiMove(c)
<1> USE FileNames DEF E!cache, E!limits
<1>1. ASSUME NEW e \in Case, E!LookUp(e)
      PROVE  ApiMove(c)
  BY <1>1 DEF E!LookUp, E!ApiGoes, EvTypes, ApiMove
<1>2. ASSUME NEW e \in Case, E!WriteFile(e)
      PROVE  ApiMove(c)
  BY <1>2 DEF E!WriteFile, E!ApiGoes, EvTypes, ApiMove
<1>3. ASSUME NEW e \in Case, E!InsertRow(e)
      PROVE  ApiMove(c)
  BY <1>3 DEF E!InsertRow, E!ApiGoes, EvTypes, ApiMove
<1>4. ASSUME NEW e \in Case, E!RememberPage(e)
      PROVE  ApiMove(c)
  BY <1>4 DEF E!RememberPage, E!ApiGoes, EvTypes, ApiMove
<1>5. ASSUME NEW e \in Case, E!Answer(e)
      PROVE  ApiMove(c)
  BY <1>5 DEF E!Answer, E!ApiGoes, EvTypes, ApiMove
<1>6. ASSUME NEW e \in Case, E!Enqueue(e)
      PROVE  ApiMove(c)
  BY <1>6 DEF E!Enqueue, E!ApiGoes, E!Send, EvTypes, ApiMove
<1>7. ASSUME NEW k \in E!Delivery, E!Fetch(k)
      PROVE  ApiMove(c)
  BY <1>7 DEF E!Fetch, E!Works, EvTypes, ApiMove
<1>8. ASSUME NEW k \in E!Delivery, E!Retry(k)
      PROVE  ApiMove(c)
  BY <1>8 DEF E!Retry, E!Send, EvTypes, ApiMove
<1>9. ASSUME NEW k \in E!Delivery, E!Refer(k)
      PROVE  ApiMove(c)
  BY <1>9 DEF E!Refer, E!Works, EvTypes, ApiMove
<1>10. ASSUME NEW k \in E!Delivery, E!CacheVerdict(k)
      PROVE  ApiMove(c)
  BY <1>10 DEF E!CacheVerdict, E!Works, EvTypes, ApiMove
<1>11. ASSUME NEW k \in E!Delivery, E!Acknowledge(k)
      PROVE  ApiMove(c)
  BY <1>11 DEF E!Acknowledge, EvTypes, ApiMove
<1>12. ASSUME NEW k \in E!Delivery, E!Die(k)
      PROVE  ApiMove(c)
  BY <1>12 DEF E!Die, E!Send, EvTypes, ApiMove
<1>13. CASE UNCHANGED <<api, sha, hit>>
  BY <1>13 DEF ApiMove
<1> QED
  BY <1>1, <1>2, <1>3, <1>4, <1>5, <1>6, <1>7, <1>8, <1>9, <1>10, <1>11, <1>12, <1>13
  DEF E!Next, E!Api, E!Work, E!Delete, E!vars,
    E!Begin, E!Record, E!Index, E!Hit, E!NoHit, E!Fail, E!Store, E!CacheUrl, E!Select, E!DeleteRow,
    E!Count, E!Unlink, E!PageChanges

\* The steps of a delivery.  A message is sent by the handler, which ends, or by a delivery of the same
\* case, which stops touching anything.
LEMMA WorkMoves ==
  ASSUME EvTypes, ControlInv, [E!Next]_E!vars, NEW d \in E!Delivery
  PROVE  WorkMove(d)
<1> USE FileNames DEF E!cache, E!limits
<1>1. ASSUME NEW e \in Case, E!LookUp(e)
      PROVE  WorkMove(d)
  BY <1>1 DEF E!LookUp, E!ApiGoes, EvTypes, ControlInv, WorkMove
<1>2. ASSUME NEW e \in Case, E!Enqueue(e)
      PROVE  WorkMove(d)
  BY <1>2 DEF E!Enqueue, E!ApiGoes, E!Send, SentNow, Active, EvTypes, ControlInv, WorkMove
<1>3. ASSUME NEW k \in E!Delivery, E!Begin(k)
      PROVE  WorkMove(d)
  BY <1>3 DEF E!Begin, E!Works, EvTypes, ControlInv, WorkMove
<1>4. ASSUME NEW k \in E!Delivery, E!Fetch(k)
      PROVE  WorkMove(d)
  BY <1>4 DEF E!Fetch, E!Works, EvTypes, ControlInv, WorkMove
<1>5. ASSUME NEW k \in E!Delivery, E!Record(k)
      PROVE  WorkMove(d)
  BY <1>5 DEF E!Record, E!Works, E!Live, EvTypes, ControlInv, WorkMove
<1>6. ASSUME NEW k \in E!Delivery, E!Index(k)
      PROVE  WorkMove(d)
  BY <1>6 DEF E!Index, E!Works, EvTypes, ControlInv, WorkMove
<1>7. ASSUME NEW k \in E!Delivery, E!Hit(k)
      PROVE  WorkMove(d)
  BY <1>7 DEF E!Hit, E!Works, E!Trying, EvTypes, ControlInv, WorkMove
<1>8. ASSUME NEW k \in E!Delivery, E!NoHit(k)
      PROVE  WorkMove(d)
  BY <1>8 DEF E!NoHit, E!Works, EvTypes, ControlInv, WorkMove
<1>9. ASSUME NEW k \in E!Delivery, E!Fail(k)
      PROVE  WorkMove(d)
  BY <1>9 DEF E!Fail, E!Trying, EvTypes, ControlInv, WorkMove
<1>10. ASSUME NEW k \in E!Delivery, E!Retry(k)
      PROVE  WorkMove(d)
  <2>1. PICK n \in E!Delivery :
          /\ n[1] = k[1] /\ work[n] = "unsent" /\ work' = [[work EXCEPT ![k] = "ack"] EXCEPT ![n] = "sent"]
          /\ sha' = [sha EXCEPT ![n] = IF k[1] \in Upload THEN Bytes[k[1]] ELSE None]
    BY <1>10 DEF E!Retry, E!Send
  <2>2. work[k] \in E!Trying /\ UNCHANGED <<hit, api, overlapped>>
    BY <1>10 DEF E!Retry
  <2>3. CASE d = n
    <3>1. ASSUME NEW e \in E!Delivery, e[1] = d[1], e # d, Active(e)'
          PROVE  overlapped'
      <4>1. e # k /\ work[e] = work'[e]
        BY <2>1, <2>3, <3>1 DEF Active, EvTypes
      <4>2. Active(e) /\ Active(k)
        BY <2>2, <3>1, <4>1 DEF Active, E!Trying
      <4> QED
        BY <2>1, <2>2, <2>3, <3>1, <4>1, <4>2 DEF ControlInv
    <3> QED
      BY <2>1, <2>2, <2>3, <3>1 DEF SentNow, EvTypes, ControlInv, WorkMove, E!Trying
  <2>4. CASE d # n
    BY <2>1, <2>2, <2>4 DEF EvTypes, WorkMove
  <2> QED
    BY <2>3, <2>4
<1>11. ASSUME NEW k \in E!Delivery, E!Store(k)
      PROVE  WorkMove(d)
  BY <1>11 DEF E!Store, E!Works, EvTypes, ControlInv, WorkMove
<1>12. ASSUME NEW k \in E!Delivery, E!Refer(k)
      PROVE  WorkMove(d)
  BY <1>12 DEF E!Refer, E!Works, EvTypes, ControlInv, WorkMove
<1>13. ASSUME NEW k \in E!Delivery, E!CacheVerdict(k)
      PROVE  WorkMove(d)
  BY <1>13 DEF E!CacheVerdict, E!Works, EvTypes, ControlInv, WorkMove
<1>14. ASSUME NEW k \in E!Delivery, E!CacheUrl(k)
      PROVE  WorkMove(d)
  BY <1>14 DEF E!CacheUrl, E!Works, EvTypes, ControlInv, WorkMove
<1>15. ASSUME NEW k \in E!Delivery, E!Acknowledge(k)
      PROVE  WorkMove(d)
  BY <1>15 DEF E!Acknowledge, EvTypes, ControlInv, WorkMove
<1>16. ASSUME NEW k \in E!Delivery, E!Die(k)
      PROVE  WorkMove(d)
  <2>1. PICK n \in E!Delivery :
          /\ n[1] = k[1] /\ work[n] = "unsent" /\ work' = [[work EXCEPT ![k] = "over"] EXCEPT ![n] = "sent"]
          /\ sha' = [[sha EXCEPT ![k] = None] EXCEPT ![n] = IF k[1] \in Upload THEN Bytes[k[1]] ELSE None]
    BY <1>16 DEF E!Die, E!Send
  <2>2. work[k] \in E!Running /\ hit' = [hit EXCEPT ![k] = None] /\ api' = api
    BY <1>16 DEF E!Die
  <2>3. \A e \in E!Delivery : e[1] = k[1] /\ e # k /\ work[e] \notin {"unsent", "over"} => overlapped'
    BY <1>16 DEF E!Die
  <2>4. CASE d = n
    <3>1. \A e \in E!Delivery : e[1] = d[1] /\ e # d /\ Active(e)' => overlapped'
      BY <2>1, <2>2, <2>3, <2>4 DEF Active, EvTypes, E!Running, E!Trying
    <3> QED
      BY <2>1, <2>2, <2>4, <3>1 DEF SentNow, EvTypes, ControlInv, WorkMove, E!Running, E!Trying
  <2>5. CASE d # n
    BY <2>1, <2>2, <2>5 DEF EvTypes, WorkMove
  <2> QED
    BY <2>4, <2>5
<1>17. CASE UNCHANGED <<work, sha, hit>>
  BY <1>17 DEF WorkMove
<1> QED
  BY <1>1, <1>2, <1>3, <1>4, <1>5, <1>6, <1>7, <1>8, <1>9, <1>10, <1>11, <1>12, <1>13, <1>14, <1>15, <1>16, <1>17
  DEF E!Next, E!Api, E!Work, E!Delete, E!vars,
    E!WriteFile, E!InsertRow, E!RememberPage, E!Answer, E!Select, E!DeleteRow, E!Count, E!Unlink,
    E!PageChanges

\* A file is written by the handler or the delivery it is named by, and removed by a deletion.
LEMMA DiskMoves ==
  ASSUME EvTypes, ControlInv, [E!Next]_E!vars, NEW f \in E!File
  PROVE  DiskMove(f)
<1> USE FileNames DEF E!cache, E!limits
<1>1. ASSUME NEW e \in Case, E!WriteFile(e)
      PROVE  DiskMove(f)
  BY <1>1 DEF E!WriteFile, E!ApiGoes, EvTypes, DiskMove
<1>2. ASSUME NEW k \in E!Delivery, E!Fetch(k)
      PROVE  DiskMove(f)
  BY <1>2 DEF E!Fetch, E!Works, EvTypes, DiskMove
<1>3. ASSUME NEW e \in Case, E!Unlink(e)
      PROVE  DiskMove(f)
  BY <1>3 DEF E!Unlink, E!Deletes, EvTypes, DiskMove
<1>4. CASE UNCHANGED stored
  BY <1>4 DEF DiskMove
<1> QED
  BY <1>1, <1>2, <1>3, <1>4
  DEF E!Next, E!Api, E!Work, E!Delete, E!vars,
    E!LookUp, E!InsertRow, E!RememberPage, E!Answer, E!Enqueue, E!Begin, E!Record, E!Index, E!Hit,
    E!NoHit, E!Fail, E!Retry, E!Store, E!Refer, E!CacheVerdict, E!CacheUrl, E!Acknowledge, E!Die,
    E!Select, E!DeleteRow, E!Count, E!PageChanges

\* A payload is what a delivery has settled.
LEMMA PayloadMoves ==
  ASSUME EvTypes, ControlInv, [E!Next]_E!vars, NEW x \in Content
  PROVE  PayloadMove(x)
<1> USE FileNames DEF E!cache, E!limits
<1>1. ASSUME NEW k \in E!Delivery, E!CacheVerdict(k)
      PROVE  PayloadMove(x)
  BY <1>1 DEF E!CacheVerdict, E!Works, EvTypes, PayloadMove
<1>2. CASE UNCHANGED payload
  BY <1>2 DEF PayloadMove
<1> QED
  BY <1>1, <1>2
  DEF E!Next, E!Api, E!Work, E!Delete, E!vars,
    E!LookUp, E!WriteFile, E!InsertRow, E!RememberPage, E!Answer, E!Enqueue, E!Begin, E!Fetch,
    E!Record, E!Index, E!Hit, E!NoHit, E!Fail, E!Retry, E!Store, E!Refer, E!CacheUrl, E!Acknowledge,
    E!Die, E!Select, E!DeleteRow, E!Count, E!Unlink, E!PageChanges

\* The steps of a deletion.
LEMMA DelMoves ==
  ASSUME EvTypes, ControlInv, [E!Next]_E!vars, NEW c \in Case
  PROVE  DelMove(c)
<1> USE FileNames DEF E!cache, E!limits
<1>1. ASSUME NEW e \in Case, E!Select(e)
      PROVE  DelMove(c)
  BY <1>1 DEF E!Select, E!Deletes, EvTypes, DelMove
<1>2. ASSUME NEW e \in Case, E!DeleteRow(e)
      PROVE  DelMove(c)
  BY <1>2 DEF E!DeleteRow, E!Deletes, EvTypes, DelMove
<1>3. ASSUME NEW e \in Case, E!Count(e)
      PROVE  DelMove(c)
  BY <1>3 DEF E!Count, E!Deletes, EvTypes, DelMove
<1>4. ASSUME NEW e \in Case, E!Unlink(e)
      PROVE  DelMove(c)
  BY <1>4 DEF E!Unlink, E!Deletes, EvTypes, DelMove
<1>5. CASE UNCHANGED del
  BY <1>5 DEF DelMove
<1> QED
  BY <1>1, <1>2, <1>3, <1>4, <1>5
  DEF E!Next, E!Api, E!Work, E!Delete, E!vars,
    E!LookUp, E!WriteFile, E!InsertRow, E!RememberPage, E!Answer, E!Enqueue, E!Begin, E!Fetch,
    E!Record, E!Index, E!Hit, E!NoHit, E!Fail, E!Retry, E!Store, E!Refer, E!CacheVerdict, E!CacheUrl,
    E!Acknowledge, E!Die, E!PageChanges

\* What is written to the row of a case.
LEMMA RowMoves ==
  ASSUME EvTypes, ControlInv, [E!Next]_E!vars, NEW c \in Case
  PROVE  RowMove(c)
<1> USE FileNames DEF E!cache, E!limits
<1>1. ASSUME NEW e \in Case, E!InsertRow(e)
      PROVE  RowMove(c)
  BY <1>1 DEF E!InsertRow, E!ApiGoes, Inserted, E!NoRow, EvTypes, RowMove
<1>2. ASSUME NEW e \in Case, E!Answer(e)
      PROVE  RowMove(c)
  BY <1>2 DEF E!Answer, E!ApiGoes, Answered, EvTypes, RowMove
<1>3. ASSUME NEW k \in E!Delivery, E!Begin(k)
      PROVE  RowMove(c)
  BY <1>3 DEF E!Begin, E!Works, E!Live, EvTypes, RowMove
<1>4. ASSUME NEW k \in E!Delivery, E!Record(k)
      PROVE  RowMove(c)
  BY <1>4 DEF E!Record, E!Works, Recorded, E!Live, EvTypes, RowMove
<1>5. ASSUME NEW k \in E!Delivery, E!Hit(k)
      PROVE  RowMove(c)
  BY <1>5 DEF E!Hit, E!Works, E!Settled, SettledNow, EvTypes, RowMove
<1>6. ASSUME NEW k \in E!Delivery, E!Fail(k)
      PROVE  RowMove(c)
  BY <1>6 DEF E!Fail, E!Live, EvTypes, RowMove
<1>7. ASSUME NEW k \in E!Delivery, E!Store(k)
      PROVE  RowMove(c)
  BY <1>7 DEF E!Store, E!Works, E!Settled, SettledNow, EvTypes, RowMove
<1>8. ASSUME NEW e \in Case, E!DeleteRow(e)
      PROVE  RowMove(c)
  BY <1>8 DEF E!DeleteRow, E!Deletes, EvTypes, RowMove
<1>9. CASE UNCHANGED <<row, repointed>>
  BY <1>9 DEF RowMove
<1> QED
  BY <1>1, <1>2, <1>3, <1>4, <1>5, <1>6, <1>7, <1>8, <1>9
  DEF E!Next, E!Api, E!Work, E!Delete, E!vars,
    E!LookUp, E!WriteFile, E!RememberPage, E!Enqueue, E!Fetch, E!Index, E!NoHit, E!Retry, E!Refer,
    E!CacheVerdict, E!CacheUrl, E!Acknowledge, E!Die, E!Select, E!Count, E!Unlink, E!PageChanges

-----------------------------------------------------------------------------
\* Rows stay rows.
LEMMA RowTyped ==
  ASSUME EvTypes, ControlInv, [E!Next]_E!vars
  PROVE  row' \in [Case -> EvRow]
<1> USE FileNames, EvidenceAssumption
<1>1. row' = [c \in Case |-> row'[c]]
  <2>1. ASSUME NEW e \in Case, E!InsertRow(e)
        PROVE  row' = [c \in Case |-> row'[c]]
    BY <2>1 DEF E!InsertRow, EvTypes
  <2>2. ASSUME NEW e \in Case, E!Answer(e)
        PROVE  row' = [c \in Case |-> row'[c]]
    BY <2>2 DEF E!Answer, EvTypes
  <2>3. ASSUME NEW k \in E!Delivery, E!Begin(k)
        PROVE  row' = [c \in Case |-> row'[c]]
    BY <2>3 DEF E!Begin, EvTypes
  <2>4. ASSUME NEW k \in E!Delivery, E!Record(k)
        PROVE  row' = [c \in Case |-> row'[c]]
    BY <2>4 DEF E!Record, EvTypes
  <2>5. ASSUME NEW k \in E!Delivery, E!Hit(k)
        PROVE  row' = [c \in Case |-> row'[c]]
    BY <2>5 DEF E!Hit, EvTypes, E!Settled
  <2>6. ASSUME NEW k \in E!Delivery, E!Fail(k)
        PROVE  row' = [c \in Case |-> row'[c]]
    BY <2>6 DEF E!Fail, EvTypes
  <2>7. ASSUME NEW k \in E!Delivery, E!Store(k)
        PROVE  row' = [c \in Case |-> row'[c]]
    BY <2>7 DEF E!Store, EvTypes, E!Settled
  <2>8. ASSUME NEW e \in Case, E!DeleteRow(e)
        PROVE  row' = [c \in Case |-> row'[c]]
    BY <2>8 DEF E!DeleteRow, EvTypes
  <2>9. CASE UNCHANGED row
    BY <2>9 DEF EvTypes
  <2> QED
    BY <2>1, <2>2, <2>3, <2>4, <2>5, <2>6, <2>7, <2>8, <2>9
    DEF E!Next, E!Api, E!Work, E!Delete, E!vars, E!cache, E!limits,
      E!LookUp, E!WriteFile, E!RememberPage, E!Enqueue, E!Fetch, E!Index, E!NoHit, E!Retry, E!Refer,
      E!CacheVerdict, E!CacheUrl, E!Acknowledge, E!Die, E!Select, E!Count, E!Unlink, E!PageChanges
<1>2. ASSUME NEW c \in Case
      PROVE  row'[c] \in EvRow
  <2>1. RowMove(c) /\ row[c] \in EvRow /\ <<c, 0>> \in E!File
    BY RowMoves DEF EvTypes
  <2>2. CASE Inserted(c)
    BY <2>1, <2>2 DEF Inserted, EvRow
  <2>3. CASE Answered(c)
    <3>1. sha[<<c, 0>>] \in Content /\ hit[<<c, 0>>] \in Payload
      BY <2>1, <2>3 DEF Answered, ControlInv, EvTypes
    <3> QED
      BY <2>1, <2>3, <3>1 DEF Answered, E!Replayed, EvRow, Payload
  <2>4. CASE Recorded(c)
    BY <2>1, <2>4 DEF Recorded, EvRow
  <2>5. CASE SettledNow(c)
    <3>1. PICK d \in E!Delivery : work[d] \in {"look", "run"} /\ row'[c] = [row[c] EXCEPT !.status = "settled", !.verdict = sha[d]]
      BY <2>5 DEF SettledNow
    <3>2. sha[d] \in Content
      BY <3>1 DEF ControlInv, Holding
    <3> QED
      BY <2>1, <3>1, <3>2 DEF EvRow
  <2>6. CASE \E there \in {"processing", "failed"} : row'[c] = [row[c] EXCEPT !.status = there]
    BY <2>1, <2>6 DEF EvRow
  <2>7. CASE row'[c] = E!NoRow
    BY <2>7 DEF E!NoRow, EvRow
  <2> QED
    BY <2>1, <2>2, <2>3, <2>4, <2>5, <2>6, <2>7 DEF RowMove
<1> QED
  BY <1>1, <1>2

\* Every step keeps the types.
LEMMA EvTypeStep ==
  ASSUME EvTypes, ControlInv, NamesInv, [E!Next]_E!vars
  PROVE  EvTypes'
<1> USE FileNames, EvidenceAssumption DEF E!cache, E!limits
<1>1. ASSUME NEW e \in Case, E!LookUp(e)
      PROVE  EvTypes'
  BY <1>1 DEF E!LookUp, E!ApiGoes, ControlInv, EvTypes
<1>2. ASSUME NEW e \in Case, E!WriteFile(e)
      PROVE  EvTypes'
  BY <1>2 DEF E!WriteFile, E!ApiGoes, ControlInv, EvTypes
<1>3. ASSUME NEW e \in Case, E!InsertRow(e)
      PROVE  EvTypes'
  BY <1>3, RowTyped DEF E!InsertRow, E!ApiGoes, EvTypes
<1>4. ASSUME NEW e \in Case, E!RememberPage(e)
      PROVE  EvTypes'
  BY <1>4 DEF E!RememberPage, E!ApiGoes, EvTypes
<1>5. ASSUME NEW e \in Case, E!Answer(e)
      PROVE  EvTypes'
  BY <1>5, RowTyped DEF E!Answer, E!ApiGoes, ControlInv, EvTypes
<1>6. ASSUME NEW e \in Case, E!Enqueue(e)
      PROVE  EvTypes'
  BY <1>6 DEF E!Enqueue, E!ApiGoes, E!Send, EvTypes
<1>7. ASSUME NEW k \in E!Delivery, E!Begin(k)
      PROVE  EvTypes'
  BY <1>7, RowTyped DEF E!Begin, E!Works, E!Running, E!Trying, EvTypes
<1>8. ASSUME NEW k \in E!Delivery, E!Fetch(k)
      PROVE  EvTypes'
  BY <1>8 DEF E!Fetch, E!Works, E!Running, E!Trying, EvTypes
<1>9. ASSUME NEW k \in E!Delivery, E!Record(k)
      PROVE  EvTypes'
  BY <1>9, RowTyped DEF E!Record, E!Works, E!Running, E!Trying, EvTypes
<1>10. ASSUME NEW k \in E!Delivery, E!Index(k)
      PROVE  EvTypes'
  BY <1>10 DEF E!Index, E!Works, E!Running, E!Trying, ControlInv, Holding, EvTypes
<1>11. ASSUME NEW k \in E!Delivery, E!Hit(k)
      PROVE  EvTypes'
  BY <1>11, RowTyped DEF E!Hit, E!Works, E!Running, ControlInv, Holding, EvTypes
<1>12. ASSUME NEW k \in E!Delivery, E!NoHit(k)
      PROVE  EvTypes'
  BY <1>12 DEF E!NoHit, E!Works, E!Running, E!Trying, EvTypes
<1>13. ASSUME NEW k \in E!Delivery, E!Fail(k)
      PROVE  EvTypes'
  BY <1>13, RowTyped DEF E!Fail, E!Running, E!Trying, EvTypes
<1>14. ASSUME NEW k \in E!Delivery, E!Retry(k)
      PROVE  EvTypes'
  BY <1>14 DEF E!Retry, E!Send, E!Running, E!Trying, EvTypes
<1>15. ASSUME NEW k \in E!Delivery, E!Store(k)
      PROVE  EvTypes'
  BY <1>15, RowTyped DEF E!Store, E!Works, E!Running, ControlInv, Holding, EvTypes
<1>16. ASSUME NEW k \in E!Delivery, E!Refer(k)
      PROVE  EvTypes'
  BY <1>16 DEF E!Refer, E!Works, E!Running, E!Ref, Payload, EvRow, EvTypes
<1>17. ASSUME NEW k \in E!Delivery, E!CacheVerdict(k)
      PROVE  EvTypes'
  BY <1>17 DEF E!CacheVerdict, E!Works, E!Running, EvTypes
<1>18. ASSUME NEW k \in E!Delivery, E!CacheUrl(k)
      PROVE  EvTypes'
  BY <1>18 DEF E!CacheUrl, E!Works, E!Running, ControlInv, Holding, EvTypes
<1>19. ASSUME NEW k \in E!Delivery, E!Acknowledge(k)
      PROVE  EvTypes'
  BY <1>19 DEF E!Acknowledge, EvTypes
<1>20. ASSUME NEW k \in E!Delivery, E!Die(k)
      PROVE  EvTypes'
  <2>1. PICK n \in E!Delivery :
          /\ work' = [[work EXCEPT ![k] = "over"] EXCEPT ![n] = "sent"]
          /\ sha' = [[sha EXCEPT ![k] = None] EXCEPT ![n] = IF k[1] \in Upload THEN Bytes[k[1]] ELSE None]
    BY <1>20 DEF E!Die, E!Send
  <2>2. work' \in [E!Delivery -> {"unsent", "sent", "over"} \cup E!Running]
    BY <2>1 DEF EvTypes
  <2>3. sha' \in [E!File -> Content \cup {None}]
    BY <2>1 DEF EvTypes
  <2>4. overlapped' \in BOOLEAN
    BY <1>20 DEF E!Die
  <2> QED
    BY <1>20, <2>2, <2>3, <2>4 DEF E!Die, EvTypes
<1>21. ASSUME NEW e \in Case, E!Select(e)
      PROVE  EvTypes'
  BY <1>21 DEF E!Select, E!Deletes, EvRow, EvTypes
<1>22. ASSUME NEW e \in Case, E!DeleteRow(e)
      PROVE  EvTypes'
  BY <1>22, RowTyped DEF E!DeleteRow, E!Deletes, EvTypes
<1>23. ASSUME NEW e \in Case, E!Count(e)
      PROVE  EvTypes'
  BY <1>23 DEF E!Count, E!Deletes, EvTypes
<1>24. ASSUME NEW e \in Case, E!Unlink(e)
      PROVE  EvTypes'
  BY <1>24 DEF E!Unlink, E!Deletes, EvTypes
<1>25. CASE E!PageChanges
  BY <1>25 DEF E!PageChanges, EvTypes
<1>26. CASE UNCHANGED E!vars
  BY <1>26 DEF E!vars, EvTypes
<1> QED
  BY <1>1, <1>2, <1>3, <1>4, <1>5, <1>6, <1>7, <1>8, <1>9, <1>10, <1>11, <1>12, <1>13, <1>14,
     <1>15, <1>16, <1>17, <1>18, <1>19, <1>20, <1>21, <1>22, <1>23, <1>24, <1>25, <1>26
  DEF E!Next, E!Api, E!Work, E!Delete

\* A step only ever goes on; what was said of a file that is written stays so.
LEMMA WrittenStays ==
  ASSUME EvTypes, ControlInv, [E!Next]_E!vars, NEW f \in E!File, Written(f)
  PROVE  Written(f)' /\ \A x : stored[f] \in {None, x} => stored'[f] \in {None, x}
<1>1. Written(f)'
  <2>1. CASE f \in E!Delivery
    <3>1. work[f] \notin {"unsent", "sent", "fetch", "record"}
      BY <2>1, FileNames DEF Written
    <3>2. WorkMove(f)
      BY <2>1, WorkMoves
    <3> QED
      BY <2>1, <3>1, <3>2 DEF WorkMove, SentNow, Written, E!Trying, E!Running
  <2>2. CASE f \notin E!Delivery
    <3>1. PICK c \in Case : f = <<c, 0>> /\ api[c] \notin {"start", "write", "insert"}
      BY <2>2 DEF Written
    <3>2. ApiMove(c)
      BY ApiMoves
    <3> QED
      BY <3>1, <3>2 DEF ApiMove, Written
  <2> QED
    BY <2>1, <2>2
<1>2. stored'[f] \in {stored[f], None}
  <2>1. DiskMove(f)
    BY DiskMoves
  <2>2. ASSUME NEW c \in Case, f = <<c, 0>>
        PROVE  api[c] # "write"
    BY <2>2, FileNames DEF Written
  <2>3. f \in E!Delivery => work[f] # "fetch"
    BY FileNames DEF Written
  <2> QED
    BY <2>1, <2>2, <2>3 DEF DiskMove
<1> QED
  BY <1>1, <1>2

LEMMA KeptStays ==
  ASSUME EvTypes, ControlInv, [E!Next]_E!vars, NEW f \in E!File, NEW x, Kept(f, x)
  PROVE  Kept(f, x)'
BY WrittenStays DEF Kept

\* A history of overlapping runs is not forgotten.
LEMMA OverlapStays == ASSUME [E!Next]_E!vars, overlapped PROVE overlapped'
<1>1. CASE UNCHANGED overlapped
  BY <1>1
<1>2. ASSUME NEW k \in E!Delivery, E!Die(k)
      PROVE  overlapped'
  BY <1>2 DEF E!Die
<1> QED
  BY <1>1, <1>2
  DEF E!Next, E!Api, E!Work, E!Delete, E!vars,
    E!LookUp, E!WriteFile, E!InsertRow, E!RememberPage, E!Answer, E!Enqueue, E!Begin, E!Fetch,
    E!Record, E!Index, E!Hit, E!NoHit, E!Fail, E!Retry, E!Store, E!Refer, E!CacheVerdict, E!CacheUrl,
    E!Acknowledge, E!Select, E!DeleteRow, E!Count, E!Unlink, E!PageChanges

\* What handlers and deliveries work on, and how many of a case there are.
LEMMA ControlStep ==
  ASSUME EvTypes, ControlInv, [E!Next]_E!vars
  PROVE  ControlInv'
<1>1. ASSUME NEW c \in Case
      PROVE  /\ api'[c] = "write" => c \in Upload
             /\ c \in Upload /\ api'[c] # "start" => sha'[<<c, 0>>] = Bytes[c]
             /\ hit'[<<c, 0>>] # None => sha'[<<c, 0>>] \in Content
  <2>1. ApiMove(c)
    BY ApiMoves
  <2>2. sha'[<<c, 0>>] \in Content \cup {None}
    BY <2>1, FileNames, EvidenceAssumption DEF ApiMove, EvTypes
  <2> QED
    BY <2>1, <2>2 DEF ApiMove, ControlInv
<1>2. ASSUME NEW d \in E!Delivery
      PROVE  /\ api'[d[1]] # "over" => work'[d] = "unsent"
             /\ d[1] \in Upload => work'[d] \notin {"fetch", "record", "index", "look"}
             /\ d[1] \in Upload /\ work'[d] \notin {"unsent", "over"} => sha'[d] = Bytes[d[1]]
             /\ work'[d] \in Holding => sha'[d] \in Content
             /\ hit'[d] # None <=> work'[d] = "cache"
  <2>1. WorkMove(d) /\ d[1] \in Case /\ ApiMove(d[1])
    BY WorkMoves, ApiMoves, FileNames
  <2>2. api'[d[1]] # "over" => api[d[1]] # "over"
    BY <2>1 DEF ApiMove
  <2>3. E!Ref(row[d[1]].file) # None
    BY <2>1, EvidenceAssumption DEF E!Ref, EvTypes, EvRow
  <2>4. page \in Content /\ (d[1] \in Upload => Bytes[d[1]] \in Content)
    BY EvidenceAssumption DEF EvTypes
  <2>5. CASE UNCHANGED <<work[d], sha[d], hit[d]>>
    BY <2>2, <2>5 DEF ControlInv
  <2>6. CASE SentNow(d)
    BY <2>1, <2>2, <2>4, <2>6 DEF SentNow, ControlInv, Holding
  <2>7. CASE ~UNCHANGED <<work[d], sha[d], hit[d]>> /\ ~SentNow(d)
    BY <2>1, <2>2, <2>3, <2>4, <2>7, EvidenceAssumption DEF WorkMove, ControlInv, Holding, E!Trying, E!Running
  <2> QED
    BY <2>5, <2>6, <2>7
<1>3. ASSUME ~overlapped', NEW d \in E!Delivery, NEW e \in E!Delivery, d[1] = e[1], Active(d)', Active(e)'
      PROVE  d = e
  <2>1. ASSUME NEW k \in E!Delivery, Active(k)'
        PROVE  Active(k) \/ SentNow(k)
    BY <2>1, WorkMoves DEF WorkMove, Active, E!Trying, E!Running
  <2>2. ~overlapped
    BY <1>3, OverlapStays
  <2>3. CASE SentNow(d) \/ SentNow(e)
    BY <1>3, <2>3 DEF SentNow
  <2>4. CASE Active(d) /\ Active(e)
    BY <1>3, <2>2, <2>4 DEF ControlInv
  <2> QED
    BY <1>3, <2>1, <2>3, <2>4
<1> QED
  BY <1>1, <1>2, <1>3 DEF ControlInv

\* A file has the content of what wrote it, and nothing removes it before it is named.
LEMMA FilesStep ==
  ASSUME EvTypes, ControlInv, FilesInv, NamesInv, [E!Next]_E!vars
  PROVE  FilesInv'
<1>1. ASSUME NEW c \in Upload
      PROVE  /\ api'[c] = "insert" => stored'[<<c, 0>>] = Bytes[c]
             /\ api'[c] \notin {"start", "write"} => stored'[<<c, 0>>] \in {None, Bytes[c]}
  <2>1. c \in Case /\ ApiMove(c) /\ DiskMove(<<c, 0>>)
    BY ApiMoves, DiskMoves, FileNames, EvidenceAssumption
  <2>2. \A e \in Case : <<c, 0>> = <<e, 0>> => e = c
    BY FileNames
  <2>3. CASE api[c] \in {"start", "write", "insert"}
    <3>1. ~Written(<<c, 0>>)
      BY <2>1, <2>2, <2>3, FileNames DEF Written
    <3>2. \A e \in Case : del[e].file # <<c, 0>>
      BY <2>1, <3>1, FileNames DEF NamesInv
    <3> QED
      BY <2>1, <2>2, <2>3, <3>2, FileNames DEF ApiMove, DiskMove, FilesInv, ControlInv
  <2>4. CASE api[c] \notin {"start", "write", "insert"}
    BY <2>1, <2>2, <2>4, FileNames DEF ApiMove, DiskMove, FilesInv
  <2> QED
    BY <2>3, <2>4
<1>2. ASSUME NEW d \in E!Delivery, d[1] \notin Upload
      PROVE  /\ work'[d] = "record" => stored'[d] = sha'[d]
             /\ work'[d] \in Holding => stored'[d] \in {None, sha'[d]}
  <2>1. WorkMove(d) /\ DiskMove(d) /\ \A e \in Case : d # <<e, 0>>
    BY WorkMoves, DiskMoves, FileNames
  <2>2. ASSUME work[d] \in {"fetch", "record"}, NEW e \in Case
        PROVE  del[e].file # d
    <3>1. ~Written(d) /\ d # None
      BY <2>1, <2>2, FileNames DEF Written
    <3> QED
      BY <3>1 DEF NamesInv
  <2>3. CASE work[d] = "fetch"
    BY <1>2, <2>1, <2>2, <2>3 DEF WorkMove, SentNow, DiskMove, Holding, E!Trying, E!Running
  <2>4. CASE work[d] = "record"
    BY <1>2, <2>1, <2>2, <2>4 DEF WorkMove, SentNow, DiskMove, FilesInv, Holding, E!Trying, E!Running
  <2>5. CASE work[d] \notin {"fetch", "record"}
    BY <1>2, <2>1, <2>5 DEF WorkMove, SentNow, DiskMove, FilesInv, Holding, E!Trying, E!Running
  <2> QED
    BY <2>3, <2>4, <2>5
<1> QED
  BY <1>1, <1>2 DEF FilesInv

\* A row names a file of its own case; that of the delivery at work, unless runs overlap.
LEMMA RowsStep ==
  ASSUME EvTypes, ControlInv, RowsInv, [E!Next]_E!vars
  PROVE  RowsInv'
<1> USE FileNames
<1>1. ASSUME NEW c \in Case
      PROVE  /\ ~E!Live(c)' => row'[c] = E!NoRow
             /\ E!Live(c)' /\ c \in Upload => row'[c].file = <<c, 0>> /\ ~row'[c].shared
             /\ c \notin Upload /\ api'[c] # "over" => row'[c].file = None
  <2>1. RowMove(c) /\ row[c] \in EvRow
    BY RowMoves DEF EvTypes
  <2>2. api'[c] # "over" => api[c] # "over"
    BY ApiMoves DEF ApiMove
  <2>3. CASE UNCHANGED row[c]
    BY <2>2, <2>3 DEF RowsInv, E!Live
  <2>4. CASE Inserted(c)
    BY <2>4 DEF Inserted, E!Live
  <2>5. CASE Answered(c)
    BY <2>1, <2>5 DEF Answered, E!Replayed, RowsInv, E!Live, EvRow
  <2>6. CASE Recorded(c)
    <3>1. PICK d \in E!Delivery : d[1] = c /\ work[d] = "record" /\ row'[c] = [row[c] EXCEPT !.file = d]
      BY <2>6 DEF Recorded
    <3>2. c \notin Upload /\ api[c] = "over"
      BY <3>1 DEF ControlInv
    <3> QED
      BY <2>1, <2>2, <2>6, <3>1, <3>2 DEF Recorded, E!Live, EvRow
  <2>7. CASE SettledNow(c)
    <3>1. PICK x : row'[c] = [row[c] EXCEPT !.status = "settled", !.verdict = x]
      BY <2>7 DEF SettledNow
    <3> QED
      BY <2>1, <2>2, <2>7, <3>1 DEF SettledNow, RowsInv, E!Live, EvRow
  <2>8. CASE E!Live(c) /\ \E there \in {"processing", "failed"} : row'[c] = [row[c] EXCEPT !.status = there]
    BY <2>1, <2>2, <2>8 DEF RowsInv, E!Live, EvRow
  <2>9. CASE row'[c] = E!NoRow
    BY <2>9 DEF E!NoRow, E!Live
  <2> QED
    BY <2>1, <2>3, <2>4, <2>5, <2>6, <2>7, <2>8, <2>9 DEF RowMove
<1>2. ASSUME ~overlapped', NEW d \in E!Delivery, E!Live(d[1])', d[1] \notin Upload,
             work'[d] \in {"index", "look", "run", "refer"}
      PROVE  row'[d[1]].file = d
  <2> DEFINE c == d[1]
  <2>1. c \in Case /\ RowMove(c) /\ row[c] \in EvRow /\ WorkMove(d)
    BY RowMoves, WorkMoves DEF EvTypes
  <2>2. ~overlapped
    BY <1>2, OverlapStays
  <2>3. CASE work[d] = "record"
    BY <1>2, <2>1, <2>3 DEF WorkMove, SentNow, E!Trying, E!Running
  <2>4. CASE work[d] \in {"index", "look", "run", "refer"}
    <3>1. api[c] = "over" /\ Active(d) /\ work[d] # "record"
      BY <2>4 DEF ControlInv, Active
    <3>2. E!Live(c) => row[c].file = d
      BY <1>2, <2>2, <2>4 DEF RowsInv
    <3>3. ~Inserted(c) /\ ~Answered(c)
      BY <3>1 DEF Inserted, Answered
    <3>4. ~Recorded(c)
      BY <2>2, <3>1 DEF Recorded, ControlInv, Active
    <3>5. CASE UNCHANGED row[c]
      BY <1>2, <3>2, <3>5 DEF E!Live
    <3>6. CASE SettledNow(c)
      BY <2>1, <3>2, <3>6 DEF SettledNow, EvRow
    <3>7. CASE E!Live(c) /\ \E there \in {"processing", "failed"} : row'[c] = [row[c] EXCEPT !.status = there]
      BY <2>1, <3>2, <3>7 DEF EvRow
    <3>8. row'[c] # E!NoRow
      BY <1>2 DEF E!Live, E!NoRow
    <3> QED
      BY <2>1, <3>3, <3>4, <3>5, <3>6, <3>7, <3>8 DEF RowMove
  <2>5. work[d] = "record" \/ work[d] \in {"index", "look", "run", "refer"}
    BY <1>2, <2>1 DEF WorkMove, SentNow, E!Trying, E!Running
  <2> QED
    BY <2>3, <2>4, <2>5
<1> QED
  BY <1>1, <1>2 DEF RowsInv

\* A run whose case is still there, and that nothing overlaps, reads the file its row names, which has
\* the content it works on.
LEMMA ReadsItsOwn ==
  ASSUME EvTypes, ControlInv, FilesInv, RowsInv, ~overlapped,
         NEW d \in E!Delivery, E!Live(d[1]), work[d] \in {"look", "run", "refer"}
  PROVE  row[d[1]].file = E!Mine(d) /\ Kept(E!Mine(d), sha[d])
<1> USE FileNames DEF E!Mine
<1>1. api[d[1]] = "over"
  BY DEF ControlInv
<1>2. CASE d[1] \in Upload
  BY <1>1, <1>2 DEF ControlInv, FilesInv, RowsInv, Kept, Written
<1>3. CASE d[1] \notin Upload
  BY <1>3 DEF FilesInv, RowsInv, Kept, Written, Holding
<1> QED
  BY <1>2, <1>3

\* Whatever names a file has it from a row, a payload, or what wrote it.
LEMMA NamesStep ==
  ASSUME EvTypes, ControlInv, NamesInv, [E!Next]_E!vars
  PROVE  NamesInv'
<1> USE FileNames
<1>1. \A f \in E!File : Written(f) => Written(f)'
  BY WrittenStays
<1>2. ASSUME NEW c \in Case, NEW f \in E!File, row'[c].file = f
      PROVE  Written(f)'
  <2>1. RowMove(c) /\ row[c] \in EvRow
    BY RowMoves DEF EvTypes
  <2>2. CASE row[c].file = f
    BY <1>1, <2>2 DEF NamesInv
  <2>3. CASE Inserted(c)
    BY <1>2, <2>3 DEF Inserted, Written
  <2>4. CASE Answered(c) /\ row[c].file # f
    <3>1. hit[<<c, 0>>] \in Payload /\ row'[c].file = hit[<<c, 0>>].file
      BY <1>2, <2>1, <2>4 DEF Answered, E!Replayed, EvTypes, EvRow
    <3> QED
      BY <1>1, <1>2, <2>4, <3>1 DEF NamesInv, Answered
  <2>5. CASE Recorded(c)
    <3>1. PICK d \in E!Delivery : work'[d] = "index" /\ row'[c] = [row[c] EXCEPT !.file = d]
      BY <2>5 DEF Recorded
    <3> QED
      BY <1>2, <2>1, <3>1 DEF EvRow, Written
  <2>6. SettledNow(c) => row[c].file = f
    BY <1>2, <2>1 DEF SettledNow, EvRow
  <2>7. (\E there \in {"processing", "failed"} : row'[c] = [row[c] EXCEPT !.status = there])
          => row[c].file = f
    BY <1>2, <2>1 DEF EvRow
  <2>8. row'[c] # E!NoRow
    BY <1>2 DEF E!NoRow
  <2> QED
    BY <1>2, <2>1, <2>2, <2>3, <2>4, <2>5, <2>6, <2>7, <2>8 DEF RowMove
<1>3. ASSUME NEW c \in Case
      PROVE  /\ \A f \in E!File : del'[c].file = f => Written(f)'
             /\ del'[c].pc \in {"count", "unlink"} => del'[c].file # None
  <2>1. DelMove(c)
    BY DelMoves
  <2>2. /\ del'[c].pc \in {"count", "unlink"} => del'[c].file # None
        /\ del'[c].file \in {None, del[c].file, row[c].file}
    BY <2>1 DEF DelMove, NamesInv
  <2>3. \A f \in E!File : f = row[c].file \/ f = del[c].file => Written(f)
    BY DEF NamesInv
  <2> QED
    BY <1>1, <2>2, <2>3
<1>4. ASSUME NEW g \in E!File, hit'[g] # None, NEW f \in E!File, hit'[g].file = f
      PROVE  Written(f)'
  <2>1. CASE hit'[g] = hit[g]
    BY <1>1, <1>4, <2>1 DEF NamesInv
  <2>2. CASE g \in E!Delivery /\ hit'[g] # hit[g]
    <3>1. hit'[g] = E!Ref(row[g[1]].file)
      BY <1>4, <2>2, WorkMoves DEF WorkMove, SentNow
    <3>2. row[g[1]].file = f
      BY <1>4, <3>1 DEF E!Ref
    <3> QED
      BY <1>1, <2>2, <3>2 DEF NamesInv
  <2>3. CASE g \notin E!Delivery /\ hit'[g] # hit[g]
    <3>1. PICK c \in Case : g = <<c, 0>>
      BY <2>3
    <3>2. sha'[g] # None /\ hit'[g] = payload[sha'[g]] /\ sha'[g] \in Content
      BY <1>4, <2>3, <3>1, ApiMoves, EvidenceAssumption DEF ApiMove, EvTypes
    <3> QED
      BY <1>1, <1>4, <3>2 DEF NamesInv
  <2> QED
    BY <2>1, <2>2, <2>3
<1>5. ASSUME NEW x \in Content, payload'[x] # None, NEW f \in E!File, payload'[x].file = f
      PROVE  Written(f)'
  <2>1. CASE payload'[x] = payload[x]
    BY <1>1, <1>5, <2>1 DEF NamesInv
  <2>2. CASE payload'[x] # payload[x]
    <3>1. PICK d \in E!Delivery : payload'[x] = hit[d]
      BY <2>2, PayloadMoves DEF PayloadMove
    <3> QED
      BY <1>1, <1>5, <3>1 DEF NamesInv
  <2> QED
    BY <2>1, <2>2
<1>6. EvTypes'
  BY EvTypeStep
<1>7. ASSUME NEW c \in Case
      PROVE  row'[c].file \in E!File \cup {None} /\ del'[c].file \in E!File \cup {None}
  BY <1>6 DEF EvTypes, EvRow
<1>8. \A g \in E!File : hit'[g] # None => hit'[g].file \in E!File \cup {None}
  BY <1>6 DEF EvTypes, Payload
<1>9. \A x \in Content : payload'[x] # None => payload'[x].file \in E!File \cup {None}
  BY <1>6 DEF EvTypes, Payload
<1> QED
  BY <1>2, <1>3, <1>4, <1>5, <1>7, <1>8, <1>9 DEF NamesInv, Written

\* While no runs overlap, what a payload, a hit or a settled row names has the content it is known by.
LEMMA ContentStep ==
  ASSUME EvTypes, ControlInv, FilesInv, RowsInv, NamesInv, ContentInv, [E!Next]_E!vars
  PROVE  ContentInv'
<1> SUFFICES ASSUME ~overlapped'
             PROVE  ContentInv'
  BY DEF ContentInv
<1> USE FileNames
<1>1. ~overlapped
  BY OverlapStays
<1>2. \A f \in E!File : \A x \in Content \cup {None} : Kept(f, x) => Kept(f, x)'
  BY KeptStays
<1>3. ASSUME NEW x \in Content, payload'[x] # None, NEW f \in E!File, payload'[x].file = f
      PROVE  Kept(f, x)'
  <2>1. CASE payload'[x] = payload[x]
    BY <1>1, <1>2, <1>3, <2>1 DEF ContentInv
  <2>2. CASE payload'[x] # payload[x]
    <3>1. PICK d \in E!Delivery : sha[d] = x /\ payload'[x] = hit[d]
      BY <2>2, PayloadMoves DEF PayloadMove
    <3> QED
      BY <1>1, <1>2, <1>3, <3>1 DEF ContentInv
  <2> QED
    BY <2>1, <2>2
<1>4. ASSUME NEW g \in E!File, hit'[g] # None, NEW f \in E!File, hit'[g].file = f,
             NEW x \in Content \cup {None}, x = sha'[g]
      PROVE  Kept(f, x)'
  <2>1. CASE UNCHANGED <<hit[g], sha[g]>>
    BY <1>1, <1>2, <1>4, <2>1 DEF ContentInv
  <2>2. CASE g \in E!Delivery /\ ~UNCHANGED <<hit[g], sha[g]>>
    <3>1. work[g] = "refer" /\ sha'[g] = sha[g] /\ hit'[g] = E!Ref(row[g[1]].file)
      BY <1>4, <2>2, WorkMoves DEF WorkMove, SentNow, ControlInv
    <3>2. row[g[1]].file = f
      BY <1>4, <3>1 DEF E!Ref
    <3>3. E!Live(g[1])
      BY <2>2, <3>2 DEF RowsInv, E!NoRow
    <3>4. Kept(f, x)
      BY <1>1, <1>4, <2>2, <3>1, <3>2, <3>3, ReadsItsOwn
    <3> QED
      BY <1>2, <3>4
  <2>3. CASE g \notin E!Delivery /\ ~UNCHANGED <<hit[g], sha[g]>>
    <3>1. PICK c \in Case : g = <<c, 0>>
      BY <2>3
    <3>2. sha'[g] # None /\ hit'[g] = payload[sha'[g]] /\ sha'[g] \in Content
      BY <1>4, <2>3, <3>1, ApiMoves, EvidenceAssumption DEF ApiMove, EvTypes
    <3> QED
      BY <1>1, <1>2, <1>4, <3>2 DEF ContentInv
  <2> QED
    BY <2>1, <2>2, <2>3
<1>5. ASSUME NEW c \in Case, c \notin repointed', row'[c].status = "settled",
             NEW f \in E!File, row'[c].file = f, NEW x \in Content \cup {None}, x = row'[c].verdict
      PROVE  Kept(f, x)'
  <2>1. RowMove(c) /\ row[c] \in EvRow
    BY RowMoves DEF EvTypes
  <2>2. CASE UNCHANGED row[c] /\ (c \in repointed => c \in repointed' \/ row[c].status # "settled")
    BY <1>1, <1>2, <1>5, <2>2 DEF ContentInv
  <2>3. ~Inserted(c) /\ ~Recorded(c) /\ row'[c] # E!NoRow
    <3>1. ~Inserted(c) /\ row'[c] # E!NoRow
      BY <1>5 DEF Inserted, E!NoRow
    <3>2. Recorded(c) => row'[c].status = row[c].status
      BY <2>1 DEF Recorded, EvRow
    <3> QED
      BY <1>5, <3>1, <3>2 DEF Recorded
  <2>4. CASE Answered(c)
    <3>1. /\ hit[<<c, 0>>] \in Payload /\ x = sha[<<c, 0>>]
          /\ f = IF row[c].file = None THEN hit[<<c, 0>>].file ELSE row[c].file
      BY <1>5, <2>1, <2>4 DEF Answered, E!Replayed, EvTypes, EvRow
    <3>2. CASE row[c].file = None
      BY <1>1, <1>2, <2>4, <3>1, <3>2 DEF ContentInv, Answered
    <3>3. CASE row[c].file # None
      <4>1. api[c] = "answer" /\ E!Live(c)
        BY <2>4 DEF Answered
      <4>2. c \in Upload
        BY <3>3, <4>1 DEF RowsInv
      <4>3. f = <<c, 0>> /\ x = Bytes[c]
        BY <3>1, <3>3, <4>1, <4>2 DEF RowsInv, ControlInv
      <4>4. Kept(f, x)
        BY <4>1, <4>2, <4>3 DEF FilesInv, Kept, Written
      <4> QED
        BY <1>2, <4>4
    <3> QED
      BY <3>2, <3>3
  <2>5. CASE SettledNow(c)
    <3>1. PICK d \in E!Delivery : /\ d[1] = c /\ work[d] \in {"look", "run"}
                                  /\ row'[c] = [row[c] EXCEPT !.status = "settled", !.verdict = sha[d]]
      BY <2>5 DEF SettledNow
    <3>2. f = row[c].file /\ x = sha[d]
      BY <1>5, <2>1, <3>1 DEF EvRow
    <3>3. Kept(f, x)
      BY <1>1, <2>5, <3>1, <3>2, ReadsItsOwn DEF SettledNow
    <3> QED
      BY <1>2, <3>3
  <2>6. ~\E there \in {"processing", "failed"} : row'[c] = [row[c] EXCEPT !.status = there]
    BY <1>5, <2>1 DEF EvRow
  <2> QED
    BY <2>1, <2>2, <2>3, <2>4, <2>5, <2>6 DEF RowMove
<1>6. EvTypes'
  BY EvTypeStep
<1>7. \A c \in Case : /\ row'[c].file \in E!File \cup {None}
                      /\ row'[c].verdict \in Content \cup {None}
  BY <1>6 DEF EvTypes, EvRow
<1>8. \A g \in E!File : /\ hit'[g] # None => hit'[g].file \in E!File \cup {None}
                        /\ sha'[g] \in Content \cup {None}
  BY <1>6 DEF EvTypes, Payload
<1>9. \A x \in Content : payload'[x] # None => payload'[x].file \in E!File \cup {None}
  BY <1>6 DEF EvTypes, Payload
<1> QED
  BY <1>3, <1>4, <1>5, <1>7, <1>8, <1>9 DEF ContentInv, Kept, Written

\* A file a deletion names is written, so that no insert or download can name it as its own.
LEMMA UnlinkStep ==
  ASSUME EvTypes, ControlInv, RowsInv, NamesInv, UnlinkInv, [E!Next]_E!vars
  PROVE  UnlinkInv'
<1> USE FileNames
<1> SUFFICES ASSUME NEW e \in Case, NEW c \in Case, del'[e].pc = "unlink", E!Live(c)', row'[c].file = del'[e].file
             PROVE  row'[c].shared
  BY DEF UnlinkInv
<1>1. DelMove(e) /\ RowMove(c) /\ row[c] \in EvRow
  BY DelMoves, RowMoves DEF EvTypes
<1>2. CASE del[e].pc = "count"
  BY <1>1, <1>2 DEF DelMove, E!StillReferenced, E!Live
<1>3. CASE del[e].pc = "unlink" /\ del'[e] = del[e]
  <2> DEFINE f == del[e].file
  <2>1. f # None /\ Written(f) /\ row'[c].file = f
    BY <1>3 DEF NamesInv
  <2>2. E!Live(c) /\ row[c].file = f => row[c].shared
    BY <1>3 DEF UnlinkInv
  <2>3. CASE UNCHANGED row[c]
    BY <2>1, <2>2, <2>3 DEF E!Live
  <2>4. ~Inserted(c)
    BY <2>1 DEF Inserted, Written
  <2>5. CASE Answered(c)
    <3>1. row[c].file # None => row[c].file = f /\ c \in Upload
      BY <1>1, <2>1, <2>5 DEF Answered, E!Replayed, RowsInv, EvRow
    <3>2. row[c].file = None
      BY <2>2, <2>5, <3>1 DEF Answered, RowsInv
    <3> QED
      BY <1>1, <2>1, <2>5, <3>2 DEF Answered, E!Replayed, EvRow
  <2>6. ~Recorded(c)
    <3>1. ASSUME NEW d \in E!Delivery, work[d] = "record", row'[c] = [row[c] EXCEPT !.file = d]
          PROVE  FALSE
      <4>1. f = d
        BY <1>1, <2>1, <3>1 DEF EvRow
      <4> QED
        BY <2>1, <3>1, <4>1 DEF Written
    <3> QED
      BY <3>1 DEF Recorded
  <2>7. CASE SettledNow(c)
    BY <1>1, <2>1, <2>2, <2>7 DEF SettledNow, EvRow
  <2>8. CASE E!Live(c) /\ \E there \in {"processing", "failed"} : row'[c] = [row[c] EXCEPT !.status = there]
    BY <1>1, <2>1, <2>2, <2>8 DEF EvRow
  <2>9. row'[c] # E!NoRow
    BY DEF E!Live, E!NoRow
  <2> QED
    BY <1>1, <2>3, <2>4, <2>5, <2>6, <2>7, <2>8, <2>9 DEF RowMove
<1> QED
  BY <1>1, <1>2, <1>3 DEF DelMove

\* The file a row stores for its own case is unlinked by nobody.
LEMMA OwnFileStep ==
  ASSUME EvTypes, ControlInv, FilesInv, RowsInv, NamesInv, UnlinkInv, OwnFileStays, [E!Next]_E!vars
  PROVE  OwnFileStays'
<1> USE FileNames
<1>1. ASSUME NEW f \in E!File, stored[f] # None, \A e \in Case : ~(del[e].pc = "unlink" /\ del[e].file = f)
      PROVE  stored'[f] # None
  <2>1. DiskMove(f) /\ page \in Content /\ None \notin Content
    BY DiskMoves, EvidenceAssumption DEF EvTypes
  <2>2. \A c \in Case : api[c] = "write" => sha[<<c, 0>>] \in Content
    BY EvidenceAssumption DEF ControlInv
  <2> QED
    BY <1>1, <2>1, <2>2 DEF DiskMove
<1>2. ASSUME NEW f \in E!File, ~Written(f)
      PROVE  \A e \in Case : ~(del[e].pc = "unlink" /\ del[e].file = f)
  BY <1>2 DEF NamesInv
<1>3. ASSUME NEW c \in Case, E!Live(c), row[c].file # None, ~row[c].shared
      PROVE  stored'[row[c].file] # None
  <2>1. row[c].file \in E!File /\ stored[row[c].file] # None
    BY <1>3 DEF OwnFileStays, E!OwnFileStays, EvTypes, EvRow
  <2>2. \A e \in Case : ~(del[e].pc = "unlink" /\ del[e].file = row[c].file)
    BY <1>3 DEF UnlinkInv
  <2> QED
    BY <1>1, <2>1, <2>2
<1> SUFFICES ASSUME NEW c \in Case, E!Live(c)', row'[c].file # None, ~row'[c].shared
             PROVE  stored'[row'[c].file] # None
  BY DEF OwnFileStays, E!OwnFileStays
<1>4. RowMove(c) /\ row[c] \in EvRow /\ None \notin Content
  BY RowMoves, EvidenceAssumption DEF EvTypes
<1>5. CASE UNCHANGED row[c]
  BY <1>3, <1>5 DEF E!Live
<1>6. CASE Inserted(c)
  <2>1. c \in Upload /\ row'[c].file = <<c, 0>> /\ api[c] = "insert"
    BY <1>6 DEF Inserted
  <2>2. stored[<<c, 0>>] # None
    BY <1>4, <2>1, EvidenceAssumption DEF FilesInv
  <2>3. ~Written(<<c, 0>>)
    BY <2>1 DEF Written
  <2> QED
    BY <1>1, <1>2, <2>1, <2>2, <2>3
<1>7. CASE Answered(c)
  <2>1. row[c].file # None /\ row'[c].file = row[c].file
    BY <1>4, <1>7 DEF Answered, E!Replayed, EvRow
  <2>2. E!Live(c) /\ ~row[c].shared
    BY <1>7, <2>1 DEF Answered, RowsInv
  <2> QED
    BY <1>3, <2>1, <2>2
<1>8. CASE Recorded(c)
  <2>1. PICK d \in E!Delivery : d[1] = c /\ work[d] = "record" /\ row'[c] = [row[c] EXCEPT !.file = d]
    BY <1>8 DEF Recorded
  <2>2. row'[c].file = d /\ d[1] \notin Upload
    BY <1>4, <2>1 DEF EvRow, ControlInv
  <2>3. stored[d] = sha[d] /\ sha[d] \in Content
    BY <2>1, <2>2 DEF FilesInv, ControlInv, Holding
  <2>4. ~Written(d)
    BY <2>1 DEF Written
  <2> QED
    BY <1>1, <1>2, <1>4, <2>2, <2>3, <2>4
<1>9. CASE SettledNow(c)
  BY <1>3, <1>4, <1>9 DEF SettledNow, EvRow
<1>10. CASE E!Live(c) /\ \E there \in {"processing", "failed"} : row'[c] = [row[c] EXCEPT !.status = there]
  BY <1>3, <1>4, <1>10 DEF EvRow
<1>11. row'[c] # E!NoRow
  BY DEF E!Live, E!NoRow
<1> QED
  BY <1>4, <1>5, <1>6, <1>7, <1>8, <1>9, <1>10, <1>11 DEF RowMove

LEMMA EvidenceInit == E!Init => EvidenceInv
<1> SUFFICES ASSUME E!Init PROVE EvidenceInv
  OBVIOUS
<1> USE FileNames DEF E!Init
<1>1. EvTypes
  BY DEF EvTypes, EvRow, E!NoRow
<1>2. \A c \in Case : row[c] = E!NoRow /\ ~E!Live(c) /\ row[c].file = None /\ row[c].status = "absent"
  BY DEF E!NoRow, E!Live
<1>3. ControlInv
  BY DEF ControlInv, Holding, Active
<1>4. FilesInv /\ RowsInv
  BY <1>2, EvidenceAssumption DEF FilesInv, RowsInv, Holding
<1>5. NamesInv /\ ContentInv /\ UnlinkInv
  BY <1>2 DEF NamesInv, ContentInv, UnlinkInv
<1>6. OwnFileStays
  BY <1>2 DEF OwnFileStays, E!OwnFileStays
<1> QED
  BY <1>1, <1>3, <1>4, <1>5, <1>6 DEF EvidenceInv

LEMMA EvidenceNext ==
  ASSUME EvidenceInv, [E!Next]_E!vars
  PROVE  EvidenceInv'
BY EvTypeStep, ControlStep, FilesStep, RowsStep, NamesStep, ContentStep, UnlinkStep, OwnFileStep DEF EvidenceInv

\* A settled row whose file is there names the content of its verdict.
LEMMA EvidenceMatches == EvidenceInv => EvidenceMatchesVerdict
BY DEF EvidenceInv, ContentInv, Kept, EvidenceMatchesVerdict, E!EvidenceMatchesVerdict

\* For any cases, contents, deletions and deaths of workers, and any number of attempts and of changes
\* of the page: the file a case stored itself stays until the case is deleted (delete_case), however
\* deletions, replays of the cache and deliveries interleave.
THEOREM OwnEvidenceKept == E!Spec => []OwnFileStays
<1>1. EvidenceInv => OwnFileStays
  BY DEF EvidenceInv
<1> QED
  BY <1>1, EvidenceInit, EvidenceNext, PTL DEF E!Spec

\* For any cases, contents and deletions, and any number of deaths of workers: the evidence beside a
\* verdict is the content the verdict is about, though the page changes between attempts, a message is
\* delivered again whatever the dead worker had done, and the index moves meanwhile.  Left out are the
\* settled rows a first attempt delivered again gave a new download, until that run settles them, and
\* what happens after a message was delivered again beside the retry its worker had published.
THEOREM EvidenceIsTheVerdicts == E!Spec => []EvidenceMatchesVerdict
  BY EvidenceInit, EvidenceNext, EvidenceMatches, PTL DEF E!Spec

-----------------------------------------------------------------------------
\* How a total is folded: one element is taken out at a time.
Pick(s) == CHOOSE x \in s : TRUE
Sums(f, X, g) == g = [s \in SUBSET X |-> IF s = {} THEN 0 ELSE f[Pick(s)] + g[s \ {Pick(s)}]]

\* Among subsets of a finite set, one contains no other.
LEMMA Smallest ==
  ASSUME NEW S, IsFiniteSet(S), NEW B, B \subseteq SUBSET S, B # {}
  PROVE  \E s \in B : \A t \in B : t \subseteq s => t = s
<1>1. IsWellFoundedOn(StrictSubsetOrdering(S), SUBSET S)
  BY FS_StrictSubsetOrderingWellFounded, FS_FiniteSubsetsOfFinite
<1>2. \E s \in B : \A t \in B : <<t, s>> \notin StrictSubsetOrdering(S)
  BY <1>1, WFMin
<1> QED
  BY <1>2 DEF StrictSubsetOrdering

\* The function a fold is defined by is unique, so that two folds agree where both are defined.
LEMMA SameSums ==
  ASSUME NEW S, IsFiniteSet(S), NEW f, NEW X \in SUBSET S, NEW Y \in SUBSET S, NEW g, NEW h,
         Sums(f, X, g), Sums(f, Y, h)
  PROVE  \A s \in SUBSET X : s \in SUBSET Y => g[s] = h[s]
<1> DEFINE B == {s \in SUBSET S : s \subseteq X /\ s \subseteq Y /\ g[s] # h[s]}
<1> SUFFICES ASSUME B # {} PROVE FALSE
  OBVIOUS
<1>1. PICK s \in B : \A t \in B : t \subseteq s => t = s
  <2>1. B \subseteq SUBSET S
    OBVIOUS
  <2> HIDE DEF B
  <2> QED
    BY <2>1, Smallest
<1>2. s # {}
  BY <1>1 DEF Sums
<1>3. Pick(s) \in s
  BY <1>2 DEF Pick
<1>4. g[s \ {Pick(s)}] = h[s \ {Pick(s)}]
  BY <1>1, <1>3
<1>5. g[s] = f[Pick(s)] + g[s \ {Pick(s)}]
  BY <1>1, <1>2 DEF Sums
<1>6. h[s] = f[Pick(s)] + h[s \ {Pick(s)}]
  BY <1>1, <1>2 DEF Sums
<1> QED
  BY <1>1, <1>4, <1>5, <1>6

\* What Total unfolds to.
LEMMA TotalIs ==
  ASSUME NEW S, NEW f
  PROVE  V!Total(f, S) = (CHOOSE g : Sums(f, S, g))[S]
BY DEF V!Total, V!FoldFunctionOnSet, V!MapThenFoldSet, Sums, Pick

\* The function that adds up, for every subset of X, and whether there is one.
Sum(f, X) == CHOOSE g : Sums(f, X, g)
Summable(f, X) == \E g : Sums(f, X, g)

\* ... and it exists for every finite set: the sums of smaller sets are put together.
LEMMA SumsExist ==
  ASSUME NEW S, IsFiniteSet(S), NEW f
  PROVE  \A X \in SUBSET S : Summable(f, X)
<1> DEFINE B == {X \in SUBSET S : ~Summable(f, X)}
<1> SUFFICES ASSUME B # {} PROVE FALSE
  OBVIOUS
<1>1. PICK X \in B : \A Y \in B : Y \subseteq X => Y = X
  <2>1. B \subseteq SUBSET S
    OBVIOUS
  <2> HIDE DEF B
  <2> QED
    BY <2>1, Smallest
<1>2. ASSUME NEW Y \in SUBSET X, Y # X
      PROVE  Sums(f, Y, Sum(f, Y))
  BY <1>1, <1>2 DEF Summable, Sum
<1> DEFINE lower(Y) == Sum(f, Y)[Y]
           g == [s \in SUBSET X |-> IF s = {} THEN 0 ELSE f[Pick(s)] + lower(s \ {Pick(s)})]
<1>3. ASSUME NEW Y \in SUBSET X, Y # X
      PROVE  g[Y] = lower(Y)
  <2>1. Sum(f, Y) = [s \in SUBSET Y |-> IF s = {} THEN 0 ELSE f[Pick(s)] + Sum(f, Y)[s \ {Pick(s)}]]
    BY <1>2, <1>3 DEF Sums
  <2>2. CASE Y = {}
    BY <2>1, <2>2
  <2>3. CASE Y # {}
    <3>1. Pick(Y) \in Y
      BY <2>3 DEF Pick
    <3>2. Sums(f, Y \ {Pick(Y)}, Sum(f, Y \ {Pick(Y)})) /\ Sums(f, Y, Sum(f, Y))
      BY <1>2, <1>3, <3>1
    <3>3. Sum(f, Y)[Y \ {Pick(Y)}] = lower(Y \ {Pick(Y)})
      BY <1>1, <3>1, <3>2, SameSums
    <3>4. Sum(f, Y)[Y] = f[Pick(Y)] + Sum(f, Y)[Y \ {Pick(Y)}]
      <4> HIDE DEF lower
      <4> QED BY <2>1, <2>3
    <3> QED
      BY <2>3, <3>3, <3>4
  <2> QED
    BY <2>2, <2>3
<1>4. ASSUME NEW s \in SUBSET X, s # {}
      PROVE  g[s \ {Pick(s)}] = lower(s \ {Pick(s)})
  <2>1. Pick(s) \in s
    BY <1>4 DEF Pick
  <2> HIDE DEF g, lower
  <2> QED
    BY <1>3, <2>1
<1>5. g = [s \in SUBSET X |-> IF s = {} THEN 0 ELSE f[Pick(s)] + g[s \ {Pick(s)}]]
  <2>1. \A s \in SUBSET X : s # {} => lower(s \ {Pick(s)}) = g[s \ {Pick(s)}]
    BY <1>4
  <2> HIDE DEF lower
  <2> QED
    BY <2>1
<1>6. Summable(f, X)
  BY <1>5 DEF Sums, Summable
<1> QED
  BY <1>1, <1>6

\* A total is nothing, or one summand and the total of the rest.
LEMMA TotalUnfolds ==
  ASSUME NEW S, IsFiniteSet(S), NEW f
  PROVE  /\ S = {} => V!Total(f, S) = 0
         /\ S # {} => /\ Pick(S) \in S
                      /\ V!Total(f, S) = f[Pick(S)] + V!Total(f, S \ {Pick(S)})
<1> DEFINE R == S \ {Pick(S)}
<1>1. Sums(f, S, Sum(f, S)) /\ Sums(f, R, Sum(f, R))
  BY SumsExist DEF Summable, Sum
<1>2. V!Total(f, S) = Sum(f, S)[S] /\ V!Total(f, R) = Sum(f, R)[R]
  BY TotalIs DEF Sum
<1>3. Sum(f, S)[R] = Sum(f, R)[R]
  BY <1>1, SameSums
<1>4. S = {} => Sum(f, S)[S] = 0
  BY <1>1 DEF Sums
<1>5. S # {} => Pick(S) \in S /\ Sum(f, S)[S] = f[Pick(S)] + Sum(f, S)[R]
  BY <1>1 DEF Sums, Pick
<1> QED
  BY <1>2, <1>3, <1>4, <1>5

\* Totals keep the order of their summands.
LEMMA TotalsOrdered ==
  ASSUME NEW S, IsFiniteSet(S), NEW f, NEW h,
         \A x \in S : f[x] \in Nat /\ h[x] \in Nat /\ f[x] <= h[x]
  PROVE  V!Total(f, S) \in Nat /\ V!Total(h, S) \in Nat /\ V!Total(f, S) <= V!Total(h, S)
<1> DEFINE Ok(X) == V!Total(f, X) \in Nat /\ V!Total(h, X) \in Nat /\ V!Total(f, X) <= V!Total(h, X)
           B == {X \in SUBSET S : ~Ok(X)}
<1> SUFFICES ASSUME B # {} PROVE FALSE
  OBVIOUS
<1>1. PICK X \in B : \A Y \in B : Y \subseteq X => Y = X
  <2>1. B \subseteq SUBSET S
    OBVIOUS
  <2> HIDE DEF B
  <2> QED
    BY <2>1, Smallest
<1>2. IsFiniteSet(X)
  BY FS_Subset
<1>3. CASE X = {}
  BY <1>1, <1>2, <1>3, TotalUnfolds
<1>4. CASE X # {}
  <2> DEFINE x == Pick(X)
  <2>1. x \in X /\ V!Total(f, X) = f[x] + V!Total(f, X \ {x}) /\ V!Total(h, X) = h[x] + V!Total(h, X \ {x})
    BY <1>2, <1>4, TotalUnfolds
  <2>2. Ok(X \ {x})
    BY <1>1, <2>1
  <2> HIDE DEF x
  <2>3. Ok(X)
    BY <2>1, <2>2
  <2> QED
    BY <1>1, <2>3
<1> QED
  BY <1>3, <1>4

\* Something weighs more than nothing.
LEMMA TotalPositive ==
  ASSUME NEW S, IsFiniteSet(S), S # {}, NEW f, \A x \in S : f[x] \in Nat \ {0}
  PROVE  V!Total(f, S) \in Nat \ {0}
<1>1. Pick(S) \in S /\ V!Total(f, S) = f[Pick(S)] + V!Total(f, S \ {Pick(S)})
  BY TotalUnfolds
<1>2. V!Total(f, S \ {Pick(S)}) \in Nat
  BY TotalsOrdered, FS_Subset, S \ {Pick(S)} \subseteq S
<1> QED
  BY <1>1, <1>2

-----------------------------------------------------------------------------
\* What the ensembles compute with.
Fraction == [n : Nat, d : Nat \ {0}]

\* a and b count the same parts, b no fewer of them.
Below(a, b) == a \in Fraction /\ b \in Fraction /\ a.d = b.d /\ a.n <= b.n

\* Multiplication keeps the order.
LEMMA Scaled ==
  ASSUME NEW x \in Nat, NEW y \in Nat, NEW k \in Nat, x <= y
  PROVE  k * x \in Nat /\ k * y \in Nat /\ k * x <= k * y /\ x * k = k * x /\ y * k = k * y
BY SMTT(30)

\* A product of positive numbers is positive.
LEMMA PositiveProduct ==
  ASSUME NEW x \in Nat \ {0}, NEW y \in Nat \ {0}
  PROVE  x * y \in Nat \ {0}
BY SMTT(30)

\* Below is an order of fractions.
LEMMA BelowIsLeq ==
  ASSUME NEW a, NEW b, Below(a, b)
  PROVE  V!Leq(a, b)
BY DEF Below, V!Leq, Fraction

\* The larger of two grows with both.
LEMMA LargerGrows ==
  ASSUME NEW a, NEW b, NEW c, NEW e, Below(a, c), Below(b, e)
  PROVE  V!Leq(V!Larger(a, b), V!Larger(c, e))
<1> DEFINE an == a.n  bn == b.n  cn == c.n  en == e.n  ad == a.d  bd == b.d
<1>1. an \in Nat /\ bn \in Nat /\ cn \in Nat /\ en \in Nat /\ ad \in Nat \ {0} /\ bd \in Nat \ {0}
      /\ c.d = ad /\ e.d = bd /\ an <= cn /\ bn <= en
  BY DEF Below, Fraction
<1>2. bd * an <= bd * cn /\ an * bd = bd * an /\ cn * bd = bd * cn
  BY <1>1, Scaled
<1>3. ad * bn <= ad * en /\ bn * ad = ad * bn /\ en * ad = ad * en
  BY <1>1, Scaled
<1>4. bd * an \in Nat /\ bd * cn \in Nat /\ ad * bn \in Nat /\ ad * en \in Nat
  BY <1>1, Scaled
<1>5. V!Larger(a, b) \in {a, b} /\ V!Larger(c, e) \in {c, e}
  BY DEF V!Larger
<1>6. CASE ad = bd
  BY <1>1, <1>6 DEF V!Larger, V!Leq
<1>7. CASE ad # bd
  <2>1. V!Leq(a, b) <=> an * bd <= bn * ad
    BY <1>1, <1>7 DEF V!Leq
  <2>2. V!Leq(c, e) <=> cn * bd <= en * ad
    BY <1>1, <1>7 DEF V!Leq
  <2>3. V!Leq(a, e) <=> an * bd <= en * ad
    BY <1>1, <1>7 DEF V!Leq
  <2>4. V!Leq(b, c) <=> bn * ad <= cn * bd
    BY <1>1, <1>7 DEF V!Leq
  <2>5. V!Leq(a, c) /\ V!Leq(b, e)
    BY BelowIsLeq
  <2> HIDE DEF an, bn, cn, en, ad, bd
  <2>6. CASE V!Leq(a, b) /\ V!Leq(c, e)
    BY <2>5, <2>6 DEF V!Larger
  <2>7. CASE V!Leq(a, b) /\ ~V!Leq(c, e)
    <3>1. V!Leq(b, c)
      BY <1>2, <1>3, <1>4, <2>2, <2>4, <2>7
    <3> QED
      BY <2>7, <3>1 DEF V!Larger
  <2>8. CASE ~V!Leq(a, b) /\ V!Leq(c, e)
    <3>1. V!Leq(a, e)
      BY <1>2, <1>3, <1>4, <2>2, <2>3, <2>8
    <3> QED
      BY <2>8, <3>1 DEF V!Larger
  <2>9. CASE ~V!Leq(a, b) /\ ~V!Leq(c, e)
    BY <2>5, <2>9 DEF V!Larger
  <2> QED
    BY <2>6, <2>7, <2>8, <2>9
<1> QED
  BY <1>6, <1>7

\* A share of a fraction grows with it.
LEMMA TimesGrows ==
  ASSUME NEW k \in Nat, NEW m \in Nat \ {0}, NEW a, NEW c, Below(a, c)
  PROVE  Below(V!Times(k, m, a), V!Times(k, m, c))
<1>1. k * a.n \in Nat /\ k * c.n \in Nat /\ k * a.n <= k * c.n
  BY Scaled DEF Below, Fraction
<1>2. m * a.d \in Nat \ {0} /\ a.d = c.d
  BY PositiveProduct DEF Below, Fraction
<1> QED
  BY <1>1, <1>2 DEF Below, Fraction, V!Times, V!Frac

\* A sum grows with both.
LEMMA PlusGrows ==
  ASSUME NEW a, NEW b, NEW c, NEW e, Below(a, c), Below(b, e)
  PROVE  Below(V!Plus(a, b), V!Plus(c, e))
<1>1. b.d * a.n \in Nat /\ b.d * c.n \in Nat /\ b.d * a.n <= b.d * c.n
      /\ a.n * b.d = b.d * a.n /\ c.n * b.d = b.d * c.n
  BY Scaled DEF Below, Fraction
<1>2. a.d * b.n \in Nat /\ a.d * e.n \in Nat /\ a.d * b.n <= a.d * e.n
      /\ b.n * a.d = a.d * b.n /\ e.n * a.d = a.d * e.n
  BY Scaled DEF Below, Fraction
<1>3. a.d * b.d \in Nat \ {0} /\ a.d = c.d /\ b.d = e.d
  BY PositiveProduct DEF Below, Fraction
<1>4. V!Plus(a, b).n = b.d * a.n + a.d * b.n /\ V!Plus(c, e).n = b.d * c.n + a.d * e.n
  BY <1>1, <1>2, <1>3 DEF V!Plus, V!Frac
<1>5. V!Plus(a, b).d = a.d * b.d /\ V!Plus(c, e).d = a.d * b.d
  BY <1>3 DEF V!Plus, V!Frac
<1>6. V!Plus(a, b).n \in Nat /\ V!Plus(c, e).n \in Nat /\ V!Plus(a, b).n <= V!Plus(c, e).n
  BY <1>1, <1>2, <1>4
<1> QED
  BY <1>3, <1>5, <1>6 DEF Below, Fraction, V!Plus, V!Frac

-----------------------------------------------------------------------------
\* Scores of the checkpoints of some set, for every checkpoint at most those of another run of them.
Less(v, w) ==
  /\ DOMAIN v \subseteq Slug /\ DOMAIN v = DOMAIN w
  /\ \A s \in DOMAIN v : v[s] \in Nat /\ w[s] \in Nat /\ v[s] <= w[s]

\* _weighted_mean: the weights that count are the same, so the means compare as their totals.
LEMMA MeanGrows ==
  ASSUME NEW v, NEW w, Less(v, w), NEW g
  PROVE  LET S == V!Ran(v, g)
         IN /\ V!Ran(w, g) = S
            /\ S = {} => V!Mean(v, S) = None /\ V!Mean(w, S) = None
            /\ S # {} => V!Mean(v, S) # None /\ Below(V!Mean(v, S), V!Mean(w, S))
<1> DEFINE S == V!Ran(v, g)
           a == [s \in S |-> Auc[s] * v[s]]
           b == [s \in S |-> Auc[s] * w[s]]
<1>1. S \subseteq DOMAIN v /\ S \subseteq Slug /\ V!Ran(w, g) = S
  BY DEF V!Ran, Less
<1>2. IsFiniteSet(S)
  BY <1>1, VerdictAssumption, FS_Subset
<1>3. \A s \in S : a[s] \in Nat /\ b[s] \in Nat /\ a[s] <= b[s]
  <2> SUFFICES ASSUME NEW s \in S PROVE a[s] \in Nat /\ b[s] \in Nat /\ a[s] <= b[s]
    OBVIOUS
  <2>1. v[s] \in Nat /\ w[s] \in Nat /\ v[s] <= w[s] /\ Auc[s] \in Nat
    BY <1>1, VerdictAssumption DEF Less
  <2> QED
    BY <2>1, Scaled
<1>4. V!Total(a, S) \in Nat /\ V!Total(b, S) \in Nat /\ V!Total(a, S) <= V!Total(b, S)
  <2> HIDE DEF a, b, S
  <2> QED
    BY <1>2, <1>3, TotalsOrdered
<1>5. S # {} => Steps * V!Total(Auc, S) \in Nat \ {0}
  <2> SUFFICES ASSUME S # {} PROVE Steps * V!Total(Auc, S) \in Nat \ {0}
    OBVIOUS
  <2>1. \A s \in S : Auc[s] \in Nat \ {0}
    BY <1>1, VerdictAssumption
  <2>2. V!Total(Auc, S) \in Nat \ {0}
    BY <1>2, <2>1, TotalPositive
  <2> QED
    BY <2>2, VerdictAssumption, PositiveProduct
<1>6. S # {} => V!Mean(v, S) = [n |-> V!Total(a, S), d |-> Steps * V!Total(Auc, S)]
              /\ V!Mean(w, S) = [n |-> V!Total(b, S), d |-> Steps * V!Total(Auc, S)]
  BY DEF V!Mean, V!Frac
<1>7. S = {} => V!Mean(v, S) = None /\ V!Mean(w, S) = None
  BY DEF V!Mean
<1>8. S # {} => Below(V!Mean(v, S), V!Mean(w, S))
  <2> HIDE DEF a, b, S
  <2> QED
    BY <1>4, <1>5, <1>6 DEF Below, Fraction
<1>9. S # {} => V!Mean(v, S) # None
  <2> HIDE DEF S
  <2> QED
    BY <1>8, VerdictAssumption DEF Below, Fraction
<1> QED
  BY <1>1, <1>7, <1>8, <1>9

\* The checkpoints of a group that ran can be counted.
LEMMA RanCounted ==
  ASSUME NEW v, DOMAIN v \subseteq Slug, NEW g
  PROVE  V!Cardinality(V!Ran(v, g)) \in Nat
<1>1. IsFiniteSet(V!Ran(v, g))
  BY VerdictAssumption, FS_Subset, V!Ran(v, g) \subseteq Slug DEF V!Ran
<1>2. V!Cardinality(V!Ran(v, g)) = Cardinality(V!Ran(v, g))
  BY DEF V!Cardinality, Cardinality
<1> QED
  BY <1>1, <1>2, FS_CardinalityType

\* More evidence for a fake leaves the score where it was or raises it, by every rule.
LEMMA ScoreGrows ==
  ASSUME NEW v, NEW w, Less(v, w), NEW k \in V!Kinds
  PROVE  \/ V!Score(k, v) = None /\ V!Score(k, w) = None
         \/ V!Score(k, v) \in Fraction /\ V!Leq(V!Score(k, v), V!Score(k, w))
<1> DEFINE mean(u, g) == V!Mean(u, V!Ran(u, g))
           Grows(a, c) == \/ a = None /\ c = None
                          \/ a # None /\ c # None /\ Below(a, c)
<1>1. \A g : Grows(mean(v, g), mean(w, g))
  <2> TAKE g
  <2>1. V!Ran(v, g) = {} => mean(v, g) = None /\ mean(w, g) = None
    BY MeanGrows
  <2>2. V!Ran(v, g) # {} => mean(v, g) # None /\ Below(mean(v, g), mean(w, g))
    BY MeanGrows
  <2>3. Below(mean(v, g), mean(w, g)) => mean(w, g) # None
    BY VerdictAssumption DEF Below, Fraction
  <2> QED
    BY <2>1, <2>2, <2>3
<1>2. \A g : V!Ran(v, g) = V!Ran(w, g)
  BY MeanGrows
<1> DEFINE Fine(p, q) == \/ p = None /\ q = None
                         \/ p \in Fraction /\ V!Leq(p, q)
<1>3. ASSUME NEW a, NEW c, Grows(a, c)
      PROVE  Fine(a, c)
  BY <1>3, BelowIsLeq DEF Below
<1>4. ASSUME NEW a, NEW b, NEW c, NEW e, Below(a, c), Below(b, e)
      PROVE  Fine(V!Larger(a, b), V!Larger(c, e))
  <2>1. V!Larger(a, b) \in Fraction
    BY <1>4 DEF V!Larger, Below
  <2>2. V!Leq(V!Larger(a, b), V!Larger(c, e))
    BY <1>4, LargerGrows
  <2> QED
    BY <2>1, <2>2
<1>5. ASSUME NEW a, NEW b, NEW c, NEW e, Below(a, c), Below(b, e),
             NEW i \in Nat, NEW j \in Nat, NEW m \in Nat \ {0}
      PROVE  Fine(V!Plus(V!Times(i, m, a), V!Times(j, m, b)), V!Plus(V!Times(i, m, c), V!Times(j, m, e)))
  <2>1. Below(V!Times(i, m, a), V!Times(i, m, c)) /\ Below(V!Times(j, m, b), V!Times(j, m, e))
    BY <1>5, TimesGrows
  <2>2. Below(V!Plus(V!Times(i, m, a), V!Times(j, m, b)), V!Plus(V!Times(i, m, c), V!Times(j, m, e)))
    BY <2>1, PlusGrows
  <2> QED
    BY <2>2, BelowIsLeq DEF Below
<1>6. CASE k = "image"
  <2> DEFINE det == faces > 0
             gen(u) == mean(u, "generalist")
             face(u) == mean(u, "face")
             n == Cardinality(V!Ran(v, "face"))
             wt == NO_FACE_WEIGHT
  <2>1. Grows(gen(v), gen(w)) /\ Grows(face(v), face(w))
    BY <1>1
  <2>2. V!Score(k, v) = V!ImageRisk(v, det) /\ V!Score(k, w) = V!ImageRisk(w, det)
    BY <1>6 DEF V!Score
  <2>3. CASE gen(v) = None
    <3>1. V!ImageRisk(v, det) = face(v) /\ V!ImageRisk(w, det) = face(w)
      BY <2>1, <2>3 DEF V!ImageRisk
    <3> HIDE DEF gen, face, mean, det
    <3> QED
      BY <1>3, <2>1, <2>2, <3>1
  <2>4. CASE gen(v) # None /\ face(v) = None
    <3>1. V!ImageRisk(v, det) = gen(v) /\ V!ImageRisk(w, det) = gen(w)
      BY <2>1, <2>4 DEF V!ImageRisk
    <3> HIDE DEF gen, face, mean, det
    <3> QED
      BY <1>3, <2>1, <2>2, <3>1
  <2>5. CASE gen(v) # None /\ face(v) # None
    <3>1. Below(gen(v), gen(w)) /\ Below(face(v), face(w)) /\ gen(w) # None /\ face(w) # None
      BY <2>1, <2>5
    <3> DEFINE N == V!Cardinality(V!Ran(v, "face"))
    <3>2. N \in Nat
      BY RanCounted DEF Less
    <3>3. CASE det /\ N >= 2
      <4>1. V!ImageRisk(v, det) = V!Larger(gen(v), face(v))
        BY <2>5, <3>2, <3>3 DEF V!ImageRisk
      <4>2. V!ImageRisk(w, det) = V!Larger(gen(w), face(w))
        BY <1>2, <3>1, <3>2, <3>3 DEF V!ImageRisk
      <4> HIDE DEF gen, face, mean, det
      <4> QED
        BY <1>4, <2>2, <3>1, <4>1, <4>2
    <3>4. CASE det /\ N < 2
      <4>1. V!ImageRisk(v, det) = V!Plus(V!Times(1, 2, gen(v)), V!Times(1, 2, face(v)))
        BY <2>5, <3>2, <3>4 DEF V!ImageRisk
      <4>2. V!ImageRisk(w, det) = V!Plus(V!Times(1, 2, gen(w)), V!Times(1, 2, face(w)))
        BY <1>2, <3>1, <3>2, <3>4 DEF V!ImageRisk
      <4> HIDE DEF gen, face, mean, det
      <4> QED
        BY <1>5, <2>2, <3>1, <4>1, <4>2
    <3>5. CASE ~det
      <4>1. V!ImageRisk(v, det) = V!Plus(V!Times(wt.d - wt.n, wt.d, gen(v)), V!Times(wt.n, wt.d, face(v)))
        BY <2>5, <3>5 DEF V!ImageRisk
      <4>2. V!ImageRisk(w, det) = V!Plus(V!Times(wt.d - wt.n, wt.d, gen(w)), V!Times(wt.n, wt.d, face(w)))
        BY <3>1, <3>5 DEF V!ImageRisk
      <4>3. wt.d - wt.n \in Nat /\ wt.n \in Nat /\ wt.d \in Nat \ {0}
        BY VerdictAssumption
      <4> HIDE DEF gen, face, mean, det, wt
      <4> QED
        BY <1>5, <2>2, <3>1, <4>1, <4>2, <4>3
    <3> QED
      BY <3>2, <3>3, <3>4, <3>5
  <2> QED
    BY <2>3, <2>4, <2>5
<1>7. CASE k = "video"
  <2> DEFINE face(u) == mean(u, "framed")
             gen(u) == mean(u, "genvideo")
             enough == faces >= MIN_FACE_FRAMES
  <2>1. Grows(gen(v), gen(w)) /\ Grows(face(v), face(w))
    BY <1>1
  <2>2. V!Score(k, v) = V!VideoRisk(v, faces) /\ V!Score(k, w) = V!VideoRisk(w, faces)
    BY <1>7 DEF V!Score
  <2>3. CASE ~(enough /\ face(v) # None)
    <3>1. V!VideoRisk(v, faces) = gen(v) /\ V!VideoRisk(w, faces) = gen(w)
      BY <2>1, <2>3 DEF V!VideoRisk
    <3> HIDE DEF gen, face, mean, enough
    <3> QED
      BY <1>3, <2>1, <2>2, <3>1
  <2>4. CASE enough /\ face(v) # None /\ gen(v) = None
    <3>1. V!VideoRisk(v, faces) = face(v) /\ V!VideoRisk(w, faces) = face(w)
      BY <2>1, <2>4 DEF V!VideoRisk
    <3> HIDE DEF gen, face, mean, enough
    <3> QED
      BY <1>3, <2>1, <2>2, <3>1
  <2>5. CASE enough /\ face(v) # None /\ gen(v) # None
    <3>1. /\ V!VideoRisk(v, faces) = V!Larger(face(v), gen(v))
          /\ V!VideoRisk(w, faces) = V!Larger(face(w), gen(w))
      BY <2>1, <2>5 DEF V!VideoRisk
    <3>2. Below(gen(v), gen(w)) /\ Below(face(v), face(w))
      BY <2>1, <2>5
    <3> HIDE DEF gen, face, mean, enough
    <3> QED
      BY <1>4, <2>2, <3>1, <3>2
  <2> QED
    BY <2>3, <2>4, <2>5
<1>8. CASE k = "audio"
  <2>1. V!Score(k, v) = mean(v, "wavlm") /\ V!Score(k, w) = mean(w, "wavlm")
    BY <1>8 DEF V!Score
  <2> HIDE DEF mean
  <2> QED
    BY <1>1, <1>3, <2>1
<1> QED
  BY <1>6, <1>7, <1>8 DEF V!Kinds

-----------------------------------------------------------------------------
\* The scores are of checkpoints that vote in this kind of case; only the audio model has a
\* threshold of its own.
GivenInv ==
  /\ kind \in V!Kinds /\ DOMAIN scores \subseteq V!SlugsOf(kind)
  /\ scores \in [DOMAIN scores -> Grid]
  /\ threshold \in IF kind = "audio" THEN Threshold ELSE {V!Half}

\* What the inferencer returned says FAKE where its score reaches its threshold.
InferredInv ==
  \/ inference = None
  \/ inference.score = None
  \/ /\ inference.score \in Fraction
     /\ inference.verdict = IF V!Leq(threshold, inference.score) THEN "FAKE" ELSE "REAL"

\* What each layer was told by the one below.
ToldInv ==
  /\ step \in {"analyse", "srm", "store", "done"} => result = V!EngineResult(kind, inference, threshold)
  /\ step \in {"srm", "store", "done"} =>
       /\ status = (IF result.confident THEN V!Band(result.fake) ELSE "inconclusive")
       /\ V!Summary(result) \in rows
       /\ \A r \in rows : r.tier = "summary" => r = V!Summary(result)
  /\ step = "done" => (cached <=> result.confident)

VerdictInv == GivenInv /\ InferredInv /\ ToldInv

-----------------------------------------------------------------------------
\* Leq compares the products, also where the denominators are equal.
LEMMA LeqMultiplies ==
  ASSUME NEW a \in Fraction, NEW b \in Fraction
  PROVE  V!Leq(a, b) <=> a.n * b.d <= b.n * a.d
<1> DEFINE an == a.n  bn == b.n  d == a.d
<1>1. an \in Nat /\ bn \in Nat /\ d \in Nat \ {0}
  BY DEF Fraction
<1>2. CASE a.d = b.d
  <2>1. V!Leq(a, b) <=> an <= bn
    BY <1>2 DEF V!Leq
  <2> HIDE DEF an, bn, d
  <2>2. CASE an <= bn
    <3>1. an * d <= bn * d
      BY <1>1, <2>2, Scaled
    <3> QED
      BY <1>2, <2>1, <2>2, <3>1 DEF an, bn, d
  <2>3. CASE ~(an <= bn)
    <3>1. bn + 1 <= an /\ bn + 1 \in Nat
      BY <1>1, <2>3
    <3>2. d * (bn + 1) <= d * an /\ d * an \in Nat /\ d * bn \in Nat /\ an * d = d * an /\ bn * d = d * bn
      BY <1>1, <3>1, Scaled
    <3>3. d * (bn + 1) = d * bn + d
      BY <1>1, SMTT(30)
    <3>4. ~(an * d <= bn * d)
      BY <1>1, <3>2, <3>3
    <3> QED
      BY <1>2, <2>1, <2>3, <3>4 DEF an, bn, d
  <2> QED
    BY <2>2, <2>3
<1>3. CASE a.d # b.d
  BY <1>3 DEF V!Leq
<1> QED
  BY <1>2, <1>3

\* _calibrate returns a number.
LEMMA CalibratedIsFraction ==
  ASSUME NEW p \in Fraction, NEW t \in Threshold
  PROVE  V!Calibrated(p, t) \in Fraction
<1> DEFINE pn == p.n  pd == p.d  tn == t.n  td == t.d
<1>1. pn \in Nat /\ pd \in Nat \ {0} /\ tn \in Nat \ {0} /\ td \in Nat \ {0} /\ td - tn \in Nat \ {0}
  BY VerdictAssumption DEF Fraction
<1> DEFINE A == pn * td  B == tn * pd
<1> HIDE DEF pn, pd, tn, td
<1>2. A \in Nat /\ B \in Nat /\ 2 * pd \in Nat \ {0}
  BY <1>1, Scaled
<1>3. 2 * pd * tn \in Nat \ {0} /\ 2 * pd * (td - tn) \in Nat \ {0}
  BY <1>1, <1>2, PositiveProduct
<1>4. t \in Fraction
  BY VerdictAssumption DEF Fraction
<1>5. V!Leq(p, t) <=> A <= B
  BY <1>4, LeqMultiplies DEF pn, pd, tn, td
<1>6. CASE V!Leq(p, t)
  <2>1. V!Calibrated(p, t) = [n |-> A, d |-> 2 * pd * tn]
    BY <1>6 DEF V!Calibrated, V!Frac, pn, pd, tn, td
  <2> HIDE DEF A, B
  <2> QED
    BY <1>2, <1>3, <2>1 DEF Fraction
<1>7. CASE ~V!Leq(p, t)
  <2> DEFINE D == 2 * pd * (td - tn)
  <2>1. V!Calibrated(p, t) = [n |-> 1 * D + (A - B) * 2, d |-> 2 * D]
    BY <1>7 DEF V!Calibrated, V!Plus, V!Frac, V!Half, pn, pd, tn, td
  <2>2. D \in Nat \ {0}
    BY <1>3
  <2> HIDE DEF A, B, D
  <2> QED
    BY <1>2, <1>5, <1>7, <2>1, <2>2 DEF Fraction
<1> QED
  BY <1>6, <1>7

\* The model's threshold is where its calibrated score is one half.
LEMMA CalibratedAtHalf ==
  ASSUME NEW p \in Fraction, NEW t \in Threshold
  PROVE  V!Leq(V!Half, V!Calibrated(p, t)) <=> V!Leq(t, p)
<1> DEFINE pn == p.n  pd == p.d  tn == t.n  td == t.d
<1>1. pn \in Nat /\ pd \in Nat \ {0} /\ tn \in Nat \ {0} /\ td \in Nat /\ tn < td
  BY VerdictAssumption DEF Fraction
<1> HIDE DEF pn, pd, tn, td
<1> DEFINE A == pn * td  B == tn * pd
<1>2. A \in Nat /\ B \in Nat \ {0} /\ pd * tn = B
  BY <1>1, PositiveProduct, Scaled
<1>3. t \in Fraction
  BY VerdictAssumption DEF Fraction
<1>4. V!Half \in Fraction /\ V!Half.n = 1 /\ V!Half.d = 2
  BY DEF V!Half, V!Frac, Fraction
<1>5. (V!Leq(p, t) <=> A <= B) /\ (V!Leq(t, p) <=> B <= A)
  BY <1>3, LeqMultiplies DEF pn, pd, tn, td
<1>6. CASE V!Leq(p, t)
  <2> DEFINE c == V!Calibrated(p, t)
  <2>1. c = [n |-> A, d |-> 2 * pd * tn]
    BY <1>6 DEF V!Calibrated, V!Frac, pn, pd, tn, td
  <2>2. 2 * pd * tn = 2 * B
    BY <1>1, <1>2, SMTT(30)
  <2> HIDE DEF A, B
  <2>3. c \in Fraction /\ c.n = A /\ c.d = 2 * B
    BY <1>2, <2>1, <2>2 DEF Fraction
  <2>4. V!Leq(V!Half, c) <=> 1 * (2 * B) <= A * 2
    <3> HIDE DEF c
    <3> QED
      BY <1>4, <2>3, LeqMultiplies
  <2> QED
    BY <1>2, <1>5, <1>6, <2>4
<1>7. CASE ~V!Leq(p, t)
  <2> DEFINE D == 2 * pd * (td - tn)
             c == V!Calibrated(p, t)
  <2>1. D \in Nat \ {0}
    BY <1>1, PositiveProduct, td - tn \in Nat \ {0}, 2 * pd \in Nat \ {0}
  <2>2. c = [n |-> 1 * D + (A - B) * 2, d |-> 2 * D]
    BY <1>4, <1>7 DEF V!Calibrated, V!Plus, V!Frac, pn, pd, tn, td
  <2> HIDE DEF A, B, D
  <2>3. A - B \in Nat
    BY <1>2, <1>5, <1>7
  <2>4. c \in Fraction /\ c.n = D + 2 * (A - B) /\ c.d = 2 * D
    BY <2>1, <2>2, <2>3 DEF Fraction
  <2>5. V!Leq(V!Half, c) <=> 1 * (2 * D) <= (D + 2 * (A - B)) * 2
    <3> HIDE DEF c
    <3> QED
      BY <1>4, <2>4, LeqMultiplies
  <2> QED
    BY <1>2, <1>5, <2>1, <2>3, <2>5
<1> QED
  BY <1>6, <1>7

\* The ensembles return a number or nothing.
LEMMA ScoreIsFraction ==
  ASSUME GivenInv
  PROVE  V!Score(kind, scores) = None \/ V!Score(kind, scores) \in Fraction
<1>1. DOMAIN scores \subseteq Slug
  BY DEF GivenInv, V!SlugsOf
<1>2. \A s \in DOMAIN scores : scores[s] \in Nat
  BY VerdictAssumption DEF GivenInv
<1>3. Less(scores, scores)
  BY <1>1, <1>2 DEF Less
<1> QED
  BY <1>3, ScoreGrows DEF GivenInv

\* Nothing has run before the inferencer.
LEMMA VerdictInit == V!Init => VerdictInv
<1> SUFFICES ASSUME V!Init PROVE VerdictInv
  OBVIOUS
<1>1. GivenInv
  BY DEF V!Init, GivenInv
<1>2. InferredInv
  BY DEF V!Init, InferredInv
<1>3. ToldInv
  BY DEF V!Init, ToldInv
<1> QED
  BY <1>1, <1>2, <1>3 DEF VerdictInv

\* Each layer does what it does with what it was told.
LEMMA VerdictNext == VerdictInv /\ [V!Next]_V!vars => VerdictInv'
<1> SUFFICES ASSUME VerdictInv, [V!Next]_V!vars PROVE VerdictInv'
  OBVIOUS
<1> USE DEF VerdictInv
<1>1. CASE V!Predict
  <2>1. GivenInv'
    BY <1>1 DEF V!Predict, V!given, GivenInv
  <2>2. InferredInv'
    BY <1>1, ScoreIsFraction DEF V!Predict, V!given, InferredInv
  <2>3. ToldInv'
    BY <1>1 DEF V!Predict, ToldInv
  <2> QED
    BY <2>1, <2>2, <2>3
<1>2. CASE V!PredictFails
  BY <1>2 DEF V!PredictFails, V!given, GivenInv, InferredInv, ToldInv
<1>3. CASE V!Unregistered
  BY <1>3 DEF V!Unregistered, V!given, GivenInv, InferredInv, ToldInv
<1>4. CASE V!Analyze
  <2>1. GivenInv' /\ InferredInv'
    BY <1>4 DEF V!Analyze, V!given, GivenInv, InferredInv
  <2>2. result' = V!EngineResult(kind, inference, threshold)'
    BY <1>4 DEF V!Analyze, V!given, V!EngineResult
  <2>3. ToldInv'
    BY <1>4, <2>2 DEF V!Analyze, ToldInv
  <2> QED
    BY <2>1, <2>3
<1>5. CASE V!Analyse
  <2>1. GivenInv' /\ InferredInv'
    BY <1>5 DEF V!Analyse, V!given, GivenInv, InferredInv
  <2>2. result = V!EngineResult(kind, inference, threshold) /\ result' = result /\ UNCHANGED V!given
        /\ inference' = inference /\ step' \in {"store", "srm"}
    BY <1>5 DEF V!Analyse, ToldInv
  <2>3. V!EngineResult(kind, inference, threshold)' = V!EngineResult(kind, inference, threshold)
    BY <2>2 DEF V!given, V!EngineResult
  <2>4. V!Summary(result)' = V!Summary(result)
    BY <2>2 DEF V!Summary, V!Label
  <2>5. V!Summary(result) \in rows'
    BY <1>5 DEF V!Analyse
  <2>6. ASSUME NEW r \in rows', r.tier = "summary"
        PROVE  r = V!Summary(result)
    <3>1. r = V!Summary(result) \/ \E s \in result.votes : r = V!Checkpoint(s)
      BY <1>5 DEF V!Analyse
    <3>2. \A s : V!Checkpoint(s).tier # "summary"
      BY DEF V!Checkpoint
    <3> QED
      BY <2>6, <3>1, <3>2
  <2>7. status' = (IF result.confident THEN V!Band(result.fake) ELSE "inconclusive")
    BY <1>5 DEF V!Analyse
  <2>8. ToldInv'
    BY <2>2, <2>3, <2>4, <2>5, <2>6, <2>7 DEF ToldInv
  <2> QED
    BY <2>1, <2>8
<1>6. CASE V!Supplement
  <2>1. GivenInv' /\ InferredInv'
    BY <1>6 DEF V!Supplement, V!given, GivenInv, InferredInv
  <2>2. rows \subseteq rows' /\ \A r \in rows' : r \in rows \/ r.tier # "summary"
    BY <1>6 DEF V!Supplement, V!Secondary
  <2>3. step = "srm" /\ step' = "store" /\ UNCHANGED <<V!given, inference, result, status>>
    BY <1>6 DEF V!Supplement
  <2>4. V!EngineResult(kind, inference, threshold)' = V!EngineResult(kind, inference, threshold)
    BY <2>3 DEF V!given, V!EngineResult
  <2>5. V!Summary(result)' = V!Summary(result)
    BY <2>3 DEF V!Summary, V!Label
  <2>6. ToldInv'
    BY <2>2, <2>3, <2>4, <2>5 DEF ToldInv
  <2> QED
    BY <2>1, <2>6
<1>7. CASE V!Store
  <2>1. GivenInv' /\ InferredInv'
    BY <1>7 DEF V!Store, V!given, GivenInv, InferredInv
  <2>2. step = "store" /\ step' = "done" /\ UNCHANGED <<V!given, inference, result, rows, status>>
    BY <1>7 DEF V!Store
  <2>3. V!EngineResult(kind, inference, threshold)' = V!EngineResult(kind, inference, threshold)
    BY <2>2 DEF V!given, V!EngineResult
  <2>4. V!Summary(result)' = V!Summary(result)
    BY <2>2 DEF V!Summary, V!Label
  <2>5. V!Summary(result).tier = "summary" /\ V!Summary(result).confident = result.confident
    BY DEF V!Summary
  <2>6. V!Summary(result) \in rows /\ \A r \in rows : r.tier = "summary" => r = V!Summary(result)
    BY <2>2 DEF ToldInv
  <2>7. V!Signal <=> result.confident
    BY <2>5, <2>6 DEF V!Signal
  <2>8. result' = result /\ status' = status /\ rows' = rows /\ (cached' <=> V!Signal)
    BY <1>7 DEF V!Store
  <2>9. ToldInv'
    BY <2>2, <2>3, <2>4, <2>7, <2>8 DEF ToldInv
  <2> QED
    BY <2>1, <2>9
<1>8. CASE UNCHANGED V!vars
  BY <1>8 DEF V!vars, GivenInv, InferredInv, ToldInv, V!EngineResult, V!Summary, V!Label
<1> QED
  BY <1>1, <1>2, <1>3, <1>4, <1>5, <1>6, <1>7, <1>8 DEF V!Next

\* The bands of the status lie on their side of one half.
LEMMA BandsAgree ==
  ASSUME NEW p \in Fraction
  PROVE  /\ V!Band(p) = "manipulated" => V!Leq(V!Half, p)
         /\ V!Band(p) = "authentic" => ~V!Leq(V!Half, p)
<1> DEFINE n == p.n  d == p.d
<1>1. n \in Nat /\ d \in Nat \ {0}
  BY DEF Fraction
<1>2. V!Leq(V!Half, p) <=> d <= 2 * n
  BY <1>1 DEF V!Leq, V!Half, V!Frac
<1>3. V!Leq(V!Frac(13, 20), p) <=> 13 * d <= 20 * n
  BY <1>1 DEF V!Leq, V!Frac
<1>4. V!Leq(p, V!Frac(7, 20)) <=> 20 * n <= 7 * d
  BY <1>1 DEF V!Leq, V!Frac
<1>5. V!Band(p) = "manipulated" => V!Leq(V!Frac(13, 20), p)
  BY DEF V!Band
<1>6. V!Band(p) = "authentic" => V!Leq(p, V!Frac(7, 20))
  BY DEF V!Band
<1> HIDE DEF n, d
<1> QED
  BY <1>1, <1>2, <1>3, <1>4, <1>5, <1>6

\* What every layer decides from its own number, it decides alike.
LEMMA VerdictAgrees == VerdictInv => LayersAgree
<1> SUFFICES ASSUME VerdictInv, step = "done" PROVE
      /\ cached <=> V!SummaryRow.label # "INCONCLUSIVE"
      /\ status = "manipulated" => V!SummaryRow.label = "SYNTHETIC"
      /\ status = "authentic" => V!SummaryRow.label = "AUTHENTIC"
      /\ cached => (inference.verdict = "FAKE" <=> V!SummaryRow.label = "SYNTHETIC")
  BY DEF LayersAgree, V!LayersAgree, V!Done
<1>1. /\ result = V!EngineResult(kind, inference, threshold)
      /\ status = (IF result.confident THEN V!Band(result.fake) ELSE "inconclusive")
      /\ V!Summary(result) \in rows
      /\ \A r \in rows : r.tier = "summary" => r = V!Summary(result)
      /\ cached <=> result.confident
  BY DEF VerdictInv, ToldInv
<1>2. V!Summary(result).tier = "summary" /\ V!Summary(result).label = V!Label(result)
  BY DEF V!Summary
<1>3. V!SummaryRow = V!Summary(result)
  BY <1>1, <1>2 DEF V!SummaryRow
<1>4. V!SummaryRow.label = V!Label(result)
  BY <1>2, <1>3
<1>5. CASE ~result.confident
  BY <1>1, <1>4, <1>5 DEF V!Label
<1>6. CASE result.confident
  <2>1. inference # None /\ inference.score # None
    BY <1>1, <1>6 DEF V!EngineResult, V!Neutral
  <2>2. /\ inference.score \in Fraction
        /\ inference.verdict = IF V!Leq(threshold, inference.score) THEN "FAKE" ELSE "REAL"
    BY <2>1 DEF VerdictInv, InferredInv
  <2>3. result.fake = IF kind = "audio" THEN V!Calibrated(inference.score, threshold) ELSE inference.score
    BY <1>1, <2>1 DEF V!EngineResult
  <2>4. V!Leq(V!Half, result.fake) <=> V!Leq(threshold, inference.score)
    <3>1. CASE kind = "audio"
      BY <2>2, <2>3, <3>1, CalibratedAtHalf DEF VerdictInv, GivenInv
    <3>2. CASE kind # "audio"
      BY <2>3, <3>2 DEF VerdictInv, GivenInv
    <3> QED
      BY <3>1, <3>2
  <2>5. V!Label(result) = IF V!Leq(V!Half, result.fake) THEN "SYNTHETIC" ELSE "AUTHENTIC"
    BY <1>6 DEF V!Label
  <2>6. result.fake \in Fraction
    <3>1. CASE kind = "audio"
      BY <2>2, <2>3, <3>1, CalibratedIsFraction DEF VerdictInv, GivenInv
    <3>2. CASE kind # "audio"
      BY <2>2, <2>3, <3>2
    <3> QED
      BY <3>1, <3>2
  <2>7. status = V!Band(result.fake)
    BY <1>1, <1>6
  <2>8. (status = "manipulated" => V!Leq(V!Half, result.fake))
        /\ (status = "authentic" => ~V!Leq(V!Half, result.fake))
    BY <2>6, <2>7, BandsAgree
  <2>9. cached
    BY <1>1, <1>6
  <2> QED
    BY <1>4, <2>2, <2>4, <2>5, <2>8, <2>9
<1> QED
  BY <1>5, <1>6

\* Raising one score is more evidence for the whole.
LEMMA NeverClears == VerdictInv => EvidenceNeverClears
<1> SUFFICES ASSUME VerdictInv, NEW s \in DOMAIN scores, NEW g \in Grid, g >= scores[s],
                    V!Score(kind, scores) # None
             PROVE  V!Leq(V!Score(kind, scores), V!Score(kind, [scores EXCEPT ![s] = g]))
  BY DEF EvidenceNeverClears, V!EvidenceNeverClears
<1>1. Less(scores, [scores EXCEPT ![s] = g])
  <2>1. DOMAIN scores \subseteq Slug
    BY DEF VerdictInv, GivenInv, V!SlugsOf
  <2>2. g \in Nat /\ \A t \in DOMAIN scores : scores[t] \in Nat
    BY VerdictAssumption DEF VerdictInv, GivenInv
  <2> QED
    BY <2>1, <2>2 DEF Less
<1> QED
  BY <1>1, ScoreGrows DEF VerdictInv, GivenInv

\* Once the task is done, the cache, the status, the summary row and the inferencer's verdict agree
\* (LayersAgree), whatever the scores, groups, weights and thresholds.
THEOREM VerdictsAgree == V!Spec => []LayersAgree
  BY VerdictInit, VerdictNext, VerdictAgrees, PTL DEF V!Spec

\* Raising the score of a checkpoint never lowers the case's (EvidenceNeverClears), for any number of
\* checkpoints in each group, any weights and any scores.
THEOREM EvidenceAddsUp == V!Spec => []EvidenceNeverClears
  BY VerdictInit, VerdictNext, NeverClears, PTL DEF V!Spec

-----------------------------------------------------------------------------
\* A number between nothing and one.
Whole(p) == p \in Fraction /\ p.n <= p.d

\* What runs and what is returned; the risk is between nothing and one, and the rows, once there are
\* any, hold the summary.
VerdictTypes ==
  /\ step \in {"predict", "engine", "analyse", "srm", "store", "done", "failed"}
  /\ status \in {None, "manipulated", "authentic", "inconclusive", "failed"}
  /\ inference = None \/ inference.score = None \/ Whole(inference.score)
  /\ risk = None \/ Whole(risk)
  /\ step \in {"predict", "engine", "analyse", "failed"} => rows = {}

\* A factor goes in front of a total.
LEMMA TotalScaled ==
  ASSUME NEW S, IsFiniteSet(S), NEW f, NEW h, NEW k \in Nat,
         \A x \in S : f[x] \in Nat /\ h[x] = k * f[x]
  PROVE  V!Total(f, S) \in Nat /\ V!Total(h, S) = k * V!Total(f, S)
<1> DEFINE Ok(X) == V!Total(h, X) = k * V!Total(f, X)
           B == {X \in SUBSET S : ~Ok(X)}
<1>0. \A X \in SUBSET S : V!Total(f, X) \in Nat
  <2> TAKE X \in SUBSET S
  <2>1. IsFiniteSet(X) /\ \A x \in X : f[x] \in Nat /\ f[x] <= f[x]
    BY FS_Subset
  <2> QED
    BY <2>1, TotalsOrdered
<1> SUFFICES ASSUME B # {} PROVE FALSE
  BY <1>0
<1>1. PICK X \in B : \A Y \in B : Y \subseteq X => Y = X
  <2>1. B \subseteq SUBSET S
    OBVIOUS
  <2> HIDE DEF B
  <2> QED
    BY <2>1, Smallest
<1>2. IsFiniteSet(X)
  BY FS_Subset
<1>3. CASE X = {}
  <2>1. V!Total(f, X) = 0 /\ V!Total(h, X) = 0
    BY <1>2, <1>3, TotalUnfolds
  <2> QED
    BY <1>1, <2>1
<1>4. CASE X # {}
  <2> DEFINE x == Pick(X)  R == X \ {x}
  <2>1. /\ x \in X
        /\ V!Total(f, X) = f[x] + V!Total(f, R) /\ V!Total(h, X) = h[x] + V!Total(h, R)
    BY <1>2, <1>4, TotalUnfolds
  <2>2. Ok(R)
    BY <1>1, <2>1
  <2>3. f[x] \in Nat /\ h[x] = k * f[x] /\ V!Total(f, R) \in Nat
    BY <1>0, <2>1
  <2> DEFINE fx == f[x]  tf == V!Total(f, R)
  <2>4. \A m, n \in Nat : k * m + k * n = k * (m + n)
    BY SMTT(30)
  <2>5. k * fx + k * tf = k * (fx + tf)
    BY <2>3, <2>4
  <2>6. Ok(X)
    BY <2>1, <2>2, <2>3, <2>5
  <2> QED
    BY <1>1, <2>6
<1> QED
  BY <1>0, <1>3, <1>4

\* A mean lies between nothing and one.
LEMMA MeanWhole ==
  ASSUME NEW v, DOMAIN v \subseteq Slug, \A s \in DOMAIN v : v[s] \in 0..Steps, NEW g
  PROVE  V!Mean(v, V!Ran(v, g)) = None \/ Whole(V!Mean(v, V!Ran(v, g)))
<1> DEFINE S == V!Ran(v, g)
           a == [s \in S |-> Auc[s] * v[s]]
           b == [s \in S |-> Steps * Auc[s]]
<1>1. S \subseteq DOMAIN v /\ S \subseteq Slug
  BY DEF V!Ran
<1>2. IsFiniteSet(S)
  BY <1>1, VerdictAssumption, FS_Subset
<1>3. \A s \in S : a[s] \in Nat /\ b[s] \in Nat /\ a[s] <= b[s]
  <2> SUFFICES ASSUME NEW s \in S PROVE a[s] \in Nat /\ b[s] \in Nat /\ a[s] <= b[s]
    OBVIOUS
  <2>1. v[s] \in Nat /\ Steps \in Nat /\ v[s] <= Steps /\ Auc[s] \in Nat
    BY <1>1, VerdictAssumption
  <2> QED
    BY <2>1, Scaled
<1>4. V!Total(a, S) \in Nat /\ V!Total(a, S) <= V!Total(b, S)
  <2> HIDE DEF a, b, S
  <2> QED
    BY <1>2, <1>3, TotalsOrdered
<1>5. V!Total(b, S) = Steps * V!Total(Auc, S)
  <2>1. \A s \in S : Auc[s] \in Nat /\ b[s] = Steps * Auc[s]
    BY <1>1, VerdictAssumption
  <2> HIDE DEF b, S
  <2> QED
    BY <1>2, <2>1, TotalScaled, VerdictAssumption
<1>6. S # {} => V!Mean(v, S) = [n |-> V!Total(a, S), d |-> Steps * V!Total(Auc, S)]
  BY DEF V!Mean, V!Frac
<1>7. S # {} => V!Mean(v, S) \in Fraction
  <2>1. Less(v, v)
    BY VerdictAssumption DEF Less
  <2> QED
    BY <2>1, MeanGrows DEF Below
<1>8. S = {} => V!Mean(v, S) = None
  BY DEF V!Mean
<1> HIDE DEF S, a, b
<1> QED
  BY <1>4, <1>5, <1>6, <1>7, <1>8 DEF Whole, S

\* Shares that make up one, of numbers up to one, make up a number up to one.
LEMMA SharesWhole ==
  ASSUME NEW a, NEW b, Whole(a), Whole(b), NEW i \in Nat, NEW j \in Nat, NEW m \in Nat \ {0}, i + j = m
  PROVE  Whole(V!Plus(V!Times(i, m, a), V!Times(j, m, b)))
<1> DEFINE an == a.n  ad == a.d  bn == b.n  bd == b.d
           p == V!Plus(V!Times(i, m, a), V!Times(j, m, b))
<1>1. an \in Nat /\ bn \in Nat /\ ad \in Nat \ {0} /\ bd \in Nat \ {0} /\ an <= ad /\ bn <= bd
  BY DEF Whole, Fraction
<1>2. p.n = (i * an) * (m * bd) + (j * bn) * (m * ad) /\ p.d = (m * ad) * (m * bd)
  BY DEF V!Plus, V!Times, V!Frac
<1>3. p \in Fraction
  <2>1. Below(a, a) /\ Below(b, b)
    BY <1>1 DEF Below, Whole
  <2>2. Below(V!Times(i, m, a), V!Times(i, m, a)) /\ Below(V!Times(j, m, b), V!Times(j, m, b))
    BY <2>1, TimesGrows
  <2>3. Below(p, p)
    BY <2>2, PlusGrows
  <2> QED
    BY <2>3 DEF Below
<1> HIDE DEF an, ad, bn, bd, p
<1> DEFINE M1 == m * bd  M2 == m * ad
<1>4. M1 \in Nat /\ M2 \in Nat
  BY <1>1, PositiveProduct
<1>5. i * an <= i * ad /\ i * an \in Nat /\ i * ad \in Nat /\ j * bn <= j * bd /\ j * bn \in Nat /\ j * bd \in Nat
  BY <1>1, Scaled
<1>6. (i * an) * M1 <= (i * ad) * M1 /\ (j * bn) * M2 <= (j * bd) * M2
  <2> HIDE DEF M1, M2
  <2>1. M1 * (i * an) <= M1 * (i * ad) /\ (i * an) * M1 = M1 * (i * an) /\ (i * ad) * M1 = M1 * (i * ad)
    BY <1>4, <1>5, Scaled
  <2>2. M2 * (j * bn) <= M2 * (j * bd) /\ (j * bn) * M2 = M2 * (j * bn) /\ (j * bd) * M2 = M2 * (j * bd)
    BY <1>4, <1>5, Scaled
  <2> QED
    BY <2>1, <2>2
<1>7. (i * ad) * (m * bd) + (j * bd) * (m * ad) = (m * ad) * (m * bd)
  <2>1. \A w, x, y, z \in Nat : (w * x) * ((w + y) * z) + (y * z) * ((w + y) * x) = ((w + y) * x) * ((w + y) * z)
    BY SMTT(60)
  <2> QED
    BY <1>1, <2>1
<1>8. (i * an) * M1 \in Nat /\ (i * ad) * M1 \in Nat /\ (j * bn) * M2 \in Nat /\ (j * bd) * M2 \in Nat
  <2> HIDE DEF M1, M2
  <2> QED
    BY <1>4, <1>5, Scaled
<1>9. p.n <= p.d
  BY <1>2, <1>6, <1>7, <1>8
<1> QED
  BY <1>3, <1>9 DEF Whole, p

\* No rule leaves the range.
LEMMA ScoreWhole ==
  ASSUME GivenInv
  PROVE  V!Score(kind, scores) = None \/ Whole(V!Score(kind, scores))
<1> DEFINE mean(g) == V!Mean(scores, V!Ran(scores, g))
           N == V!Cardinality(V!Ran(scores, "face"))
           w == NO_FACE_WEIGHT
<1>1. DOMAIN scores \subseteq Slug /\ \A s \in DOMAIN scores : scores[s] \in 0..Steps
  BY VerdictAssumption DEF GivenInv, V!SlugsOf
<1>2. \A g : mean(g) = None \/ Whole(mean(g))
  BY <1>1, MeanWhole
<1>3. \A a, b : Whole(a) /\ Whole(b) => Whole(V!Larger(a, b))
  BY DEF V!Larger
<1>4. \A a, b : Whole(a) /\ Whole(b) =>
        /\ Whole(V!Plus(V!Times(1, 2, a), V!Times(1, 2, b)))
        /\ Whole(V!Plus(V!Times(w.d - w.n, w.d, a), V!Times(w.n, w.d, b)))
  <2> TAKE a, b
  <2> HAVE Whole(a) /\ Whole(b)
  <2>1. w.d - w.n \in Nat /\ w.n \in Nat /\ w.d \in Nat \ {0} /\ (w.d - w.n) + w.n = w.d
    BY VerdictAssumption
  <2> HIDE DEF w
  <2>2. Whole(V!Plus(V!Times(w.d - w.n, w.d, a), V!Times(w.n, w.d, b)))
    BY <2>1, SharesWhole
  <2>3. Whole(V!Plus(V!Times(1, 2, a), V!Times(1, 2, b)))
    BY SharesWhole, 1 + 1 = 2, 1 \in Nat, 2 \in Nat \ {0}
  <2> QED
    BY <2>2, <2>3
<1>5. \/ V!Score(kind, scores) = None
      \/ \E g : V!Score(kind, scores) = mean(g)
      \/ \E g, h :
           /\ mean(g) # None /\ mean(h) # None
           /\ V!Score(kind, scores) \in
                {V!Larger(mean(g), mean(h)), V!Plus(V!Times(1, 2, mean(g)), V!Times(1, 2, mean(h))),
                 V!Plus(V!Times(w.d - w.n, w.d, mean(g)), V!Times(w.n, w.d, mean(h)))}
  <2>1. N \in Nat
    BY <1>1, RanCounted
  <2>2. CASE kind = "image"
    <3> DEFINE gen == mean("generalist")  face == mean("face")
               p == V!Score(kind, scores)
    <3>1. p = V!ImageRisk(scores, faces > 0)
      BY <2>2 DEF V!Score
    <3>2. \/ p \in {gen, face}
          \/ /\ gen # None /\ face # None
             /\ p \in {V!Larger(gen, face), V!Plus(V!Times(1, 2, gen), V!Times(1, 2, face)),
                       V!Plus(V!Times(w.d - w.n, w.d, gen), V!Times(w.n, w.d, face))}
      BY <2>1, <3>1 DEF V!ImageRisk
    <3> HIDE DEF p, mean
    <3> QED
      BY <3>2 DEF p
  <2>3. CASE kind = "video"
    <3> DEFINE gen == mean("genvideo")  face == mean("framed")
               p == V!Score(kind, scores)
    <3>1. p = V!VideoRisk(scores, faces)
      BY <2>3 DEF V!Score
    <3>2. p \in {gen, face} \/ (gen # None /\ face # None /\ p = V!Larger(face, gen))
      BY <3>1 DEF V!VideoRisk
    <3> HIDE DEF p, mean
    <3> QED
      BY <3>2 DEF p
  <2>4. CASE kind = "audio"
    <3>1. V!Score(kind, scores) = mean("wavlm")
      BY <2>4 DEF V!Score
    <3> HIDE DEF mean
    <3> QED
      BY <3>1
  <2> QED
    BY <2>2, <2>3, <2>4 DEF GivenInv, V!Kinds
<1> HIDE DEF mean, w
<1> QED
  BY <1>2, <1>3, <1>4, <1>5

\* _calibrate stays in the range.
LEMMA CalibratedWhole ==
  ASSUME NEW p, Whole(p), NEW t \in Threshold
  PROVE  Whole(V!Calibrated(p, t))
<1> DEFINE pn == p.n  pd == p.d  tn == t.n  td == t.d
           c == V!Calibrated(p, t)
<1>1. /\ pn \in Nat /\ pd \in Nat \ {0} /\ pn <= pd
      /\ tn \in Nat \ {0} /\ td \in Nat \ {0} /\ tn < td
  BY VerdictAssumption DEF Whole, Fraction
<1>2. c \in Fraction /\ p \in Fraction /\ t \in Fraction
  BY CalibratedIsFraction, VerdictAssumption DEF Whole, Fraction
<1>3. V!Leq(p, t) <=> pn * td <= tn * pd
  BY <1>2, LeqMultiplies
<1> HIDE DEF pn, pd, tn, td
<1> DEFINE A == pn * td  B == tn * pd
<1>4. A \in Nat /\ B \in Nat /\ A <= pd * td /\ pd * td \in Nat
  <2>1. td * pn <= td * pd /\ pn * td = td * pn /\ pd * td = td * pd /\ td * pn \in Nat /\ td * pd \in Nat
    BY <1>1, Scaled
  <2>2. tn * pd \in Nat
    BY <1>1, Scaled
  <2> QED
    BY <2>1, <2>2
<1>5. CASE V!Leq(p, t)
  <2>1. c = [n |-> A, d |-> 2 * pd * tn]
    BY <1>5 DEF V!Calibrated, V!Frac, pn, pd, tn, td
  <2>2. 2 * pd * tn = 2 * B
    BY <1>1, SMTT(30)
  <2>3. A <= B
    BY <1>3, <1>5
  <2> HIDE DEF A, B
  <2>4. c.n <= c.d
    BY <1>4, <2>1, <2>2, <2>3
  <2> QED
    BY <1>2, <2>4 DEF Whole
<1>6. CASE ~V!Leq(p, t)
  <2> DEFINE D == 2 * pd * (td - tn)
  <2>1. c = [n |-> 1 * D + (A - B) * 2, d |-> 2 * D]
    BY <1>6 DEF V!Calibrated, V!Plus, V!Frac, V!Half, pn, pd, tn, td
  <2>2. D = 2 * (pd * td) - 2 * B
    BY <1>1, SMTT(30)
  <2> HIDE DEF A, B, D
  <2>3. c.n <= c.d
    BY <1>4, <2>1, <2>2
  <2> QED
    BY <1>2, <2>3 DEF Whole
<1> QED
  BY <1>5, <1>6

\* What stands for a verdict that could not be reached is in the range.
LEMMA HalfWhole == Whole(V!Half) /\ Whole(V!Frac(0, 1))
BY DEF Whole, Fraction, V!Half, V!Frac

\* The engine's probability is in the range, whatever failed.
LEMMA ResultWhole ==
  ASSUME VerdictInv, VerdictTypes, step = "analyse"
  PROVE  Whole(result.fake)
<1>1. result = V!EngineResult(kind, inference, threshold)
  BY DEF VerdictInv, ToldInv
<1>2. CASE inference = None \/ inference.score = None
  BY <1>1, <1>2, HalfWhole DEF V!EngineResult, V!Neutral
<1>3. CASE ~(inference = None \/ inference.score = None)
  <2>1. Whole(inference.score)
    BY <1>3 DEF VerdictTypes
  <2>2. result.fake = IF kind = "audio" THEN V!Calibrated(inference.score, threshold) ELSE inference.score
    BY <1>1, <1>3 DEF V!EngineResult
  <2>3. kind = "audio" => threshold \in Threshold
    BY DEF VerdictInv, GivenInv
  <2> QED
    BY <2>1, <2>2, <2>3, CalibratedWhole
<1> QED
  BY <1>2, <1>3

\* Every step keeps what it computes in the range.
LEMMA VerdictTypesKept == VerdictInv /\ VerdictTypes /\ [V!Next]_V!vars => VerdictTypes'
<1> SUFFICES ASSUME VerdictInv, VerdictTypes, [V!Next]_V!vars PROVE VerdictTypes'
  OBVIOUS
<1>1. CASE V!Predict
  <2>1. inference'.score = V!Score(kind, scores) /\ step' = "engine" /\ step = "predict"
    BY <1>1 DEF V!Predict
  <2>2. inference'.score = None \/ Whole(inference'.score)
    BY <2>1, ScoreWhole DEF VerdictInv
  <2> QED
    BY <1>1, <2>1, <2>2 DEF V!Predict, VerdictTypes
<1>2. CASE V!PredictFails
  BY <1>2 DEF V!PredictFails, VerdictTypes
<1>3. CASE V!Unregistered
  <2>1. Whole(risk')
    BY <1>3, HalfWhole DEF V!Unregistered
  <2> QED
    BY <1>3, <2>1 DEF V!Unregistered, VerdictTypes
<1>4. CASE V!Analyze
  BY <1>4 DEF V!Analyze, VerdictTypes
<1>5. CASE V!Analyse
  <2>1. Whole(risk')
    BY <1>5, ResultWhole DEF V!Analyse
  <2>2. status' \in {None, "manipulated", "authentic", "inconclusive", "failed"}
    BY <1>5 DEF V!Analyse, V!Band
  <2>3. step' \in {"store", "srm"}
    BY <1>5 DEF V!Analyse
  <2>4. inference' = inference
    BY <1>5 DEF V!Analyse
  <2> QED
    BY <2>1, <2>2, <2>3, <2>4 DEF VerdictTypes
<1>6. CASE V!Supplement
  BY <1>6 DEF V!Supplement, VerdictTypes
<1>7. CASE V!Store
  BY <1>7 DEF V!Store, VerdictTypes
<1>8. CASE UNCHANGED V!vars
  BY <1>8 DEF V!vars, VerdictTypes
<1> QED
  BY <1>1, <1>2, <1>3, <1>4, <1>5, <1>6, <1>7, <1>8 DEF V!Next

\* Once there are rows there is one summary.
LEMMA VerdictTyped == VerdictInv /\ VerdictTypes => V!TypeOK
<1> SUFFICES ASSUME VerdictInv, VerdictTypes PROVE V!TypeOK
  OBVIOUS
<1>1. risk # None => risk.d > 0 /\ 0 <= risk.n /\ risk.n <= risk.d
  BY DEF VerdictTypes, Whole, Fraction
<1>2. ASSUME rows # {} PROVE V!Cardinality({r \in rows : r.tier = "summary"}) = 1
  <2>1. step \in {"srm", "store", "done"}
    BY <1>2 DEF VerdictTypes
  <2>2. V!Summary(result) \in rows /\ \A r \in rows : r.tier = "summary" => r = V!Summary(result)
    BY <2>1 DEF VerdictInv, ToldInv
  <2>3. V!Summary(result).tier = "summary"
    BY DEF V!Summary
  <2>4. {r \in rows : r.tier = "summary"} = {V!Summary(result)}
    BY <2>2, <2>3
  <2>5. Cardinality({V!Summary(result)}) = 1
    BY FS_Singleton
  <2>6. \A S : V!Cardinality(S) = Cardinality(S)
    BY DEF V!Cardinality, Cardinality
  <2> QED
    BY <2>4, <2>5, <2>6
<1> QED
  BY <1>1, <1>2 DEF V!TypeOK, VerdictTypes

\* Nothing is decided at the start.
LEMMA VerdictTypesInit == V!Init => VerdictTypes
BY DEF V!Init, VerdictTypes

\* Verdicts keeps its types: every risk is a number between nothing and one, and every case has one
\* summary row.
THEOREM VerdictsTyped == V!Spec => []V!TypeOK
  BY VerdictInit, VerdictNext, VerdictTypesInit, VerdictTypesKept, VerdictTyped, PTL DEF V!Spec
=============================================================================
