------------------------------ MODULE UrlFetch -------------------------------
(***************************************************************************)
(* The worker's download of a URL: the redirect loop of urlfetch.fetch,    *)
(* what it makes of every answer, and the retries of the task around it.   *)
(* A rejection is final, a failure is tried again.  Origins answer as they *)
(* like at every request, and names may resolve differently every time.    *)
(* httpx itself reports a body that ends before its declared length as an  *)
(* error; one that is sent compressed decodes to another length.           *)
(***************************************************************************)
EXTENDS Integers, FiniteSets, Sequences

CONSTANTS
  Url, MAX_REDIRECTS,
  MIN_DOWNLOAD, MAX_DOWNLOAD, MaxSize,  \* what is accepted, and the largest body an origin sends
  MAX_ATTEMPTS,
  None

Size == 0..MaxSize

VARIABLES
  pc,        \* "validate", "request", "receive", or how the download ended
  current,   \* the URL to validate or to request
  seen,      \* URLs requested in this attempt
  body,      \* the transfer under way: declared length, bytes sent and decoded, a media file or not
  reason,    \* why it ended
  broken,    \* the connection broke during the last transfer
  attempt

vars == <<pc, current, seen, body, reason, broken, attempt>>

Init ==
  /\ pc = "validate" /\ current \in Url /\ seen = <<>> /\ body = None
  /\ reason = None /\ broken = FALSE /\ attempt = 1

Requested == {seen[i] : i \in 1..Len(seen)}

End(how, why) == pc' = how /\ reason' = why /\ UNCHANGED <<current, seen, body, attempt>>
Reject(why) == End("rejected", why)
Fail(why) == End("failed", why)

\* validate_url, for the first URL and for the target of every redirect: the scheme, the host and
\* every address it resolves to.  A name that does not resolve is rejected as well.
Validate ==
  /\ pc = "validate" /\ UNCHANGED broken
  /\ \/ pc' = "request" /\ UNCHANGED <<current, seen, body, reason, attempt>>
     \/ Reject("address")
     \/ Reject("name")

\* Mutant of MoreHops: one redirect too few.
MoreHopsShort == Len(seen) < MAX_REDIRECTS

\* The loop's bound: MAX_REDIRECTS + 1 requests.
MoreHops == Len(seen) < MAX_REDIRECTS + 1

TooMany ==
  /\ pc = "request" /\ ~MoreHops
  /\ Reject("redirects") /\ UNCHANGED broken

\* A redirect: without a target, back to a URL already requested, or onward.
Redirected ==
  /\ pc = "request" /\ MoreHops
  /\ UNCHANGED broken
  /\ \/ Fail("no target")
     \/ \E to \in Url :
          IF to \in Requested \cup {current}
          THEN Reject("circle")
          ELSE /\ pc' = "validate" /\ current' = to /\ seen' = Append(seen, current)
               /\ UNCHANGED <<body, reason, attempt>>

\* 404, 401, 403 and whatever is neither 200 nor 5xx; and 5xx.
Refused ==
  /\ pc = "request" /\ MoreHops
  /\ UNCHANGED broken
  /\ Reject("status") \/ Fail("status")

\* A time-out, or no connection.
NoAnswer ==
  /\ pc = "request" /\ MoreHops
  /\ broken' = TRUE
  /\ Fail("connection")

\* A body: what its Content-Length declares, if anything, what arrives, and what that decodes to; it
\* may break off, which without a declared length looks like its end.
Body ==
  [declared : Size \cup {None}, sent : Size, total : Size, media : BOOLEAN, whole : BOOLEAN]

Possible(b) ==
  /\ b.declared # None => b.sent <= b.declared
  /\ b.whole => b.declared \in {None, b.sent}
  /\ ~b.whole /\ b.declared # None => b.sent < b.declared
  /\ b.total \in {b.sent - 1, b.sent, b.sent + 1}
  /\ b.sent = 0 => b.total = 0

Answered ==
  /\ pc = "request" /\ MoreHops
  /\ \E b \in Body :
       /\ Possible(b)
       /\ IF b.declared # None /\ b.declared > MAX_DOWNLOAD
          THEN Reject("size") /\ UNCHANGED broken
          ELSE /\ pc' = "receive" /\ body' = b /\ broken' = ~b.whole
               /\ UNCHANGED <<current, seen, reason, attempt>>

\* httpx's own check of the length, and then what fetch makes of the body, in this order.
Cut(b) == b.declared # None /\ b.sent < b.declared

Checks(b) ==
  <<[hit |-> b.total > MAX_DOWNLOAD, how |-> "rejected", why |-> "size"],
    [hit |-> Cut(b), how |-> "failed", why |-> "connection"],
    [hit |-> b.total = 0, how |-> "rejected", why |-> "empty"],
    [hit |-> b.declared # None /\ b.total < b.declared, how |-> "failed", why |-> "truncated"],
    [hit |-> b.total < MIN_DOWNLOAD, how |-> "rejected", why |-> "size"],
    [hit |-> ~b.media, how |-> "rejected", why |-> "format"],
    [hit |-> TRUE, how |-> "fetched", why |-> None]>>

Verdict(b) ==
  LET first == CHOOSE i \in DOMAIN Checks(b) :
                 Checks(b)[i].hit /\ \A j \in 1..i - 1 : ~Checks(b)[j].hit
  IN Checks(b)[first]

Received ==
  /\ pc = "receive" /\ UNCHANGED broken
  /\ End(Verdict(body).how, Verdict(body).why)

\* The task tries a failed download again, from the URL it was given.
Retry ==
  /\ pc = "failed" /\ attempt < MAX_ATTEMPTS
  /\ pc' = "validate" /\ attempt' = attempt + 1 /\ seen' = <<>> /\ body' = None /\ reason' = None
  /\ current' = (IF seen = <<>> THEN current ELSE Head(seen)) /\ broken' = FALSE

Next == Validate \/ TooMany \/ Redirected \/ Refused \/ NoAnswer \/ Answered \/ Received \/ Retry

Spec == Init /\ [][Next]_vars

-----------------------------------------------------------------------------
\* The download is somewhere in its loop or has ended, within its attempts.
TypeOK ==
  /\ pc \in {"validate", "request", "receive", "rejected", "failed", "fetched"}
  /\ current \in Url /\ Requested \subseteq Url /\ attempt \in 1..MAX_ATTEMPTS
  /\ body # None => body \in Body

\* A rejection is never retried, so it must not be the network's fault or the loop's: no attempt is
\* rejected over a body known to be cut short below the cap, for redirects before more than
\* MAX_REDIRECTS of them were followed, or after the same URL was requested twice.
RejectedForGood ==
  pc = "rejected" =>
    /\ body # None => ~broken \/ body.declared = None \/ body.total > MAX_DOWNLOAD
    /\ reason = "redirects" => Len(seen) > MAX_REDIRECTS
    /\ Cardinality(Requested) = Len(seen)
=============================================================================
