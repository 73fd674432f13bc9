-------------------------------- MODULE Http --------------------------------
(***************************************************************************)
(* One request and its answer: the handler of the server and the chain of  *)
(* middleware (backend/internal/bootstrap/router_bootstrap.go,             *)
(* backend/internal/middleware/head_middleware.go, error_handler.go), the  *)
(* health check and the handler for everything that is no route            *)
(* (backend/frontend/frontend_included.go), and a client that follows      *)
(* redirects.  What the rate limit decides is in module RateLimit.         *)
(*                                                                         *)
(* A URL is what its path names, whether it ends in a slash and whether a  *)
(* query follows.  "root" is the path "/", with no further slash.  Bodies  *)
(* are counted in units of which io.Copy moves Buffer at a time.           *)
(***************************************************************************)
EXTENDS Integers, Sequences

CONSTANTS
  MaxSize,  \* the size of the largest asset, 1 or more
  Buffer    \* what io.Copy reads at a time, 1 or more

VARIABLES
  client,   \* the request: its method, and if the client has a fresh copy
  assetSize,\* the size of the asset, if it asks for one
  url,      \* what it asks for, now
  pc,       \* where the chain is
  method,   \* c.Request.Method
  isHead,   \* the value of IsHeadRequestCtxKey, so the writer is the headWriter
  size,     \* headWriter.size
  sent,     \* the units of bodies that went to the client
  left,     \* what io.Copy has to copy
  errs,     \* c.Errors
  status, location, contentLength  \* of the response; NoLength if it is not set

vars == <<client, assetSize, url, pc, method, isHead, size, sent, left, errs,
          status, location, contentLength>>

response == <<status, location, contentLength>>
request == <<client, assetSize, url>>
NoLength == -1
MessageSize == 1  \* a page or an error, which is one write

URLs == [names : {"root", "healthz"}, slash : {FALSE}, query : BOOLEAN]
          \cup [names : {"missing", "asset", "directory", "api"}, slash : BOOLEAN, query : BOOLEAN]

Received(u) ==
  /\ url = u /\ pc = "received" /\ method = client.method /\ isHead = FALSE
  /\ size = 0 /\ sent = 0 /\ left = 0 /\ errs = <<>>
  /\ status = 200 /\ location = u /\ contentLength = NoLength

Init ==
  /\ client \in [method : {"GET", "HEAD"}, fresh : BOOLEAN]
  /\ assetSize \in 1..MaxSize
  /\ \E u \in URLs : Received(u)

Goto(to) == pc' = to

-----------------------------------------------------------------------------
(* The handler of the server and the outer middleware.                     *)

\* The server's handler makes a GET of a HEAD, because no route is for HEAD, and
\* HeadMiddleware then replaces the writer.
ConvertHead ==
  /\ pc = "received"
  /\ isHead' = (client.method = "HEAD")
  /\ method' = IF client.method = "HEAD" THEN "GET" ELSE client.method
  /\ Goto(IF url.names = "healthz" THEN "healthz" ELSE "limit")
  /\ UNCHANGED <<request, response, size, sent, left, errs>>

\* The headWriter counts what it is given and returns the count; the writer of
\* Gin sends it.
Accepted(n) == IF isHead THEN size + n ELSE n
Written(n) ==
  /\ size' = IF isHead THEN size + n ELSE size
  /\ sent' = IF isHead THEN sent ELSE sent + n

\* c.JSON, which is one write.
WriteJSON(code) == status' = code /\ Written(MessageSize)

\* The error handler: the first error that it knows is the answer; one that it
\* does not know is answered too, and the next one looked at.
HandleErrors ==
  /\ pc = "errors"
  /\ IF errs = <<>> THEN Goto("leave") /\ UNCHANGED <<errs, size, sent, status>>
     ELSE IF Head(errs) = "tooMany"
            THEN WriteJSON(429) /\ errs' = <<>> /\ Goto("leave")
            ELSE WriteJSON(500) /\ errs' = Tail(errs) /\ UNCHANGED pc
  /\ UNCHANGED <<request, method, isHead, left, location, contentLength>>

\* HeadMiddleware after the chain: the length, and HEAD again.
LeaveHead ==
  /\ pc = "leave"
  /\ contentLength' = IF isHead THEN size ELSE contentLength
  /\ method' = IF isHead THEN "HEAD" ELSE method
  /\ Goto("answered")
  /\ UNCHANGED <<request, isHead, size, sent, left, errs, status, location>>

-----------------------------------------------------------------------------
(* The routes.                                                             *)

Healthz ==
  /\ pc = "healthz"
  /\ status' = 204 /\ Goto("errors")
  /\ UNCHANGED <<request, method, isHead, size, sent, left, errs, location, contentLength>>

\* The rate limit lets the request pass, or aborts the chain with an error.
RateLimit ==
  /\ pc = "limit"
  /\ \/ Goto("frontend") /\ UNCHANGED errs
     \/ Goto("errors") /\ errs' = Append(errs, "tooMany")
  /\ UNCHANGED <<request, response, method, isHead, size, sent, left>>

\* What is left of the URL when strings.TrimRight has taken the slashes from its
\* end, where a query follows the path.
WithoutSlash(u) == IF u.query THEN u ELSE [u EXCEPT !.slash = FALSE]

RedirectTo(u) == status' = 301 /\ location' = u

RedirectSlash ==
  /\ pc = "frontend" /\ url.slash
  /\ RedirectTo(WithoutSlash(url)) /\ Written(MessageSize) /\ Goto("errors")
  /\ UNCHANGED <<request, method, isHead, left, errs, contentLength>>

ApiNotFound ==
  /\ pc = "frontend" /\ ~url.slash /\ url.names = "api"
  /\ WriteJSON(404) /\ Goto("errors")
  /\ UNCHANGED <<request, method, isHead, left, errs, location, contentLength>>

\* index.html, with the nonce: the client of a GET may be gone.
ServeIndex ==
  /\ pc = "frontend" /\ ~url.slash /\ url.names \in {"root", "missing"}
  /\ status' = 200
  /\ \/ Written(MessageSize) /\ UNCHANGED errs
     \/ ~isHead /\ errs' = Append(errs, "writeIndex") /\ UNCHANGED <<size, sent>>
  /\ Goto("errors")
  /\ UNCHANGED <<request, method, isHead, left, location, contentLength>>

\* FileServerWithCaching, before it calls http.FileServer: a fresh copy is enough.
NotModified ==
  /\ pc = "frontend" /\ ~url.slash /\ url.names \in {"asset", "directory"} /\ client.fresh
  /\ status' = 304 /\ Goto("errors")
  /\ UNCHANGED <<request, method, isHead, size, sent, left, errs, location, contentLength>>

\* http.FileServer announces a file and copies it ...
ServeAsset ==
  /\ pc = "frontend" /\ ~url.slash /\ url.names = "asset" /\ ~client.fresh
  /\ left' = assetSize /\ contentLength' = assetSize
  /\ Goto("copy")
  /\ UNCHANGED <<request, method, isHead, size, sent, errs, status, location>>

\* ... and wants a slash after a directory.
ServeDirectory ==
  /\ pc = "frontend" /\ ~url.slash /\ url.names = "directory" /\ ~client.fresh
  /\ RedirectTo([url EXCEPT !.slash = TRUE]) /\ Goto("errors")
  /\ UNCHANGED <<request, method, isHead, size, sent, left, errs, contentLength>>

\* io.Copy gives up when a write takes more than it was given.
CopyChunk ==
  /\ pc = "copy" /\ left > 0
  /\ LET n == IF left < Buffer THEN left ELSE Buffer IN
       /\ Written(n)
       /\ left' = IF Accepted(n) > n THEN 0 ELSE left - n
  /\ UNCHANGED <<request, response, pc, method, isHead, errs>>

CopyEnds ==
  /\ pc = "copy" /\ left = 0
  /\ Goto("errors")
  /\ UNCHANGED <<request, response, method, isHead, size, sent, left, errs>>

\* The client of a GET is gone, and nobody looks at the error of the copy.
CopyFails ==
  /\ pc = "copy" /\ left > 0 /\ ~isHead
  /\ left' = 0 /\ Goto("errors")
  /\ UNCHANGED <<request, response, method, isHead, size, sent, errs>>

-----------------------------------------------------------------------------
(* The client follows a redirect with the same method.                     *)

Follow ==
  /\ pc = "answered" /\ status = 301
  /\ url' = location /\ pc' = "received" /\ method' = client.method /\ isHead' = FALSE
  /\ size' = 0 /\ sent' = 0 /\ left' = 0 /\ errs' = <<>>
  /\ status' = 200 /\ contentLength' = NoLength
  /\ UNCHANGED <<client, assetSize, location>>

Next ==
  \/ ConvertHead \/ HandleErrors \/ LeaveHead \/ Healthz \/ RateLimit
  \/ RedirectSlash \/ ApiNotFound \/ ServeIndex \/ NotModified \/ ServeAsset
  \/ ServeDirectory \/ CopyChunk \/ CopyEnds \/ CopyFails \/ Follow

Spec == Init /\ [][Next]_vars

\* The handlers run on, and the client follows every redirect.
FairSpec == Spec /\ WF_vars(Next)

-----------------------------------------------------------------------------
(* Properties.                                                             *)

\* A path that names nothing is answered, in the end, by index.html or by an
\* error, and not by redirects for ever (the comment at line 77 of
\* frontend_included.go).
MissingServesIndex == url.names = "missing" ~> pc = "answered" /\ status # 301

\* The answer to a HEAD announces the length of the body of the GET (the comment
\* at line 30 of head_middleware.go: the writer swallows the body).  The code
\* violates it from an asset of more than two chunks on: no run checks it.
HeadSwallowsBody ==
  pc = "answered" /\ isHead /\ status = 200 /\ url.names = "asset" => contentLength = assetSize
=============================================================================
