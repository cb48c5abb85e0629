-------------------------------- MODULE WebTools --------------------------------
(***************************************************************************)
(* The tools websearch and webfetch (src/src/mcp/builtins/web.ts) over the   *)
(* bounded readers of mcp/httpFetch.ts.  An exchange is what the network     *)
(* does: the headers fail, or come with a status, a type, a declared length  *)
(* and a body of chunks that may break off; only the chunks' sizes matter.   *)
(***************************************************************************)
EXTENDS FileTools

Unknown == -1

\* fetchWithTimeout, classifyNetworkError: one timer runs over headers and body.
ClassifyNetworkError(failure) == IF failure = "timeout" THEN "TIMEOUT" ELSE "NETWORK_ERROR"

\* readBoundedTextBody, readBoundedBinaryBody: what does not fit is cut off and
\* the rest cancelled; an abort or a break is thrown.
ReadBoundedBody(exchange, maxBytes) ==
  LET Chunk(read, size) ==
        CASE read.truncated -> read
          [] ~read.truncated /\ read.bytes + size > maxBytes -> [bytes |-> maxBytes, truncated |-> TRUE]
          [] ~read.truncated /\ read.bytes + size <= maxBytes -> [read EXCEPT !.bytes = @ + size]
      read == FoldLeft(Chunk, [bytes |-> 0, truncated |-> FALSE], exchange.chunks)
  IN IF exchange.breaks # "none" /\ ~read.truncated THEN Error(ClassifyNetworkError(exchange.breaks))
     ELSE [ok |-> TRUE, bytes |-> read.bytes, truncated |-> read.truncated]

Stash == <<".saivage", "tmp", "stash">>
TooLarge == Error("RESPONSE_TOO_LARGE")
NotWritten == [file |-> <<>>, bytes |-> 0]
Fetched(given, written) == [ok |-> TRUE, given |-> given, written |-> written]

\* boundedPositiveInt
Bounded(value, fallback, min, max) == Most(min, Least(max, IF value = Unknown THEN fallback ELSE value))

\* A text comes inline, or goes to a file of its own with a preview inline.
TextContent(bytes, maxInline) ==
  IF bytes > maxInline THEN Fetched([kind |-> "preview", bytes |-> maxInline], [file |-> Stash, bytes |-> bytes])
  ELSE Fetched([kind |-> "text", bytes |-> bytes], NotWritten)

\* Other types are attached if they are images, and else only saved.
BinaryContent(request, exchange, bytes) ==
  CASE request.mode # "text" /\ exchange.type = "image" -> Fetched([kind |-> "attachment", bytes |-> bytes], NotWritten)
    [] request.mode = "multimodal" /\ exchange.type # "image" -> Error("UNSUPPORTED_MEDIA_TYPE")
    [] OTHER -> Error("UNSUPPORTED_BINARY_CONTENT")

IsReadAsText(request, exchange) ==
  \/ request.mode = "text"
  \/ request.saveAs = <<>> /\ request.mode = "auto" /\ exchange.type = "text"

\* The body of a response that was asked for.
WebfetchBody(request, exchange, maxBytes, maxInline) ==
  LET read == ReadBoundedBody(exchange, maxBytes)
  IN CASE exchange.declared > maxBytes -> TooLarge
       [] exchange.declared <= maxBytes /\ ~read.ok -> read
       [] exchange.declared <= maxBytes /\ read.ok ->
            IF read.truncated THEN TooLarge
            ELSE IF request.saveAs # <<>> THEN Fetched([kind |-> "none", bytes |-> 0], [file |-> request.saveAs, bytes |-> read.bytes])
            ELSE IF IsReadAsText(request, exchange) THEN TextContent(read.bytes, maxInline)
            ELSE BinaryContent(request, exchange, read.bytes)

Webfetch(role, request, exchange, limits) ==
  CASE ~request.http \/ (request.metadataOnly /\ request.saveAs # <<>>) -> Error("INVALID_ARGUMENT")
    [] request.http /\ request.saveAs # <<>> /\ ~request.metadataOnly /\ ~MayChange(role, request.saveAs) -> Error("BLOCKED_PATH")
    [] OTHER ->
         IF exchange.fails # "none" THEN Error(ClassifyNetworkError(exchange.fails))
         ELSE IF request.metadataOnly THEN Fetched([kind |-> "headers", bytes |-> 0], NotWritten)
         ELSE IF exchange.status # 200 THEN Error("UPSTREAM_HTTP_ERROR")
         ELSE WebfetchBody(request, exchange, Bounded(request.maxBytes, limits.fetch, 1, limits.ceiling),
                           Bounded(request.maxInline, limits.file, 0, limits.ceiling))

-----------------------------------------------------------------------------
(* websearch *)

\* extractDdgResults: an anchor is of use if its link, or the link wrapped in it,
\* leads to the web; later anchors are not looked at once there are enough.
IsUseful(anchor) == anchor \in {"plain", "wrapped"}

ExtractDdgResults(anchors, max) ==
  LET Anchor(got, anchor) ==
        IF Len(got.results) >= max THEN got
        ELSE IF IsUseful(anchor) THEN [got EXCEPT !.results = Append(@, anchor)]
        ELSE [got EXCEPT !.skipped = @ + 1]
  IN FoldLeft(Anchor, [results |-> <<>>, skipped |-> 0], anchors)

Websearch(maxResults, exchange, anchors, limits) ==
  LET read == ReadBoundedBody(exchange, limits.search)
      max == IF maxResults = Unknown THEN limits.results ELSE Least(Most(maxResults, 1), limits.results)
      got == ExtractDdgResults(anchors, max)
  IN IF exchange.fails # "none" THEN Error(ClassifyNetworkError(exchange.fails))
     ELSE IF exchange.status # 200 THEN Error("UPSTREAM_HTTP_ERROR")
     ELSE IF ~read.ok THEN read
     ELSE IF read.truncated THEN TooLarge
     ELSE IF got.results = <<>> THEN Error("NO_RESULTS_PARSED")
     ELSE [ok |-> TRUE, results |-> got.results, skipped |-> got.skipped]
=============================================================================
