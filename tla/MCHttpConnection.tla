-------------------------- MODULE MCHttpConnection --------------------------
(* Requests and file systems for HttpConnection.  A word is one byte long. *)
EXTENDS HttpConnection

CRLF == <<CR, LF>>

HeaderLines(h) == FlattenSeq([i \in DOMAIN h |-> h[i][1] \o <<COLON, SP>> \o h[i][2] \o CRLF])

Valid(method, url, path, headers, body) ==
  [valid |-> TRUE, method |-> method, url |-> url, path |-> path, version |-> <<49>>,
   headers |-> headers, body |-> body,
   sent |-> method \o <<SP>> \o url \o <<SP, 49>> \o CRLF \o HeaderLines(headers) \o CRLF \o body]

Raw(bytes) ==
  [valid |-> FALSE, method |-> <<>>, url |-> <<>>, path |-> <<>>, version |-> <<>>,
   headers |-> <<>>, body |-> <<>>, sent |-> bytes]

G == <<71>>   get == <<103>>   P == <<80>>
f == <<102, DOT, 99, DOT, 104>>   \* "f.c.h": a file of two chunks
h == <<DOT, 104>>                 \* ".h": a file of one chunk
d == <<74>>                       \* "J": a directory, longer than the buffer
m == <<109>>                      \* a name that is not there
k1 == <<<<107>>, <<118>>>>        \* key k, value v
k2 == <<<<107>>, <<119>>>>        \* the same key, another value
x1 == <<<<120>>, <<COLON>>>>      \* key x, value ":"

MCRequests ==
  { Valid(G, <<SLASH>>, RootDir, <<>>, <<>>),
    Valid(get, <<SLASH>> \o f, f, <<k1>>, <<>>),
    Valid(G, <<SLASH, PERCENT, 54, 54, DOT, 99, DOT, 104>>, f, <<>>, <<>>),
    Valid(G, <<SLASH, PERCENT, 52, 65>>, d, <<k1, x1>>, <<>>),
    Valid(G, <<SLASH, PERCENT, 52, 97>>, d, <<>>, <<>>),
    Valid(G, <<SLASH, PERCENT, 52>>, <<PERCENT, 52>>, <<>>, <<>>),
    Valid(get, <<SLASH>> \o h, h, <<>>, <<>>),
    Valid(G, <<SLASH>> \o m, m, <<k1, k2, x1>>, <<>>),
    Valid(G, <<SLASH>> \o d, d, <<>>, <<98, CR>>),
    Valid(P, <<SLASH>> \o d, d, <<>>, <<98>>),
    Raw(CRLF \o G), Raw(G \o CRLF), Raw(G \o <<SP, SLASH>> \o CRLF \o CRLF),
    Raw(G \o <<SP, SLASH, SP, 49>> \o CRLF \o <<107, COLON>> \o CRLF \o CRLF) }

File(type, content) == [dir |-> FALSE, type |-> type, content |-> content]
Dir(content) == [dir |-> TRUE, type |-> TextHtml, content |-> content]

Tree == (RootDir :> Dir(<<701, 702>>)) @@ (d :> Dir([i \in 1..10 |-> 710 + i]))
          @@ (f :> File(TextHtml, <<721, 722>>)) @@ (h :> File(TextHtml, <<741>>))

MCFileSystems == {Tree, Tree @@ (NotFoundFile :> File(TextHtml, <<731>>))}

MCMimeTypes == (HtmlSuffix :> TextHtml) @@ (<<DOT, 99>> :> 603)
=============================================================================
