--------------------------- MODULE HttpConnection ---------------------------
(***************************************************************************)
(* One connection of the HTTP reactors, from the read event to the release *)
(* of its descriptor: TcpConnection.c/.cpp, HttpResponse.c/.cpp and the    *)
(* senders of HttpRequest.c/.cpp, over the buffer of HttpBuffer and the    *)
(* parser of HttpRequest.  `impl` says which of the two programs runs.     *)
(* The configuration that is built is the one without _SEND_MSG_AUTO and   *)
(* MSG_SEND_AUTO: responses are sent inside processRead(), the descriptor  *)
(* is blocking, and every read but a failed one in C ends with a DELETE.   *)
(*                                                                         *)
(* The environment is the client, which sends its request in pieces of any *)
(* size and may end or reset the connection at any time, the file system,  *)
(* from which a file may vanish, and read() of a file, which may fail.     *)
(***************************************************************************)
EXTENDS HttpRequest

CONSTANTS
  Requests,     \* the requests a client may send: see Sent and WellFormed
  FileSystems,  \* the file systems to serve from: path -> [dir, type, content]
  Capacity,     \* bytes of a new buffer (10240 in the code)
  TmpSize,      \* bytes of the second vector of readv() (40960)
  JunkBytes     \* what memory nobody wrote may hold

ASSUME SizesAssumption == Capacity \in Nat /\ TmpSize \in Nat /\ JunkBytes \subseteq Nat

HasPair(s, x, y) == \E i \in 1..Len(s) - 1 : s[i] = x /\ s[i + 1] = y

(* The lines of a request: the request line, one for each header, the      *)
(* empty line.                                                             *)
Line(r, k) ==
  IF k = 0 THEN r.method \o <<SP>> \o r.url \o <<SP>> \o r.version
  ELSE IF k <= Len(r.headers) THEN r.headers[k][1] \o <<COLON, SP>> \o r.headers[k][2]
  ELSE <<>>

(* The bytes in front of line k; behind each line there is a CR LF.        *)
LineAt(r) ==
  LET At[k \in 0..Len(r.headers) + 2] ==
        IF k = 0 THEN 0 ELSE At[k - 1] + Len(Line(r, k - 1)) + 2
  IN  At

(* The places of url where a byte of the decoded text is spelled: not the  *)
(* two digits of an escape.                                                *)
Begins(url) ==
  {i \in 1..Len(url) : \A j \in 1..Len(url) : j \in {i - 2, i - 1} => ~Escape(url, j)}

(* url spells the text s, byte by byte or escaped.                         *)
Spells(url, s) ==
  /\ Len(s) = Cardinality(Begins(url))
  /\ \A i \in Begins(url) : s[Cardinality(Begins(url) \cap 1..i)] = DecodedAt(url, i)

(* What a client means by a request: the words of its first line, headers  *)
(* with a key and a value, the file it asks for ("/" is the working        *)
(* directory) and the body, sent one behind the other.                     *)
WellFormed(r) ==
  LET n  == Len(r.headers)
      At == LineAt(r)
  IN  /\ r.method \in Seq(Nat \ {SP}) /\ r.url \in Seq(Nat \ {SP, NUL})
      /\ r.version \in Seq(Nat) /\ r.body \in Seq(Nat)
      /\ r.headers \in Seq(Seq(Nat) \X Seq(Nat))
      /\ \A k \in 1..n : /\ r.headers[k][1] # <<>> /\ ~HasPair(r.headers[k][1], COLON, SP)
                        /\ r.headers[k][2] # <<>>
      /\ r.path \in Seq(Nat \ {NUL})
      /\ \/ r.path = RootDir /\ Spells(r.url, <<SLASH>>)
         \/ r.path # <<>> /\ Spells(r.url, <<SLASH>> \o r.path)
      /\ \A k \in 0..n + 1 : /\ ~HasPair(Line(r, k), CR, LF)
                            /\ SubSeq(r.sent, At[k] + 1, At[k + 1]) = Line(r, k) \o <<CR, LF>>
      /\ Len(r.sent) = At[n + 2] + Len(r.body)
      /\ SubSeq(r.sent, At[n + 2] + 1, Len(r.sent)) = r.body

ASSUME RequestsAssumption ==
  \A r \in Requests : r.sent \in Seq(Nat) /\ (r.valid => WellFormed(r))

(* The type of a file, by what follows the last '.' of its name.           *)
HasType(name, type) ==
  IF \E i \in DOMAIN name : name[i] = DOT /\ SubSeq(name, i, Len(name)) \in DOMAIN MimeTypes
                             /\ \A j \in i + 1..Len(name) : name[j] # DOT
    THEN \E i \in DOMAIN name : /\ name[i] = DOT /\ \A j \in i + 1..Len(name) : name[j] # DOT
                                /\ type = MimeTypes[SubSeq(name, i, Len(name))]
    ELSE type = TextPlain

(* A directory has at least the rows of "." and "..".                      *)
ASSUME FilesAssumption ==
  \A fs \in FileSystems : \A p \in DOMAIN fs :
    /\ p \in Seq(Nat) /\ fs[p].content \in Seq(Nat)
    /\ IF fs[p].dir THEN fs[p].content # <<>> ELSE HasType(p, fs[p].type)

VARIABLES
  impl,      \* "c" or "cpp"
  request,   \* what the client sends: [sent, valid, method, url, path, version, headers, body]
  arrived,   \* bytes of request.sent that reached the server's kernel
  taken,     \* of those, bytes that readv() has taken
  peer,      \* "open", "eof" (the client has ended its side), "reset", or
             \* "stalled" (it does not read, and its socket is full)
  files,     \* the file system
  gone,      \* the file the request names has been removed from it
  pc,        \* where processRead() and what follows it are
  readBuf, writeBuf,
  req, resp, \* conn->req and conn->resp
  row,       \* the next chunk of the file or row of the directory
  received   \* what has reached the client: lines, then chunks or rows

vars == <<impl, request, arrived, taken, peer, files, gone, pc, readBuf, writeBuf,
          req, resp, row, received>>

env == <<impl, request, files>>

(* What stat() and open() find.                                            *)
Disk == [p \in DOMAIN files \ (IF gone THEN {request.path} ELSE {}) |-> files[p]]

(* The items of a response: a status line is its code, a header line its   *)
(* value, and these.                                                       *)
EmptyLine == 1
DirHead   == 800
DirTail   == 899

Append_(b, items) == IF impl = "c" THEN appendDataBuffer(b, items) ELSE appendString(b, items)

(* initTcpConnection(), TcpConnection::TcpConnection(): two empty buffers, *)
(* a parser at the request line, a channel for reading.                    *)
initTcpConnection ==
  /\ readBuf = initBuffer(Capacity)
  /\ writeBuf = initBuffer(Capacity)
  /\ req = initHttpRequest
  /\ resp = initHttpResponse

Init ==
  /\ impl \in {"c", "cpp"}
  /\ request \in Requests
  /\ files \in FileSystems /\ gone = FALSE
  /\ arrived = 0 /\ taken = 0 /\ peer = "open"
  /\ pc = "idle"
  /\ initTcpConnection
  /\ row = 0 /\ received = <<>>

-----------------------------------------------------------------------------
(* The environment.                                                        *)

(* The next piece of the request reaches the server.  There is one read    *)
(* that gives bytes: what arrives behind it is never looked at.            *)
Arrive ==
  /\ peer = "open" /\ pc = "idle"
  /\ \E n \in arrived + 1..Len(request.sent) : arrived' = n
  /\ UNCHANGED <<env, taken, peer, gone, pc, readBuf, writeBuf, req, resp, row, received>>

(* The client ends its side, or the connection is reset; a reset discards  *)
(* what has arrived and was not read.                                      *)
Leave(how) ==
  /\ pc \notin {"closed", "leaked", "crashed"}
  /\ peer = "open" \/ (peer \in {"eof", "stalled"} /\ how = "reset")
  /\ peer' = how
  /\ UNCHANGED <<env, arrived, taken, gone, pc, readBuf, writeBuf, req, resp, row, received>>

(* The client does not read any more, and what the kernel can hold for it  *)
(* is full.                                                                *)
Stall ==
  /\ pc \in {"respond", "open", "sendFile", "sendDir"}
  /\ peer \in {"open", "eof"}
  /\ peer' = "stalled"
  /\ UNCHANGED <<env, arrived, taken, gone, pc, readBuf, writeBuf, req, resp, row, received>>

(* The file the request names vanishes.                                    *)
Unlink ==
  /\ request.path \in DOMAIN Disk
  /\ pc \in {"idle", "parse", "respond", "open"}
  /\ gone' = TRUE
  /\ UNCHANGED <<env, arrived, taken, peer, pc, readBuf, writeBuf, req, resp, row, received>>

-----------------------------------------------------------------------------
(* What readv() can deliver.                                               *)
Incoming ==
  SubSeq(request.sent, taken + 1,
         Min({arrived, taken + bufferWriteAbleSize(readBuf) + TmpSize}))

(* processRead() of the C program.  A read that gives nothing returns      *)
(* early: the DELETE of that branch is compiled only with _SEND_MSG_AUTO.  *)
processRead_c ==
  /\ impl = "c" /\ pc = "idle"
  /\ \/ /\ peer # "reset"
        /\ \E in \in {Incoming} \ {<<>>} :
             /\ readBuf' = socketReadBuffer(readBuf, in)
             /\ taken' = taken + Len(in)
        /\ pc' = "parse"
     \/ /\ peer = "reset" \/ (peer = "eof" /\ Incoming = <<>>)
        /\ UNCHANGED <<readBuf, taken, pc>>
  /\ UNCHANGED <<env, arrived, peer, gone, writeBuf, req, resp, row, received>>

(* TcpConnection::processRead(): a read that gives nothing goes on to the  *)
(* DELETE.  Bytes that do not fit the room are read over those that do; if *)
(* they are longer than it they run over the end of the block.             *)
processRead_cpp ==
  /\ impl = "cpp" /\ pc = "idle"
  /\ \/ /\ peer # "reset"
        /\ \E in \in {Incoming} \ {<<>>} :
             LET room   == bufferWriteAbleSize(readBuf)
                 excess == Max({Len(in) - room, 0})
             IN  /\ \E junk \in [1..excess -> JunkBytes] : readBuf' = socketRead(readBuf, in, junk)
                 /\ pc' \in IF excess > room THEN {"parse", "crashed"} ELSE {"parse"}
                 /\ taken' = taken + Len(in)
     \/ /\ peer = "reset" \/ (peer = "eof" /\ Incoming = <<>>)
        /\ pc' = "delete"
        /\ UNCHANGED <<readBuf, taken>>
  /\ UNCHANGED <<env, arrived, peer, gone, writeBuf, req, resp, row, received>>

-----------------------------------------------------------------------------
(* One turn of the loop of parseHttpRequest() in C.  The flag is looked at *)
(* only behind the loop, so a step that returns false is tried again on    *)
(* the same bytes.                                                         *)
parseHttpRequest_c ==
  /\ impl = "c" /\ pc = "parse"
  /\ \E o \in IF req.curState = "ParseReqLine" THEN parseHttpRequestLine(req, readBuf)
                                               ELSE parseHttpRequestHeader(req, readBuf) :
       /\ req' = o.req
       /\ readBuf' = o.buf
       /\ pc' = IF o.flag = "crash" THEN "crashed"
                ELSE IF o.req.curState = "ParseReqDone" THEN "respond" ELSE "parse"
  /\ UNCHANGED <<env, arrived, taken, peer, gone, writeBuf, resp, row, received>>

(* A failed step of the C++ parser: processRead() puts the 400 into the    *)
(* write buffer, which nothing sends, and goes on to the DELETE.           *)
BadRequest == 400

(* Fault: a step that fails does not leave the loop.                       *)
parseHttpRequest_cpp_NoReturn ==
  /\ impl = "cpp" /\ pc = "parse"
  /\ \E o \in IF req.curState = "ParseReqLine" THEN parseRequestLine(req, readBuf)
                                               ELSE parseRequestHeader(req, readBuf) :
       /\ req' = o.req
       /\ readBuf' = o.buf
       /\ pc' = IF o.flag = "crash" THEN "crashed"
                ELSE IF o.req.curState = "ParseReqDone" THEN "respond" ELSE "parse"
  /\ UNCHANGED <<env, arrived, taken, peer, gone, writeBuf, resp, row, received>>

(* One turn of the loop of HttpRequest::parseHttpRequest().                *)
parseHttpRequest_cpp ==
  /\ impl = "cpp" /\ pc = "parse"
  /\ \E o \in IF req.curState = "ParseReqLine" THEN parseRequestLine(req, readBuf)
                                               ELSE parseRequestHeader(req, readBuf) :
       /\ req' = o.req
       /\ readBuf' = o.buf
       /\ pc' = IF o.flag = "crash" THEN "crashed"
                ELSE IF o.flag = "false" THEN "delete"
                ELSE IF o.req.curState = "ParseReqDone" THEN "respond" ELSE "parse"
       /\ writeBuf' = IF o.flag = "false" THEN appendString(writeBuf, <<BadRequest>>) ELSE writeBuf
  /\ UNCHANGED <<env, arrived, taken, peer, gone, resp, row, received>>

-----------------------------------------------------------------------------
(* A blocking send() of what the buffer holds, and what the program makes  *)
(* of its result: everything goes, or the connection is reset half-way, or *)
(* it was reset before and send() returns -1.  While the client is stalled *)
(* send() does not return.                                                 *)
AfterSend(b, count) == IF impl = "c" THEN sendDataBuffer(b, count) ELSE sendData(b, count)

AppendAndSend(items) ==
  LET b == Append_(writeBuf, items)
      n == bufferReadAbleSize(b)
  IN  \/ /\ peer \in {"open", "eof"}
         /\ \E count \in 1..n :
              /\ writeBuf' = AfterSend(b, count)
              /\ received' = received \o SubSeq(Unread(b), 1, count)
              /\ peer' = IF count < n THEN "reset" ELSE peer
      \/ /\ peer = "reset"
         /\ writeBuf' = AfterSend(b, -1)
         /\ UNCHANGED <<received, peer>>

Head_(r) == <<r.status>> \o r.headers \o <<EmptyLine>>

(* What parseHttpRequest() does once a request is complete, in C:          *)
(* processHttpRequest() fills the response in and                          *)
(* prepareMsgHttpResponse() sends its head and calls the sender, which is  *)
(* NULL when the request was no GET.                                       *)
prepareMsgHttpResponse ==
  /\ impl = "c" /\ pc = "respond"
  /\ resp' = processHttpRequest(req, resp, Disk)
  /\ AppendAndSend(Head_(resp'))
  /\ pc' = IF resp'.sendDataFunc = "NULL" THEN "crashed" ELSE "open"
  /\ UNCHANGED <<env, arrived, taken, gone, readBuf, req, row>>

(* HttpResponse::prepareMsg(): m_info has no entry for the status of a     *)
(* response nobody filled in, and at() throws before anything is appended. *)
prepareMsg ==
  /\ impl = "cpp" /\ pc = "respond"
  /\ resp' = processHttpRequestCpp(req, resp, Disk)
  /\ IF resp'.status = 0
       THEN pc' = "crashed" /\ UNCHANGED <<peer, writeBuf, received>>
       ELSE pc' = "open" /\ AppendAndSend(Head_(resp'))
  /\ UNCHANGED <<env, arrived, taken, gone, readBuf, req, row>>

-----------------------------------------------------------------------------
(* The end of parseHttpRequest(): the parser is set back to the request    *)
(* line.                                                                   *)
RequestDone == pc' = "delete" /\ req' = [req EXCEPT !.curState = "ParseReqLine"]

Served == resp.fileName \in DOMAIN Disk

Content == IF Served THEN files[resp.fileName].content ELSE <<>>

(* sendFile(): open() and its assertion, then a chunk per turn of the loop *)
(* until read() gives none.  When read() fails the C program closes the    *)
(* client's descriptor, the C++ program the file's, and both try again.    *)
sendFile_open ==
  /\ pc = "open" /\ resp.sendDataFunc = "sendFile"
  /\ pc' = IF Served THEN "sendFile" ELSE "crashed"
  /\ row' = 1
  /\ UNCHANGED <<env, arrived, taken, peer, gone, readBuf, writeBuf, req, resp, received>>

sendFile_loop ==
  /\ pc = "sendFile"
  /\ \/ /\ row <= Len(Content)
        /\ AppendAndSend(<<Content[row]>>)
        /\ row' = row + 1 /\ UNCHANGED <<pc, req>>
     \/ /\ row > Len(Content)
        /\ RequestDone /\ UNCHANGED <<row, peer, writeBuf, received>>
     \/ /\ pc' = "readLoop"  \* read() gives -1
        /\ UNCHANGED <<row, peer, writeBuf, received, req>>
  /\ UNCHANGED <<env, arrived, taken, gone, readBuf, resp>>

(* sendDir(): scandir(), a row per entry, the title going out with the     *)
(* first, then the end of the page.  A directory that vanished leaves      *)
(* namelist as it was, and free() gets it.                                 *)
sendDir_open ==
  /\ pc = "open" /\ resp.sendDataFunc = "sendDir"
  /\ pc' \in IF Served THEN {"sendDir"} ELSE {"sendDir", "crashed"}
  /\ row' = 1
  /\ UNCHANGED <<env, arrived, taken, peer, gone, readBuf, writeBuf, req, resp, received>>

sendDir_loop ==
  /\ pc = "sendDir"
  /\ \/ /\ row <= Len(Content)
        /\ AppendAndSend(IF row = 1 THEN <<DirHead, Content[1]>> ELSE <<Content[row]>>)
        /\ row' = row + 1 /\ UNCHANGED <<pc, req>>
     \/ /\ row > Len(Content)
        /\ AppendAndSend(<<DirTail>>)
        /\ RequestDone /\ UNCHANGED row
  /\ UNCHANGED <<env, arrived, taken, gone, readBuf, resp>>

-----------------------------------------------------------------------------
(* detroyTcpConnection(), run by the loop for the DELETE: the descriptor   *)
(* is closed only if both buffers are empty; otherwise it is no longer     *)
(* watched and nobody will close it.                                       *)
Drained == bufferReadAbleSize(readBuf) = 0 /\ bufferReadAbleSize(writeBuf) = 0

detroyTcpConnection ==
  /\ impl = "c" /\ pc = "delete"
  /\ pc' = IF Drained THEN "closed" ELSE "leaked"
  /\ UNCHANGED <<env, arrived, taken, peer, gone, readBuf, writeBuf, req, resp, row, received>>

(* TcpConnection::destroy() and ~TcpConnection(), likewise.                *)
destroy ==
  /\ impl = "cpp" /\ pc = "delete"
  /\ pc' = IF Drained THEN "closed" ELSE "leaked"
  /\ UNCHANGED <<env, arrived, taken, peer, gone, readBuf, writeBuf, req, resp, row, received>>

Server ==
  \/ processRead_c \/ processRead_cpp
  \/ parseHttpRequest_c \/ parseHttpRequest_cpp
  \/ prepareMsgHttpResponse \/ prepareMsg
  \/ sendFile_open \/ sendFile_loop \/ sendDir_open \/ sendDir_loop
  \/ detroyTcpConnection \/ destroy

Next == Server \/ Arrive \/ Leave("eof") \/ Leave("reset") \/ Stall \/ Unlink

(* The loop's thread keeps running, up to a send() that waits for a client *)
(* that is stalled.  The client owes nothing, not even to read.            *)
Spec == Init /\ [][Next]_vars /\ WF_vars(Server)

-----------------------------------------------------------------------------
(* The properties.                                                         *)

(* Everything up to the empty line has been read, and for the C++ program, *)
(* whose second vector is wrong, it went into the room of the buffer.      *)
HeadRead ==
  /\ request.valid
  /\ taken >= Len(request.sent) - Len(request.body)
  /\ impl = "cpp" => taken <= Capacity

(* The headers as the C++ map keeps them: the first value of each key.     *)
FirstOfEachKey(h) ==
  LET first == {i \in DOMAIN h : \A j \in 1..i - 1 : h[j][1] # h[i][1]}
  IN  {h[i] : i \in first}

(* The parser understands a request whose head is complete exactly as the  *)
(* client meant it, wherever the bytes were cut on their way and whether   *)
(* or not they fit the first vector of readv(), and it leaves the bytes of *)
(* the body alone: socketReadBuffer() / socketRead(), extendRoom(), the    *)
(* request line and header steps and their read positions together.        *)
ParsedAsSent ==
  (HeadRead /\ pc = "respond") =>
    /\ req.method = request.method /\ req.url = request.url
    /\ req.version = request.version
    /\ IF impl = "c" THEN req.headers = request.headers
                     ELSE ToSet(req.headers) = FirstOfEachKey(request.headers)
    /\ Unread(readBuf) = SubSeq(request.body, 1,
                               taken - (Len(request.sent) - Len(request.body)))

(* The responses to a GET of path: the file, the directory or the page for *)
(* what is not there, with the two headers in either order.                *)
Page(status, headers, content) ==
  {<<status>> \o h \o <<EmptyLine>> \o content : h \in headers}

ResponsesFor(path, fs) ==
  IF path \notin DOMAIN fs
    THEN Page(404, {<<TextHtml>>},
              IF NotFoundFile \in DOMAIN fs THEN fs[NotFoundFile].content ELSE <<>>)
  ELSE IF fs[path].dir
    THEN Page(200, {<<TextHtml>>}, <<DirHead>> \o fs[path].content \o <<DirTail>>)
    ELSE LET type == fs[path].type  length == Len(fs[path].content)
         IN  Page(200, {<<type, length>>, <<length, type>>}, fs[path].content)

(* A GET whose head has been read, and that the file system can answer: a  *)
(* directory must not vanish between stat() and scandir().                 *)
Get == HeadRead /\ IsGet(request.method) /\ ~(gone /\ files[request.path].dir)

Acceptable ==
  ResponsesFor(request.path, files) \cup (IF gone THEN ResponsesFor(request.path, Disk) ELSE {})

(* What the client of a GET receives is at every moment the beginning of a *)
(* correct response, and a whole one when the connection is given up       *)
(* without having been reset: percent-decoding, the file type, the head,   *)
(* and the loop that refills and drains the write buffer chunk by chunk.   *)
ResponseInOrder ==
  Get => /\ \E r \in Acceptable : IsPrefix(received, r)
         /\ (pc = "delete" /\ peer # "reset") => received \in Acceptable

(* A complete GET without a body, of something there is a page for, gets   *)
(* its response and its descriptor is released, unless the client resets   *)
(* the connection or stops reading, the file vanishes or read() of it      *)
(* fails.                                                                  *)
Answerable ==
  /\ Get
  /\ taken = Len(request.sent) /\ request.body = <<>>
  /\ impl = "c" => Len(request.headers) <= HeaderSize
  /\ request.path \in DOMAIN files \/ NotFoundFile \in DOMAIN files

CompleteGetAnswered ==
  (pc = "parse" /\ Answerable) ~>
    \/ pc = "closed" /\ received \in Acceptable
    \/ peer \in {"reset", "stalled"} \/ gone \/ pc = "readLoop"

(* The parser leaves its loop whatever the client sent: in C++ always, in  *)
(* C once the bytes hold a request line and an empty line.                 *)
HasEmptyLine(s) == \E i \in 3..Len(s) - 3 : SubSeq(s, i, i + 3) = <<CR, LF, CR, LF>>

ParserStops ==
  (pc = "parse" /\ (impl = "cpp" \/ (request.valid
                                       /\ HasEmptyLine(SubSeq(request.sent, 1, taken)))))
    ~> pc # "parse"

(* The offsets stay inside of the block, in their order, as long as the    *)
(* socket takes what is sent: in C a failed send() moves readPos back.     *)
InBlock(b) == 0 <= b.readPos /\ b.readPos <= b.writePos /\ b.writePos <= Len(b.data)

OffsetsInBlock ==
  /\ impl = "cpp" \/ peer # "reset" => InBlock(writeBuf)
  /\ impl = "c" \/ taken <= Capacity => InBlock(readBuf)
=============================================================================
