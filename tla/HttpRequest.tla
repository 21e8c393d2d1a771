---------------------------- MODULE HttpRequest -----------------------------
(***************************************************************************)
(* The request parser and the choice of the response in both HTTP          *)
(* reactors: HttpRequest.c and HttpRequest.cpp.  Everything here is a      *)
(* function of a request record, of the read buffer and of the file system *)
(* (a function from paths to [dir, content]).  Text is a sequence of byte     *)
(* codes; a method, a version, a header key or value is cut down to a byte *)
(* or two, a url keeps its '/', '%' and '.' bytes.  One parser step gives  *)
(* the set of its outcomes, records [flag, req, buf]: flag is what the C   *)
(* or C++ function returns, or "crash" when an assert() fails or the       *)
(* function works on the null pointer memmem() gave it.                    *)
(***************************************************************************)
EXTENDS HttpBuffer, SequencesExt

CONSTANTS
  HeaderSize,   \* entries of the C header array (12 in the code)
  MimeTypes     \* the table of getFileType(): suffix -> content type

SP      == 32
COLON   == 58
SLASH   == 47
PERCENT == 37
DOT     == 46

(* "GET" in its spellings, cut down to the first byte: strcasecmp().       *)
IsGet(method) == method \in {<<71>>, <<103>>}

(* A content type, and the type of a name without a known suffix.          *)
TextPlain == 600
TextHtml  == 601

NotFoundFile == <<52, DOT, 104>>  \* "404.html"
HtmlSuffix   == <<DOT, 104>>      \* ".html"

ASSUME MimeTypesAssumption ==
  /\ \A suffix \in DOMAIN MimeTypes : MimeTypes[suffix] \in Nat
  /\ HtmlSuffix \in DOMAIN MimeTypes /\ MimeTypes[HtmlSuffix] = TextHtml

-----------------------------------------------------------------------------
(* initHttpRequest(), HttpRequest::reset().                                *)
initHttpRequest ==
  [curState |-> "ParseReqLine", method |-> <<>>, url |-> <<>>, version |-> <<>>,
   headers |-> <<>>]

(* The three calls of splitRequestLine(): the words before, between and    *)
(* behind the first two spaces of the line.  There is no element when one  *)
(* of the two is missing, which fails the assertion of its call.           *)
splitRequestLine(line) ==
  LET spaces == {i \in DOMAIN line : line[i] = SP}
  IN  {[method  |-> SubSeq(line, 1, p[1] - 1),
        url     |-> SubSeq(line, p[1] + 1, p[2] - 1),
        version |-> SubSeq(line, p[2] + 1, Len(line))] :
         p \in {q \in spaces \X spaces :
                 q[1] < q[2] /\ \A k \in spaces : k \in {q[1], q[2]} \/ k > q[2]}}

Outcome(flag, req, buf) == [flag |-> flag, req |-> req, buf |-> buf]

(* The line of n bytes is accepted: the three words are stored and the     *)
(* read position moves behind it, or an assertion stops the process.       *)
AcceptLine(req, buf, n) ==
  LET words == splitRequestLine(BytesFrom(buf.data, buf.readPos, n))
  IN  IF words = {}
        THEN {Outcome("crash", req, buf)}
        ELSE {Outcome("true",
                      [req EXCEPT !.curState = "ParseReqHeader", !.method = w.method,
                                  !.url = w.url, !.version = w.version],
                      [buf EXCEPT !.readPos = @ + n + 2]) : w \in words}

(* parseHttpRequestLine(): the length is tested for being other than zero, *)
(* so the null pointer of a line that is not complete goes on to memmem(). *)
parseHttpRequestLine(req, buf) ==
  LET n == findCRLFBuffer(buf)
  IN  CASE n = -1 -> {Outcome("crash", req, buf)}
        [] n = 0  -> {Outcome("false", req, buf)}
        [] OTHER  -> AcceptLine(req, buf, n)

(* HttpRequest::parseRequestLine(): tested for being positive; what        *)
(* int(nullptr - start) is depends on the address of the block.            *)
parseRequestLine(req, buf) ==
  LET n == findCRLF(buf)
  IN  CASE n = -1 -> {Outcome("false", req, buf), Outcome("crash", req, buf)}
        [] n = 0  -> {Outcome("false", req, buf)}
        [] OTHER  -> AcceptLine(req, buf, n)

(* addHttpRequestHeader(): the next entry of the array, or the memory      *)
(* behind it, whose loss goes unnoticed or stops the process.              *)
addHttpRequestHeader(req, key, value) ==
  [req EXCEPT !.headers = Append(@, <<key, value>>)]

(* HttpRequest::addHeader(): an empty key or value is dropped and a key    *)
(* that is there keeps its first value.  The map is kept as a sequence in  *)
(* the order of insertion.                                                 *)
addHeader(req, key, value) ==
  IF key = <<>> \/ value = <<>> \/ \E i \in DOMAIN req.headers : req.headers[i][1] = key
    THEN req
    ELSE [req EXCEPT !.headers = Append(@, <<key, value>>)]

(* The two parts of a header line of n bytes with ": " at offset colon.    *)
HeaderKey(buf, colon) == BytesFrom(buf.data, buf.readPos, colon)

(* Fault: the value starts at the space.                                   *)
HeaderValue_Space(buf, colon, n) ==
  BytesFrom(buf.data, buf.readPos + colon + 1, n - colon - 1)

HeaderValue(buf, colon, n) ==
  BytesFrom(buf.data, buf.readPos + colon + 2, n - colon - 2)

Skip(buf, n) == [buf EXCEPT !.readPos = @ + n]

(* parseHttpRequestHeader(): a line with ": " is a header, a line without  *)
(* ends the headers and is skipped as if it were the empty one.            *)
parseHttpRequestHeader(req, buf) ==
  LET n     == findCRLFBuffer(buf)
      colon == FindPair(BytesFrom(buf.data, buf.readPos, n), COLON, SP)
  IN  IF n = -1
        THEN {Outcome("false", req, buf)}
      ELSE IF colon # -1
        THEN {Outcome(flag,
                      addHttpRequestHeader(req, HeaderKey(buf, colon), HeaderValue(buf, colon, n)),
                      Skip(buf, n + 2)) :
                flag \in IF Len(req.headers) < HeaderSize THEN {"true"} ELSE {"true", "crash"}}
        ELSE {Outcome("true", [req EXCEPT !.curState = "ParseReqDone"], Skip(buf, 2))}

(* HttpRequest::parseRequestHeader().                                      *)
parseRequestHeader(req, buf) ==
  LET n     == findCRLF(buf)
      colon == FindPair(BytesFrom(buf.data, buf.readPos, n), COLON, SP)
  IN  IF n = -1
        THEN {Outcome("false", req, buf)}
      ELSE IF colon # -1
        THEN {Outcome("true",
                      addHeader(req, HeaderKey(buf, colon), HeaderValue(buf, colon, n)),
                      Skip(buf, n + 2))}
        ELSE {Outcome("true", [req EXCEPT !.curState = "ParseReqDone"], Skip(buf, 2))}

-----------------------------------------------------------------------------
(* hexToDec(), for the characters isxdigit() accepts.                      *)
Isxdigit(c) == c \in 48..57 \cup 65..70 \cup 97..102

hexToDec(c) ==
  CASE c \in 48..57  -> c - 48
    [] c \in 97..102 -> c - 97 + 10
    [] c \in 65..70  -> c - 65 + 10
    [] OTHER         -> 0

(* A '%' and two hexadecimal digits at place i of the string s.            *)
Escape(s, i) ==
  i + 2 <= Len(s) /\ s[i] = PERCENT /\ Isxdigit(s[i + 1]) /\ Isxdigit(s[i + 2])

(* The byte at place i, or the one that the escape there stands for.       *)
DecodedAt(s, i) ==
  IF Escape(s, i) THEN hexToDec(s[i + 1]) * 16 + hexToDec(s[i + 2]) ELSE s[i]

(* Where `from` points next.                                               *)
Following(s, i) == IF Escape(s, i) THEN i + 3 ELSE i + 1

(* The string that ends at the first NUL.                                  *)
CString(s) ==
  LET nul == {i \in DOMAIN s : s[i] = NUL}
  IN  IF nul = {} THEN s ELSE SubSeq(s, 1, Min(nul) - 1)

(* decodeMsg() in C decodes the url in place: `to` never runs ahead of     *)
(* `from`.  mem is the url with its terminating NUL; the loop stops when   *)
(* from points at a NUL, then writes one at to.  It takes as many turns as *)
(* the url has bytes, or less.                                             *)
decodeMsg(url) ==
  LET Turn[st \in [mem : Seq(Nat), to : Nat, from : Nat]] ==
        IF st.mem[st.from] = NUL
          THEN st
          ELSE [mem  |-> [st.mem EXCEPT ![st.to] = DecodedAt(st.mem, st.from)],
                to   |-> st.to + 1,
                from |-> Following(st.mem, st.from)]
      After[n \in 0..Len(url)] ==
        IF n = 0 THEN [mem |-> Append(url, NUL), to |-> 1, from |-> 1] ELSE Turn[After[n - 1]]
      end == After[Len(url)]
  IN  CString([end.mem EXCEPT ![end.to] = NUL])

(* HttpRequest::decodeMsg(): the decoded bytes are appended to a new       *)
(* string, whose users read it up to the first NUL.                        *)
decodeMsgCpp(msg) ==
  LET From[i \in 1..Len(msg) + 3] ==
        IF i > Len(msg) THEN <<>> ELSE <<DecodedAt(msg, i)>> \o From[Following(msg, i)]
  IN  CString(From[1])

(* Fault: the name is cut at its first '.'.                                *)
getFileType_FirstDot(name) ==
  LET dots   == {i \in DOMAIN name : name[i] = DOT}
      suffix == SubSeq(name, Min(dots), Len(name))
  IN  IF dots # {} /\ suffix \in DOMAIN MimeTypes THEN MimeTypes[suffix] ELSE TextPlain

(* getFileType(): by what follows the last '.' of the name.                *)
getFileType(name) ==
  LET dots   == {i \in DOMAIN name : name[i] = DOT}
      suffix == SubSeq(name, Max(dots), Len(name))
  IN  IF dots # {} /\ suffix \in DOMAIN MimeTypes THEN MimeTypes[suffix] ELSE TextPlain

-----------------------------------------------------------------------------
(* A response: `headers` are the values of Content-type and, for a file,   *)
(* Content-length.  initHttpResponse() and HttpResponse::HttpResponse().   *)
initHttpResponse ==
  [status |-> 0, headers |-> <<>>, fileName |-> <<>>, sendDataFunc |-> "NULL"]

Response(status, headers, fileName, func) ==
  [status |-> status, headers |-> headers, fileName |-> fileName, sendDataFunc |-> func]

(* The path of the file a decoded url names: "/" is the working directory. *)
RootDir == <<DOT, SLASH>>

FileOf(url) == IF url = <<SLASH>> THEN RootDir ELSE SubSeq(url, 2, Len(url))

(* processHttpRequest(): what is not a GET leaves the response as          *)
(* initHttpResponse() made it.                                             *)
processHttpRequest(req, resp, files) ==
  LET file == FileOf(decodeMsg(req.url))
  IN  IF ~IsGet(req.method) THEN resp
      ELSE IF file \notin DOMAIN files
        THEN Response(404, <<TextHtml>>, NotFoundFile, "sendFile")
      ELSE IF files[file].dir
        THEN Response(200, <<TextHtml>>, file, "sendDir")
        ELSE Response(200, <<getFileType(file), Len(files[file].content)>>, file, "sendFile")

(* HttpRequest::processHttpRequest(): std::map orders Content-length       *)
(* before Content-type.                                                    *)
processHttpRequestCpp(req, resp, files) ==
  LET file == FileOf(decodeMsgCpp(req.url))
  IN  IF ~IsGet(req.method) THEN resp
      ELSE IF file \notin DOMAIN files
        THEN Response(404, <<TextHtml>>, NotFoundFile, "sendFile")
      ELSE IF files[file].dir
        THEN Response(200, <<TextHtml>>, file, "sendDir")
        ELSE Response(200, <<Len(files[file].content), getFileType(file)>>, file, "sendFile")
=============================================================================
