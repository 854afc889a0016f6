----------------------------- MODULE ErrorPath -----------------------------
(***************************************************************************)
(* How a handler's error reaches an HTTP client: the error wrapper         *)
(* interceptor localizes it and makes it a gRPC status, the gateway's      *)
(* ErrorHandler makes the status a JSON reply.  Requests run concurrently  *)
(* and may return the same *errs.Error, a package-level sentinel.  A Go    *)
(* string is two words, written and read one at a time without a lock.     *)
(***************************************************************************)
EXTENDS Integers, Sequences

CONSTANTS
  Reqs,             \* concurrent requests; r also names the error r allocates
  Sentinels,        \* *errs.Error values shared by all handlers
  Headers,          \* Accept-Language values: sequences of primary tags
  Dirs,             \* directories of translations: see File
  FallbackLang,     \* Localizer.fallback
  DebuggerModes,    \* values WithDebuggerEnabled may be given
  Nil

\* A directory is the sequence of its entries, in the order of fs.ReadDir:
\* what the name says, "dir" for a subdirectory, and whether it translates
\* the application's codes and INTERNAL_SERVER_ERROR.
File == [lang : STRING, ext : {"yaml", "yml", "other", "dir"}, keys : SUBSET {"app", "internal"}]

ASSUME ErrorPathAssumption ==
  /\ Reqs \cap Sentinels = {} /\ Nil \notin Reqs \cup Sentinels
  /\ DebuggerModes \subseteq BOOLEAN
  /\ Dirs \subseteq Seq(File)

Objects == Reqs \cup Sentinels
Words == {"ptr", "len"}
XCodes == {"NotFound", "Unknown", "Internal"}
StatusCodes == {"PermissionDenied", "InvalidArgument", "Unknown", "Internal"}

\* What a message says: in which language, interpolating whose metadata.
Text(l, d) == [lang |-> l, data |-> d]
English == Text("english", Nil)
Original == Text("original", Nil)   \* of an error that is not an *errs.Error

\* A string value: both of its words.
Str(t) == [w \in Words |-> t]

VARIABLES
  pc,       \* where each request is
  debugger, \* cfg.debuggerEnabled, the same for all
  tables,   \* Localizer.translations: what each language translates
  header,   \* its Accept-Language
  err,      \* what its handler returned
  xcode,    \* StatusCode of each *errs.Error
  message,  \* Message, word by word
  meta,     \* Metadata: the request that set it, or Nil
  todo,     \* words the request still has to write or read
  text,     \* the localized message it writes
  seen,     \* the message it has read
  status,   \* the status the interceptor returns
  reply,    \* the HTTP reply
  logged    \* requests whose original error was logged

config == <<debugger, tables>>
vars == <<pc, config, header, err, xcode, message, meta, todo, text, seen, status, reply, logged>>

NoErr == [kind |-> "none", obj |-> Nil, code |-> "OK", fields |-> FALSE, meta |-> FALSE]
\* A status and its details: an ErrorInfo (reason and metadata), a BadRequest
\* (fields), a DebugInfo (debug).
Status(c, t, a, d, f, b) ==
  [code |-> c, text |-> t, reason |-> a, data |-> d, fields |-> f, debug |-> b]

NoStatus == Status("OK", Str(English), "none", Nil, FALSE, FALSE)
NoReply == [http |-> 0, code |-> "none", text |-> Str(English), data |-> Nil]
-----------------------------------------------------------------------------
(* Language *)

\* GetLanguageFromContext: the primary tag of the first language, and "en"
\* when the header is absent.
Language(r) == IF header[r] = <<>> THEN "en" ELSE header[r][1]

\* The last file of a language replaces those before it; other entries are
\* skipped.
NewFromFS(dir) ==
  LET files == SelectSeq(dir, LAMBDA f : f.ext \in {"yaml", "yml"})
      Of(l) == SelectSeq(files, LAMBDA f : f.lang = l)
  IN [l \in {files[i].lang : i \in DOMAIN files} |-> Of(l)[Len(Of(l))].keys]

\* Localizer.lookup: the language, else the fallback, else nothing.
Lookup(key, l) ==
  LET Has(t) == t \in DOMAIN tables /\ key \in tables[t]
  IN IF Has(l) THEN l ELSE IF Has(FallbackLang) THEN FallbackLang ELSE "none"

GenericText(r) ==
  LET l == Lookup("internal", Language(r))
  IN Text(IF l = "none" THEN "internal_server_error" ELSE l, Nil)
-----------------------------------------------------------------------------
Init ==
  /\ pc = [r \in Reqs |-> "handler"]
  /\ debugger \in DebuggerModes
  /\ \E dir \in Dirs : tables = NewFromFS(dir)
  /\ header \in [Reqs -> Headers]
  /\ err = [r \in Reqs |-> NoErr]
  /\ xcode \in [Objects -> XCodes]
  /\ message = [o \in Objects |-> Str(English)]
  /\ meta = [o \in Objects |-> Nil]
  /\ todo = [r \in Reqs |-> {}]
  /\ text = [r \in Reqs |-> English]
  /\ seen = [r \in Reqs |-> Str(English)]
  /\ status = [r \in Reqs |-> NoStatus]
  /\ reply = [r \in Reqs |-> NoReply]
  /\ logged = {}
-----------------------------------------------------------------------------
(* Handlers *)

ReturnNil(r) ==
  /\ pc[r] = "handler"
  /\ pc' = [pc EXCEPT ![r] = "done"]
  /\ reply' = [reply EXCEPT ![r].http = 200]
  /\ UNCHANGED <<config, header, err, xcode, message, meta, todo, text, seen, status, logged>>

\* An *errs.Error of the handler's own or a sentinel, perhaps WithMetadata.
ReturnXError(r) ==
  /\ pc[r] = "handler"
  /\ pc' = [pc EXCEPT ![r] = "localize"]
  /\ \E o \in {r} \cup Sentinels, m \in BOOLEAN :
       /\ err' = [err EXCEPT ![r] = [NoErr EXCEPT !.kind = "x", !.obj = o, !.meta = m]]
       /\ meta' = IF m THEN [meta EXCEPT ![o] = r] ELSE meta
  /\ UNCHANGED <<config, header, xcode, message, todo, text, seen, status, reply, logged>>

\* Mutant: the result of errors.As is ignored.
ReturnStatusAsX(r) ==
  /\ pc[r] = "handler"
  /\ pc' = [pc EXCEPT ![r] = "localize"]
  /\ \E c \in StatusCodes :
       err' = [err EXCEPT ![r] = [NoErr EXCEPT !.kind = "status", !.code = c]]
  /\ UNCHANGED <<config, header, xcode, message, meta, todo, text, seen, status, reply, logged>>

\* A gRPC status (errs.Validation's carries field violations), or any other
\* error, which status.FromError reports as Unknown.
ReturnStatus(r) ==
  /\ pc[r] = "handler"
  /\ pc' = [pc EXCEPT ![r] = "convert"]
  /\ \E c \in StatusCodes, f \in BOOLEAN :
       /\ f => c = "InvalidArgument"
       /\ err' = [err EXCEPT ![r] = [NoErr EXCEPT !.kind = "status", !.code = c, !.fields = f]]
  /\ UNCHANGED <<config, header, xcode, message, meta, todo, text, seen, status, reply, logged>>
-----------------------------------------------------------------------------
(* ConvertGRPCErrorToHTTPError, for an *errs.Error *)

Obj(r) == err[r].obj

\* Mutant: an error without translation is written too, as its code.
LocalizeAlways(r) ==
  /\ pc[r] = "localize"
  /\ pc' = [pc EXCEPT ![r] = "write"]
  /\ text' = [text EXCEPT ![r] = Text(Lookup("app", Language(r)), meta[Obj(r)])]
  /\ todo' = [todo EXCEPT ![r] = Words]
  /\ UNCHANGED <<config, header, err, xcode, message, meta, seen, status, reply, logged>>

\* localizeMessage; a code that has no translation leaves Message alone.
Localize(r) ==
  /\ pc[r] = "localize"
  /\ LET l == Lookup("app", Language(r)) IN
       \/ /\ l # "none"
          /\ pc' = [pc EXCEPT ![r] = "write"]
          /\ text' = [text EXCEPT ![r] = Text(l, meta[Obj(r)])]
       \/ /\ l = "none"
          /\ pc' = [pc EXCEPT ![r] = "read"]
          /\ UNCHANGED text
  /\ todo' = [todo EXCEPT ![r] = Words]
  /\ UNCHANGED <<config, header, err, xcode, message, meta, seen, status, reply, logged>>

\* xErr.Message = localized
WriteMessage(r) ==
  /\ pc[r] = "write"
  /\ \E w \in todo[r] :
       /\ message' = [message EXCEPT ![Obj(r)][w] = text[r]]
       /\ \/ todo[r] = {w} /\ pc' = [pc EXCEPT ![r] = "read"] /\ todo' = [todo EXCEPT ![r] = Words]
          \/ todo[r] # {w} /\ todo' = [todo EXCEPT ![r] = @ \ {w}] /\ UNCHANGED pc
  /\ UNCHANGED <<config, header, err, xcode, meta, text, seen, status, reply, logged>>

\* status.New(e.StatusCode, e.Message) in GRPCStatus
ReadMessage(r) ==
  /\ pc[r] = "read"
  /\ \E w \in todo[r] :
       /\ seen' = [seen EXCEPT ![r][w] = message[Obj(r)][w]]
       /\ todo' = [todo EXCEPT ![r] = @ \ {w}]
       /\ \/ todo[r] = {w} /\ pc' = [pc EXCEPT ![r] = "convert"]
          \/ todo[r] # {w} /\ UNCHANGED pc
  /\ UNCHANGED <<config, header, err, xcode, message, meta, text, status, reply, logged>>
-----------------------------------------------------------------------------
(* The status the interceptor returns *)

\* The generic error; b: with the original one as a DebugInfo.
Fallback(r, b) ==
  Status("Unknown", Str(GenericText(r)), "INTERNAL_SERVER_ERROR", Nil, FALSE, b)

Unhandled(r) == err[r].kind = "status" /\ err[r].code = "Unknown"

\* The status before Internal is hidden.
Classified(r) ==
  CASE err[r].kind = "x" ->
         Status(xcode[Obj(r)], seen[r], "app", meta[Obj(r)], FALSE, FALSE)
    [] err[r].kind = "status" /\ ~Unhandled(r) ->
         Status(err[r].code, Str(Original), "none", Nil, err[r].fields, FALSE)
    [] OTHER -> Fallback(r, debugger)

\* Mutant: Internal is passed on.
HideNothing(r, s) == s

\* Internal never leaves the server.
HideInternal(r, s) == IF s.code = "Internal" THEN Fallback(r, FALSE) ELSE s

Convert(r) ==
  /\ pc[r] = "convert"
  /\ pc' = [pc EXCEPT ![r] = "gateway"]
  /\ status' = [status EXCEPT ![r] = HideInternal(r, Classified(r))]
  /\ logged' = IF Unhandled(r) /\ ~debugger THEN logged \cup {r} ELSE logged
  /\ UNCHANGED <<config, header, err, xcode, message, meta, todo, text, seen, reply>>
-----------------------------------------------------------------------------
(* ErrorHandler *)

\* runtime.HTTPStatusFromCode
HTTPStatusFromCode(c) ==
  CASE c = "NotFound" -> 404
    [] c = "InvalidArgument" -> 400
    [] c = "PermissionDenied" -> 403
    [] OTHER -> 500

\* The ErrorInfo gives the code and the metadata, a BadRequest overrides both;
\* a DebugInfo is dropped.
ReplyCode(s) == IF s.fields THEN "VALIDATION_ERROR"
                ELSE IF s.reason = "none" THEN "UNKNOWN_ERROR" ELSE s.reason

ErrorHandler(r) ==
  /\ pc[r] = "gateway"
  /\ pc' = [pc EXCEPT ![r] = "done"]
  /\ LET s == status[r] IN
       reply' = [reply EXCEPT ![r] = [http |-> HTTPStatusFromCode(s.code), code |-> ReplyCode(s),
                                      text |-> s.text, data |-> s.data]]
  /\ UNCHANGED <<config, header, err, xcode, message, meta, todo, text, seen, status, logged>>

\* An error of the gateway itself, for instance an unknown route, is an
\* HTTPStatusError: its own status is the reply's.
GatewayRejects(r) ==
  /\ pc[r] = "handler"
  /\ pc' = [pc EXCEPT ![r] = "done"]
  /\ reply' = [reply EXCEPT ![r] = [NoReply EXCEPT !.http = 405, !.code = "UNKNOWN_ERROR"]]
  /\ UNCHANGED <<config, header, err, xcode, message, meta, todo, text, seen, status, logged>>
-----------------------------------------------------------------------------
Next ==
  \E r \in Reqs :
    \/ ReturnNil(r) \/ ReturnXError(r) \/ ReturnStatus(r) \/ GatewayRejects(r)
    \/ Localize(r) \/ WriteMessage(r) \/ ReadMessage(r)
    \/ Convert(r) \/ ErrorHandler(r)

Spec == Init /\ [][Next]_vars
-----------------------------------------------------------------------------
(* Properties *)

\* The languages a message may be in; "none" is not one.
Langs == {"en", "english", "original", "internal_server_error", FallbackLang}
           \cup {h[1] : h \in Headers \ {<<>>}}

Strings == [Words -> [lang : Langs, data : Reqs \cup {Nil}]]

TypeOK ==
  /\ pc \in [Reqs -> {"handler", "localize", "write", "read", "convert", "gateway", "done"}]
  /\ \A r \in Reqs : pc[r] \in {"localize", "write", "read"} => Obj(r) \in Objects
  /\ debugger \in DebuggerModes /\ tables \in {NewFromFS(dir) : dir \in Dirs}
  /\ header \in [Reqs -> Headers]
  /\ xcode \in [Objects -> XCodes]
  /\ message \in [Objects -> Strings] /\ seen \in [Reqs -> Strings]
  /\ meta \in [Objects -> Reqs \cup {Nil}]
  /\ todo \in [Reqs -> SUBSET Words]
  /\ \A r \in Reqs : pc[r] \in {"write", "read"} => todo[r] # {}
  /\ logged \subseteq Reqs

AppError(r) == pc[r] = "done" /\ err[r].kind = "x" /\ xcode[Obj(r)] # "Internal"

\* The message README and errs promise the client: in its own language or the
\* fallback's, else the English one of the error, with the request's metadata.
OwnData(r) == IF err[r].meta THEN r ELSE Nil

OwnText(r) ==
  LET l == Lookup("app", Language(r))
  IN IF l = "none" THEN English ELSE Text(l, OwnData(r))

OwnReply(r) == reply[r].text = Str(OwnText(r)) /\ reply[r].data = OwnData(r)

\* A request whose error value no other request has returned gets its own
\* message in its own language, with its own metadata.
UnsharedErrorIsOwn ==
  \A r \in Reqs :
    AppError(r) /\ (\A q \in Reqs \ {r} : Obj(q) # Obj(r)) => OwnReply(r)

\* What an HTTP client sees of an error that is not meant for it.  A gRPC status
\* Internal or Unknown and an error that is no status become the generic text in
\* the client's language, without detail, the debugger's included; so does an
\* *errs.Error of code Internal (one of code Unknown keeps its text).  An error
\* without a code is logged, or with the debugger only in the status's details.
\* A status of any other code is forwarded as it is.  grpc/middleware/doc.go:9-10
\* says less: status errors are "forwarded as-is", unhandled ones always logged.
InternalsHidden ==
  \A r \in Reqs :
    /\ pc[r] = "done" /\ err[r].kind = "status" =>
         IF err[r].code \in {"Internal", "Unknown"}
         THEN reply[r].text = Str(GenericText(r)) /\ reply[r].http = 500 /\ reply[r].data = Nil
         ELSE reply[r].text = Str(Original) /\ reply[r].http = HTTPStatusFromCode(err[r].code)
    /\ pc[r] = "done" /\ Unhandled(r) => IF debugger THEN status[r].debug ELSE r \in logged
    /\ pc[r] = "done" /\ err[r].kind = "x" /\ xcode[Obj(r)] = "Internal"
         => reply[r].text = Str(GenericText(r)) /\ reply[r].data = Nil

\* "The client's Accept-Language header is ... resolved automatically"
\* (README.md): whatever other requests return, the language of the reply is
\* the request's own.
LocalizedForRequest ==
  \A r \in Reqs : AppError(r) => \A w \in Words : reply[r].text[w].lang = OwnText(r).lang
=============================================================================
