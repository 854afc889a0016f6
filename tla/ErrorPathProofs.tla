-------------------------- MODULE ErrorPathProofs --------------------------
(***************************************************************************)
(* Proofs about ErrorPath, for any requests, sentinels, headers and         *)
(* directories of translations, with and without the debugger.              *)
(***************************************************************************)
EXTENDS ErrorPath, TLAPS

Texts == [lang : Langs, data : Reqs \cup {Nil}]

Errs == [kind : {"none", "x", "status"}, obj : Objects \cup {Nil}, code : StatusCodes \cup {"OK"},
         fields : BOOLEAN, meta : BOOLEAN]

Statuses == [code : StatusCodes \cup XCodes \cup {"OK"}, text : Strings,
             reason : {"none", "app", "INTERNAL_SERVER_ERROR"}, data : Reqs \cup {Nil},
             fields : BOOLEAN, debug : BOOLEAN]

\* The rest of the state, beside TypeOK.
DataOK ==
  /\ err \in [Reqs -> Errs] /\ text \in [Reqs -> Texts]
  /\ status \in [Reqs -> Statuses] /\ DOMAIN reply = Reqs

\* A request is where the kind of its error takes it.
KindMatches(r) ==
  /\ pc[r] = "handler" => err[r] = NoErr
  /\ err[r].kind = "x" => pc[r] # "handler" /\ Obj(r) \in {r} \cup Sentinels
  /\ err[r].kind # "x" => Obj(r) = Nil /\ pc[r] \notin {"localize", "write", "read"}
  /\ err[r].kind = "none" => pc[r] \in {"handler", "done"}

\* An error value no request has returned is as it was made.
Untouched ==
  \A o \in Objects : (\A q \in Reqs : Obj(q) # o) => message[o] = Str(English) /\ meta[o] = Nil

\* The request is the only one that has returned its error value.
Own(r) == err[r].kind = "x" /\ \A q \in Reqs \ {r} : Obj(q) # Obj(r)

\* What such a request has written and read so far is its own.
OwnSoFar(r) ==
  LET o == Obj(r) IN
  /\ meta[o] = OwnData(r)
  /\ pc[r] = "localize" => message[o] = Str(English)
  /\ pc[r] = "write" => text[r] = OwnText(r) /\ \A w \in Words \ todo[r] : message[o][w] = OwnText(r)
  /\ pc[r] \in {"read", "convert"} => message[o] = Str(OwnText(r))
  /\ pc[r] = "read" => \A w \in Words \ todo[r] : seen[r][w] = OwnText(r)
  /\ pc[r] = "convert" => seen[r] = Str(OwnText(r))
  /\ pc[r] = "gateway" /\ xcode[o] # "Internal" => status[r].text = Str(OwnText(r)) /\ status[r].data = OwnData(r)
  /\ pc[r] = "done" /\ xcode[o] # "Internal" => OwnReply(r)

\* An error that is not for clients.
Secret(r) ==
  \/ err[r].kind = "status" /\ err[r].code \in {"Internal", "Unknown"}
  \/ err[r].kind = "x" /\ xcode[Obj(r)] = "Internal"

\* A status that is forwarded as it is.
Plain(r) == err[r].kind = "status" /\ err[r].code \notin {"Internal", "Unknown"}

\* From the interceptor on, an error not for clients is the generic one.
Hidden(r) ==
  /\ pc[r] = "gateway" /\ Secret(r) =>
       status[r].text = Str(GenericText(r)) /\ status[r].code = "Unknown" /\ status[r].data = Nil
  /\ pc[r] = "done" /\ Secret(r) =>
       reply[r].text = Str(GenericText(r)) /\ reply[r].http = 500 /\ reply[r].data = Nil
  /\ pc[r] = "gateway" /\ Plain(r) => status[r].text = Str(Original) /\ status[r].code = err[r].code
  /\ pc[r] = "done" /\ Plain(r) => reply[r].text = Str(Original) /\ reply[r].http = HTTPStatusFromCode(err[r].code)
  /\ pc[r] \in {"gateway", "done"} /\ Unhandled(r) => IF debugger THEN status[r].debug ELSE r \in logged

RequestOK(r) == KindMatches(r) /\ (Own(r) => OwnSoFar(r)) /\ Hidden(r)

IInv == TypeOK /\ DataOK /\ Untouched /\ \A r \in Reqs : RequestOK(r)

\* A step of r touches nothing of another request, and of the error values only
\* the one r has returned.
Local(r) ==
  /\ UNCHANGED <<config, header, xcode>> /\ logged \subseteq logged'
  /\ err'[r] = err[r] \/ err[r] = NoErr
  /\ \A q \in Reqs \ {r} :
       /\ pc'[q] = pc[q] /\ err'[q] = err[q] /\ todo'[q] = todo[q] /\ text'[q] = text[q]
       /\ seen'[q] = seen[q] /\ status'[q] = status[q] /\ reply'[q] = reply[q]
  /\ \A o \in Objects : o # err'[r].obj => message'[o] = message[o] /\ meta'[o] = meta[o]
-----------------------------------------------------------------------------
\* A text in the language of a request, or in the fallback's, is one.
LEMMA TextTypes ==
  ASSUME TypeOK, NEW r \in Reqs, NEW d \in Reqs \cup {Nil}, NEW key
  PROVE  LET l == Lookup(key, Language(r)) IN
         /\ l # "none" => Text(l, d) \in Texts
         /\ GenericText(r) \in Texts /\ English \in Texts /\ Original \in Texts
<1>1. Language(r) \in Langs
  <2>1. header[r] \in Headers
    BY DEF TypeOK
  <2> QED
    BY <2>1 DEF Language, Langs
<1>2. \A k, l : l \in Langs => Lookup(k, l) \in Langs \cup {"none"}
  BY DEF Lookup, Langs
<1>3. \A l \in Langs, e \in Reqs \cup {Nil} : Text(l, e) \in Texts
  BY DEF Text, Texts
<1>4. Lookup(key, Language(r)) # "none" => Text(Lookup(key, Language(r)), d) \in Texts
  BY <1>1, <1>2, <1>3
<1>5. GenericText(r) \in Texts
  <2>1. Lookup("internal", Language(r)) \in Langs \cup {"none"} /\ "internal_server_error" \in Langs
    BY <1>1, <1>2 DEF Langs
  <2> QED
    BY <2>1, <1>3 DEF GenericText
<1>6. English \in Texts /\ Original \in Texts
  BY <1>3 DEF English, Original, Langs
<1> QED
  BY <1>4, <1>5, <1>6

\* A string of two words of one text.
LEMMA StrType == \A t \in Texts : Str(t) \in Strings
BY DEF Str, Strings, Texts

\* What a request is promised depends on nothing another request changes.
LEMMA Promised ==
  ASSUME NEW q, UNCHANGED <<tables, header>>, err'[q] = err[q]
  PROVE  /\ Obj(q)' = Obj(q) /\ OwnData(q)' = OwnData(q) /\ OwnText(q)' = OwnText(q)
         /\ GenericText(q)' = GenericText(q) /\ Unhandled(q)' = Unhandled(q)
BY DEF Obj, OwnData, OwnText, GenericText, Lookup, Language, Text, Unhandled

\* The other requests keep their parts of the invariant.
LEMMA OthersOK ==
  ASSUME IInv, NEW r \in Reqs, Local(r), NEW q \in Reqs \ {r}
  PROVE  RequestOK(q)'
<1>1. /\ UNCHANGED <<config, tables, header, xcode>> /\ logged \subseteq logged'
      /\ pc'[q] = pc[q] /\ err'[q] = err[q] /\ todo'[q] = todo[q] /\ text'[q] = text[q]
      /\ seen'[q] = seen[q] /\ status'[q] = status[q] /\ reply'[q] = reply[q]
  BY DEF Local, config
<1>2. /\ Obj(q)' = Obj(q) /\ OwnData(q)' = OwnData(q) /\ OwnText(q)' = OwnText(q)
      /\ GenericText(q)' = GenericText(q) /\ Unhandled(q)' = Unhandled(q)
  BY <1>1, Promised
<1>3. KindMatches(q) /\ (Own(q) => OwnSoFar(q)) /\ Hidden(q)
  BY DEF IInv, RequestOK
<1>4. KindMatches(q)'
  BY <1>1, <1>2, <1>3 DEF KindMatches
<1>5. ASSUME Own(q)' PROVE OwnSoFar(q)'
  <2>1. Obj(q) \in Objects
    BY <1>1, <1>3, <1>5 DEF KindMatches, Own, Objects
  <2>2. Obj(q) # Nil
    BY <2>1, ErrorPathAssumption DEF Objects
  <2>3. err'[r].obj # Obj(q)
    BY <1>2, <1>5 DEF Own, Obj
  <2>4. message'[Obj(q)] = message[Obj(q)] /\ meta'[Obj(q)] = meta[Obj(q)]
    BY <2>1, <2>3 DEF Local
  <2>5. Own(q)
    <3>1. err[q].kind = "x"
      BY <1>1, <1>5 DEF Own
    <3>2. Obj(r) # Obj(q)
      BY <2>2, <2>3 DEF Local, Obj, NoErr
    <3>3. \A p \in Reqs \ {r, q} : Obj(p) # Obj(q)
      BY <1>2, <1>5 DEF Own, Local, Obj
    <3> QED
      BY <3>1, <3>2, <3>3 DEF Own
  <2> QED
    BY <1>1, <1>2, <1>3, <2>4, <2>5 DEF OwnSoFar, OwnReply
<1>6. Hidden(q)'
  BY <1>1, <1>2, <1>3 DEF Hidden, Secret, Plain, config
<1> QED
  BY <1>4, <1>5, <1>6 DEF RequestOK

\* An error value nobody has returned yet is not touched either.
LEMMA UntouchedKept ==
  ASSUME IInv, NEW r \in Reqs, Local(r)
  PROVE  Untouched'
<1> SUFFICES ASSUME NEW o \in Objects, \A q \in Reqs : Obj(q)' # o
             PROVE  message'[o] = Str(English) /\ meta'[o] = Nil
  BY DEF Untouched, Str, English, Text
<1>1. o # Nil
  BY ErrorPathAssumption DEF Objects
<1>2. message'[o] = message[o] /\ meta'[o] = meta[o]
  BY DEF Local, Obj
<1>3. \A q \in Reqs : Obj(q) # o
  BY <1>1 DEF Local, Obj, NoErr
<1> QED
  BY <1>2, <1>3 DEF IInv, Untouched

\* A step of r is left with the types and with r's own part.
LEMMA OneRequest ==
  ASSUME IInv, NEW r \in Reqs, Local(r), TypeOK', DataOK', RequestOK(r)'
  PROVE  IInv'
<1>1. \A q \in Reqs : RequestOK(q)'
  <2> SUFFICES ASSUME NEW q \in Reqs PROVE RequestOK(q)'
    OBVIOUS
  <2>1. CASE q = r
    BY <2>1
  <2>2. CASE q # r
    BY <2>2, OthersOK
  <2> QED
    BY <2>1, <2>2
<1> QED
  BY <1>1, UntouchedKept DEF IInv

\* The requests before their handlers run.
LEMMA InitIInv == Init => IInv
<1> SUFFICES ASSUME Init PROVE IInv
  OBVIOUS
<1>1. English \in Texts
  BY DEF English, Text, Texts, Langs
<1>2. Str(English) \in Strings
  BY <1>1, StrType
<1>3. TypeOK
  BY <1>2 DEF Init, TypeOK, Obj
<1>4. NoErr \in Errs /\ NoStatus \in Statuses
  BY <1>2 DEF NoErr, Errs, NoStatus, Status, Statuses
<1>5. DataOK
  BY <1>1, <1>4 DEF Init, DataOK
<1>6. Untouched
  BY DEF Init, Untouched
<1>7. ASSUME NEW r \in Reqs PROVE RequestOK(r)
  BY DEF Init, RequestOK, KindMatches, Own, Hidden, Plain, Obj, NoErr
<1> QED
  BY <1>3, <1>5, <1>6, <1>7 DEF IInv

\* A handler succeeds, or the gateway rejects the request: there is no error.
LEMMA NoErrorIInv ==
  ASSUME IInv, NEW r \in Reqs, ReturnNil(r) \/ GatewayRejects(r)
  PROVE  IInv'
<1> USE DEF IInv
<1>1. /\ pc[r] = "handler" /\ pc' = [pc EXCEPT ![r] = "done"]
      /\ UNCHANGED <<config, header, err, xcode, message, meta, todo, text, seen, status, logged>>
      /\ DOMAIN reply' = DOMAIN reply /\ \A q \in Reqs \ {r} : reply'[q] = reply[q]
  BY DEF ReturnNil, GatewayRejects, DataOK
<1>2. err[r] = NoErr
  BY <1>1 DEF RequestOK, KindMatches
<1>3. TypeOK'
  BY <1>1 DEF TypeOK, Obj, config
<1>4. DataOK'
  BY <1>1 DEF DataOK
<1>5. Local(r)
  BY <1>1 DEF Local, TypeOK
<1>6. RequestOK(r)'
  BY <1>1, <1>2 DEF RequestOK, KindMatches, Own, Hidden, Secret, Plain, Unhandled, Obj, NoErr, TypeOK
<1> QED
  BY <1>3, <1>4, <1>5, <1>6, OneRequest

\* An error value of its own or a sentinel; if nobody else has returned it, it
\* is as it was made, with the metadata of this request.
LEMMA ReturnXErrorIInv ==
  ASSUME IInv, NEW r \in Reqs, ReturnXError(r)
  PROVE  IInv'
<1> USE DEF IInv
<1>1. PICK o \in {r} \cup Sentinels, m \in BOOLEAN :
        /\ err' = [err EXCEPT ![r] = [NoErr EXCEPT !.kind = "x", !.obj = o, !.meta = m]]
        /\ meta' = IF m THEN [meta EXCEPT ![o] = r] ELSE meta
  BY DEF ReturnXError
<1>2. /\ pc[r] = "handler" /\ pc' = [pc EXCEPT ![r] = "localize"] /\ o \in Objects
      /\ UNCHANGED <<config, header, xcode, message, todo, text, seen, status, reply, logged>>
  BY DEF ReturnXError, Objects
<1>3. err[r] = NoErr
  BY <1>2 DEF RequestOK, KindMatches
<1>4. /\ err' \in [Reqs -> Errs] /\ \A q \in Reqs \ {r} : err'[q] = err[q]
      /\ err'[r].kind = "x" /\ err'[r].obj = o /\ err'[r].meta = m
  BY <1>1, <1>2 DEF DataOK, Errs, NoErr
<1>5. /\ meta' \in [Objects -> Reqs \cup {Nil}] /\ meta'[o] = IF m THEN r ELSE meta[o]
      /\ \A p \in Objects \ {o} : meta'[p] = meta[p]
  BY <1>1, <1>2 DEF TypeOK
<1>6. TypeOK'
  BY <1>2, <1>4, <1>5 DEF TypeOK, Obj, config
<1>7. DataOK'
  BY <1>2, <1>4 DEF DataOK
<1>8. Local(r)
  BY <1>2, <1>3, <1>4, <1>5 DEF Local, TypeOK
<1>9. pc'[r] = "localize"
  BY <1>2 DEF TypeOK
<1>10. KindMatches(r)' /\ Hidden(r)'
  BY <1>4, <1>9 DEF KindMatches, Hidden, Obj
<1>11. ASSUME Own(r)' PROVE OwnSoFar(r)'
  <2>1. \A q \in Reqs : Obj(q) # o
    <3>1. Obj(r) # o
      BY <1>2, <1>3, ErrorPathAssumption DEF Obj, NoErr, Objects
    <3>2. \A q \in Reqs \ {r} : Obj(q) # o
      BY <1>4, <1>11 DEF Own, Obj
    <3> QED
      BY <3>1, <3>2
  <2>2. message[o] = Str(English) /\ meta[o] = Nil
    BY <1>2, <2>1 DEF Untouched
  <2>3. meta'[o] = OwnData(r)' /\ message'[o] = Str(English)
    BY <1>2, <1>4, <1>5, <2>2 DEF OwnData
  <2> QED
    BY <1>4, <1>9, <2>3 DEF OwnSoFar, Obj, Str, English, Text
<1>12. RequestOK(r)'
  BY <1>10, <1>11 DEF RequestOK
<1> QED
  BY <1>6, <1>7, <1>8, <1>12, OneRequest

\* A gRPC status, or an error that becomes Unknown.
LEMMA ReturnStatusIInv ==
  ASSUME IInv, NEW r \in Reqs, ReturnStatus(r)
  PROVE  IInv'
<1> USE DEF IInv
<1>1. PICK c \in StatusCodes, f \in BOOLEAN :
        err' = [err EXCEPT ![r] = [NoErr EXCEPT !.kind = "status", !.code = c, !.fields = f]]
  BY DEF ReturnStatus
<1>2. /\ pc[r] = "handler" /\ pc' = [pc EXCEPT ![r] = "convert"]
      /\ UNCHANGED <<config, header, xcode, message, meta, todo, text, seen, status, reply, logged>>
  BY DEF ReturnStatus
<1>3. err[r] = NoErr
  BY <1>2 DEF RequestOK, KindMatches
<1>4. /\ err' \in [Reqs -> Errs] /\ \A q \in Reqs \ {r} : err'[q] = err[q]
      /\ err'[r].kind = "status" /\ err'[r].obj = Nil
  BY <1>1, <1>2 DEF DataOK, Errs, NoErr
<1>5. TypeOK'
  BY <1>2, <1>4 DEF TypeOK, Obj, config
<1>6. DataOK'
  BY <1>2, <1>4 DEF DataOK
<1>7. Local(r)
  BY <1>2, <1>3, <1>4 DEF Local, TypeOK
<1>8. pc'[r] = "convert"
  BY <1>2 DEF TypeOK
<1>9. RequestOK(r)'
  BY <1>4, <1>8 DEF RequestOK, KindMatches, Own, Hidden, Obj
<1> QED
  BY <1>5, <1>6, <1>7, <1>9, OneRequest
-----------------------------------------------------------------------------
\* The text to write is the request's own: so is the metadata of the value.
LEMMA LocalizeIInv ==
  ASSUME IInv, NEW r \in Reqs, Localize(r)
  PROVE  IInv'
<1> DEFINE l == Lookup("app", Language(r)) o == Obj(r)
<1> USE DEF IInv
<1>1. /\ pc[r] = "localize" /\ todo' = [todo EXCEPT ![r] = Words]
      /\ UNCHANGED <<config, tables, header, err, xcode, message, meta, seen, status, reply, logged>>
      /\ \/ l # "none" /\ pc' = [pc EXCEPT ![r] = "write"] /\ text' = [text EXCEPT ![r] = Text(l, meta[o])]
         \/ l = "none" /\ pc' = [pc EXCEPT ![r] = "read"] /\ text' = text
  BY DEF Localize, config
<1>2. o \in Objects /\ err[r].kind = "x"
  BY <1>1 DEF TypeOK, RequestOK, KindMatches
<1>3. l # "none" => Text(l, meta[o]) \in Texts
  BY <1>2, TextTypes DEF TypeOK
<1>4. text' \in [Reqs -> Texts] /\ \A q \in Reqs \ {r} : text'[q] = text[q]
  BY <1>1, <1>3 DEF DataOK
<1>5. /\ pc'[r] = IF l = "none" THEN "read" ELSE "write"
      /\ \A q \in Reqs \ {r} : pc'[q] = pc[q]
      /\ pc' \in [Reqs -> {"handler", "localize", "write", "read", "convert", "gateway", "done"}]
  BY <1>1 DEF TypeOK
<1>6. /\ todo' \in [Reqs -> SUBSET Words] /\ todo'[r] = Words /\ Words # {}
      /\ \A q \in Reqs \ {r} : todo'[q] = todo[q]
  BY <1>1 DEF TypeOK, Words
<1>7. TypeOK'
  BY <1>1, <1>2, <1>5, <1>6 DEF TypeOK, Obj, config
<1>8. DataOK'
  BY <1>1, <1>4 DEF DataOK
<1>9. Local(r)
  BY <1>1, <1>4, <1>5, <1>6 DEF Local, config
<1>10. KindMatches(r)' /\ Hidden(r)'
  BY <1>1, <1>2, <1>5 DEF RequestOK, KindMatches, Hidden, Obj
<1>11. ASSUME Own(r)' PROVE OwnSoFar(r)'
  <2>1. Own(r)
    BY <1>1, <1>11 DEF Own, Obj
  <2>2. meta[o] = OwnData(r) /\ message[o] = Str(English)
    BY <1>1, <2>1 DEF RequestOK, OwnSoFar
  <2>3. Obj(r)' = o /\ OwnData(r)' = OwnData(r) /\ OwnText(r)' = OwnText(r)
    BY <1>1, Promised
  <2>4. CASE l = "none"
    <3>1. OwnText(r) = English
      BY <2>4 DEF OwnText
    <3> QED
      BY <1>1, <1>5, <1>6, <2>2, <2>3, <2>4, <3>1 DEF OwnSoFar
  <2>5. CASE l # "none"
    <3>1. OwnText(r) = Text(l, meta[o])
      BY <2>2, <2>5 DEF OwnText
    <3>2. text'[r] = Text(l, meta[o])
      BY <1>1, <2>5 DEF DataOK
    <3> QED
      BY <1>1, <1>5, <1>6, <2>2, <2>3, <2>5, <3>1, <3>2 DEF OwnSoFar
  <2> QED
    BY <2>4, <2>5
<1>12. RequestOK(r)'
  BY <1>10, <1>11 DEF RequestOK
<1> QED
  BY <1>7, <1>8, <1>9, <1>12, OneRequest

\* A string both of whose words are t.
LEMMA BothWords ==
  ASSUME NEW s \in Strings, NEW t, \A w \in Words : s[w] = t
  PROVE  s = Str(t)
BY DEF Strings, Str

\* One word of Message; after both, the string is the text.
LEMMA WriteMessageIInv ==
  ASSUME IInv, NEW r \in Reqs, WriteMessage(r)
  PROVE  IInv'
<1> DEFINE o == Obj(r)
<1> USE DEF IInv
<1>1. PICK w \in todo[r] :
        /\ message' = [message EXCEPT ![o][w] = text[r]]
        /\ \/ todo[r] = {w} /\ pc' = [pc EXCEPT ![r] = "read"] /\ todo' = [todo EXCEPT ![r] = Words]
           \/ todo[r] # {w} /\ todo' = [todo EXCEPT ![r] = @ \ {w}] /\ UNCHANGED pc
  BY DEF WriteMessage
<1>2. pc[r] = "write" /\ UNCHANGED <<config, tables, header, err, xcode, meta, text, seen, status, reply, logged>>
  BY DEF WriteMessage, config
<1>3. o \in Objects /\ err[r].kind = "x" /\ w \in Words /\ todo[r] \subseteq Words
  BY <1>2 DEF TypeOK, RequestOK, KindMatches
<1>4. /\ message' \in [Objects -> Strings] /\ \A p \in Objects \ {o} : message'[p] = message[p]
      /\ \A v \in Words : message'[o][v] = IF v = w THEN text[r] ELSE message[o][v]
  <2>1. text[r] \in Texts /\ message \in [Objects -> Strings]
    BY DEF DataOK, TypeOK
  <2>2. [message[o] EXCEPT ![w] = text[r]] \in Strings
    BY <1>3, <2>1 DEF Strings, Texts
  <2>3. \A v \in Words : [message[o] EXCEPT ![w] = text[r]][v] = IF v = w THEN text[r] ELSE message[o][v]
    BY <1>3, <2>1 DEF Strings
  <2>4. message' = [message EXCEPT ![o] = [message[o] EXCEPT ![w] = text[r]]]
    BY <1>1
  <2> QED
    BY <1>3, <2>1, <2>2, <2>3, <2>4
<1>5. /\ pc'[r] = IF todo[r] = {w} THEN "read" ELSE "write"
      /\ todo'[r] = IF todo[r] = {w} THEN Words ELSE todo[r] \ {w}
      /\ \A q \in Reqs \ {r} : pc'[q] = pc[q] /\ todo'[q] = todo[q]
      /\ pc' \in [Reqs -> {"handler", "localize", "write", "read", "convert", "gateway", "done"}]
      /\ todo' \in [Reqs -> SUBSET Words]
  BY <1>1, <1>2 DEF TypeOK
<1>6. todo'[r] # {}
  BY <1>1, <1>5 DEF Words
<1>7. TypeOK'
  BY <1>2, <1>3, <1>4, <1>5, <1>6 DEF TypeOK, Obj, config
<1>8. DataOK'
  BY <1>2 DEF DataOK
<1>9. Local(r)
  BY <1>2, <1>4, <1>5 DEF Local, Obj, config
<1>10. KindMatches(r)' /\ Hidden(r)'
  BY <1>2, <1>3, <1>5 DEF RequestOK, KindMatches, Hidden, Obj
<1>11. ASSUME Own(r)' PROVE OwnSoFar(r)'
  <2>1. Own(r)
    BY <1>2, <1>11 DEF Own, Obj
  <2>2. /\ meta[o] = OwnData(r) /\ text[r] = OwnText(r)
        /\ \A v \in Words \ todo[r] : message[o][v] = OwnText(r)
    BY <1>2, <2>1 DEF RequestOK, OwnSoFar
  <2>3. Obj(r)' = o /\ OwnData(r)' = OwnData(r) /\ OwnText(r)' = OwnText(r)
    BY <1>2, Promised
  <2>4. \A v \in Words \ (todo[r] \ {w}) : message'[o][v] = OwnText(r)
    BY <1>4, <2>2
  <2>5. CASE todo[r] = {w}
    <3>1. message'[o] = Str(OwnText(r))
      BY <1>3, <1>4, <2>4, <2>5, BothWords
    <3> QED
      BY <1>2, <1>5, <2>2, <2>3, <2>5, <3>1 DEF OwnSoFar
  <2>6. CASE todo[r] # {w}
    BY <1>2, <1>5, <2>2, <2>3, <2>4, <2>6 DEF OwnSoFar
  <2> QED
    BY <2>5, <2>6
<1>12. RequestOK(r)'
  BY <1>10, <1>11 DEF RequestOK
<1> QED
  BY <1>7, <1>8, <1>9, <1>12, OneRequest

\* One word of Message is read into the status.
LEMMA ReadMessageIInv ==
  ASSUME IInv, NEW r \in Reqs, ReadMessage(r)
  PROVE  IInv'
<1> DEFINE o == Obj(r)
<1> USE DEF IInv
<1>1. PICK w \in todo[r] :
        /\ seen' = [seen EXCEPT ![r][w] = message[o][w]]
        /\ todo' = [todo EXCEPT ![r] = @ \ {w}]
        /\ \/ todo[r] = {w} /\ pc' = [pc EXCEPT ![r] = "convert"]
           \/ todo[r] # {w} /\ UNCHANGED pc
  BY DEF ReadMessage
<1>2. pc[r] = "read" /\ UNCHANGED <<config, tables, header, err, xcode, message, meta, text, status, reply, logged>>
  BY DEF ReadMessage, config
<1>3. o \in Objects /\ err[r].kind = "x" /\ w \in Words /\ todo[r] \subseteq Words
  BY <1>2 DEF TypeOK, RequestOK, KindMatches
<1>4. /\ seen' \in [Reqs -> Strings] /\ \A q \in Reqs \ {r} : seen'[q] = seen[q]
      /\ \A v \in Words : seen'[r][v] = IF v = w THEN message[o][w] ELSE seen[r][v]
  <2>1. seen \in [Reqs -> Strings] /\ message[o] \in Strings
    BY <1>3 DEF TypeOK
  <2>2. [seen[r] EXCEPT ![w] = message[o][w]] \in Strings
    BY <1>3, <2>1 DEF Strings
  <2>3. \A v \in Words : [seen[r] EXCEPT ![w] = message[o][w]][v] = IF v = w THEN message[o][w] ELSE seen[r][v]
    BY <1>3, <2>1 DEF Strings
  <2>4. seen' = [seen EXCEPT ![r] = [seen[r] EXCEPT ![w] = message[o][w]]]
    BY <1>1
  <2> QED
    BY <2>1, <2>2, <2>3, <2>4
<1>5. /\ pc'[r] = IF todo[r] = {w} THEN "convert" ELSE "read"
      /\ todo'[r] = todo[r] \ {w}
      /\ \A q \in Reqs \ {r} : pc'[q] = pc[q] /\ todo'[q] = todo[q]
      /\ pc' \in [Reqs -> {"handler", "localize", "write", "read", "convert", "gateway", "done"}]
      /\ todo' \in [Reqs -> SUBSET Words]
  BY <1>1, <1>2 DEF TypeOK
<1>6. pc'[r] = "read" => todo'[r] # {}
  BY <1>1, <1>5
<1>7. TypeOK'
  BY <1>2, <1>3, <1>4, <1>5, <1>6 DEF TypeOK, Obj, config
<1>8. DataOK'
  BY <1>2 DEF DataOK
<1>9. Local(r)
  BY <1>2, <1>4, <1>5 DEF Local, config
<1>10. KindMatches(r)' /\ Hidden(r)'
  BY <1>2, <1>3, <1>5 DEF RequestOK, KindMatches, Hidden, Obj
<1>11. ASSUME Own(r)' PROVE OwnSoFar(r)'
  <2>1. Own(r)
    BY <1>2, <1>11 DEF Own, Obj
  <2>2. /\ meta[o] = OwnData(r) /\ message[o] = Str(OwnText(r))
        /\ \A v \in Words \ todo[r] : seen[r][v] = OwnText(r)
    BY <1>2, <2>1 DEF RequestOK, OwnSoFar
  <2>3. Obj(r)' = o /\ OwnData(r)' = OwnData(r) /\ OwnText(r)' = OwnText(r)
    BY <1>2, Promised
  <2>4. message[o][w] = OwnText(r)
    BY <1>3, <2>2 DEF Str
  <2>5. \A v \in Words \ (todo[r] \ {w}) : seen'[r][v] = OwnText(r)
    BY <1>4, <2>2, <2>4
  <2>6. CASE todo[r] = {w}
    <3>1. seen'[r] = Str(OwnText(r))
      BY <1>4, <2>5, <2>6, BothWords
    <3> QED
      BY <1>2, <1>5, <2>2, <2>3, <2>6, <3>1 DEF OwnSoFar
  <2>7. CASE todo[r] # {w}
    BY <1>2, <1>5, <2>2, <2>3, <2>5, <2>7 DEF OwnSoFar
  <2> QED
    BY <2>6, <2>7
<1>12. RequestOK(r)'
  BY <1>10, <1>11 DEF RequestOK
<1> QED
  BY <1>7, <1>8, <1>9, <1>12, OneRequest
-----------------------------------------------------------------------------
\* The generic status.
LEMMA FallbackFacts ==
  ASSUME TypeOK, NEW r \in Reqs, NEW b \in BOOLEAN
  PROVE  LET s == Fallback(r, b) IN
         /\ s \in Statuses /\ s.text = Str(GenericText(r)) /\ s.code = "Unknown" /\ s.data = Nil
         /\ s.debug = b
<1>1. Str(GenericText(r)) \in Strings
  BY TextTypes, StrType
<1> QED
  BY <1>1 DEF Fallback, Status, Statuses, StatusCodes

\* What the interceptor returns: an Internal, Unknown or unclassified error is
\* the generic one, any other *errs.Error is what was read of it.
LEMMA ConvertedFacts ==
  ASSUME IInv, NEW r \in Reqs, pc[r] = "convert"
  PROVE  LET s == HideInternal(r, Classified(r)) IN
         /\ s \in Statuses
         /\ Secret(r) => s.text = Str(GenericText(r)) /\ s.code = "Unknown" /\ s.data = Nil
         /\ Plain(r) => s.text = Str(Original) /\ s.code = err[r].code
         /\ Unhandled(r) => s.debug = debugger
         /\ err[r].kind = "x" /\ xcode[Obj(r)] # "Internal" => s.text = seen[r] /\ s.data = meta[Obj(r)]
<1> DEFINE c == Classified(r)
<1>1. err[r] \in Errs /\ err[r].kind \in {"x", "status"} /\ debugger \in BOOLEAN
  BY ErrorPathAssumption DEF IInv, TypeOK, DataOK, RequestOK, KindMatches, Errs
<1>2. CASE err[r].kind = "x"
  <2>1. Obj(r) \in Objects /\ ~Unhandled(r)
    BY <1>2 DEF IInv, RequestOK, KindMatches, Objects, Unhandled
  <2>2. seen[r] \in Strings /\ xcode[Obj(r)] \in XCodes /\ meta[Obj(r)] \in Reqs \cup {Nil}
    BY <2>1 DEF IInv, TypeOK
  <2>3. c = Status(xcode[Obj(r)], seen[r], "app", meta[Obj(r)], FALSE, FALSE)
    BY <1>2 DEF Classified
  <2>4. /\ c \in Statuses /\ c.code = xcode[Obj(r)] /\ c.text = seen[r] /\ c.data = meta[Obj(r)]
    BY <2>2, <2>3 DEF Status, Statuses
  <2> HIDE DEF c
  <2> QED
    BY <1>2, <2>1, <2>4, FallbackFacts DEF IInv, HideInternal, Secret, Plain, c
<1>3. CASE err[r].kind = "status" /\ ~Unhandled(r)
  <2>1. Str(Original) \in Strings
    BY TextTypes, StrType DEF IInv
  <2>2. c = Status(err[r].code, Str(Original), "none", Nil, err[r].fields, FALSE)
    BY <1>3 DEF Classified
  <2>3. c \in Statuses /\ c.code = err[r].code /\ c.text = Str(Original)
    BY <1>1, <2>1, <2>2 DEF Status, Statuses, Errs
  <2>4. Secret(r) <=> c.code = "Internal"
    BY <1>3, <2>3 DEF Secret, Unhandled
  <2> HIDE DEF c
  <2> QED
    BY <1>3, <2>3, <2>4, FallbackFacts DEF IInv, HideInternal, Plain, c
<1>4. CASE Unhandled(r)
  <2>1. c = Fallback(r, debugger) /\ err[r].kind # "x" /\ ~Plain(r)
    BY <1>4 DEF Classified, Unhandled, Plain
  <2>2. /\ c \in Statuses /\ c.text = Str(GenericText(r)) /\ c.code = "Unknown" /\ c.data = Nil
        /\ c.debug = debugger
    BY <1>1, <2>1, FallbackFacts DEF IInv
  <2> HIDE DEF c
  <2> QED
    BY <2>1, <2>2 DEF HideInternal, c
<1> QED
  BY <1>1, <1>2, <1>3, <1>4 DEF Unhandled

\* The interceptor returns.
LEMMA ConvertIInv ==
  ASSUME IInv, NEW r \in Reqs, Convert(r)
  PROVE  IInv'
<1> DEFINE s == HideInternal(r, Classified(r)) o == Obj(r)
<1> USE DEF IInv
<1>1. /\ pc[r] = "convert" /\ pc' = [pc EXCEPT ![r] = "gateway"]
      /\ status' = [status EXCEPT ![r] = s]
      /\ logged' = IF Unhandled(r) /\ ~debugger THEN logged \cup {r} ELSE logged
      /\ UNCHANGED <<config, tables, header, err, xcode, message, meta, todo, text, seen, reply>>
  BY DEF Convert, config
<1>2. /\ s \in Statuses
      /\ Secret(r) => s.text = Str(GenericText(r)) /\ s.code = "Unknown" /\ s.data = Nil
      /\ Plain(r) => s.text = Str(Original) /\ s.code = err[r].code
      /\ Unhandled(r) => s.debug = debugger
      /\ err[r].kind = "x" /\ xcode[o] # "Internal" => s.text = seen[r] /\ s.data = meta[o]
  BY <1>1, ConvertedFacts
<1> HIDE DEF s
<1>3. /\ pc'[r] = "gateway" /\ \A q \in Reqs \ {r} : pc'[q] = pc[q]
      /\ status' \in [Reqs -> Statuses] /\ status'[r] = s /\ \A q \in Reqs \ {r} : status'[q] = status[q]
  BY <1>1, <1>2 DEF TypeOK, DataOK
<1>4. TypeOK'
  BY <1>1 DEF TypeOK, Obj, config
<1>5. DataOK'
  BY <1>1, <1>3 DEF DataOK
<1>6. Local(r)
  BY <1>1, <1>3 DEF Local, config
<1>7. /\ Obj(r)' = o /\ OwnData(r)' = OwnData(r) /\ OwnText(r)' = OwnText(r)
      /\ GenericText(r)' = GenericText(r) /\ Unhandled(r)' = Unhandled(r)
  BY <1>1, Promised
<1>8. KindMatches(r)'
  BY <1>1, <1>3, <1>7 DEF RequestOK, KindMatches
<1>9. ASSUME Own(r)' PROVE OwnSoFar(r)'
  <2>1. Own(r)
    BY <1>1, <1>9 DEF Own, Obj
  <2>2. meta[o] = OwnData(r) /\ seen[r] = Str(OwnText(r)) /\ err[r].kind = "x"
    BY <1>1, <2>1 DEF RequestOK, OwnSoFar, Own
  <2> QED
    BY <1>1, <1>2, <1>3, <1>7, <2>2 DEF OwnSoFar
<1>10. Hidden(r)'
  <2>1. Secret(r)' = Secret(r) /\ Plain(r)' = Plain(r) /\ err'[r] = err[r] /\ debugger' = debugger
    BY <1>1, <1>7 DEF Secret, Plain, config
  <2>2. Unhandled(r) => IF debugger THEN s.debug ELSE r \in logged'
    BY <1>1, <1>2
  <2> QED
    BY <1>2, <1>3, <1>7, <2>1, <2>2 DEF Hidden
<1>11. RequestOK(r)'
  BY <1>8, <1>9, <1>10 DEF RequestOK
<1> QED
  BY <1>4, <1>5, <1>6, <1>11, OneRequest

\* The reply says what the status says.
LEMMA ErrorHandlerIInv ==
  ASSUME IInv, NEW r \in Reqs, ErrorHandler(r)
  PROVE  IInv'
<1> DEFINE s == status[r] o == Obj(r)
<1> USE DEF IInv
<1>1. /\ pc[r] = "gateway" /\ pc' = [pc EXCEPT ![r] = "done"]
      /\ reply' = [reply EXCEPT ![r] = [http |-> HTTPStatusFromCode(s.code), code |-> ReplyCode(s),
                                        text |-> s.text, data |-> s.data]]
      /\ UNCHANGED <<config, tables, header, err, xcode, message, meta, todo, text, seen, status, logged>>
  BY DEF ErrorHandler, config
<1>2. /\ pc'[r] = "done" /\ \A q \in Reqs \ {r} : pc'[q] = pc[q]
      /\ DOMAIN reply' = Reqs /\ \A q \in Reqs \ {r} : reply'[q] = reply[q]
      /\ reply'[r].http = HTTPStatusFromCode(s.code) /\ reply'[r].text = s.text /\ reply'[r].data = s.data
  BY <1>1 DEF TypeOK, DataOK
<1>3. TypeOK'
  BY <1>1 DEF TypeOK, Obj, config
<1>4. DataOK'
  BY <1>1, <1>2 DEF DataOK
<1>5. Local(r)
  BY <1>1, <1>2 DEF Local, config
<1>6. /\ Obj(r)' = o /\ OwnData(r)' = OwnData(r) /\ OwnText(r)' = OwnText(r)
      /\ GenericText(r)' = GenericText(r) /\ Unhandled(r)' = Unhandled(r)
  BY <1>1, Promised
<1>7. KindMatches(r)'
  BY <1>1, <1>2, <1>6 DEF RequestOK, KindMatches
<1>8. ASSUME Own(r)' PROVE OwnSoFar(r)'
  <2>1. Own(r)
    BY <1>1, <1>8 DEF Own, Obj
  <2>2. /\ meta[o] = OwnData(r)
        /\ xcode[o] # "Internal" => s.text = Str(OwnText(r)) /\ s.data = OwnData(r)
    BY <1>1, <2>1 DEF RequestOK, OwnSoFar
  <2>3. xcode[o] # "Internal" => OwnReply(r)'
    BY <1>2, <1>6, <2>2 DEF OwnReply
  <2> QED
    BY <1>1, <1>2, <1>6, <2>2, <2>3 DEF OwnSoFar
<1>9. Hidden(r)'
  <2>1. Secret(r)' = Secret(r) /\ Plain(r)' = Plain(r) /\ err'[r] = err[r] /\ debugger' = debugger
    BY <1>1, <1>6 DEF Secret, Plain, config
  <2>2. Hidden(r) /\ HTTPStatusFromCode("Unknown") = 500
    BY DEF RequestOK, HTTPStatusFromCode
  <2>3. \A c : HTTPStatusFromCode(c)' = HTTPStatusFromCode(c)
    BY DEF HTTPStatusFromCode
  <2> QED
    BY <1>1, <1>2, <1>6, <2>1, <2>2, <2>3 DEF Hidden
<1>10. RequestOK(r)'
  BY <1>7, <1>8, <1>9 DEF RequestOK
<1> QED
  BY <1>3, <1>4, <1>5, <1>10, OneRequest
-----------------------------------------------------------------------------
\* Every step keeps the invariant.
LEMMA NextIInv == IInv /\ [Next]_vars => IInv'
<1> SUFFICES ASSUME IInv, [Next]_vars PROVE IInv'
  OBVIOUS
<1>1. CASE Next
  BY <1>1, NoErrorIInv, ReturnXErrorIInv, ReturnStatusIInv, LocalizeIInv, WriteMessageIInv,
     ReadMessageIInv, ConvertIInv, ErrorHandlerIInv DEF Next
<1>2. CASE UNCHANGED vars
  <2>1. TypeOK' /\ DataOK' /\ Untouched'
    BY <1>2 DEF IInv, TypeOK, DataOK, Untouched, Obj, vars, config
  <2>2. ASSUME NEW r \in Reqs PROVE RequestOK(r)'
    <3>1. UNCHANGED <<tables, header>> /\ err' = err
      BY <1>2 DEF vars, config
    <3>2. /\ Obj(r)' = Obj(r) /\ OwnData(r)' = OwnData(r) /\ OwnText(r)' = OwnText(r)
          /\ GenericText(r)' = GenericText(r) /\ Unhandled(r)' = Unhandled(r)
      BY <3>1, Promised
    <3>3. RequestOK(r)
      BY DEF IInv
    <3>4. Own(r)' = Own(r)
      BY <3>1 DEF Own, Obj
    <3> QED
      BY <1>2, <3>1, <3>2, <3>3, <3>4 DEF RequestOK, KindMatches, OwnSoFar, OwnReply, Hidden, Secret, Plain, config, vars
  <2> QED
    BY <2>1, <2>2 DEF IInv
<1> QED
  BY <1>1, <1>2

LEMMA Invariance == Spec => []IInv
BY InitIInv, NextIInv, PTL DEF Spec

\* Every variable has its type, and a request that writes or reads a message has
\* an error value to do it to.
THEOREM TypeCorrect == Spec => []TypeOK
<1>1. IInv => TypeOK
  BY DEF IInv
<1> QED
  BY <1>1, Invariance, PTL

\* A request whose error value no other one has returned gets its own message in
\* its own language, with its own metadata.
THEOREM UnsharedAlwaysOwn == Spec => []UnsharedErrorIsOwn
<1>1. IInv => UnsharedErrorIsOwn
  BY DEF IInv, RequestOK, UnsharedErrorIsOwn, AppError, Own, OwnSoFar
<1> QED
  BY <1>1, Invariance, PTL

\* A status Internal or Unknown, an error that is no status and an *errs.Error of
\* code Internal reach the client as the generic text, any other status as it is;
\* an error without a code is logged or, with the debugger, in the details.
THEOREM InternalsAlwaysHidden == Spec => []InternalsHidden
<1>1. IInv => InternalsHidden
  BY DEF IInv, RequestOK, InternalsHidden, Hidden, Secret, Plain
<1> QED
  BY <1>1, Invariance, PTL
=============================================================================
