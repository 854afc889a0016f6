----------------------------- MODULE HttpReply -----------------------------
(***************************************************************************)
(* How one HTTP exchange gets its status: grpc-gateway, or a handler of    *)
(* the application, calls WriteHeader and Write, and the calls go through  *)
(* a stack of writers, the access log's, otelhttp's, the metrics' and      *)
(* net/http's own, each of which remembers what it saw.  Exchanges share   *)
(* nothing here, so there is one.                                          *)
(***************************************************************************)
EXTENDS Integers, Sequences

CONSTANTS
  Statuses,      \* status codes a handler, a header or an error may ask for
  ErrorStatuses, \* those a failed call gets
  Configs,       \* [options, metrics]: the forward response options listed,
                 \* in order, and whether HTTP metrics are recorded
  Exchanges,     \* what is served: see Exchange
  MaxOps         \* calls an application's own handler makes

Options == {"HTTPResponseModifier", "Redirect"}

Absent == -1     \* no such header
Garbled == -2    \* one that is not a number

\* Where a request is served: by grpc-gateway ("rpc"), by a custom route of
\* its mux ("custom"), both behind the middlewares, or by a ServerHandler
\* ("direct"); whether its path is one the access log skips; the error of the
\* call, 0 if it succeeds, the headers it set, and whether its reply marshals.
Exchange == [route : {"rpc", "custom", "direct"}, quiet : BOOLEAN,
             error : ErrorStatuses \cup {0}, code : Statuses \cup {Absent, Garbled},
             redirect : BOOLEAN, redirectCode : Statuses \cup {Absent, Garbled}, marshals : BOOLEAN]

ASSUME HttpReplyAssumption ==
  /\ Statuses \subseteq Nat \ {0} /\ {200, 301, 500} \subseteq Statuses
  /\ ErrorStatuses \subseteq Statuses \cap 400..599
  /\ Configs \subseteq [options : Seq(Options), metrics : BOOLEAN]
  /\ Exchanges \subseteq Exchange
  /\ MaxOps \in Nat

VARIABLES
  config, input, \* fixed
  pc,            \* "rpc", "handler", "panic", "returned", "logged", "counted", "done", "aborted"
  next,          \* the forward response option that comes next
  w,             \* the writers: see NewWriters
  body,          \* whose body was written
  ops,           \* calls the handler has made
  logged,        \* the status in the access log's line, 0 without a line
  counted,       \* the code labels http_requests_total was incremented with
  panicked,      \* history: the status sent when the handler panicked, or Absent
  late           \* history: a handler set a status after it had begun the body

vars == <<config, input, pc, next, w, body, ops, logged, counted, panicked, late>>

\* Metrics' and log's responseWriter: status and wroteHeader; otelhttp's: seen
\* a status; net/http's: the final status sent, 0 if none, an informational
\* one sent before it, and the panic of an invalid one.
NewWriters == [mStatus |-> 200, mWrote |-> FALSE, lStatus |-> 200, lWrote |-> FALSE,
               otel |-> FALSE, sent |-> 0, hint |-> FALSE, panic |-> FALSE]

Init ==
  /\ config \in Configs /\ input \in Exchanges
  /\ pc = IF input.route = "rpc" THEN "rpc" ELSE "handler"
  /\ next = 1 /\ w = NewWriters /\ body = "none" /\ ops = 0
  /\ logged = 0 /\ counted = <<>> /\ panicked = Absent /\ late = FALSE
-----------------------------------------------------------------------------
(* The stack of writers: what a call does to it *)

\* net/http ignores all but the first final status and panics on an invalid
\* one; 101 is final.
NetWriteHeader(v, c) ==
  IF v.sent # 0 THEN v
  ELSE IF c \notin 100..999 THEN [v EXCEPT !.panic = TRUE]
  ELSE IF c < 200 /\ c # 101 THEN [v EXCEPT !.hint = TRUE]
  ELSE [v EXCEPT !.sent = c]

NetWrite(v) == IF v.sent = 0 THEN [v EXCEPT !.sent = 200] ELSE v

\* Mutant: a second status is recorded.
MetricsWriteHeaderAgain(v, c) ==
  IF ~config.metrics THEN NetWriteHeader(v, c)
  ELSE LET n == NetWriteHeader([v EXCEPT !.mStatus = c], c)
       IN IF n.panic THEN n ELSE [n EXCEPT !.mWrote = TRUE]

\* responseWriter.WriteHeader on net/http's writer; wroteHeader is set only
\* after the call below has returned.
MetricsWriteHeader(v, c) ==
  IF ~config.metrics THEN NetWriteHeader(v, c)
  ELSE IF v.mWrote THEN v
  ELSE LET n == NetWriteHeader([v EXCEPT !.mStatus = c], c)
       IN IF n.panic THEN n ELSE [n EXCEPT !.mWrote = TRUE]

\* otelhttp passes every status on and turns a first Write into one.
OtelWriteHeader(v, c) == MetricsWriteHeader([v EXCEPT !.otel = TRUE], c)
OtelWrite(v) == NetWrite(IF v.otel THEN v ELSE OtelWriteHeader(v, 200))

\* Mutant: a second status is recorded.
LogWriteHeaderAgain(v, c) ==
  LET n == OtelWriteHeader([v EXCEPT !.lStatus = c], c)
  IN IF n.panic THEN n ELSE [n EXCEPT !.lWrote = TRUE]

\* responseWriter.WriteHeader on otelhttp's writer
LogWriteHeader(v, c) ==
  IF v.lWrote THEN v
  ELSE LET n == OtelWriteHeader([v EXCEPT !.lStatus = c], c)
       IN IF n.panic THEN n ELSE [n EXCEPT !.lWrote = TRUE]

\* The writer the handler of the request was given.  A responseWriter has no
\* Write of its own: it does not see the body.
WriteHeader(v, c) ==
  CASE input.route = "direct" -> MetricsWriteHeader(v, c)
    [] input.route # "direct" /\ input.quiet -> OtelWriteHeader(v, c)
    [] OTHER -> LogWriteHeader(v, c)

Write(v) == IF input.route = "direct" THEN NetWrite(v) ELSE OtelWrite(v)
-----------------------------------------------------------------------------
(* grpc-gateway *)

\* Mutant: the body before the status.
ErrorHandlerBodyFirst(st) ==
  /\ \E s \in {st, 500} : w' = WriteHeader(Write(w), s)
  /\ body' = "error" /\ pc' = "returned"
  /\ UNCHANGED <<config, input, next, ops, logged, counted, panicked, late>>

\* The error's status, or 500 if its message cannot be marshalled, and a body.
ErrorHandler(st) ==
  /\ \E s \in {st, 500} : w' = Write(WriteHeader(w, s))
  /\ body' = "error" /\ pc' = "returned"
  /\ UNCHANGED <<config, input, next, ops, logged, counted, panicked, late>>

\* The call failed.
CallFails ==
  /\ pc = "rpc" /\ input.error # 0
  /\ ErrorHandler(input.error)

\* A forward response option has set a status, or not; the next one follows.
OptionReturns(v) ==
  /\ w' = v
  /\ \/ v.panic /\ pc' = "panic" /\ panicked' = v.sent /\ UNCHANGED next
     \/ ~v.panic /\ next' = next + 1 /\ UNCHANGED <<pc, panicked>>
  /\ UNCHANGED <<config, input, body, ops, logged, counted, late>>

Forwards(option) ==
  /\ pc = "rpc" /\ input.error = 0
  /\ next <= Len(config.options) /\ config.options[next] = option

\* An error of an option goes to ErrorHandler, as Unknown.  The option deletes
\* the header under a key the metadata does not have, which keeps it in lower
\* case: the next one finds it again.
HTTPResponseModifier ==
  /\ Forwards("HTTPResponseModifier")
  /\ \/ input.code = Absent /\ OptionReturns(w)
     \/ input.code = Garbled /\ ErrorHandler(500)
     \/ input.code \notin {Absent, Garbled} /\ OptionReturns(WriteHeader(w, input.code))

\* Mutant: the default first.
RedirectDefaultFirst ==
  /\ Forwards("Redirect")
  /\ \/ ~input.redirect /\ OptionReturns(w)
     \/ input.redirect /\ input.redirectCode = Garbled /\ ErrorHandler(500)
     \/ /\ input.redirect /\ input.redirectCode # Garbled
        /\ OptionReturns(IF input.redirectCode \in 301..399
                         THEN WriteHeader(WriteHeader(w, 301), input.redirectCode)
                         ELSE WriteHeader(w, 301))

\* The code asked for, if it is one, and the default 301 after it in any case.
Redirect ==
  /\ Forwards("Redirect")
  /\ \/ ~input.redirect /\ OptionReturns(w)
     \/ input.redirect /\ input.redirectCode = Garbled /\ ErrorHandler(500)
     \/ /\ input.redirect /\ input.redirectCode # Garbled
        /\ OptionReturns(WriteHeader(IF input.redirectCode \in 301..399
                                     THEN WriteHeader(w, input.redirectCode) ELSE w, 301))

\* After the options, the message.
ForwardResponseMessage ==
  /\ pc = "rpc" /\ input.error = 0 /\ next > Len(config.options)
  /\ \/ ~input.marshals /\ ErrorHandler(500)
     \/ /\ input.marshals
        /\ w' = Write(w) /\ body' = "reply" /\ pc' = "returned"
        /\ UNCHANGED <<config, input, next, ops, logged, counted, panicked, late>>
-----------------------------------------------------------------------------
(* A handler of the application: custom route or ServerHandler *)

HandlerWriteHeader ==
  /\ pc = "handler" /\ ops < MaxOps /\ ops' = ops + 1
  /\ \E c \in Statuses :
       LET v == WriteHeader(w, c) IN
         /\ w' = v
         /\ \/ v.panic /\ pc' = "panic" /\ panicked' = v.sent
            \/ ~v.panic /\ UNCHANGED <<pc, panicked>>
  /\ late' = (late \/ body # "none")
  /\ UNCHANGED <<config, input, next, body, logged, counted>>

HandlerWrite ==
  /\ pc = "handler" /\ ops < MaxOps /\ ops' = ops + 1
  /\ w' = Write(w) /\ body' = "handler"
  /\ UNCHANGED <<config, input, pc, next, logged, counted, panicked, late>>

HandlerPanics ==
  /\ pc = "handler" /\ pc' = "panic" /\ panicked' = w.sent
  /\ UNCHANGED <<config, input, next, w, body, ops, logged, counted, late>>

HandlerReturns ==
  /\ pc = "handler" /\ pc' = "returned"
  /\ UNCHANGED <<config, input, next, w, body, ops, logged, counted, panicked, late>>
-----------------------------------------------------------------------------
(* The middlewares, on the way out *)

\* Mutant: the panic is logged and nothing else.
RecoverSilently ==
  /\ pc = "panic" /\ input.route # "direct"
  /\ w' = [w EXCEPT !.panic = FALSE]
  /\ pc' = "logged"
  /\ UNCHANGED <<config, input, next, body, ops, logged, counted, panicked, late>>

\* loggingMiddleware recovers and answers on the writer it was given, not on
\* its own; there is no access line.
Recover ==
  /\ pc = "panic" /\ input.route # "direct"
  /\ w' = OtelWriteHeader([w EXCEPT !.panic = FALSE], 500)
  /\ pc' = "logged"
  /\ UNCHANGED <<config, input, next, body, ops, logged, counted, panicked, late>>

\* Around a ServerHandler there is no recovery: net/http drops the connection
\* and the metrics never see the end.
Abort ==
  /\ pc = "panic" /\ input.route = "direct" /\ pc' = "aborted"
  /\ UNCHANGED <<config, input, next, w, body, ops, logged, counted, panicked, late>>

AccessLog ==
  /\ pc = "returned" /\ pc' = "logged"
  /\ logged' = IF input.route = "direct" \/ input.quiet THEN 0 ELSE w.lStatus
  /\ UNCHANGED <<config, input, next, w, body, ops, counted, panicked, late>>

\* httpMetrics.wrap
Count ==
  /\ pc = "logged" /\ pc' = "counted"
  /\ counted' = IF config.metrics THEN Append(counted, w.mStatus) ELSE counted
  /\ UNCHANGED <<config, input, next, w, body, ops, logged, panicked, late>>

\* Mutant: without a status there is no reply.
FinishAsIs ==
  /\ pc = "counted" /\ pc' = "done"
  /\ UNCHANGED <<config, input, next, w, body, ops, logged, counted, panicked, late>>

\* net/http: a handler that wrote nothing has answered 200.
Finish ==
  /\ pc = "counted" /\ pc' = "done"
  /\ w' = NetWrite(w)
  /\ UNCHANGED <<config, input, next, body, ops, logged, counted, panicked, late>>
-----------------------------------------------------------------------------
Next ==
  \/ CallFails \/ HTTPResponseModifier \/ Redirect \/ ForwardResponseMessage
  \/ HandlerWriteHeader \/ HandlerWrite \/ HandlerPanics \/ HandlerReturns
  \/ Recover \/ Abort \/ AccessLog \/ Count \/ Finish

Spec == Init /\ [][Next]_vars
-----------------------------------------------------------------------------
(* Properties *)

Writers == [mStatus : Statuses, mWrote : BOOLEAN, lStatus : Statuses, lWrote : BOOLEAN,
            otel : BOOLEAN, sent : Statuses \cup {0}, hint : BOOLEAN, panic : BOOLEAN]

\* An exchange that is done has a status, and only one that panicked is
\* between its handler and the middlewares with a panic.
TypeOK ==
  /\ config \in Configs /\ input \in Exchanges
  /\ pc \in {"rpc", "handler", "panic", "returned", "logged", "counted", "done", "aborted"}
  /\ next \in Nat \ {0} /\ ops \in 0..MaxOps /\ w \in Writers
  /\ body \in {"none", "reply", "error", "handler"}
  /\ logged \in Statuses \cup {0} /\ counted \in Seq(Statuses)
  /\ panicked \in Statuses \cup {0, Absent} /\ late \in BOOLEAN
  /\ pc = "done" => w.sent # 0
  /\ w.panic => pc \in {"panic", "aborted"}

\* Whatever is written, in whatever order, and also when the handler panics,
\* midway or on an invalid status: http_requests_total counts an answered
\* exchange once and under the status the client got.  Two things escape it:
\* an informational status, which ends recording, and, outside the
\* middlewares, a status set after the body has begun.
CountedAsSent ==
  /\ pc = "done" /\ config.metrics =>
       /\ Len(counted) = 1
       /\ w.hint \/ (late /\ input.route = "direct") \/ counted[1] = w.sent
  /\ pc = "aborted" => counted = <<>>

\* An access line shows the status the client got, except after an
\* informational one or one set after the body has begun.
LoggedAsSent ==
  pc = "done" /\ logged # 0 => w.hint \/ late \/ logged = w.sent

\* Behind the middlewares a panic never costs the client its answer: the final
\* status that had gone out before it, and otherwise 500, whichever writers
\* have seen what.  One case is worse than that: after an informational status
\* the metrics' writer takes no second one, so recovery's 500 is lost and the
\* client of a handler that panicked gets net/http's implicit 200.
PanicAnswered ==
  /\ pc = "aborted" => input.route = "direct"
  /\ pc = "done" /\ panicked # Absent =>
       w.sent = IF panicked # 0 THEN panicked
                ELSE IF w.hint /\ config.metrics THEN 200 ELSE 500

\* With at most one forward response option and messages that can be
\* marshalled, an error's body never goes out under a success or a redirect:
\* no option sets a status before it fails.
ErrorStatus ==
  body = "error" /\ pc = "done" /\ Len(config.options) <= 1 /\ input.marshals => w.sent >= 400

\* "This will redirect endpoint to https://5kbps.io with code 308, by default
\* redirect code is 301" (gatewayopt.go): though Redirect sets both.
RedirectAsAsked ==
  /\ pc = "done" /\ config.options = <<"Redirect">> /\ input.route = "rpc" /\ input.error = 0
  /\ input.redirect /\ input.redirectCode # Garbled /\ input.marshals
  => w.sent = IF input.redirectCode \in 301..399 THEN input.redirectCode ELSE 301
=============================================================================
