-------------------------- MODULE HttpReplyProofs --------------------------
(***************************************************************************)
(* Theorems about HttpReply, for any status codes, any list of forward     *)
(* response options and handlers that make any number of calls.            *)
(***************************************************************************)
EXTENDS HttpReply, TLAPS

\* What a status code can be, for the provers.
LEMMA StatusFacts ==
  /\ 200 \in Statuses /\ 301 \in Statuses /\ 500 \in Statuses /\ 0 \notin Statuses
  /\ Statuses \subseteq Nat /\ ErrorStatuses \subseteq Statuses
  /\ \A s \in ErrorStatuses : s \in 400..599
  BY HttpReplyAssumption

LEMMA InputFacts ==
  ASSUME input \in Exchanges
  PROVE  /\ input.route \in {"rpc", "custom", "direct"} /\ input.quiet \in BOOLEAN
         /\ input.error \in ErrorStatuses \cup {0} /\ input.redirect \in BOOLEAN
         /\ input.code \in Statuses \cup {Absent, Garbled}
         /\ input.redirectCode \in Statuses \cup {Absent, Garbled} /\ input.marshals \in BOOLEAN
<1>1. input \in Exchange
  BY HttpReplyAssumption
<1>2. QED
  BY <1>1 DEF Exchange

LEMMA ConfigFacts ==
  ASSUME config \in Configs
  PROVE  config.metrics \in BOOLEAN /\ config.options \in Seq(Options)
  BY HttpReplyAssumption
-----------------------------------------------------------------------------
(* The stack of writers *)

\* What net/http makes of a status, given the one it has sent.
Sends(v, c) == v.sent = 0 /\ c \in {101} \cup 200..999
Hints(v, c) == v.sent = 0 /\ c \in 100..199 \ {101}
Refuses(v, c) == v.sent = 0 /\ c \notin 100..999

\* n is what the call to net/http's writer makes of v.
Reaches(v, n, c) ==
  /\ n.sent = (IF Sends(v, c) THEN c ELSE v.sent)
  /\ n.hint <=> v.hint \/ Hints(v, c)
  /\ n.panic <=> Refuses(v, c)

LEMMA NetFacts ==
  ASSUME NEW v \in Writers, ~v.panic, NEW c \in Statuses
  PROVE  LET n == NetWriteHeader(v, c)
         IN /\ n \in Writers /\ Reaches(v, n, c)
            /\ n.mStatus = v.mStatus /\ (n.mWrote <=> v.mWrote) /\ n.lStatus = v.lStatus
            /\ (n.lWrote <=> v.lWrote) /\ (n.otel <=> v.otel)
<1> USE DEF Reaches, Sends, Hints, Refuses
<1>0. c \in Nat /\ c # 0
  BY StatusFacts
<1>1. CASE v.sent # 0
  BY <1>1 DEF NetWriteHeader
<1>2. CASE v.sent = 0 /\ c \notin 100..999
  <2> DEFINE n == [v EXCEPT !.panic = TRUE]
  <2>1. /\ n \in Writers /\ n.panic /\ n.sent = v.sent /\ (n.hint <=> v.hint) /\ n.mStatus = v.mStatus
        /\ (n.mWrote <=> v.mWrote) /\ n.lStatus = v.lStatus /\ (n.lWrote <=> v.lWrote)
        /\ (n.otel <=> v.otel)
    BY DEF Writers
  <2>2. NetWriteHeader(v, c) = n
    BY <1>0, <1>2 DEF NetWriteHeader
  <2> HIDE DEF n
  <2>3. Reaches(v, n, c)
    BY <1>0, <1>2, <2>1
  <2>4. QED
    BY <2>1, <2>2, <2>3
<1>3. CASE v.sent = 0 /\ c \in 100..199 \ {101}
  <2> DEFINE n == [v EXCEPT !.hint = TRUE]
  <2>1. /\ n \in Writers /\ n.hint /\ n.sent = v.sent /\ (n.panic <=> v.panic) /\ n.mStatus = v.mStatus
        /\ (n.mWrote <=> v.mWrote) /\ n.lStatus = v.lStatus /\ (n.lWrote <=> v.lWrote)
        /\ (n.otel <=> v.otel)
    BY DEF Writers
  <2>2. NetWriteHeader(v, c) = n
    BY <1>0, <1>3 DEF NetWriteHeader
  <2> HIDE DEF n
  <2>3. Reaches(v, n, c)
    BY <1>0, <1>3, <2>1
  <2>4. QED
    BY <2>1, <2>2, <2>3
<1>4. CASE v.sent = 0 /\ c \in {101} \cup 200..999
  BY <1>0, <1>4 DEF NetWriteHeader, Writers
<1>5. QED
  BY <1>0, <1>1, <1>2, <1>3, <1>4

LEMMA NetWriteFacts ==
  ASSUME NEW v \in Writers
  PROVE  LET n == NetWrite(v)
         IN /\ n \in Writers /\ n.sent = (IF v.sent = 0 THEN 200 ELSE v.sent)
            /\ n.mStatus = v.mStatus /\ (n.mWrote <=> v.mWrote) /\ n.lStatus = v.lStatus
            /\ (n.lWrote <=> v.lWrote) /\ (n.otel <=> v.otel) /\ (n.hint <=> v.hint)
            /\ (n.panic <=> v.panic)
<1>1. CASE v.sent # 0
  BY <1>1 DEF NetWrite
<1>2. CASE v.sent = 0
  BY <1>2, StatusFacts DEF NetWrite, Writers
<1>3. QED
  BY <1>1, <1>2

\* The metrics' responseWriter: the first status that net/http accepts.
LEMMA MetricsFacts ==
  ASSUME config \in Configs, NEW v \in Writers, ~v.panic, NEW c \in Statuses
  PROVE  LET m == MetricsWriteHeader(v, c)
         IN /\ m \in Writers
            /\ config.metrics /\ v.mWrote => m = v
            /\ ~(config.metrics /\ v.mWrote) => Reaches(v, m, c)
            /\ config.metrics /\ ~v.mWrote => m.mStatus = c /\ (m.mWrote <=> ~m.panic)
            /\ m.lStatus = v.lStatus /\ (m.lWrote <=> v.lWrote) /\ (m.otel <=> v.otel)
<1>1. CASE ~config.metrics
  BY <1>1, NetFacts DEF MetricsWriteHeader
<1>2. CASE config.metrics /\ v.mWrote
  BY <1>2 DEF MetricsWriteHeader
<1>3. CASE config.metrics /\ ~v.mWrote
  <2> DEFINE u == [v EXCEPT !.mStatus = c]
             n == NetWriteHeader(u, c)
  <2>1. /\ u \in Writers /\ u.mStatus = c /\ u.sent = v.sent /\ (u.mWrote <=> v.mWrote)
        /\ u.lStatus = v.lStatus /\ (u.lWrote <=> v.lWrote) /\ (u.otel <=> v.otel)
        /\ (u.hint <=> v.hint) /\ ~u.panic
    BY DEF Writers
  <2> HIDE DEF u
  <2>2. /\ n \in Writers /\ Reaches(u, n, c) /\ n.mStatus = c /\ (n.mWrote <=> v.mWrote)
        /\ n.lStatus = v.lStatus /\ (n.lWrote <=> v.lWrote) /\ (n.otel <=> v.otel)
    BY <2>1, NetFacts
  <2>3. MetricsWriteHeader(v, c) = IF n.panic THEN n ELSE [n EXCEPT !.mWrote = TRUE]
    BY <1>3 DEF MetricsWriteHeader, u
  <2> HIDE DEF n
  <2>4. Reaches(v, n, c)
    BY <2>1, <2>2 DEF Reaches, Sends, Hints, Refuses
  <2>5. CASE n.panic
    BY <1>3, <2>2, <2>3, <2>4, <2>5
  <2>6. CASE ~n.panic
    <3> DEFINE m == [n EXCEPT !.mWrote = TRUE]
    <3>1. /\ m \in Writers /\ m.mWrote /\ m.mStatus = n.mStatus /\ m.sent = n.sent
          /\ m.lStatus = n.lStatus /\ (m.lWrote <=> n.lWrote) /\ (m.otel <=> n.otel)
          /\ (m.hint <=> n.hint) /\ (m.panic <=> n.panic)
      BY <2>2 DEF Writers
    <3>2. MetricsWriteHeader(v, c) = m
      BY <2>3, <2>6
    <3> HIDE DEF m
    <3>3. Reaches(v, m, c)
      BY <2>4, <3>1 DEF Reaches
    <3>4. QED
      BY <1>3, <2>2, <2>6, <3>1, <3>2, <3>3
  <2>7. QED
    BY <2>5, <2>6
<1>4. QED
  BY <1>1, <1>2, <1>3

\* otelhttp's writer passes on what it gets.
LEMMA OtelFacts ==
  ASSUME config \in Configs, NEW v \in Writers, ~v.panic, NEW c \in Statuses
  PROVE  LET m == OtelWriteHeader(v, c)
         IN /\ m \in Writers /\ m.otel
            /\ config.metrics /\ v.mWrote =>
                 /\ m.sent = v.sent /\ (m.hint <=> v.hint) /\ ~m.panic /\ m.mWrote /\ m.mStatus = v.mStatus
            /\ ~(config.metrics /\ v.mWrote) => Reaches(v, m, c)
            /\ config.metrics /\ ~v.mWrote => m.mStatus = c /\ (m.mWrote <=> ~m.panic)
            /\ m.lStatus = v.lStatus /\ (m.lWrote <=> v.lWrote)
<1> DEFINE u == [v EXCEPT !.otel = TRUE]
           m == MetricsWriteHeader(u, c)
<1>1. /\ u \in Writers /\ u.mStatus = v.mStatus /\ u.sent = v.sent /\ (u.mWrote <=> v.mWrote)
      /\ u.lStatus = v.lStatus /\ (u.lWrote <=> v.lWrote) /\ u.otel
      /\ (u.hint <=> v.hint) /\ ~u.panic
  BY DEF Writers
<1>2. OtelWriteHeader(v, c) = m
  BY DEF OtelWriteHeader
<1> HIDE DEF u
<1>3. /\ m \in Writers
      /\ config.metrics /\ u.mWrote => m = u
      /\ ~(config.metrics /\ u.mWrote) => Reaches(u, m, c)
      /\ config.metrics /\ ~u.mWrote => m.mStatus = c /\ (m.mWrote <=> ~m.panic)
      /\ m.lStatus = u.lStatus /\ (m.lWrote <=> u.lWrote) /\ (m.otel <=> u.otel)
  BY <1>1, MetricsFacts
<1> HIDE DEF m
<1>4. Reaches(u, m, c) => Reaches(v, m, c)
  BY <1>1 DEF Reaches, Sends, Hints, Refuses
<1>5. CASE config.metrics /\ v.mWrote
  BY <1>1, <1>2, <1>3, <1>5
<1>6. CASE ~(config.metrics /\ v.mWrote)
  BY <1>1, <1>2, <1>3, <1>4, <1>6
<1>7. QED
  BY <1>5, <1>6

\* The access log's responseWriter, on top of otelhttp's.
LEMMA LogFacts ==
  ASSUME config \in Configs, NEW v \in Writers, ~v.panic, NEW c \in Statuses
  PROVE  LET m == LogWriteHeader(v, c)
         IN /\ m \in Writers
            /\ v.lWrote => m = v
            /\ ~v.lWrote =>
                 /\ m.otel /\ m.lStatus = c /\ (m.lWrote <=> ~m.panic)
                 /\ config.metrics /\ v.mWrote =>
                      m.sent = v.sent /\ (m.hint <=> v.hint) /\ ~m.panic /\ m.mWrote /\ m.mStatus = v.mStatus
                 /\ ~(config.metrics /\ v.mWrote) => Reaches(v, m, c)
                 /\ config.metrics /\ ~v.mWrote => m.mStatus = c /\ (m.mWrote <=> ~m.panic)
<1>1. CASE v.lWrote
  BY <1>1 DEF LogWriteHeader
<1>2. CASE ~v.lWrote
  <2> DEFINE u == [v EXCEPT !.lStatus = c]
             n == OtelWriteHeader(u, c)
  <2>1. /\ u \in Writers /\ u.mStatus = v.mStatus /\ u.sent = v.sent /\ (u.mWrote <=> v.mWrote)
        /\ u.lStatus = c /\ (u.lWrote <=> v.lWrote) /\ (u.otel <=> v.otel)
        /\ (u.hint <=> v.hint) /\ ~u.panic
    BY DEF Writers
  <2>2. LogWriteHeader(v, c) = IF n.panic THEN n ELSE [n EXCEPT !.lWrote = TRUE]
    BY <1>2 DEF LogWriteHeader
  <2> HIDE DEF u
  <2>3. /\ n \in Writers /\ n.otel /\ n.lStatus = c /\ ~n.lWrote
        /\ config.metrics /\ v.mWrote =>
             n.sent = v.sent /\ (n.hint <=> v.hint) /\ ~n.panic /\ n.mWrote /\ n.mStatus = v.mStatus
        /\ ~(config.metrics /\ v.mWrote) => Reaches(u, n, c)
        /\ config.metrics /\ ~v.mWrote => n.mStatus = c /\ (n.mWrote <=> ~n.panic)
    BY <1>2, <2>1, OtelFacts
  <2> HIDE DEF n
  <2>4. Reaches(u, n, c) => Reaches(v, n, c)
    BY <2>1 DEF Reaches, Sends, Hints, Refuses
  <2>5. CASE n.panic
    BY <1>2, <2>2, <2>3, <2>4, <2>5
  <2>6. CASE ~n.panic
    <3> DEFINE m == [n EXCEPT !.lWrote = TRUE]
    <3>1. /\ m \in Writers /\ (m.mWrote <=> n.mWrote) /\ m.mStatus = n.mStatus /\ m.sent = n.sent
          /\ m.lStatus = n.lStatus /\ m.lWrote /\ (m.otel <=> n.otel)
          /\ (m.hint <=> n.hint) /\ (m.panic <=> n.panic)
      BY <2>3 DEF Writers
    <3>2. LogWriteHeader(v, c) = m
      BY <2>2, <2>6
    <3> HIDE DEF m
    <3>3. Reaches(v, n, c) => Reaches(v, m, c)
      BY <3>1 DEF Reaches
    <3>4. QED
      BY <1>2, <2>3, <2>4, <2>6, <3>1, <3>2, <3>3
  <2>7. QED
    BY <2>5, <2>6
<1>3. QED
  BY <1>1, <1>2
-----------------------------------------------------------------------------
(* What the writers agree on *)

\* Behind the middlewares the metrics' writer sees every status, otelhttp's
\* for a body without one included, and after an informational one no more.
BehindOK(v) ==
  config.metrics /\ input.route # "direct" =>
    /\ v.hint => v.mWrote
    /\ ~v.hint /\ v.mWrote => v.mStatus = v.sent /\ v.sent # 0
    /\ ~v.hint /\ ~v.mWrote => v.sent = 0 /\ (v.panic \/ (v.mStatus = 200 /\ ~v.otel))

\* What may have gone out behind a writer's back, before and after the body
\* has begun.
Fresh == {0}
Begun == {0, 200}

\* Without them it misses the 200 of a body without a status.
DirectOK(v, unseen) ==
  config.metrics /\ input.route = "direct" /\ ~v.hint =>
    /\ v.mWrote => v.mStatus = v.sent /\ v.sent # 0
    /\ ~v.mWrote => v.sent \in unseen /\ (v.panic \/ v.mStatus = 200)

\* So does the access log's.
LogOK(v, unseen) ==
  input.route # "direct" /\ ~input.quiet /\ ~v.hint =>
    /\ v.lWrote => v.lStatus = v.sent /\ v.sent # 0
    /\ ~v.lWrote => v.sent \in unseen /\ (v.panic \/ v.lStatus = 200)

LEMMA MetricsAgree ==
  ASSUME config \in Configs, input \in Exchanges, NEW v \in Writers, ~v.panic, NEW c \in Statuses,
         input.route = "direct"
  PROVE  LET m == MetricsWriteHeader(v, c)
         IN /\ DirectOK(v, Fresh) => DirectOK(m, Fresh)
            /\ v.hint => m.hint
            /\ v.sent # 0 => m.sent = v.sent
<1>1. c \in Nat /\ c # 0
  BY StatusFacts
<1>2. v.sent # 0 => ~Sends(v, c) /\ ~Hints(v, c) /\ ~Refuses(v, c)
  BY DEF Sends, Hints, Refuses
<1>3. v.sent = 0 => Sends(v, c) \/ Hints(v, c) \/ Refuses(v, c)
  BY <1>1 DEF Sends, Hints, Refuses
<1>4. config.metrics \in BOOLEAN
  BY ConfigFacts
<1> DEFINE m == MetricsWriteHeader(v, c)
<1>5. /\ m \in Writers
      /\ config.metrics /\ v.mWrote => m = v
      /\ ~(config.metrics /\ v.mWrote) => Reaches(v, m, c)
      /\ config.metrics /\ ~v.mWrote => m.mStatus = c /\ (m.mWrote <=> ~m.panic)
  BY MetricsFacts
<1> HIDE DEF m
<1>6. v.hint => m.hint
  BY <1>5 DEF Reaches
<1>7. v.sent # 0 => m.sent = v.sent
  BY <1>2, <1>5 DEF Reaches
<1>8. ASSUME DirectOK(v, Fresh) PROVE DirectOK(m, Fresh)
  <2> SUFFICES ASSUME config.metrics, ~m.hint
               PROVE  /\ m.mWrote => m.mStatus = m.sent /\ m.sent # 0
                      /\ ~m.mWrote => m.sent = 0 /\ (m.panic \/ m.mStatus = 200)
    BY DEF DirectOK, Fresh
  <2>1. ~v.hint
    BY <1>6
  <2>2. CASE v.mWrote
    BY <2>1, <2>2, <1>5, <1>8 DEF DirectOK, Fresh
  <2>3. CASE ~v.mWrote
    <3>1. v.sent = 0 /\ Reaches(v, m, c) /\ m.mStatus = c /\ (m.mWrote <=> ~m.panic)
      BY <2>1, <2>3, <1>5, <1>8 DEF DirectOK, Fresh
    <3>2. CASE Sends(v, c)
      BY <3>1, <3>2, <1>1 DEF Reaches, Sends, Refuses
    <3>3. CASE Refuses(v, c)
      BY <3>1, <3>3 DEF Reaches, Sends, Refuses
    <3>4. CASE Hints(v, c)
      BY <3>1, <3>4 DEF Reaches
    <3>5. QED
      BY <3>1, <3>2, <3>3, <3>4, <1>3
  <2>4. QED
    BY <2>2, <2>3
<1>9. QED
  BY <1>6, <1>7, <1>8 DEF m

\* A status through otelhttp's writer.
LEMMA OtelAgrees ==
  ASSUME config \in Configs, input \in Exchanges, NEW v \in Writers, ~v.panic, NEW c \in Statuses
  PROVE  LET m == OtelWriteHeader(v, c)
         IN /\ m \in Writers /\ m.lStatus = v.lStatus /\ (m.lWrote <=> v.lWrote) /\ m.otel
            /\ input.route # "direct" /\ BehindOK(v) => BehindOK(m)
            /\ v.hint => m.hint
            /\ v.sent # 0 => m.sent = v.sent /\ ~m.panic
            /\ c \in 200..999 => ~m.panic
            /\ v.sent = 0 /\ input.route # "direct" /\ BehindOK(v) /\ ~m.hint /\ ~m.panic => m.sent = c
<1>1. c \in Nat /\ c # 0
  BY StatusFacts
<1>2. v.sent # 0 => ~Sends(v, c) /\ ~Hints(v, c) /\ ~Refuses(v, c)
  BY DEF Sends, Hints, Refuses
<1>3. v.sent = 0 => Sends(v, c) \/ Hints(v, c) \/ Refuses(v, c)
  BY <1>1 DEF Sends, Hints, Refuses
<1>4. config.metrics \in BOOLEAN
  BY ConfigFacts
<1> DEFINE m == OtelWriteHeader(v, c)
<1>5. /\ m \in Writers /\ m.otel /\ m.lStatus = v.lStatus /\ (m.lWrote <=> v.lWrote)
      /\ config.metrics /\ v.mWrote =>
           m.sent = v.sent /\ (m.hint <=> v.hint) /\ ~m.panic /\ m.mWrote /\ m.mStatus = v.mStatus
      /\ ~(config.metrics /\ v.mWrote) => Reaches(v, m, c)
      /\ config.metrics /\ ~v.mWrote => m.mStatus = c /\ (m.mWrote <=> ~m.panic)
  BY OtelFacts
<1> HIDE DEF m
<1>6. v.hint => m.hint
  BY <1>5 DEF Reaches
<1>7. v.sent # 0 => m.sent = v.sent /\ ~m.panic
  BY <1>2, <1>5 DEF Reaches
<1>8. c \in 200..999 => ~m.panic
  BY <1>5 DEF Reaches, Refuses
<1>9. ASSUME input.route # "direct", BehindOK(v) PROVE BehindOK(m)
  <2>0. config.metrics /\ m.hint => m.mWrote
    <3>1. CASE v.mWrote
      BY <1>5, <3>1
    <3>2. CASE config.metrics /\ ~v.mWrote
      <4>1. ~v.hint /\ Reaches(v, m, c) /\ (m.mWrote <=> ~m.panic)
        BY <1>5, <1>9, <3>2 DEF BehindOK
      <4>2. Hints(v, c) => ~Refuses(v, c)
        BY <1>1 DEF Hints, Refuses
      <4>3. QED
        BY <4>1, <4>2 DEF Reaches
    <3>3. QED
      BY <3>1, <3>2
  <2> SUFFICES ASSUME config.metrics, ~m.hint
               PROVE  /\ m.mWrote => m.mStatus = m.sent /\ m.sent # 0
                      /\ ~m.mWrote => m.sent = 0 /\ (m.panic \/ (m.mStatus = 200 /\ ~m.otel))
    BY <2>0 DEF BehindOK
  <2>1. ~v.hint
    BY <1>6
  <2>2. CASE v.mWrote
    BY <2>1, <2>2, <1>5, <1>9 DEF BehindOK
  <2>3. CASE ~v.mWrote
    <3>1. v.sent = 0 /\ Reaches(v, m, c) /\ m.mStatus = c /\ (m.mWrote <=> ~m.panic)
      BY <2>1, <2>3, <1>5, <1>9 DEF BehindOK
    <3>2. CASE Sends(v, c)
      BY <3>1, <3>2, <1>1 DEF Reaches, Sends, Refuses
    <3>3. CASE Refuses(v, c)
      BY <3>1, <3>3 DEF Reaches, Sends, Refuses
    <3>4. CASE Hints(v, c)
      BY <3>1, <3>4 DEF Reaches
    <3>5. QED
      BY <3>1, <3>2, <3>3, <3>4, <1>3
  <2>4. QED
    BY <2>2, <2>3
<1>10. ASSUME v.sent = 0, input.route # "direct", BehindOK(v), ~m.hint, ~m.panic PROVE m.sent = c
  <2>1. ~(config.metrics /\ v.mWrote)
    BY <1>6, <1>10 DEF BehindOK
  <2>2. Reaches(v, m, c)
    BY <2>1, <1>5
  <2>3. QED
    BY <1>3, <1>10, <2>2 DEF Reaches
<1>11. QED
  BY <1>5, <1>6, <1>7, <1>8, <1>9, <1>10 DEF m

\* A body through otelhttp's writer.
LEMMA OtelWriteAgrees ==
  ASSUME config \in Configs, input \in Exchanges, NEW v \in Writers, ~v.panic, input.route # "direct"
  PROVE  LET o == OtelWrite(v)
         IN /\ o \in Writers /\ ~o.panic /\ o.sent = (IF v.sent = 0 THEN 200 ELSE v.sent)
            /\ o.lStatus = v.lStatus /\ (o.lWrote <=> v.lWrote) /\ (v.hint => o.hint)
            /\ BehindOK(v) => BehindOK(o)
<1> DEFINE u == IF v.otel THEN v ELSE OtelWriteHeader(v, 200)
           o == NetWrite(u)
<1>1. OtelWrite(v) = o
  BY DEF OtelWrite
<1>2. 200 \in Statuses
  BY StatusFacts
<1>3. /\ u \in Writers /\ ~u.panic /\ u.lStatus = v.lStatus /\ (u.lWrote <=> v.lWrote)
      /\ (v.hint => u.hint) /\ (BehindOK(v) => BehindOK(u)) /\ (v.sent # 0 => u.sent = v.sent)
      /\ (v.sent = 0 => u.sent \in {0, 200}) /\ u.otel
  <2>1. CASE v.otel
    BY <2>1
  <2>2. CASE ~v.otel
    <3> DEFINE m == OtelWriteHeader(v, 200)
    <3>1. /\ m \in Writers /\ m.lStatus = v.lStatus /\ (m.lWrote <=> v.lWrote) /\ m.otel
          /\ (BehindOK(v) => BehindOK(m)) /\ (v.hint => m.hint) /\ (v.sent # 0 => m.sent = v.sent) /\ ~m.panic
      BY <1>2, OtelAgrees
    <3>2. v.sent = 0 => m.sent \in {0, 200}
      BY <1>2, OtelFacts DEF Reaches
    <3>3. QED
      BY <2>2, <3>1, <3>2
  <2>3. QED
    BY <2>1, <2>2
<1> HIDE DEF u
<1>4. /\ o \in Writers /\ o.sent = (IF u.sent = 0 THEN 200 ELSE u.sent)
      /\ o.mStatus = u.mStatus /\ (o.mWrote <=> u.mWrote) /\ o.lStatus = u.lStatus
      /\ (o.lWrote <=> u.lWrote) /\ (o.otel <=> u.otel) /\ (o.hint <=> u.hint) /\ (o.panic <=> u.panic)
  BY <1>3, NetWriteFacts
<1> HIDE DEF o
<1>5. BehindOK(u) => BehindOK(o)
  BY <1>3, <1>4 DEF BehindOK
<1>6. o.sent = IF v.sent = 0 THEN 200 ELSE v.sent
  BY <1>3, <1>4
<1>7. QED
  BY <1>1, <1>3, <1>4, <1>5, <1>6

\* A status through the access log's writer.
LEMMA LogAgrees ==
  ASSUME config \in Configs, input \in Exchanges, NEW v \in Writers, ~v.panic, NEW c \in Statuses,
         input.route # "direct"
  PROVE  LET m == LogWriteHeader(v, c)
         IN /\ m \in Writers
            /\ BehindOK(v) => BehindOK(m)
            /\ BehindOK(v) /\ LogOK(v, Fresh) => LogOK(m, Fresh)
            /\ v.hint => m.hint
            /\ v.sent # 0 => m.sent = v.sent /\ ~m.panic
            /\ c \in 200..999 => ~m.panic
<1>1. c \in Nat /\ c # 0 /\ (v.sent # 0 => ~Sends(v, c) /\ ~Hints(v, c) /\ ~Refuses(v, c))
      /\ (v.sent = 0 => Sends(v, c) \/ Hints(v, c) \/ Refuses(v, c))
  <2>1. c \in Nat /\ c # 0
    BY StatusFacts
  <2>2. QED
    BY <2>1 DEF Sends, Hints, Refuses
<1>2. config.metrics \in BOOLEAN
  BY ConfigFacts
<1>3. CASE v.lWrote
  BY <1>3, LogFacts
<1>4. CASE ~v.lWrote
  <2> DEFINE m == LogWriteHeader(v, c)
  <2>1. /\ m \in Writers /\ m.otel /\ m.lStatus = c /\ (m.lWrote <=> ~m.panic)
        /\ config.metrics /\ v.mWrote =>
             m.sent = v.sent /\ (m.hint <=> v.hint) /\ ~m.panic /\ m.mWrote /\ m.mStatus = v.mStatus
        /\ ~(config.metrics /\ v.mWrote) => Reaches(v, m, c)
        /\ config.metrics /\ ~v.mWrote => m.mStatus = c /\ (m.mWrote <=> ~m.panic)
    BY <1>4, LogFacts
  <2> HIDE DEF m
  <2>2. v.hint => m.hint
    BY <2>1 DEF Reaches
  <2>3. v.sent # 0 => m.sent = v.sent /\ ~m.panic
    BY <1>1, <2>1 DEF Reaches
  <2>4. c \in 200..999 => ~m.panic
    BY <2>1 DEF Reaches, Refuses
  <2>5. ASSUME BehindOK(v) PROVE BehindOK(m)
    <3>0. config.metrics /\ m.hint => m.mWrote
      <4>1. CASE v.mWrote
        BY <2>1, <4>1
      <4>2. CASE config.metrics /\ ~v.mWrote
        <5>1. ~v.hint /\ Reaches(v, m, c) /\ (m.mWrote <=> ~m.panic)
          BY <2>1, <2>5, <4>2 DEF BehindOK
        <5>2. Hints(v, c) => ~Refuses(v, c)
          BY <1>1 DEF Hints, Refuses
        <5>3. QED
          BY <5>1, <5>2 DEF Reaches
      <4>3. QED
        BY <4>1, <4>2
    <3> SUFFICES ASSUME config.metrics, ~m.hint
                 PROVE  /\ m.mWrote => m.mStatus = m.sent /\ m.sent # 0
                        /\ ~m.mWrote => m.sent = 0 /\ (m.panic \/ (m.mStatus = 200 /\ ~m.otel))
      BY <3>0 DEF BehindOK
    <3>1. CASE v.mWrote
      BY <3>1, <2>1, <2>2, <2>5 DEF BehindOK
    <3>2. CASE ~v.mWrote
      <4>1. v.sent = 0 /\ Reaches(v, m, c) /\ m.mStatus = c /\ (m.mWrote <=> ~m.panic)
        BY <3>2, <2>1, <2>2, <2>5 DEF BehindOK
      <4>2. CASE Sends(v, c)
        BY <4>1, <4>2, <1>1 DEF Reaches, Sends, Refuses
      <4>3. CASE Refuses(v, c)
        BY <4>1, <4>3 DEF Reaches, Sends, Refuses
      <4>4. QED
        BY <4>1, <4>2, <4>3, <1>1 DEF Reaches
    <3>3. QED
      BY <3>1, <3>2
  <2>6. ASSUME BehindOK(v), LogOK(v, Fresh) PROVE LogOK(m, Fresh)
    <3> SUFFICES ASSUME ~input.quiet, ~m.hint
                 PROVE  /\ m.lWrote => m.lStatus = m.sent /\ m.sent # 0
                        /\ ~m.lWrote => m.sent = 0 /\ (m.panic \/ m.lStatus = 200)
      BY DEF LogOK, Fresh
    <3>1. ~v.hint /\ v.sent = 0
      BY <1>4, <2>2, <2>6 DEF LogOK, Fresh
    <3>2. ~(config.metrics /\ v.mWrote)
      BY <3>1, <2>6 DEF BehindOK
    <3>3. Reaches(v, m, c)
      BY <3>2, <2>1
    <3>4. CASE Sends(v, c)
      BY <3>1, <3>3, <3>4, <2>1, <1>1 DEF Reaches, Sends, Refuses
    <3>5. CASE Refuses(v, c)
      BY <3>1, <3>3, <3>5, <2>1 DEF Reaches, Sends, Refuses
    <3>6. QED
      BY <3>1, <3>3, <3>4, <3>5, <1>1 DEF Reaches
  <2>7. QED
    BY <2>1, <2>2, <2>3, <2>4, <2>5, <2>6 DEF m
<1>5. QED
  BY <1>3, <1>4

\* A status through whatever stack the handler's writer is on top of.
LEMMA HeaderAgrees ==
  ASSUME config \in Configs, input \in Exchanges, NEW v \in Writers, ~v.panic, NEW c \in Statuses
  PROVE  LET m == WriteHeader(v, c)
         IN /\ m \in Writers
            /\ BehindOK(v) => BehindOK(m)
            /\ BehindOK(v) /\ LogOK(v, Fresh) => LogOK(m, Fresh)
            /\ DirectOK(v, Fresh) => DirectOK(m, Fresh)
            /\ v.hint => m.hint
            /\ v.sent # 0 => m.sent = v.sent /\ ~m.panic
            /\ c \in 200..999 => ~m.panic
<1>1. CASE input.route = "direct"
  <2> DEFINE m == MetricsWriteHeader(v, c)
  <2>1. WriteHeader(v, c) = m
    BY <1>1 DEF WriteHeader
  <2>2. BehindOK(m) /\ LogOK(m, Fresh)
    BY <1>1 DEF BehindOK, LogOK
  <2>3. (DirectOK(v, Fresh) => DirectOK(m, Fresh)) /\ (v.hint => m.hint) /\ (v.sent # 0 => m.sent = v.sent)
    BY <1>1, MetricsAgree
  <2>4. /\ m \in Writers /\ (config.metrics /\ v.mWrote => m = v)
        /\ (~(config.metrics /\ v.mWrote) => Reaches(v, m, c))
    BY MetricsFacts
  <2> HIDE DEF m
  <2>5. (v.sent # 0 \/ c \in 200..999) => ~m.panic
    BY <2>4 DEF Reaches, Refuses
  <2>6. QED
    BY <2>1, <2>2, <2>3, <2>4, <2>5
<1>2. CASE input.route # "direct" /\ input.quiet
  <2> DEFINE m == OtelWriteHeader(v, c)
  <2>1. WriteHeader(v, c) = m
    BY <1>2 DEF WriteHeader
  <2>2. DirectOK(m, Fresh) /\ LogOK(m, Fresh)
    BY <1>2 DEF DirectOK, LogOK
  <2>3. /\ m \in Writers /\ (BehindOK(v) => BehindOK(m)) /\ (v.hint => m.hint)
        /\ (v.sent # 0 => m.sent = v.sent /\ ~m.panic) /\ (c \in 200..999 => ~m.panic)
    BY <1>2, OtelAgrees
  <2> HIDE DEF m
  <2>4. QED
    BY <2>1, <2>2, <2>3
<1>3. CASE input.route # "direct" /\ ~input.quiet
  <2> DEFINE m == LogWriteHeader(v, c)
  <2>1. WriteHeader(v, c) = m
    BY <1>3 DEF WriteHeader
  <2>2. DirectOK(m, Fresh)
    BY <1>3 DEF DirectOK
  <2>3. /\ m \in Writers /\ (BehindOK(v) => BehindOK(m)) /\ (v.hint => m.hint)
        /\ (BehindOK(v) /\ LogOK(v, Fresh) => LogOK(m, Fresh))
        /\ (v.sent # 0 => m.sent = v.sent /\ ~m.panic) /\ (c \in 200..999 => ~m.panic)
    BY <1>3, LogAgrees
  <2> HIDE DEF m
  <2>4. QED
    BY <2>1, <2>2, <2>3
<1>4. QED
  BY <1>1, <1>2, <1>3, InputFacts

\* A body through that stack: from here on it has begun.
LEMMA WriteAgrees ==
  ASSUME config \in Configs, input \in Exchanges, NEW v \in Writers, ~v.panic
  PROVE  LET m == Write(v)
         IN /\ m \in Writers /\ ~m.panic
            /\ BehindOK(v) => BehindOK(m)
            /\ LogOK(v, Fresh) \/ LogOK(v, Begun) => LogOK(m, Begun)
            /\ DirectOK(v, Fresh) \/ DirectOK(v, Begun) => DirectOK(m, Begun)
<1>1. CASE input.route = "direct"
  <2> DEFINE m == NetWrite(v)
  <2>1. Write(v) = m
    BY <1>1 DEF Write
  <2>2. BehindOK(m) /\ LogOK(m, Begun)
    BY <1>1 DEF BehindOK, LogOK
  <2>3. /\ m \in Writers /\ m.sent = (IF v.sent = 0 THEN 200 ELSE v.sent) /\ m.mStatus = v.mStatus
        /\ (m.mWrote <=> v.mWrote) /\ (m.hint <=> v.hint) /\ (m.panic <=> v.panic)
    BY NetWriteFacts
  <2> HIDE DEF m
  <2>4. DirectOK(v, Fresh) \/ DirectOK(v, Begun) => DirectOK(m, Begun)
    BY <2>3 DEF DirectOK, Fresh, Begun
  <2>5. QED
    BY <2>1, <2>2, <2>3, <2>4
<1>2. CASE input.route # "direct"
  <2> DEFINE m == OtelWrite(v)
  <2>1. Write(v) = m
    BY <1>2 DEF Write
  <2>2. DirectOK(m, Begun)
    BY <1>2 DEF DirectOK
  <2>3. /\ m \in Writers /\ ~m.panic /\ m.sent = (IF v.sent = 0 THEN 200 ELSE v.sent)
        /\ m.lStatus = v.lStatus /\ (m.lWrote <=> v.lWrote) /\ (v.hint => m.hint)
        /\ (BehindOK(v) => BehindOK(m))
    BY <1>2, OtelWriteAgrees
  <2> HIDE DEF m
  <2>4. LogOK(v, Fresh) \/ LogOK(v, Begun) => LogOK(m, Begun)
    BY <2>3 DEF LogOK, Fresh, Begun
  <2>5. QED
    BY <2>1, <2>2, <2>3, <2>4
<1>3. QED
  BY <1>1, <1>2

\* What ErrorHandler does to the writers: a status that net/http accepts, and
\* a body.
LEMMA ErrorAgrees ==
  ASSUME config \in Configs, input \in Exchanges, NEW v \in Writers, ~v.panic,
         NEW c \in ErrorStatuses \cup {500}
  PROVE  LET m == Write(WriteHeader(v, c))
         IN /\ m \in Writers /\ ~m.panic
            /\ BehindOK(v) => BehindOK(m)
            /\ BehindOK(v) /\ LogOK(v, Fresh) => LogOK(m, Begun)
            /\ DirectOK(v, Fresh) => DirectOK(m, Begun)
<1>1. c \in Statuses /\ c \in 200..999
  BY StatusFacts
<1> DEFINE n == WriteHeader(v, c)
<1>2. /\ n \in Writers /\ ~n.panic /\ (BehindOK(v) => BehindOK(n))
      /\ (BehindOK(v) /\ LogOK(v, Fresh) => LogOK(n, Fresh)) /\ (DirectOK(v, Fresh) => DirectOK(n, Fresh))
  BY <1>1, HeaderAgrees
<1> HIDE DEF n
<1>3. /\ Write(n) \in Writers /\ ~Write(n).panic /\ (BehindOK(n) => BehindOK(Write(n)))
      /\ (LogOK(n, Fresh) => LogOK(Write(n), Begun)) /\ (DirectOK(n, Fresh) => DirectOK(Write(n), Begun))
  BY <1>2, WriteAgrees
<1>4. QED
  BY <1>2, <1>3 DEF n

\* The status the exchange ends with, if nothing more is written.
Final(v) == IF v.sent = 0 THEN 200 ELSE v.sent

\* The status after a panic in a handler before which s, if not 0, was sent.
AfterPanic(s, v) == IF s # 0 THEN s ELSE IF v.hint /\ config.metrics THEN 200 ELSE 500

\* The answer to a panic, on otelhttp's writer, whatever state the panic left
\* the others in.
LEMMA RecoverAgrees ==
  ASSUME config \in Configs, input \in Exchanges, NEW v \in Writers, input.route # "direct"
  PROVE  LET m == OtelWriteHeader([v EXCEPT !.panic = FALSE], 500)
         IN /\ m \in Writers /\ ~m.panic
            /\ BehindOK(v) => BehindOK(m) /\ Final(m) = AfterPanic(v.sent, m)
<1> DEFINE u == [v EXCEPT !.panic = FALSE]
           m == OtelWriteHeader(u, 500)
<1>1. /\ u \in Writers /\ ~u.panic /\ u.mStatus = v.mStatus /\ u.sent = v.sent /\ (u.mWrote <=> v.mWrote)
      /\ (u.hint <=> v.hint)
  BY DEF Writers
<1> HIDE DEF u
<1>2. /\ m \in Writers /\ m.otel
      /\ config.metrics /\ v.mWrote =>
           m.sent = v.sent /\ (m.hint <=> v.hint) /\ ~m.panic /\ m.mWrote /\ m.mStatus = v.mStatus
      /\ ~(config.metrics /\ v.mWrote) => Reaches(u, m, 500)
      /\ config.metrics /\ ~v.mWrote => m.mStatus = 500 /\ (m.mWrote <=> ~m.panic)
  BY <1>1, StatusFacts, OtelFacts
<1> HIDE DEF m
<1>3. config.metrics \in BOOLEAN
  BY ConfigFacts
<1>4. Reaches(u, m, 500) =>
        /\ m.sent = (IF v.sent = 0 THEN 500 ELSE v.sent) /\ (m.hint <=> v.hint) /\ ~m.panic
  BY <1>1 DEF Reaches, Sends, Hints, Refuses
<1>5. ~m.panic
  BY <1>2, <1>3, <1>4
<1>6. ASSUME BehindOK(v)
      PROVE  Final(m) = AfterPanic(v.sent, m)
  <2>1. CASE config.metrics /\ v.mWrote
    BY <1>2, <1>6, <2>1 DEF BehindOK, Final, AfterPanic
  <2>2. CASE ~(config.metrics /\ v.mWrote)
    BY <1>2, <1>4, <1>6, <2>2 DEF BehindOK, Final, AfterPanic
  <2>3. QED
    BY <2>1, <2>2
<1>7. ASSUME BehindOK(v) PROVE BehindOK(m)
  <2>0. config.metrics => m.mWrote
    BY <1>2, <1>5
  <2> SUFFICES ASSUME config.metrics, ~m.hint
               PROVE  m.mWrote /\ m.mStatus = m.sent /\ m.sent # 0
    BY <2>0 DEF BehindOK
  <2>1. CASE v.mWrote
    BY <1>2, <1>7, <2>1 DEF BehindOK
  <2>2. CASE ~v.mWrote
    BY <1>2, <1>4, <1>5, <1>7, <2>2 DEF BehindOK
  <2>3. QED
    BY <2>1, <2>2
<1>8. QED
  BY <1>2, <1>5, <1>6, <1>7 DEF m, u
-----------------------------------------------------------------------------
(* Types *)

LEMMA TypeInit == Init => TypeOK
<1> SUFFICES ASSUME Init PROVE TypeOK
  OBVIOUS
<1>1. NewWriters \in Writers /\ ~NewWriters.panic
  BY StatusFacts DEF NewWriters, Writers
<1>2. w \in Writers /\ ~w.panic
  BY <1>1 DEF Init
<1>3. pc \in {"rpc", "handler"}
  BY DEF Init
<1>4. counted \in Seq(Statuses) /\ ops \in 0..MaxOps /\ next \in Nat \ {0}
  BY HttpReplyAssumption DEF Init
<1>5. QED
  BY <1>2, <1>3, <1>4 DEF Init, TypeOK

\* An option leaves typed writers, and their panic only with the exchange's.
LEMMA OptionTyped ==
  ASSUME TypeOK, NEW v \in Writers, OptionReturns(v), pc = "rpc"
  PROVE  TypeOK'
<1>1. CASE v.panic
  <2>1. v.sent \in Statuses \cup {0}
    BY DEF Writers
  <2>2. w' = v /\ pc' = "panic" /\ panicked' = v.sent /\ UNCHANGED next
    BY <1>1 DEF OptionReturns
  <2>3. QED
    BY <2>1, <2>2 DEF TypeOK, OptionReturns
<1>2. CASE ~v.panic
  BY <1>2 DEF TypeOK, OptionReturns
<1>3. QED
  BY <1>1, <1>2

LEMMA ErrorTyped ==
  ASSUME TypeOK, NEW c \in ErrorStatuses \cup {500}, ErrorHandler(c), pc = "rpc"
  PROVE  TypeOK'
<1>1. ~w.panic /\ w \in Writers /\ config \in Configs /\ input \in Exchanges
  BY DEF TypeOK
<1>2. PICK s \in {c, 500} : w' = Write(WriteHeader(w, s))
  BY DEF ErrorHandler
<1>3. s \in ErrorStatuses \cup {500}
  OBVIOUS
<1>4. w' \in Writers /\ ~w'.panic
  BY <1>1, <1>2, <1>3, ErrorAgrees
<1>5. QED
  BY <1>4 DEF TypeOK, ErrorHandler

LEMMA TypeStep == TypeOK /\ [Next]_vars => TypeOK'
<1> SUFFICES ASSUME TypeOK, [Next]_vars PROVE TypeOK'
  OBVIOUS
<1>1. w \in Writers /\ config \in Configs /\ input \in Exchanges /\ (w.panic => pc \in {"panic", "aborted"})
  BY DEF TypeOK
<1>2. CASE CallFails
  <2>1. input.error \in ErrorStatuses
    BY <1>1, <1>2, InputFacts DEF CallFails
  <2>2. QED
    BY <1>2, <2>1, ErrorTyped DEF CallFails
<1>3. CASE HTTPResponseModifier
  <2>1. pc = "rpc" /\ ~w.panic
    BY <1>1, <1>3 DEF HTTPResponseModifier, Forwards
  <2>2. CASE OptionReturns(w)
    BY <1>1, <2>1, <2>2, OptionTyped
  <2>3. CASE ErrorHandler(500)
    BY <2>1, <2>3, ErrorTyped
  <2>4. CASE input.code \notin {Absent, Garbled} /\ OptionReturns(WriteHeader(w, input.code))
    <3>1. input.code \in Statuses
      BY <1>1, <2>4, InputFacts
    <3>2. WriteHeader(w, input.code) \in Writers
      BY <1>1, <2>1, <3>1, HeaderAgrees
    <3>3. QED
      BY <2>1, <2>4, <3>2, OptionTyped
  <2>5. QED
    BY <1>3, <2>2, <2>3, <2>4 DEF HTTPResponseModifier
<1>4. CASE Redirect
  <2>1. pc = "rpc" /\ ~w.panic
    BY <1>1, <1>4 DEF Redirect, Forwards
  <2>2. CASE OptionReturns(w)
    BY <1>1, <2>1, <2>2, OptionTyped
  <2>3. CASE ErrorHandler(500)
    BY <2>1, <2>3, ErrorTyped
  <2> DEFINE v == IF input.redirectCode \in 301..399 THEN WriteHeader(w, input.redirectCode) ELSE w
  <2>4. CASE input.redirectCode # Garbled /\ OptionReturns(WriteHeader(v, 301))
    <3>1. v \in Writers /\ ~v.panic
      <4>1. CASE input.redirectCode \in 301..399
        <5>1. input.redirectCode \in Statuses /\ input.redirectCode \in 200..999
          BY <1>1, <4>1, <2>4, InputFacts DEF Absent
        <5>2. QED
          BY <1>1, <2>1, <4>1, <5>1, HeaderAgrees
      <4>2. CASE input.redirectCode \notin 301..399
        BY <1>1, <2>1, <4>2
      <4>3. QED
        BY <4>1, <4>2
    <3> HIDE DEF v
    <3>2. WriteHeader(v, 301) \in Writers
      BY <1>1, <3>1, StatusFacts, HeaderAgrees
    <3>3. QED
      BY <2>1, <2>4, <3>2, OptionTyped
  <2>5. QED
    BY <1>4, <2>2, <2>3, <2>4 DEF Redirect
<1>5. CASE ForwardResponseMessage
  <2>1. pc = "rpc" /\ ~w.panic
    BY <1>1, <1>5 DEF ForwardResponseMessage
  <2>2. CASE ErrorHandler(500)
    BY <2>1, <2>2, ErrorTyped
  <2>3. CASE w' = Write(w) /\ body' = "reply" /\ pc' = "returned"
             /\ UNCHANGED <<config, input, next, ops, logged, counted, panicked, late>>
    <3>1. w' \in Writers /\ ~w'.panic
      BY <1>1, <2>1, <2>3, WriteAgrees
    <3>2. QED
      BY <2>3, <3>1 DEF TypeOK
  <2>4. QED
    BY <1>5, <2>2, <2>3 DEF ForwardResponseMessage
<1>6. CASE HandlerWriteHeader
  <2>1. PICK c \in Statuses :
          /\ w' = WriteHeader(w, c)
          /\ \/ w'.panic /\ pc' = "panic" /\ panicked' = w'.sent
             \/ ~w'.panic /\ UNCHANGED <<pc, panicked>>
    BY <1>6 DEF HandlerWriteHeader
  <2>2. w' \in Writers
    BY <1>1, <1>6, <2>1, HeaderAgrees DEF HandlerWriteHeader
  <2>3. ops' \in 0..MaxOps
    BY <1>6, HttpReplyAssumption DEF HandlerWriteHeader, TypeOK
  <2>4. w'.sent \in Statuses \cup {0}
    BY <2>2 DEF Writers
  <2>5. panicked' \in Statuses \cup {0, Absent} /\ pc' \in {"handler", "panic"} /\ (w'.panic => pc' = "panic")
    BY <1>6, <2>1, <2>4 DEF HandlerWriteHeader, TypeOK
  <2>6. late' \in BOOLEAN
    BY <1>6 DEF HandlerWriteHeader
  <2>7. QED
    BY <1>6, <2>2, <2>3, <2>5, <2>6 DEF HandlerWriteHeader, TypeOK
<1>7. CASE HandlerWrite
  <2>1. w' \in Writers /\ ~w'.panic
    BY <1>1, <1>7, WriteAgrees DEF HandlerWrite
  <2>2. ops' \in 0..MaxOps
    BY <1>7, HttpReplyAssumption DEF HandlerWrite, TypeOK
  <2>3. QED
    BY <1>7, <2>1, <2>2 DEF HandlerWrite, TypeOK
<1>8. CASE HandlerPanics
  <2>1. w.sent \in Statuses \cup {0}
    BY <1>1 DEF Writers
  <2>2. QED
    BY <1>8, <2>1 DEF HandlerPanics, TypeOK
<1>9. CASE HandlerReturns
  BY <1>9 DEF HandlerReturns, TypeOK
<1>10. CASE Recover
  <2>1. w' \in Writers /\ ~w'.panic
    BY <1>1, <1>10, RecoverAgrees DEF Recover
  <2>2. QED
    BY <1>10, <2>1 DEF Recover, TypeOK
<1>11. CASE Abort
  BY <1>11 DEF Abort, TypeOK
<1>12. CASE AccessLog
  <2>1. w.lStatus \in Statuses
    BY <1>1 DEF Writers
  <2>2. QED
    BY <1>12, <2>1 DEF AccessLog, TypeOK
<1>13. CASE Count
  <2>1. w.mStatus \in Statuses
    BY <1>1 DEF Writers
  <2>2. QED
    BY <1>13, <2>1 DEF Count, TypeOK
<1>14. CASE Finish
  <2>1. w' \in Writers /\ w'.sent # 0 /\ (w'.panic <=> w.panic)
    BY <1>1, <1>14, NetWriteFacts DEF Finish
  <2>2. QED
    BY <1>1, <1>14, <2>1 DEF Finish, TypeOK
<1>15. CASE UNCHANGED vars
  BY <1>15 DEF vars, TypeOK
<1>16. QED
  BY <1>2, <1>3, <1>4, <1>5, <1>6, <1>7, <1>8, <1>9, <1>10, <1>11, <1>12, <1>13, <1>14, <1>15 DEF Next

\* The exchange has its types, whatever is asked of its writers: an answered
\* one has a status, and a panic of the writers is one of the exchange.
THEOREM TypeCorrect == Spec => []TypeOK
<1>1. QED
  BY TypeInit, TypeStep, PTL DEF Spec
-----------------------------------------------------------------------------
(* The writers agree while the exchange is served *)

\* The inductive part about the writers: what the metrics' and the access
\* log's have recorded is what went out, or would go out now.
WritersAgree ==
  /\ pc # "done" => BehindOK(w)
  /\ pc = "rpc" => body = "none"
  /\ pc \in {"rpc", "handler", "returned"} /\ ~late =>
       /\ body = "none" => LogOK(w, Fresh)
       /\ body # "none" => LogOK(w, Begun)
  /\ pc \in {"rpc", "handler", "returned", "logged"} /\ ~late =>
       /\ body = "none" => DirectOK(w, Fresh)
       /\ body # "none" => DirectOK(w, Begun)

LEMMA AgreeInit == Init => WritersAgree
<1> SUFFICES ASSUME Init PROVE WritersAgree
  OBVIOUS
<1>1. /\ w.mStatus = 200 /\ ~w.mWrote /\ w.lStatus = 200 /\ ~w.lWrote /\ ~w.otel /\ w.sent = 0 /\ ~w.hint
      /\ body = "none" /\ pc \in {"rpc", "handler"}
  BY DEF Init, NewWriters
<1>2. QED
  BY <1>1 DEF WritersAgree, BehindOK, LogOK, DirectOK, Fresh

\* The inputs stay, so what is said of w' is said of w in the next state.
LEMMA PrimedOK ==
  ASSUME UNCHANGED <<config, input>>
  PROVE  /\ (BehindOK(w') <=> BehindOK(w)')
         /\ (LogOK(w', Fresh) <=> LogOK(w, Fresh)') /\ (LogOK(w', Begun) <=> LogOK(w, Begun)')
         /\ (DirectOK(w', Fresh) <=> DirectOK(w, Fresh)') /\ (DirectOK(w', Begun) <=> DirectOK(w, Begun)')
  BY DEF BehindOK, LogOK, DirectOK, Fresh, Begun

LEMMA OptionAgrees ==
  ASSUME TypeOK, WritersAgree, NEW v \in Writers, OptionReturns(v), pc = "rpc",
         BehindOK(v), LogOK(w, Fresh) => LogOK(v, Fresh), DirectOK(w, Fresh) => DirectOK(v, Fresh)
  PROVE  WritersAgree'
<1>1. w' = v /\ pc' \in {"rpc", "panic"} /\ UNCHANGED <<config, input, body, late>>
  BY DEF OptionReturns
<1>2. BehindOK(w') /\ body = "none" /\ (~late => LogOK(w', Fresh) /\ DirectOK(w', Fresh))
  BY <1>1 DEF WritersAgree
<1>3. BehindOK(w)' /\ (~late => LogOK(w, Fresh)' /\ DirectOK(w, Fresh)')
  BY <1>1, <1>2, PrimedOK
<1>4. QED
  BY <1>1, <1>2, <1>3 DEF WritersAgree

LEMMA ErrorStepAgrees ==
  ASSUME TypeOK, WritersAgree, NEW c \in ErrorStatuses \cup {500}, ErrorHandler(c), pc = "rpc"
  PROVE  WritersAgree'
<1>1. ~w.panic /\ w \in Writers /\ config \in Configs /\ input \in Exchanges
  BY DEF TypeOK
<1>2. PICK s \in {c, 500} : w' = Write(WriteHeader(w, s))
  BY DEF ErrorHandler
<1>3. s \in ErrorStatuses \cup {500}
  OBVIOUS
<1>4. pc' = "returned" /\ body' = "error" /\ UNCHANGED <<config, input, late>>
  BY DEF ErrorHandler
<1>5. BehindOK(w) /\ (~late => LogOK(w, Fresh) /\ DirectOK(w, Fresh))
  BY DEF WritersAgree
<1>6. BehindOK(w') /\ (~late => LogOK(w', Begun) /\ DirectOK(w', Begun))
  BY <1>1, <1>2, <1>3, <1>5, ErrorAgrees
<1>7. BehindOK(w)' /\ (~late => LogOK(w, Begun)' /\ DirectOK(w, Begun)')
  BY <1>4, <1>6, PrimedOK
<1>8. QED
  BY <1>4, <1>7 DEF WritersAgree

LEMMA AgreeStep == TypeOK /\ WritersAgree /\ [Next]_vars => WritersAgree'
<1> SUFFICES ASSUME TypeOK, WritersAgree, [Next]_vars PROVE WritersAgree'
  OBVIOUS
<1>1. w \in Writers /\ config \in Configs /\ input \in Exchanges /\ (w.panic => pc \in {"panic", "aborted"})
  BY DEF TypeOK
<1>2. CASE CallFails
  <2>1. input.error \in ErrorStatuses
    BY <1>1, <1>2, InputFacts DEF CallFails
  <2>2. QED
    BY <1>2, <2>1, ErrorStepAgrees DEF CallFails
<1>3. CASE HTTPResponseModifier
  <2>1. pc = "rpc" /\ ~w.panic /\ BehindOK(w)
    BY <1>1, <1>3 DEF HTTPResponseModifier, Forwards, WritersAgree
  <2>2. CASE OptionReturns(w)
    BY <1>1, <2>1, <2>2, OptionAgrees
  <2>3. CASE ErrorHandler(500)
    BY <2>1, <2>3, ErrorStepAgrees
  <2>4. CASE input.code \notin {Absent, Garbled} /\ OptionReturns(WriteHeader(w, input.code))
    <3> DEFINE v == WriteHeader(w, input.code)
    <3>1. input.code \in Statuses
      BY <1>1, <2>4, InputFacts
    <3>2. /\ v \in Writers /\ BehindOK(v) /\ (LogOK(w, Fresh) => LogOK(v, Fresh))
          /\ (DirectOK(w, Fresh) => DirectOK(v, Fresh))
      BY <1>1, <2>1, <3>1, HeaderAgrees
    <3> HIDE DEF v
    <3>3. OptionReturns(v)
      BY <2>4 DEF v
    <3>4. QED
      BY <2>1, <3>2, <3>3, OptionAgrees
  <2>5. QED
    BY <1>3, <2>2, <2>3, <2>4 DEF HTTPResponseModifier
<1>4. CASE Redirect
  <2>1. pc = "rpc" /\ ~w.panic /\ BehindOK(w)
    BY <1>1, <1>4 DEF Redirect, Forwards, WritersAgree
  <2>2. CASE OptionReturns(w)
    BY <1>1, <2>1, <2>2, OptionAgrees
  <2>3. CASE ErrorHandler(500)
    BY <2>1, <2>3, ErrorStepAgrees
  <2> DEFINE v == IF input.redirectCode \in 301..399 THEN WriteHeader(w, input.redirectCode) ELSE w
             n == WriteHeader(v, 301)
  <2>4. CASE input.redirectCode # Garbled /\ OptionReturns(n)
    <3>1. /\ v \in Writers /\ ~v.panic /\ BehindOK(v) /\ (LogOK(w, Fresh) => LogOK(v, Fresh))
          /\ (DirectOK(w, Fresh) => DirectOK(v, Fresh))
      <4>1. CASE input.redirectCode \in 301..399
        <5>1. input.redirectCode \in Statuses /\ input.redirectCode \in 200..999
          BY <1>1, <4>1, <2>4, InputFacts DEF Absent
        <5>2. QED
          BY <1>1, <2>1, <4>1, <5>1, HeaderAgrees
      <4>2. CASE input.redirectCode \notin 301..399
        BY <1>1, <2>1, <4>2
      <4>3. QED
        BY <4>1, <4>2
    <3> HIDE DEF v
    <3>2. /\ n \in Writers /\ BehindOK(n) /\ (LogOK(v, Fresh) => LogOK(n, Fresh))
          /\ (DirectOK(v, Fresh) => DirectOK(n, Fresh))
      BY <1>1, <3>1, StatusFacts, HeaderAgrees
    <3> HIDE DEF n
    <3>3. QED
      BY <2>1, <2>4, <3>1, <3>2, OptionAgrees
  <2>5. QED
    BY <1>4, <2>2, <2>3, <2>4 DEF Redirect
<1>5. CASE ForwardResponseMessage
  <2>1. pc = "rpc" /\ ~w.panic /\ BehindOK(w) /\ (~late => LogOK(w, Fresh) /\ DirectOK(w, Fresh))
    BY <1>1, <1>5 DEF ForwardResponseMessage, WritersAgree
  <2>2. CASE ErrorHandler(500)
    BY <2>1, <2>2, ErrorStepAgrees
  <2>3. CASE w' = Write(w) /\ body' = "reply" /\ pc' = "returned" /\ UNCHANGED <<config, input, late>>
    <3>1. BehindOK(w') /\ (~late => LogOK(w', Begun) /\ DirectOK(w', Begun))
      BY <1>1, <2>1, <2>3, WriteAgrees
    <3>2. BehindOK(w)' /\ (~late => LogOK(w, Begun)' /\ DirectOK(w, Begun)')
      BY <2>3, <3>1, PrimedOK
    <3>3. QED
      BY <2>3, <3>2 DEF WritersAgree
  <2>4. QED
    BY <1>5, <2>2, <2>3 DEF ForwardResponseMessage
<1>6. CASE HandlerWriteHeader
  <2>1. PICK c \in Statuses :
          /\ w' = WriteHeader(w, c)
          /\ \/ w'.panic /\ pc' = "panic" /\ panicked' = w'.sent
             \/ ~w'.panic /\ UNCHANGED <<pc, panicked>>
    BY <1>6 DEF HandlerWriteHeader
  <2>2. /\ pc = "handler" /\ ~w.panic /\ BehindOK(w) /\ pc' \in {"handler", "panic"}
        /\ late' = (late \/ body # "none") /\ UNCHANGED <<config, input, body>>
    BY <1>1, <1>6, <2>1 DEF HandlerWriteHeader, WritersAgree
  <2>3. /\ BehindOK(w') /\ (LogOK(w, Fresh) => LogOK(w', Fresh))
        /\ (DirectOK(w, Fresh) => DirectOK(w', Fresh))
    BY <1>1, <2>1, <2>2, HeaderAgrees
  <2>4. /\ BehindOK(w)' /\ (LogOK(w, Fresh) => LogOK(w, Fresh)')
        /\ (DirectOK(w, Fresh) => DirectOK(w, Fresh)')
    BY <2>2, <2>3, PrimedOK
  <2>5. ~late' => ~late /\ body = "none"
    BY <2>2
  <2>6. ~late' => LogOK(w, Fresh) /\ DirectOK(w, Fresh)
    BY <2>2, <2>5 DEF WritersAgree
  <2>7. QED
    BY <2>2, <2>4, <2>5, <2>6 DEF WritersAgree
<1>7. CASE HandlerWrite
  <2>1. /\ pc = "handler" /\ ~w.panic /\ BehindOK(w) /\ pc' = "handler" /\ w' = Write(w)
        /\ body' = "handler" /\ UNCHANGED <<config, input, late>>
    BY <1>1, <1>7 DEF HandlerWrite, WritersAgree
  <2>2. ~late => (LogOK(w, Fresh) \/ LogOK(w, Begun)) /\ (DirectOK(w, Fresh) \/ DirectOK(w, Begun))
    BY <2>1 DEF WritersAgree
  <2>3. BehindOK(w') /\ (~late => LogOK(w', Begun) /\ DirectOK(w', Begun))
    BY <1>1, <2>1, <2>2, WriteAgrees
  <2>4. BehindOK(w)' /\ (~late => LogOK(w, Begun)' /\ DirectOK(w, Begun)')
    BY <2>1, <2>3, PrimedOK
  <2>5. QED
    BY <2>1, <2>4 DEF WritersAgree
<1>8. CASE HandlerPanics \/ HandlerReturns \/ Abort \/ AccessLog \/ Count
  <2>1. UNCHANGED <<config, input, w, body, late>> /\ pc # "done" /\ pc' # "rpc"
    BY <1>8 DEF HandlerPanics, HandlerReturns, Abort, AccessLog, Count
  <2>2. /\ (BehindOK(w)' <=> BehindOK(w))
        /\ (LogOK(w, Fresh)' <=> LogOK(w, Fresh)) /\ (LogOK(w, Begun)' <=> LogOK(w, Begun))
        /\ (DirectOK(w, Fresh)' <=> DirectOK(w, Fresh)) /\ (DirectOK(w, Begun)' <=> DirectOK(w, Begun))
    BY <2>1 DEF BehindOK, LogOK, DirectOK, Fresh, Begun
  <2>3. /\ pc' \in {"handler", "returned"} => pc \in {"handler", "returned"}
        /\ pc' = "logged" => pc = "returned"
    BY <1>8 DEF HandlerPanics, HandlerReturns, Abort, AccessLog, Count
  <2>4. QED
    BY <2>1, <2>2, <2>3 DEF WritersAgree
<1>9. CASE Recover
  <2>1. /\ pc = "panic" /\ input.route # "direct" /\ BehindOK(w) /\ pc' = "logged"
        /\ w' = OtelWriteHeader([w EXCEPT !.panic = FALSE], 500) /\ UNCHANGED <<config, input>>
    BY <1>9 DEF Recover, WritersAgree
  <2>2. BehindOK(w')
    BY <1>1, <2>1, RecoverAgrees
  <2>3. BehindOK(w)' /\ DirectOK(w, Fresh)' /\ DirectOK(w, Begun)'
    <3>1. BehindOK(w)'
      BY <2>1, <2>2, PrimedOK
    <3>2. QED
      BY <2>1, <3>1 DEF DirectOK
  <2>4. QED
    BY <2>1, <2>3 DEF WritersAgree
<1>10. CASE Finish
  BY <1>10 DEF Finish, WritersAgree
<1>11. CASE UNCHANGED vars
  BY <1>11 DEF vars, WritersAgree, BehindOK, LogOK, DirectOK, Fresh, Begun
<1>12. QED
  BY <1>2, <1>3, <1>4, <1>5, <1>6, <1>7, <1>8, <1>9, <1>10, <1>11 DEF Next
-----------------------------------------------------------------------------
(* What was recorded is what the client got *)

\* The inductive part about the records.
RecordsAgree ==
  /\ pc \in {"rpc", "handler", "returned"} => panicked = Absent
  /\ pc = "panic" => panicked = w.sent
  /\ pc = "aborted" => input.route = "direct"
  /\ pc \in {"logged", "counted", "done"} =>
       panicked = Absent \/ Final(w) = AfterPanic(panicked, w)
  /\ pc \notin {"logged", "counted", "done"} => logged = 0
  /\ logged # 0 => w.hint \/ late \/ logged = Final(w)
  /\ pc \notin {"counted", "done"} => counted = <<>>
  /\ pc \in {"counted", "done"} /\ config.metrics =>
       /\ Len(counted) = 1
       /\ w.hint \/ (late /\ input.route = "direct") \/ counted[1] = Final(w)

LEMMA RecordsInit == Init => RecordsAgree
  BY DEF Init, RecordsAgree

\* Steps of the handler and of grpc-gateway record nothing but a panic.
LEMMA ServedRecords ==
  ASSUME TypeOK, RecordsAgree, pc \in {"rpc", "handler"}, UNCHANGED <<config, input, logged, counted>>,
         \/ pc' \in {"rpc", "handler", "returned"} /\ UNCHANGED panicked
         \/ pc' = "panic" /\ panicked' = w'.sent
  PROVE  RecordsAgree'
  BY DEF RecordsAgree

LEMMA RecordsStep == TypeOK /\ WritersAgree /\ RecordsAgree /\ [Next]_vars => RecordsAgree'
<1> SUFFICES ASSUME TypeOK, WritersAgree, RecordsAgree, [Next]_vars PROVE RecordsAgree'
  OBVIOUS
<1>1. /\ w \in Writers /\ config \in Configs /\ input \in Exchanges
      /\ (w.panic => pc \in {"panic", "aborted"}) /\ panicked \in Statuses \cup {0, Absent}
  BY DEF TypeOK
<1>2. CASE CallFails \/ HTTPResponseModifier \/ Redirect \/ ForwardResponseMessage
  <2>1. pc = "rpc" /\ UNCHANGED <<config, input, logged, counted>>
    BY <1>2 DEF CallFails, HTTPResponseModifier, Redirect, ForwardResponseMessage, Forwards, OptionReturns,
                ErrorHandler
  <2>2. \/ pc' \in {"rpc", "returned"} /\ UNCHANGED panicked
        \/ pc' = "panic" /\ panicked' = w'.sent
    BY <1>2, <2>1 DEF CallFails, HTTPResponseModifier, Redirect, ForwardResponseMessage, OptionReturns,
                      ErrorHandler
  <2>3. QED
    BY <2>1, <2>2, ServedRecords
<1>3. CASE HandlerWriteHeader \/ HandlerWrite \/ HandlerPanics \/ HandlerReturns
  <2>1. pc = "handler" /\ UNCHANGED <<config, input, logged, counted>>
    BY <1>3 DEF HandlerWriteHeader, HandlerWrite, HandlerPanics, HandlerReturns
  <2>2. \/ pc' \in {"handler", "returned"} /\ UNCHANGED panicked
        \/ pc' = "panic" /\ panicked' = w'.sent
    BY <1>3, <2>1 DEF HandlerWriteHeader, HandlerWrite, HandlerPanics, HandlerReturns
  <2>3. QED
    BY <2>1, <2>2, ServedRecords
<1>4. CASE Recover
  <2>1. /\ pc = "panic" /\ pc' = "logged" /\ input.route # "direct" /\ BehindOK(w)
        /\ w' = OtelWriteHeader([w EXCEPT !.panic = FALSE], 500)
        /\ UNCHANGED <<config, input, logged, counted, panicked>>
    BY <1>4 DEF Recover, WritersAgree
  <2>2. Final(w') = AfterPanic(w.sent, w')
    BY <1>1, <2>1, RecoverAgrees
  <2>3. panicked = w.sent /\ logged = 0 /\ counted = <<>>
    BY <2>1 DEF RecordsAgree
  <2>4. (Final(w) = AfterPanic(panicked, w))'
    BY <2>1, <2>2, <2>3 DEF Final, AfterPanic
  <2>5. QED
    BY <2>1, <2>3, <2>4 DEF RecordsAgree
<1>5. CASE Abort
  BY <1>5 DEF Abort, RecordsAgree
<1>6. CASE AccessLog
  <2>1. /\ pc = "returned" /\ pc' = "logged" /\ UNCHANGED <<config, input, w, counted, panicked, late>>
        /\ logged' = (IF input.route = "direct" \/ input.quiet THEN 0 ELSE w.lStatus) /\ ~w.panic
    BY <1>1, <1>6 DEF AccessLog
  <2>2. logged' # 0 => w.hint \/ late \/ logged' = Final(w)
    <3> SUFFICES ASSUME input.route # "direct", ~input.quiet, ~w.hint, ~late PROVE w.lStatus = Final(w)
      BY <2>1
    <3>1. LogOK(w, Fresh) \/ LogOK(w, Begun)
      BY <2>1 DEF WritersAgree
    <3>2. QED
      BY <2>1, <3>1 DEF LogOK, Fresh, Begun, Final
  <2>3. panicked = Absent /\ counted = <<>>
    BY <2>1 DEF RecordsAgree
  <2>4. QED
    BY <2>1, <2>2, <2>3 DEF RecordsAgree, Final, AfterPanic
<1>7. CASE Count
  <2>1. /\ pc = "logged" /\ pc' = "counted" /\ UNCHANGED <<config, input, w, logged, panicked, late>>
        /\ counted' = (IF config.metrics THEN Append(counted, w.mStatus) ELSE counted) /\ ~w.panic
    BY <1>1, <1>7 DEF Count
  <2>2. counted = <<>>
    BY <2>1 DEF RecordsAgree
  <2>3. config.metrics => Len(counted') = 1 /\ counted'[1] = w.mStatus
    BY <2>1, <2>2
  <2>4. ASSUME config.metrics, ~w.hint, ~(late /\ input.route = "direct") PROVE w.mStatus = Final(w)
    <3>1. CASE input.route # "direct"
      <4>1. BehindOK(w)
        BY <2>1 DEF WritersAgree
      <4>2. QED
        BY <2>1, <2>4, <3>1, <4>1 DEF BehindOK, Final
    <3>2. CASE input.route = "direct"
      <4>1. DirectOK(w, Fresh) \/ DirectOK(w, Begun)
        BY <2>1, <2>4, <3>2 DEF WritersAgree
      <4>2. QED
        BY <2>1, <2>4, <3>2, <4>1 DEF DirectOK, Fresh, Begun, Final
    <3>3. QED
      BY <3>1, <3>2
  <2>5. QED
    BY <2>1, <2>3, <2>4 DEF RecordsAgree, Final, AfterPanic
<1>8. CASE Finish
  <2>1. pc = "counted" /\ pc' = "done" /\ UNCHANGED <<config, input, logged, counted, panicked, late>>
    BY <1>8 DEF Finish
  <2>2. w'.sent = Final(w) /\ (w'.hint <=> w.hint)
    BY <1>1, <1>8, NetWriteFacts DEF Finish, Final
  <2>3. Final(w)' = Final(w)
    BY <2>2 DEF Final
  <2>4. panicked = Absent \/ Final(w) = AfterPanic(panicked, w)
    BY <2>1 DEF RecordsAgree
  <2>5. AfterPanic(panicked, w)' = AfterPanic(panicked, w)
    BY <2>1, <2>2 DEF AfterPanic
  <2>6. QED
    BY <2>1, <2>2, <2>3, <2>4, <2>5 DEF RecordsAgree
<1>9. CASE UNCHANGED vars
  BY <1>9 DEF vars, RecordsAgree, Final, AfterPanic
<1>10. QED
  BY <1>2, <1>3, <1>4, <1>5, <1>6, <1>7, <1>8, <1>9 DEF Next

LEMMA Agreement == Spec => [](TypeOK /\ WritersAgree /\ RecordsAgree)
<1>1. Init => TypeOK /\ WritersAgree /\ RecordsAgree
  BY TypeInit, AgreeInit, RecordsInit
<1>2. TypeOK /\ WritersAgree /\ RecordsAgree /\ [Next]_vars => (TypeOK /\ WritersAgree /\ RecordsAgree)'
  BY TypeStep, AgreeStep, RecordsStep
<1>3. QED
  BY <1>1, <1>2, PTL DEF Spec

\* Whatever statuses and bodies are written, in whatever order, and however
\* the handler panics: the metrics count an answered exchange once, and an
\* aborted one never; under the status net/http sent, unless the handler sent an
\* informational one or, outside the middlewares, set one after the body began.
THEOREM AlwaysCountedAsSent == Spec => []CountedAsSent
<1>1. TypeOK /\ RecordsAgree => CountedAsSent
  BY DEF TypeOK, RecordsAgree, CountedAsSent, Final
<1>2. QED
  BY <1>1, Agreement, PTL

\* The access log's line shows the status net/http sent, unless the handler
\* sent an informational one or set one after the body began.
THEOREM AlwaysLoggedAsSent == Spec => []LoggedAsSent
<1>1. TypeOK /\ RecordsAgree => LoggedAsSent
  BY DEF TypeOK, RecordsAgree, LoggedAsSent, Final
<1>2. QED
  BY <1>1, Agreement, PTL

\* Behind loggingMiddleware every panic is answered: with the final status that
\* had gone out before it, with 200 if only an informational one had and metrics
\* are recorded, and with 500 in every other case.
THEOREM PanicsAnswered == Spec => []PanicAnswered
<1>1. TypeOK /\ RecordsAgree => PanicAnswered
  BY DEF TypeOK, RecordsAgree, PanicAnswered, Final, AfterPanic
<1>2. QED
  BY <1>1, Agreement, PTL
-----------------------------------------------------------------------------
(* Which status goes out first *)

\* No status has passed the writers.
Untouched(v) == v.sent = 0 /\ ~v.mWrote /\ ~v.lWrote

\* The reply RedirectAsAsked is about, and its status.
Redirects ==
  /\ config.options = <<"Redirect">> /\ input.route = "rpc" /\ input.error = 0
  /\ input.redirect /\ input.redirectCode # Garbled /\ input.marshals

AskedCode == IF input.redirectCode \in 301..399 THEN input.redirectCode ELSE 301

\* Before the first option has run nothing has been written, and an error met
\* then has the first status; a redirection has its own from Redirect on.
FirstStatus ==
  /\ pc = "rpc" => /\ body = "none" /\ (next = 1 => Untouched(w)) /\ (input.error # 0 => next = 1)
  /\ pc \in {"handler", "panic"} => body # "error"
  /\ body = "error" /\ Len(config.options) <= 1 /\ input.marshals => w.sent >= 400
  /\ Redirects => /\ pc \in {"rpc", "returned", "logged", "counted", "done"}
                  /\ pc # "rpc" \/ next > 1 => w.sent = AskedCode

\* The first status through untouched writers is the one that is sent.
LEMMA FirstSent ==
  ASSUME config \in Configs, input \in Exchanges, NEW v \in Writers, ~v.panic, Untouched(v),
         NEW c \in Statuses, c \in 200..999
  PROVE  LET m == WriteHeader(v, c) IN m \in Writers /\ ~m.panic /\ m.sent = c
<1>1. \A m : Reaches(v, m, c) => m.sent = c
  BY DEF Reaches, Sends, Untouched
<1>2. WriteHeader(v, c) \in Writers /\ ~WriteHeader(v, c).panic
  BY HeaderAgrees
<1>3. CASE input.route = "direct"
  <2>1. WriteHeader(v, c) = MetricsWriteHeader(v, c)
    BY <1>3 DEF WriteHeader
  <2>2. Reaches(v, MetricsWriteHeader(v, c), c)
    BY MetricsFacts DEF Untouched
  <2> QED
    BY <1>1, <1>2, <2>1, <2>2
<1>4. CASE input.route # "direct" /\ input.quiet
  <2>1. WriteHeader(v, c) = OtelWriteHeader(v, c)
    BY <1>4 DEF WriteHeader
  <2>2. Reaches(v, OtelWriteHeader(v, c), c)
    BY OtelFacts DEF Untouched
  <2> QED
    BY <1>1, <1>2, <2>1, <2>2
<1>5. CASE input.route # "direct" /\ ~input.quiet
  <2>1. WriteHeader(v, c) = LogWriteHeader(v, c)
    BY <1>5 DEF WriteHeader
  <2>2. Reaches(v, LogWriteHeader(v, c), c)
    BY LogFacts DEF Untouched
  <2> QED
    BY <1>1, <1>2, <2>1, <2>2
<1> QED
  BY <1>3, <1>4, <1>5, InputFacts

\* A body leaves a status that has been sent alone.
LEMMA BodyAfter ==
  ASSUME config \in Configs, input \in Exchanges, NEW v \in Writers, ~v.panic, v.sent # 0
  PROVE  Write(v).sent = v.sent
<1>1. CASE input.route = "direct"
  BY <1>1, NetWriteFacts DEF Write
<1>2. CASE input.route # "direct"
  BY <1>2, OtelWriteAgrees DEF Write
<1> QED
  BY <1>1, <1>2

\* ErrorHandler on untouched writers.
LEMMA ErrorSent ==
  ASSUME config \in Configs, input \in Exchanges, NEW v \in Writers, ~v.panic, Untouched(v),
         NEW c \in ErrorStatuses \cup {500}
  PROVE  Write(WriteHeader(v, c)).sent = c
<1>1. c \in Statuses /\ c \in 200..999
  BY StatusFacts
<1> DEFINE m == WriteHeader(v, c)
<1>2. m \in Writers /\ ~m.panic /\ m.sent = c
  BY <1>1, FirstSent
<1> HIDE DEF m
<1>3. Write(m).sent = m.sent
  BY <1>1, <1>2, BodyAfter
<1> QED
  BY <1>2, <1>3 DEF m

\* Redirect sets 301 after the code asked for: the second changes nothing.
LEMMA RedirectSent ==
  ASSUME config \in Configs, input \in Exchanges, NEW v \in Writers, ~v.panic, Untouched(v)
  PROVE  LET m == WriteHeader(IF input.redirectCode \in 301..399
                              THEN WriteHeader(v, input.redirectCode) ELSE v, 301)
         IN ~m.panic /\ m.sent = AskedCode
<1>1. CASE input.redirectCode \in 301..399
  <2> DEFINE n == WriteHeader(v, input.redirectCode)
  <2>1. input.redirectCode \in Statuses /\ input.redirectCode \in 200..999
    BY <1>1, InputFacts DEF Absent, Garbled
  <2>2. n \in Writers /\ ~n.panic /\ n.sent = input.redirectCode
    BY <2>1, FirstSent
  <2> HIDE DEF n
  <2>3. n.sent # 0
    BY <2>1, <2>2
  <2>4. WriteHeader(n, 301).sent = n.sent /\ ~WriteHeader(n, 301).panic
    BY <2>2, <2>3, StatusFacts, HeaderAgrees, SMTT(30)
  <2> QED
    BY <1>1, <2>2, <2>4 DEF n, AskedCode
<1>2. CASE input.redirectCode \notin 301..399
  <2>1. 301 \in Statuses /\ 301 \in 200..999
    BY StatusFacts
  <2> QED
    BY <1>2, <2>1, FirstSent DEF AskedCode
<1> QED
  BY <1>1, <1>2

LEMMA FirstStatusInit == Init => FirstStatus
<1> SUFFICES ASSUME Init PROVE FirstStatus
  OBVIOUS
<1>1. Untouched(w) /\ body = "none" /\ next = 1
  BY DEF Init, NewWriters, Untouched
<1>2. pc = IF input.route = "rpc" THEN "rpc" ELSE "handler"
  BY DEF Init
<1> QED
  BY <1>1, <1>2 DEF FirstStatus, Redirects

\* An error of grpc-gateway's, met before any option has run or with more
\* than one option.
LEMMA ErrorFirst ==
  ASSUME TypeOK, FirstStatus, NEW c \in ErrorStatuses \cup {500}, ErrorHandler(c), pc = "rpc", ~Redirects,
         Len(config.options) <= 1 /\ input.marshals => next = 1
  PROVE  FirstStatus'
<1>1. PICK s \in {c, 500} : w' = Write(WriteHeader(w, s))
  BY DEF ErrorHandler
<1>2. s \in ErrorStatuses \cup {500} /\ s >= 400
  BY StatusFacts
<1>3. w \in Writers /\ ~w.panic /\ config \in Configs /\ input \in Exchanges
  BY DEF TypeOK
<1>4. Len(config.options) <= 1 /\ input.marshals => w'.sent >= 400
  BY <1>1, <1>2, <1>3, ErrorSent DEF FirstStatus
<1>5. pc' = "returned" /\ UNCHANGED <<config, input>>
  BY DEF ErrorHandler
<1> QED
  BY <1>4, <1>5 DEF FirstStatus, Redirects

LEMMA FirstStatusStep == TypeOK /\ FirstStatus /\ [Next]_vars => FirstStatus'
<1> SUFFICES ASSUME TypeOK, FirstStatus, [Next]_vars PROVE FirstStatus'
  OBVIOUS
<1>1. /\ w \in Writers /\ config \in Configs /\ input \in Exchanges /\ next \in Nat \ {0}
      /\ (w.panic => pc \in {"panic", "aborted"})
  BY DEF TypeOK
<1>2. input.error \in ErrorStatuses \cup {0} /\ AskedCode \in Nat \ {0} /\ config.options \in Seq(Options)
  <2>1. input.error \in ErrorStatuses \cup {0} /\ config.options \in Seq(Options)
    BY <1>1, InputFacts, ConfigFacts
  <2>2. AskedCode \in Nat \ {0}
    BY DEF AskedCode
  <2> QED
    BY <2>1, <2>2
<1>3. CASE CallFails
  <2>1. pc = "rpc" /\ input.error # 0 /\ ErrorHandler(input.error) /\ next = 1
    BY <1>3 DEF CallFails, FirstStatus
  <2> QED
    BY <1>2, <2>1, ErrorFirst DEF Redirects
<1>4. CASE HTTPResponseModifier
  <2>1. /\ pc = "rpc" /\ input.error = 0 /\ next <= Len(config.options)
        /\ config.options[next] = "HTTPResponseModifier"
    BY <1>4 DEF HTTPResponseModifier, Forwards
  <2>2. ~Redirects
    BY <1>1, <2>1 DEF Redirects
  <2>3. ASSUME NEW v, OptionReturns(v) PROVE FirstStatus'
    BY <1>1, <2>1, <2>2, <2>3 DEF OptionReturns, FirstStatus, Redirects
  <2>4. ASSUME ErrorHandler(500) PROVE FirstStatus'
    <3>1. Len(config.options) <= 1 => next = 1
      <4>1. Len(config.options) \in Nat
        BY <1>2
      <4> QED
        BY <1>1, <2>1, <4>1
    <3> QED
      BY <2>1, <2>2, <2>4, <3>1, ErrorFirst
  <2> QED
    BY <1>4, <2>3, <2>4 DEF HTTPResponseModifier
<1>5. CASE Redirect
  <2>1. /\ pc = "rpc" /\ input.error = 0 /\ next <= Len(config.options)
        /\ config.options[next] = "Redirect"
    BY <1>5 DEF Redirect, Forwards
  <2>2. Redirects => next = 1
    BY <1>1, <2>1 DEF Redirects
  <2> DEFINE m == WriteHeader(IF input.redirectCode \in 301..399
                              THEN WriteHeader(w, input.redirectCode) ELSE w, 301)
  <2>3. next = 1 => ~m.panic /\ m.sent = AskedCode
    BY <1>1, <2>1, RedirectSent DEF FirstStatus
  <2> HIDE DEF m
  <2>4. ASSUME NEW v, OptionReturns(v), Redirects => ~v.panic /\ v.sent = AskedCode PROVE FirstStatus'
    <3>1. AskedCode' = AskedCode /\ (Redirects' <=> Redirects)
      BY <2>4 DEF OptionReturns, AskedCode, Redirects
    <3>2. CASE v.panic
      <4>1. pc' = "panic" /\ UNCHANGED <<config, input, body>> /\ ~Redirects
        BY <2>4, <3>2 DEF OptionReturns
      <4> QED
        BY <2>1, <3>1, <4>1 DEF FirstStatus
    <3>3. CASE ~v.panic
      <4>1. w' = v /\ next' = next + 1 /\ UNCHANGED <<pc, config, input, body>>
        BY <2>4, <3>3 DEF OptionReturns
      <4> QED
        BY <1>1, <2>1, <2>4, <3>1, <4>1 DEF FirstStatus
    <3> QED
      BY <3>2, <3>3
  <2>5. CASE ~input.redirect /\ OptionReturns(w)
    BY <2>4, <2>5 DEF Redirects
  <2>6. CASE input.redirect /\ input.redirectCode = Garbled /\ ErrorHandler(500)
    BY <1>1, <1>2, <2>1, <2>6, ErrorFirst DEF Redirects
  <2>7. CASE OptionReturns(m)
    BY <2>2, <2>3, <2>4, <2>7
  <2> QED
    BY <1>5, <2>5, <2>6, <2>7 DEF Redirect, m
<1>6. CASE ForwardResponseMessage
  <2>1. pc = "rpc" /\ next > Len(config.options)
    BY <1>6 DEF ForwardResponseMessage
  <2>2. CASE ~input.marshals /\ ErrorHandler(500)
    BY <2>1, <2>2, ErrorFirst DEF Redirects
  <2>3. CASE w' = Write(w) /\ body' = "reply" /\ pc' = "returned" /\ UNCHANGED <<config, input>>
    <3>1. Redirects => w'.sent = AskedCode
      BY <1>1, <1>2, <2>1, <2>3, BodyAfter DEF FirstStatus, Redirects
    <3> QED
      BY <2>3, <3>1 DEF FirstStatus, Redirects, AskedCode
  <2> QED
    BY <1>6, <2>2, <2>3 DEF ForwardResponseMessage
<1>7. CASE HandlerWriteHeader \/ HandlerWrite \/ HandlerPanics \/ HandlerReturns
  <2>1. pc = "handler" /\ UNCHANGED <<config, input>> /\ pc' \in {"handler", "panic", "returned"}
    BY <1>7 DEF HandlerWriteHeader, HandlerWrite, HandlerPanics, HandlerReturns
  <2>2. body # "error" /\ body' # "error" /\ ~Redirects
    BY <1>7, <2>1 DEF HandlerWriteHeader, HandlerWrite, HandlerPanics, HandlerReturns, FirstStatus
  <2> QED
    BY <2>1, <2>2 DEF FirstStatus, Redirects
<1>8. CASE Recover \/ Abort
  <2>1. pc = "panic" /\ UNCHANGED <<config, input, body>> /\ pc' \in {"logged", "aborted"}
    BY <1>8 DEF Recover, Abort
  <2> QED
    BY <2>1 DEF FirstStatus, Redirects
<1>9. CASE AccessLog \/ Count
  <2>1. /\ pc \in {"returned", "logged"} /\ UNCHANGED <<config, input, body, w>>
        /\ pc' \in {"logged", "counted"}
    BY <1>9 DEF AccessLog, Count
  <2> QED
    BY <2>1 DEF FirstStatus, Redirects, AskedCode
<1>10. CASE Finish
  <2>1. pc = "counted" /\ UNCHANGED <<config, input, body>> /\ pc' = "done"
    BY <1>10 DEF Finish
  <2>2. w.sent # 0 => w'.sent = w.sent
    BY <1>1, <1>10, NetWriteFacts DEF Finish
  <2>3. AskedCode' = AskedCode /\ (Redirects' <=> Redirects)
    BY <2>1 DEF AskedCode, Redirects
  <2>4. Redirects => w.sent = AskedCode
    BY <2>1 DEF FirstStatus
  <2>5. body = "error" /\ Len(config.options) <= 1 /\ input.marshals => w.sent >= 400 /\ w.sent # 0
    BY <2>1 DEF FirstStatus
  <2> QED
    BY <1>2, <2>1, <2>2, <2>3, <2>4, <2>5 DEF FirstStatus
<1>11. CASE UNCHANGED vars
  BY <1>11 DEF vars, FirstStatus, Redirects, AskedCode, Untouched
<1> QED
  BY <1>3, <1>4, <1>5, <1>6, <1>7, <1>8, <1>9, <1>10, <1>11 DEF Next

LEMMA AlwaysFirst == Spec => [](TypeOK /\ FirstStatus)
<1>1. TypeOK /\ FirstStatus /\ [Next]_vars => (TypeOK /\ FirstStatus)'
  BY TypeStep, FirstStatusStep
<1> QED
  BY <1>1, TypeInit, FirstStatusInit, PTL DEF Spec

\* With at most one forward response option and a message that marshals, the
\* body ErrorHandler writes goes out under an error's status.
THEOREM ErrorsHaveErrorStatus == Spec => []ErrorStatus
<1>1. FirstStatus => ErrorStatus
  BY DEF FirstStatus, ErrorStatus
<1> QED
  BY <1>1, AlwaysFirst, PTL

\* Redirect's second WriteHeader never replaces the code the call asked for.
THEOREM RedirectsAsAsked == Spec => []RedirectAsAsked
<1>1. FirstStatus => RedirectAsAsked
  BY DEF FirstStatus, RedirectAsAsked, Redirects, AskedCode
<1> QED
  BY <1>1, AlwaysFirst, PTL
=============================================================================
