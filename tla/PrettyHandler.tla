--------------------------- MODULE PrettyHandler ---------------------------
(***************************************************************************)
(* The logger package: goroutines derive loggers from the one in their      *)
(* context, as RequestIDUnaryServerInterceptor does, and log lines to one   *)
(* file.  A handler refers to its attributes by array and length, so that   *)
(* handlers may share what they should not; an attribute is a key, a group  *)
(* of keys, or empty.  A line is a head and a piece for every attribute, a  *)
(* piece the paths of the keys it shows.                                    *)
(***************************************************************************)
EXTENDS Integers, SequencesExt, Places

CONSTANTS
  Goroutines,
  Attrs,           \* the attributes: a key, a group of keys, or empty
  GroupNames,
  Environments,    \* LOG_LEVEL, LOG_ENCODER and CI of the process
  NoGoroutine, NoLogger,
  MaxDerived,      \* bound: loggers a goroutine derives
  MaxLines         \* bound: lines a goroutine logs

VARIABLES
  attrArrays,   \* arrays of attributes
  handlers,     \* the handlers made; 1 is the handler of slog.Default()
  ctxLogger,    \* the logger in the context of a goroutine, as its handler
  pending,      \* the Write calls a goroutine has still to make for its line
  hmu, fdmu,    \* who holds the mutex of a handler, and the write lock of the file
  output,       \* what the file has received
  derived, logged,
  want          \* what the lines of a goroutine should say

ASSUME LoggerAssumption ==
  /\ NoGoroutine \notin Goroutines
  /\ \A a \in Attrs : a.kind = "group" => Len(a.members) \in Nat

loggerVars == <<attrArrays, handlers, ctxLogger, pending, hmu, fdmu, output, derived, logged, want>>

NotStarted == 0
-----------------------------------------------------------------------------
(* logger.go *)

LevelOf == [debug |-> -4, info |-> 0, warn |-> 4, error |-> 8]

\* An unknown or missing name leaves the zero value, info.
parseLevel(s) == IF s \in DOMAIN LevelOf THEN LevelOf[s] ELSE 0

\* New: the JSON handler is slog's own.
NewHandler(env) ==
  [json |-> env.LOG_ENCODER \in {"json", "JSON"} \/ env.CI # "",
   level |-> parseLevel(env.LOG_LEVEL),
   attrs |-> [arr |-> 1, len |-> 0], groups |-> <<>>, pre |-> <<>>, mutex |-> 1, made |-> <<>>]

\* FromContext
Current(g) == IF ctxLogger[g] = NoLogger THEN 1 ELSE ctxLogger[g]
-----------------------------------------------------------------------------
(* pretty.go *)

Enabled(h, l) == l >= handlers[h].level

AttrsOf(h) == SubSeq(attrArrays[handlers[h].attrs.arr], 1, handlers[h].attrs.len)

\* writeAttr: an empty attribute is left out, a group without a key is inlined.
writeAttr(groups, a) ==
  CASE a.kind = "empty" -> <<>>
    [] a.kind = "group" ->
         LET prefix == IF a.key = "" THEN groups ELSE Append(groups, a.key)
         IN [i \in 1..Len(a.members) |-> Append(prefix, a.members[i])]
    [] OTHER -> <<Append(groups, a.key)>>

LineHead == << <<"head">> >>

WriteAll(groups, attrs) == <<LineHead>> \o [i \in 1..Len(attrs) |-> writeAttr(groups, attrs[i])]

\* Mutant: the attributes are appended to the handler's own array, which was
\* made with room for one more.
WithAttrsAppending(g, a) ==
  LET p == handlers[Current(g)] n == p.attrs.len IN
  IF n < Len(attrArrays[p.attrs.arr])
  THEN /\ attrArrays' = [attrArrays EXCEPT ![p.attrs.arr][n + 1] = a]
       /\ handlers' = Append(handlers, [p EXCEPT !.attrs.len = n + 1, !.mutex = Len(handlers) + 1,
                                                 !.pre = Append(@, writeAttr(p.groups, a)),
                                                 !.made = Append(@, [with |-> a])])
  ELSE /\ attrArrays' = Append(attrArrays, AttrsOf(Current(g)) \o <<a, a>>)
       /\ handlers' = Append(handlers, [p EXCEPT !.attrs = [arr |-> Len(attrArrays) + 1, len |-> n + 1],
                                                 !.mutex = Len(handlers) + 1,
                                                 !.pre = Append(@, writeAttr(p.groups, a)),
                                                 !.made = Append(@, [with |-> a])])

\* A copy with the attribute added, and a mutex of its own; slog's JSON handler
\* keeps the mutex of its parent, and formats the attribute at once.
WithAttrs(g, a) ==
  LET p == handlers[Current(g)] IN
  /\ attrArrays' = Append(attrArrays, Append(AttrsOf(Current(g)), a))
  /\ handlers' = Append(handlers,
                   [p EXCEPT !.attrs = [arr |-> Len(attrArrays) + 1, len |-> p.attrs.len + 1],
                             !.mutex = IF p.json THEN @ ELSE Len(handlers) + 1,
                             !.pre = Append(@, writeAttr(p.groups, a)),
                             !.made = Append(@, [with |-> a])])

WithGroup(g, name) ==
  LET p == handlers[Current(g)] IN
  /\ attrArrays' = Append(attrArrays, AttrsOf(Current(g)))
  /\ handlers' = Append(handlers,
                   [p EXCEPT !.attrs.arr = Len(attrArrays) + 1, !.groups = Append(@, name),
                             !.mutex = IF p.json THEN @ ELSE Len(handlers) + 1,
                             !.made = Append(@, [group |-> name])])

\* The record's own attribute r comes last.
Rendered(h, r) ==
  LET p == handlers[h] IN
  IF p.json THEN <<LineHead>> \o Append(p.pre, writeAttr(p.groups, r))
  ELSE WriteAll(p.groups, Append(AttrsOf(h), r))

\* Mutant: every piece is written as soon as it is formatted.
BuffersUnbuffered(line) == [i \in 1..Len(line) |-> <<line[i]>>]

\* The whole line is one Write call.
Buffers(line) == <<line>>

\* Handle formats the line before it locks.
Handle(g, r) ==
  LET h == Current(g)
      line == [i \in 1..Len(Rendered(h, r)) |-> [of |-> <<g, logged[g] + 1>>, text |-> Rendered(h, r)[i]]]
  IN /\ pending' = [pending EXCEPT ![g] = Buffers(line)]
     /\ want' = [want EXCEPT ![g] = Append(@, [h |-> h, made |-> Append(handlers[h].made, [with |-> r])])]
     /\ logged' = [logged EXCEPT ![g] = @ + 1]
     /\ UNCHANGED <<attrArrays, handlers, ctxLogger, hmu, fdmu, output, derived>>

Lock(g) ==
  /\ pending[g] # <<>> /\ hmu[g] = NoLogger
  /\ \A f \in Goroutines : hmu[f] # handlers[Current(g)].mutex
  /\ hmu' = [hmu EXCEPT ![g] = handlers[Current(g)].mutex]
  /\ UNCHANGED <<attrArrays, handlers, ctxLogger, pending, fdmu, output, derived, logged, want>>

\* os.File.Write keeps the write lock of the file until everything is written,
\* piece by piece.
Write(g) ==
  /\ hmu[g] # NoLogger /\ pending[g] # <<>>
  /\ fdmu \in {NoGoroutine, g}
  /\ LET rest == Tail(Head(pending[g])) IN
       /\ output' = Append(output, Head(Head(pending[g])))
       /\ fdmu' = IF rest = <<>> THEN NoGoroutine ELSE g
       /\ pending' = [pending EXCEPT ![g] = IF rest = <<>> THEN Tail(@) ELSE <<rest>> \o Tail(@)]
  /\ UNCHANGED <<attrArrays, handlers, ctxLogger, hmu, derived, logged, want>>

Unlock(g) ==
  /\ hmu[g] # NoLogger /\ pending[g] = <<>>
  /\ hmu' = [hmu EXCEPT ![g] = NoLogger]
  /\ UNCHANGED <<attrArrays, handlers, ctxLogger, pending, fdmu, output, derived, logged, want>>
-----------------------------------------------------------------------------
(* The goroutines *)

Idle(g) == ctxLogger[g] # NotStarted /\ pending[g] = <<>> /\ hmu[g] = NoLogger

\* WithContext(ctx, FromContext(ctx).With(a)), or .WithGroup(name)
Derive(g) ==
  /\ Idle(g) /\ derived[g] < MaxDerived
  /\ \/ \E a \in Attrs : WithAttrs(g, a)
     \/ \E name \in GroupNames : WithGroup(g, name)
  /\ ctxLogger' = [ctxLogger EXCEPT ![g] = Len(handlers) + 1]
  /\ derived' = [derived EXCEPT ![g] = @ + 1]
  /\ UNCHANGED <<pending, hmu, fdmu, output, logged, want>>

\* A call below the level does nothing.
Log(g) ==
  /\ Idle(g) /\ logged[g] < MaxLines
  /\ \E level \in DOMAIN LevelOf, a \in {a \in Attrs : a.kind = "key"} :
       Enabled(Current(g), LevelOf[level]) /\ Handle(g, a)

\* A goroutine starts with the context of another, or with none.
Spawn(g) ==
  /\ ctxLogger[g] = NotStarted
  /\ \E c \in {NoLogger} \cup {ctxLogger[f] : f \in {f \in Goroutines : ctxLogger[f] # NotStarted}} :
       ctxLogger' = [ctxLogger EXCEPT ![g] = c]
  /\ UNCHANGED <<attrArrays, handlers, pending, hmu, fdmu, output, derived, logged, want>>

LoggerInit ==
  /\ attrArrays = << <<>> >>
  /\ \E env \in Environments : handlers = <<NewHandler(env)>>
  /\ ctxLogger = [g \in Goroutines |-> NotStarted]
  /\ pending = [g \in Goroutines |-> <<>>] /\ want = pending
  /\ hmu = [g \in Goroutines |-> NoLogger] /\ fdmu = NoGoroutine
  /\ output = <<>>
  /\ derived = [g \in Goroutines |-> 0] /\ logged = derived

LoggerNext ==
  \E g \in Goroutines : Spawn(g) \/ Derive(g) \/ Log(g) \/ Lock(g) \/ Write(g) \/ Unlock(g)

LoggerSpec == LoggerInit /\ [][LoggerNext]_loggerVars
-----------------------------------------------------------------------------
(* Properties *)

\* The lines of different goroutines never mix, although derived handlers share
\* the file and not their mutex: a line is a single Write of a whole buffer.
LinesWhole ==
  \A i, k \in 1..Len(output) :
    i < k /\ output[i].of = output[k].of => \A j \in i..k : output[j].of = output[i].of

\* The derivations that add an attribute, and the groups opened before the i-th.
Withs(made) == {i \in 1..Len(made) : "with" \in DOMAIN made[i]}
GroupsBefore(made, i) ==
  LET opened == At(made, (1..(i - 1)) \ Withs(made)) IN [n \in 1..Len(opened) |-> opened[n].group]

\* slog's contract: a group qualifies the attributes added after it.
Shown(made) ==
  At([i \in 1..Len(made) |-> IF i \in Withs(made) THEN writeAttr(GroupsBefore(made, i), made[i].with) ELSE <<>>],
     Withs(made))
Qualified(made) == <<LineHead>> \o Shown(made)

\* A derivation opens its groups before it adds attributes.
GroupsFirst(made) == \A i \in Withs(made) : \A j \in i..Len(made) : j \in Withs(made)

\* Two pieces show the same keys, under whatever groups.
SameKeys(p, q) == Len(p) = Len(q) /\ \A k \in 1..Len(p) : p[k][Len(p[k])] = q[k][Len(q[k])]

AsDue(w, p, q) == IF handlers[w.h].json \/ GroupsFirst(w.made) THEN p = q ELSE SameKeys(p, q)

LineOf(g, n) == LET mine == At(output, {i \in 1..Len(output) : output[i].of = <<g, n>>})
                IN [i \in 1..Len(mine) |-> mine[i].text]

\* A line shows the attributes its own logger was given, in order and qualified
\* by the groups opened before them, whatever loggers others derive meanwhile
\* from the same parent.  Where an attribute precedes a group, the pretty
\* handler qualifies it with that group all the same: it only keeps the keys.
LineAsDerived ==
  \A g \in Goroutines : \A n \in 1..logged[g] :
    LET due == Qualified(want[g][n].made) line == LineOf(g, n) IN
    \* all of it once it is written, the beginning before
    /\ Len(line) <= Len(due)
    /\ (pending[g] = <<>> \/ n < logged[g]) => Len(line) = Len(due)
    /\ \A i \in 1..Len(line) : AsDue(want[g][n], line[i], due[i])
=============================================================================
