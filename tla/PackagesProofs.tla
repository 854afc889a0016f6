-------------------------- MODULE PackagesProofs --------------------------
(***************************************************************************)
(* Theorems about the packages of MCPackages, for any number of goroutines, *)
(* options, attributes, requests, rows, pages, slices and calls, and any    *)
(* width of a word.                                                         *)
(***************************************************************************)
EXTENDS CollectionProofs, Construction, PrettyHandler, Query
-----------------------------------------------------------------------------
(* Construction: types *)

Makers == {"own", "app"}
Phases == {"begin", "services", "once", "register", "routes", "built", "failed", "panicked"}
Configurations == {ConfigOf(opts) : opts \in OptionLists} \cup {createDefaultConfig}
News == [pc : Phases, c : Configurations, next : Nat \ {0}, metrics : Seq(Makers)]

First == MetricNames[1]
Second == MetricNames[2]

ConstructionTypeOK ==
  /\ registry \in [{First, Second} -> {"free", "app", "own", "clash"}]
  /\ once \in {"new", "done"} \cup Callers
  /\ metrics \in Seq(Makers)
  /\ new \in [Callers -> News]
  /\ counts \in [Makers -> [Labels -> Nat]] /\ served \in [Labels -> Nat]

Clashed == registry[First] = "clash" \/ registry[Second] = "clash"

\* A collector that may be counted in.
Usable(name) == registry[name] \notin {"free", "clash"}

\* The metrics as far as they have been made are the registered ones.
MadeOf(m) ==
  /\ Len(m) <= 2
  /\ Len(m) >= 1 => m[1] = registry[First] /\ Usable(First)
  /\ Len(m) = 2 => Usable(Second)

\* Who has the once makes the metrics; what it leaves is nil exactly if a name
\* is taken by another collector, and every recording server has it.
CallerOK(g) ==
  /\ new[g].pc = "register" <=> once = g
  /\ new[g].pc \in {"begin", "services", "once"} => new[g].metrics = NoMetrics
  /\ new[g].pc = "register" => MadeOf(new[g].metrics)
  /\ new[g].pc \in {"once", "register"} => ~new[g].c.NoMetricsRecorder
  /\ new[g].pc \in {"routes", "built"} /\ ~new[g].c.NoMetricsRecorder =>
       once = "done" /\ new[g].metrics = metrics

OnceOK ==
  /\ \A g \in Callers : CallerOK(g)
  /\ once # "done" => metrics = NoMetrics
  /\ once = "done" => \/ Clashed /\ metrics = NoMetrics
                      \/ ~Clashed /\ Len(metrics) = 2 /\ metrics[1] = registry[First] /\ Usable(First)

\* The requests answered are those counted in the registered collector; one
\* that is yet to be made has counted nothing, and without metrics none is.
CountsOK ==
  /\ Clashed => \A l \in Labels : served[l] = 0
  /\ ~Clashed =>
    /\ dropped = {}
    /\ registry[First] = "free" => \A l \in Labels : served[l] = 0 /\ counts["own"][l] = 0
    /\ registry[First] # "free" => \A l \in Labels : served[l] = counts[registry[First]][l]

ConstructionInv == ConstructionTypeOK /\ OnceOK /\ CountsOK

LEMMA TwoNames ==
  /\ MetricNames[1] = First /\ MetricNames[2] = Second /\ First # Second /\ Len(MetricNames) = 2
<1>1. MetricNames[1] = "http_requests_total" /\ MetricNames[2] = "http_request_duration_seconds"
  BY DEF MetricNames
<1>2. Len(MetricNames) = 2
  BY DEF MetricNames
<1> QED
  BY <1>1, <1>2 DEF First, Second

\* A caller is neither "new" nor "done".
LEMMA CallerNames == \A g \in Callers : g # "new" /\ g # "done"
  BY ConstructionAssumption

LEMMA ConstructionInitInv == ConstructionInit => ConstructionInv
<1> SUFFICES ASSUME ConstructionInit PROVE ConstructionInv
  OBVIOUS
<1>1. /\ registry \in [{First, Second} -> {"free", "app", "clash"}]
      /\ once = "new" /\ metrics = <<>>
  BY ConstructionAssumption, TwoNames DEF ConstructionInit, NoMetrics
<1>2. <<>> \in Seq(Makers)
  OBVIOUS
<1>3. \A g \in Callers : /\ new[g] \in News /\ new[g].pc = "begin" /\ new[g].metrics = NoMetrics
  BY <1>2 DEF ConstructionInit, News, Phases, Configurations, NoMetrics
<1>4. new \in [Callers -> News]
  BY <1>3 DEF ConstructionInit
<1>5. /\ counts \in [Makers -> [Labels -> Nat]] /\ served \in [Labels -> Nat]
      /\ dropped = {} /\ \A l \in Labels : served[l] = 0 /\ \A m \in Makers : counts[m][l] = 0
  BY DEF ConstructionInit, Makers
<1>6. ConstructionTypeOK
  BY <1>1, <1>2, <1>4, <1>5 DEF ConstructionTypeOK
<1>7. OnceOK
  BY <1>1, <1>3, CallerNames DEF OnceOK, CallerOK, NoMetrics
<1>8. CountsOK
  <2>1. registry[First] \in {"free", "app", "clash"}
    BY <1>1
  <2> QED
    BY <1>5, <2>1 DEF CountsOK, Clashed, Makers
<1> QED
  BY <1>6, <1>7, <1>8 DEF ConstructionInv

\* A caller that only moves on in New.
Others(g) == new' \in [Callers -> News] /\ \A f \in Callers \ {g} : new'[f] = new[f]

LEMMA MoveOn ==
  ASSUME ConstructionTypeOK, NEW g \in Callers, NEW p \in Phases, To(g, p)
  PROVE  /\ Others(g) /\ new'[g].pc = p /\ new'[g].c = new[g].c
         /\ new'[g].next = new[g].next /\ new'[g].metrics = new[g].metrics
<1>1. new[g] \in News /\ new \in [Callers -> News]
  BY DEF ConstructionTypeOK
<1>2. new'[g] = [new[g] EXCEPT !.pc = p] /\ \A f \in Callers \ {g} : new'[f] = new[f]
  BY <1>1 DEF To
<1>3. /\ new'[g] \in News /\ new'[g].pc = p /\ new'[g].c = new[g].c
      /\ new'[g].next = new[g].next /\ new'[g].metrics = new[g].metrics
  BY <1>1, <1>2 DEF News
<1>4. new' \in [Callers -> News]
  BY <1>1, <1>2, <1>3 DEF To
<1> QED
  BY <1>2, <1>3, <1>4 DEF Others

LEMMA OneCaller ==
  ASSUME ConstructionInv, NEW g \in Callers, Others(g), CallerOK(g)',
         UNCHANGED <<registry, once, metrics, counts, served, dropped>>
  PROVE  ConstructionInv'
<1>1. ConstructionTypeOK'
  BY DEF ConstructionInv, ConstructionTypeOK, Others
<1>2. (Clashed' <=> Clashed) /\ \A n : Usable(n)' <=> Usable(n)
  BY DEF Clashed, Usable
<1>3. \A f \in Callers \ {g} : CallerOK(f)'
  BY <1>2 DEF ConstructionInv, OnceOK, CallerOK, Others, MadeOf
<1>4. OnceOK'
  BY <1>2, <1>3 DEF ConstructionInv, OnceOK
<1>5. CountsOK'
  BY <1>2 DEF ConstructionInv, CountsOK
<1> QED
  BY <1>1, <1>4, <1>5 DEF ConstructionInv

LEMMA NewBeginInv ==
  ASSUME ConstructionInv, NEW g \in Callers, NewBegin(g)
  PROVE  ConstructionInv'
<1>1. new[g] \in News /\ new \in [Callers -> News] /\ new[g].pc = "begin" /\ new[g].metrics = NoMetrics
  BY DEF ConstructionInv, ConstructionTypeOK, OnceOK, CallerOK, NewBegin
<1>2. once # g
  BY <1>1 DEF ConstructionInv, OnceOK, CallerOK
<1>3. UNCHANGED <<registry, once, metrics, counts, served, dropped>>
  BY DEF NewBegin
<1>4. CASE To(g, "failed")
  <2>1. Others(g) /\ new'[g].pc = "failed"
    BY <1>4, MoveOn DEF ConstructionInv, Phases
  <2> QED
    BY <1>2, <1>3, <2>1, OneCaller DEF CallerOK
<1>5. ASSUME NEW opts \in OptionLists,
             new' = [new EXCEPT ![g].pc = "services", ![g].c = ConfigOf(opts)]
      PROVE  ConstructionInv'
  <2>1. new'[g] = [new[g] EXCEPT !.pc = "services", !.c = ConfigOf(opts)]
        /\ \A f \in Callers \ {g} : new'[f] = new[f]
    BY <1>1, <1>5
  <2>2. ConfigOf(opts) \in Configurations /\ "services" \in Phases
    BY DEF Configurations, Phases
  <2>3. new'[g] \in News /\ new'[g].pc = "services" /\ new'[g].metrics = new[g].metrics
    BY <1>1, <2>1, <2>2 DEF News
  <2>4. Others(g)
    BY <1>1, <1>5, <2>1, <2>3 DEF Others
  <2> QED
    BY <1>1, <1>2, <1>3, <2>3, <2>4, OneCaller DEF CallerOK
<1> QED
  BY <1>4, <1>5 DEF NewBegin

LEMMA ServicesInv ==
  ASSUME ConstructionInv, NEW g \in Callers, RegisterService(g) \/ ServicesDone(g)
  PROVE  ConstructionInv'
<1>1. new[g] \in News /\ new \in [Callers -> News] /\ new[g].pc = "services" /\ new[g].metrics = NoMetrics
  BY DEF ConstructionInv, ConstructionTypeOK, OnceOK, CallerOK, RegisterService, ServicesDone
<1>2. once # g
  BY <1>1 DEF ConstructionInv, OnceOK, CallerOK
<1>3. UNCHANGED <<registry, once, metrics, counts, served, dropped>>
  BY DEF RegisterService, ServicesDone
<1>4. CASE To(g, "failed")
  <2>1. Others(g) /\ new'[g].pc = "failed"
    BY <1>4, MoveOn DEF ConstructionInv, Phases
  <2> QED
    BY <1>2, <1>3, <2>1, OneCaller DEF CallerOK
<1>5. CASE new' = [new EXCEPT ![g].next = @ + 1]
  <2>1. new'[g] = [new[g] EXCEPT !.next = @ + 1] /\ \A f \in Callers \ {g} : new'[f] = new[f]
    BY <1>1, <1>5
  <2>2. new'[g] \in News /\ new'[g].pc = "services" /\ new'[g].metrics = new[g].metrics
    <3>1. new[g].pc \in Phases /\ new[g].c \in Configurations /\ new[g].next \in Nat \ {0}
          /\ new[g].metrics \in Seq(Makers)
          /\ new[g] = [pc |-> new[g].pc, c |-> new[g].c, next |-> new[g].next, metrics |-> new[g].metrics]
      BY <1>1 DEF News
    <3>2. new'[g] = [pc |-> new[g].pc, c |-> new[g].c, next |-> new[g].next + 1, metrics |-> new[g].metrics]
      BY <2>1, <3>1
    <3> QED
      BY <1>1, <3>1, <3>2 DEF News
  <2>3. Others(g)
    BY <1>1, <1>5, <2>1, <2>2 DEF Others
  <2> QED
    BY <1>1, <1>2, <1>3, <2>2, <2>3, OneCaller DEF CallerOK
<1>6. CASE new[g].c.NoMetricsRecorder /\ To(g, "routes")
  <2>1. Others(g) /\ new'[g].pc = "routes" /\ new'[g].c = new[g].c
    BY <1>6, MoveOn DEF ConstructionInv, Phases
  <2> QED
    BY <1>2, <1>3, <1>6, <2>1, OneCaller DEF CallerOK
<1>7. CASE ~new[g].c.NoMetricsRecorder /\ To(g, "once")
  <2>1. Others(g) /\ new'[g].pc = "once" /\ new'[g].c = new[g].c /\ new'[g].metrics = new[g].metrics
    BY <1>7, MoveOn DEF ConstructionInv, Phases
  <2> QED
    BY <1>1, <1>2, <1>3, <1>7, <2>1, OneCaller DEF CallerOK
<1> QED
  BY <1>4, <1>5, <1>6, <1>7 DEF RegisterService, ServicesDone

LEMMA RoutesInv ==
  ASSUME ConstructionInv, NEW g \in Callers, Routes(g)
  PROVE  ConstructionInv'
<1>1. new[g].pc = "routes" /\ once # g /\ UNCHANGED <<registry, once, metrics, counts, served, dropped>>
  BY DEF ConstructionInv, OnceOK, CallerOK, Routes
<1>2. PICK p \in {"panicked", "built"} : To(g, p)
  BY DEF Routes
<1>3. Others(g) /\ new'[g].pc = p /\ new'[g].c = new[g].c /\ new'[g].metrics = new[g].metrics
  BY <1>2, MoveOn DEF ConstructionInv, Phases
<1>4. CallerOK(g)'
  BY <1>1, <1>3 DEF ConstructionInv, OnceOK, CallerOK
<1> QED
  BY <1>1, <1>3, <1>4, OneCaller

\* The once starts: nobody has metrics yet.
LEMMA OnceBeginInv ==
  ASSUME ConstructionInv, NEW g \in Callers, OnceBegin(g)
  PROVE  ConstructionInv'
<1>1. /\ new[g].pc = "once" /\ once = "new" /\ once' = g /\ To(g, "register")
      /\ UNCHANGED <<registry, metrics, counts, served, dropped>>
  BY DEF OnceBegin
<1>2. new[g].metrics = NoMetrics /\ ~new[g].c.NoMetricsRecorder
  BY <1>1 DEF ConstructionInv, OnceOK, CallerOK
<1>3. /\ Others(g) /\ new'[g].pc = "register" /\ new'[g].c = new[g].c /\ new'[g].metrics = NoMetrics
  BY <1>1, <1>2, MoveOn DEF ConstructionInv, Phases
<1>4. MadeOf(new[g].metrics)'
  BY <1>3 DEF MadeOf, NoMetrics
<1>5. CallerOK(g)'
  BY <1>1, <1>2, <1>3, <1>4 DEF CallerOK
<1>6. \A f \in Callers \ {g} : CallerOK(f)'
  BY <1>1, <1>3, CallerNames DEF ConstructionInv, OnceOK, CallerOK, Others
<1>7. OnceOK'
  BY <1>1, <1>5, <1>6, CallerNames DEF ConstructionInv, OnceOK
<1>8. CountsOK' /\ ConstructionTypeOK'
  BY <1>1, <1>3 DEF ConstructionInv, ConstructionTypeOK, CountsOK, Clashed, Others
<1> QED
  BY <1>7, <1>8 DEF ConstructionInv

\* A collector is taken from the registry, or put there.
LEMMA OnceRegisterInv ==
  ASSUME ConstructionInv, NEW g \in Callers, OnceRegister(g)
  PROVE  ConstructionInv'
<1>1. PICK m, k : m = new[g].metrics /\ k = Len(m)
  OBVIOUS
<1>2. new[g].pc = "register" /\ k < 2 /\ UNCHANGED <<metrics, counts, served, dropped>>
  BY <1>1, TwoNames DEF OnceRegister
<1>3. new[g] \in News /\ new \in [Callers -> News] /\ m \in Seq(Makers)
  BY <1>1 DEF ConstructionInv, ConstructionTypeOK, News
<1>4. k \in {0, 1}
  <2>1. k \in Nat
    BY <1>1, <1>3
  <2> QED
    BY <1>2, <2>1
<1>5. once = g /\ once # "done" /\ MadeOf(m) /\ ~new[g].c.NoMetricsRecorder /\ metrics = NoMetrics
  BY <1>1, <1>2, CallerNames DEF ConstructionInv, OnceOK, CallerOK
<1>6. PICK name : /\ name = MetricNames[k + 1]
                  /\ (k = 0 /\ name = First) \/ (k = 1 /\ name = Second)
  <2>1. k + 1 = 1 \/ k + 1 = 2
    BY <1>4
  <2> QED
    BY <1>4, <2>1, TwoNames
<1>7. /\ registry[name] \in {"free", "app", "own", "clash"}
      /\ registry \in [{First, Second} -> {"free", "app", "own", "clash"}] /\ name \in {First, Second}
  BY <1>6 DEF ConstructionInv, ConstructionTypeOK
<1>8. CASE registry[name] = "clash"
  <2>1. once' = "done" /\ To(g, "panicked") /\ UNCHANGED registry
    BY <1>1, <1>6, <1>8 DEF OnceRegister, mustRegister
  <2>2. Others(g) /\ new'[g].pc = "panicked"
    BY <2>1, MoveOn DEF ConstructionInv, Phases
  <2>3. Clashed /\ (Clashed' <=> Clashed)
    BY <1>6, <1>8, <2>1 DEF Clashed
  <2>4. \A f \in Callers \ {g} : CallerOK(f)'
    BY <1>2, <1>5, <2>1, <2>2, CallerNames DEF ConstructionInv, OnceOK, CallerOK, Others
  <2>5. CallerOK(g)'
    BY <2>1, <2>2, CallerNames DEF CallerOK
  <2>6. OnceOK'
    BY <1>2, <1>5, <2>1, <2>3, <2>4, <2>5 DEF OnceOK
  <2>7. CountsOK' /\ ConstructionTypeOK'
    BY <1>2, <2>1, <2>2, <2>3 DEF ConstructionInv, ConstructionTypeOK, CountsOK, Others
  <2> QED
    BY <2>6, <2>7 DEF ConstructionInv
<1>9. CASE registry[name] # "clash"
  <2>1. PICK x \in Makers : x = IF registry[name] = "free" THEN "own" ELSE registry[name]
    BY <1>7, <1>9 DEF Makers
  <2>2. mustRegister(name) = x /\ x # "panic" /\ x \notin {"free", "clash"}
    BY <1>9, <2>1 DEF mustRegister, Makers
  <2>3. /\ new' = [new EXCEPT ![g].metrics = Append(@, x)] /\ UNCHANGED once
        /\ registry' = [registry EXCEPT ![name] = IF @ = "free" THEN "own" ELSE @]
    BY <1>1, <1>6, <2>2 DEF OnceRegister
  <2>4. /\ registry'[name] = x /\ \A n \in {First, Second} \ {name} : registry'[n] = registry[n]
        /\ registry' \in [{First, Second} -> {"free", "app", "own", "clash"}]
    BY <1>7, <1>9, <2>1, <2>3 DEF Makers
  <2>5. new'[g] = [new[g] EXCEPT !.metrics = Append(m, x)] /\ \A f \in Callers \ {g} : new'[f] = new[f]
    BY <1>1, <1>3, <2>3
  <2>6. Append(m, x) \in Seq(Makers) /\ Len(Append(m, x)) = k + 1 /\ (k = 1 => Append(m, x)[1] = m[1])
        /\ (k = 0 => Append(m, x)[1] = x)
    BY <1>1, <1>3, <1>4
  <2>7. /\ new'[g] \in News /\ new'[g].pc = "register" /\ new'[g].c = new[g].c
        /\ new'[g].metrics = Append(m, x)
    BY <1>2, <1>3, <2>5, <2>6 DEF News
  <2>8. Others(g)
    BY <1>3, <2>3, <2>5, <2>7 DEF Others
  <2>9. Clashed' <=> Clashed
    BY <1>6, <1>9, <2>2, <2>4, TwoNames DEF Clashed
  <2>10. MadeOf(new[g].metrics)'
    <3>1. CASE k = 0
      BY <1>6, <2>2, <2>4, <2>6, <2>7, <3>1, TwoNames DEF MadeOf, Usable
    <3>2. CASE k = 1
      <4>1. m[1] = registry[First] /\ Usable(First)
        BY <1>1, <1>5, <3>2 DEF MadeOf
      <4>2. registry'[First] = registry[First]
        BY <1>6, <2>4, <3>2, TwoNames
      <4> QED
        BY <1>6, <2>2, <2>4, <2>6, <2>7, <3>2, <4>1, <4>2, TwoNames DEF MadeOf, Usable
    <3> QED
      BY <1>4, <3>1, <3>2
  <2>11. CallerOK(g)'
    BY <1>5, <2>3, <2>7, <2>10 DEF CallerOK
  <2>12. \A f \in Callers \ {g} : CallerOK(f)'
    BY <1>2, <1>5, <2>3, <2>8, CallerNames DEF ConstructionInv, OnceOK, CallerOK, Others
  <2>13. OnceOK'
    BY <1>2, <1>5, <2>3, <2>11, <2>12 DEF OnceOK
  <2>14. CountsOK'
    <3>1. CASE registry'[First] = registry[First]
      BY <1>2, <2>9, <3>1 DEF ConstructionInv, CountsOK
    <3>2. CASE registry'[First] # registry[First]
      <4>1. name = First
        BY <1>6, <2>4, <3>2, TwoNames
      <4>2. registry[First] = "free" /\ registry'[First] = "own"
        BY <2>1, <2>4, <3>2, <4>1
      <4> QED
        BY <1>2, <2>9, <4>2 DEF ConstructionInv, CountsOK
    <3> QED
      BY <3>1, <3>2
  <2>15. ConstructionTypeOK'
    BY <1>2, <2>3, <2>4, <2>8 DEF ConstructionInv, ConstructionTypeOK, Others
  <2> QED
    BY <2>13, <2>14, <2>15 DEF ConstructionInv
<1> QED
  BY <1>8, <1>9

\* The once ends with both collectors.
LEMMA OnceEndInv ==
  ASSUME ConstructionInv, NEW g \in Callers, OnceEnd(g)
  PROVE  ConstructionInv'
<1>1. PICK m : m = new[g].metrics
  OBVIOUS
<1>2. /\ new[g].pc = "register" /\ Len(m) = 2 /\ metrics' = m /\ once' = "done" /\ To(g, "routes")
      /\ UNCHANGED <<registry, counts, served, dropped>>
  BY <1>1, TwoNames DEF OnceEnd
<1>3. once = g /\ once # "done" /\ MadeOf(m)
  BY <1>1, <1>2, CallerNames DEF ConstructionInv, OnceOK, CallerOK
<1>4. Others(g) /\ new'[g].pc = "routes" /\ new'[g].metrics = m
  BY <1>1, <1>2, MoveOn DEF ConstructionInv, Phases
<1>5. m \in Seq(Makers)
  BY <1>1 DEF ConstructionInv, ConstructionTypeOK, News
<1>6. m[1] = registry[First] /\ Usable(First) /\ ~Clashed
  BY <1>2, <1>3 DEF MadeOf, Usable, Clashed
<1>7. (Clashed' <=> Clashed) /\ (Usable(First)' <=> Usable(First))
  BY <1>2 DEF Clashed, Usable
<1>8. CallerOK(g)'
  BY <1>2, <1>4, CallerNames DEF CallerOK
<1>9. \A f \in Callers \ {g} : CallerOK(f)'
  BY <1>2, <1>3, <1>4, CallerNames DEF ConstructionInv, OnceOK, CallerOK, Others
<1>10. OnceOK'
  BY <1>2, <1>6, <1>7, <1>8, <1>9 DEF OnceOK
<1>11. CountsOK' /\ ConstructionTypeOK'
  BY <1>2, <1>4, <1>5, <1>7 DEF ConstructionInv, ConstructionTypeOK, CountsOK, Others
<1> QED
  BY <1>10, <1>11 DEF ConstructionInv

LEMMA OnceDoneInv ==
  ASSUME ConstructionInv, NEW g \in Callers, OnceDone(g)
  PROVE  ConstructionInv'
<1>1. /\ new[g].pc = "once" /\ once = "done" /\ UNCHANGED <<registry, once, metrics, counts, served, dropped>>
      /\ new' = [new EXCEPT ![g].pc = "routes", ![g].metrics = metrics]
  BY DEF OnceDone
<1>2. new[g] \in News /\ new \in [Callers -> News] /\ metrics \in Seq(Makers) /\ "routes" \in Phases
  BY DEF ConstructionInv, ConstructionTypeOK, Phases
<1>3. /\ new'[g] = [new[g] EXCEPT !.pc = "routes", !.metrics = metrics]
      /\ \A f \in Callers \ {g} : new'[f] = new[f]
  BY <1>1, <1>2
<1>4. new'[g] \in News /\ new'[g].pc = "routes" /\ new'[g].metrics = metrics
  BY <1>2, <1>3 DEF News
<1>5. Others(g)
  BY <1>1, <1>2, <1>3, <1>4 DEF Others
<1>6. CallerOK(g)'
  BY <1>1, <1>4, CallerNames DEF CallerOK
<1> QED
  BY <1>1, <1>5, <1>6, OneCaller

\* A counter vector with one of its counters incremented.
LEMMA Counted ==
  ASSUME NEW f, NEW L, f \in [L -> Nat], NEW x
  PROVE  /\ [f EXCEPT ![x] = @ + 1] \in [L -> Nat]
         /\ \A l \in L : [f EXCEPT ![x] = @ + 1][l] = IF l = x THEN f[l] + 1 ELSE f[l]
<1>1. CASE x \in L
  BY <1>1
<1>2. CASE x \notin L
  BY <1>2
<1> QED
  BY <1>1, <1>2

\* A request: whoever answers one counts it in the registered collector.
LEMMA RequestInv ==
  ASSUME ConstructionInv, NEW g \in Callers, NEW pattern, Request(g, pattern)
  PROVE  ConstructionInv'
<1>1. PICK x : x = Label(g, pattern)
  OBVIOUS
<1>2. /\ new[g].pc = "built" /\ ~new[g].c.NoMetricsRecorder /\ new[g].metrics # NoMetrics
      /\ UNCHANGED <<registry, once, metrics, new, dropped>>
      /\ served' = [served EXCEPT ![x] = @ + 1]
      /\ counts' = [counts EXCEPT ![new[g].metrics[1]][x] = @ + 1]
  BY <1>1 DEF Request, Recording
<1>3. once = "done" /\ new[g].metrics = metrics
  BY <1>2 DEF ConstructionInv, OnceOK, CallerOK
<1>4. counts \in [Makers -> [Labels -> Nat]] /\ served \in [Labels -> Nat]
  BY DEF ConstructionInv, ConstructionTypeOK
<1>5. /\ served' \in [Labels -> Nat]
      /\ \A l \in Labels : served'[l] = IF l = x THEN served[l] + 1 ELSE served[l]
  BY <1>2, <1>4, Counted
<1>6. (Clashed' <=> Clashed) /\ \A n : Usable(n)' <=> Usable(n)
  BY <1>2 DEF Clashed, Usable
<1>7. OnceOK'
  BY <1>2, <1>6 DEF ConstructionInv, OnceOK, CallerOK, MadeOf
<1>8. ~Clashed
  BY <1>2, <1>3 DEF ConstructionInv, OnceOK
<1>9. Len(metrics) = 2 /\ metrics[1] = registry[First] /\ Usable(First)
  BY <1>3, <1>8 DEF ConstructionInv, OnceOK
<1>10. PICK e \in Makers : e = registry[First]
  BY <1>9 DEF ConstructionInv, ConstructionTypeOK, Usable, Makers
<1>11. counts' = [counts EXCEPT ![e][x] = @ + 1]
  BY <1>2, <1>3, <1>9, <1>10
<1>12. /\ counts' \in [Makers -> [Labels -> Nat]]
       /\ \A l \in Labels : counts'[e][l] = IF l = x THEN counts[e][l] + 1 ELSE counts[e][l]
  <2>1. PICK f : f = [counts[e] EXCEPT ![x] = @ + 1]
    OBVIOUS
  <2>2. f \in [Labels -> Nat] /\ \A l \in Labels : f[l] = IF l = x THEN counts[e][l] + 1 ELSE counts[e][l]
    BY <1>4, <2>1, Counted
  <2>3. counts' = [counts EXCEPT ![e] = f]
    BY <1>11, <2>1
  <2> QED
    BY <1>4, <2>2, <2>3
<1>13. dropped = {} /\ \A l \in Labels : served[l] = counts[e][l]
  BY <1>8, <1>9, <1>10 DEF ConstructionInv, CountsOK, Usable
<1>14. CountsOK'
  BY <1>2, <1>5, <1>6, <1>8, <1>9, <1>10, <1>12, <1>13, SMTT(30) DEF CountsOK, Usable
<1> QED
  BY <1>2, <1>5, <1>7, <1>12, <1>14 DEF ConstructionInv, ConstructionTypeOK

\* One without metrics; there is none unless a name is taken.
LEMMA RequestPanicsInv ==
  ASSUME ConstructionInv, NEW g \in Callers, NEW pattern, RequestPanics(g, pattern)
  PROVE  ConstructionInv'
<1>1. /\ new[g].pc = "built" /\ ~new[g].c.NoMetricsRecorder /\ new[g].metrics = NoMetrics
      /\ UNCHANGED <<registry, once, metrics, new, counts, served>>
  BY DEF RequestPanics, Recording
<1>2. once = "done" /\ new[g].metrics = metrics
  BY <1>1 DEF ConstructionInv, OnceOK, CallerOK
<1>3. Clashed
  BY <1>1, <1>2 DEF ConstructionInv, OnceOK, NoMetrics
<1>4. (Clashed' <=> Clashed) /\ \A n : Usable(n)' <=> Usable(n)
  BY <1>1 DEF Clashed, Usable
<1>5. OnceOK'
  BY <1>1, <1>4 DEF ConstructionInv, OnceOK, CallerOK, MadeOf
<1>6. CountsOK'
  BY <1>1, <1>3, <1>4 DEF ConstructionInv, CountsOK
<1> QED
  BY <1>1, <1>5, <1>6 DEF ConstructionInv, ConstructionTypeOK

LEMMA ConstructionStepInv ==
  ConstructionInv /\ [ConstructionNext]_constructionVars => ConstructionInv'
<1> SUFFICES ASSUME ConstructionInv, [ConstructionNext]_constructionVars PROVE ConstructionInv'
  OBVIOUS
<1>1. CASE UNCHANGED constructionVars
  BY <1>1 DEF constructionVars, ConstructionInv, ConstructionTypeOK, OnceOK, CallerOK, MadeOf, CountsOK,
              Clashed, Usable
<1>2. ASSUME NEW g \in Callers,
             \/ NewBegin(g) \/ RegisterService(g) \/ ServicesDone(g) \/ OnceBegin(g) \/ OnceRegister(g)
             \/ OnceEnd(g) \/ OnceDone(g) \/ Routes(g) 
             \/ \E l \in Labels : Request(g, l[2]) \/ RequestPanics(g, l[2])
      PROVE  ConstructionInv'
  BY <1>2, NewBeginInv, ServicesInv, OnceBeginInv, OnceRegisterInv, OnceEndInv, OnceDoneInv, RoutesInv,
     RequestInv, RequestPanicsInv
<1> QED
  BY <1>1, <1>2 DEF ConstructionNext

\* Whoever calls New in whatever order, and whatever is registered before:
\* a recording server answers every request and counts it in the collector that
\* /metrics shows, and where a name is taken it answers none.
THEOREM RequestsAlwaysCounted == ConstructionSpec => []RequestsCounted
<1>1. ConstructionInv => RequestsCounted
  <2> SUFFICES ASSUME ConstructionInv PROVE RequestsCounted
    OBVIOUS
  <2>1. (\E n \in ToSet(MetricNames) : registry[n] = "clash") <=> Clashed
    <3>1. ToSet(MetricNames) = {MetricNames[1], MetricNames[2]}
      BY TwoNames DEF ToSet, MetricNames
    <3> QED
      BY <3>1, TwoNames DEF Clashed
  <2>2. Clashed => \A l \in DOMAIN served : served[l] = 0
    BY DEF ConstructionInv, ConstructionTypeOK, CountsOK
  <2>3. ~Clashed => dropped = {} /\ \A l \in DOMAIN served :
          served[l] = (IF registry[First] = "free" THEN 0 ELSE counts[registry[First]][l])
    BY DEF ConstructionInv, ConstructionTypeOK, CountsOK
  <2> QED
    BY <2>1, <2>2, <2>3, TwoNames DEF RequestsCounted
<1> QED
  BY <1>1, ConstructionInitInv, ConstructionStepInv, PTL DEF ConstructionSpec
-----------------------------------------------------------------------------
(* PrettyHandler: types *)

Derivations == [with : Attrs] \cup [group : GroupNames]
References == [arr : Nat \ {0}, len : Nat]
Pieces == {writeAttr(gs, a) : gs \in Seq(GroupNames), a \in Attrs}
Handlers == [json : BOOLEAN, level : Int, attrs : References, groups : Seq(GroupNames), pre : Seq(Pieces),
             mutex : Nat, made : Seq(Derivations)]

LoggerTypeOK ==
  /\ attrArrays \in Seq(Seq(Attrs))
  /\ handlers \in Seq(Handlers) /\ Len(handlers) > 0
  /\ \A h \in 1..Len(handlers) :
       /\ handlers[h].attrs.arr <= Len(attrArrays)
       /\ handlers[h].attrs.len = Len(attrArrays[handlers[h].attrs.arr])
  /\ ctxLogger \in [Goroutines -> {NotStarted, NoLogger} \cup 1..Len(handlers)]
  /\ logged \in [Goroutines -> Nat]

\* A goroutine's line is one buffer, of pieces that are its own.
Buffered(g) ==
  pending[g] # <<>> =>
    /\ logged[g] > 0
    /\ pending[g] = <<pending[g][1]>> /\ Sequence(pending[g][1]) /\ Len(pending[g][1]) > 0
    /\ \A i \in 1..Len(pending[g][1]) : pending[g][1][i].of = <<g, logged[g]>>

\* Who has the file's lock has begun its line, which is the last; whoever has
\* not has written nothing of its own.
HoldsFile(g) == Len(output) > 0 /\ output[Len(output)].of = <<g, logged[g]>> /\ pending[g] # <<>>
NotBegun(g) == \A i \in 1..Len(output) : output[i].of # <<g, logged[g]>>

LineOK(g) ==
  /\ Buffered(g)
  /\ fdmu = g => HoldsFile(g)
  /\ fdmu # g /\ pending[g] # <<>> => NotBegun(g)

LinesOK ==
  /\ Sequence(output) /\ DOMAIN pending = Goroutines
  /\ \A i \in 1..Len(output) : \E g \in Goroutines : \E n \in 1..logged[g] : output[i].of = <<g, n>>
  /\ fdmu \in Goroutines \cup {NoGoroutine}
  /\ \A g \in Goroutines : LineOK(g)
  /\ LinesWhole

LoggerInv == LoggerTypeOK /\ LinesOK

\* A function on 1..n is a sequence of length n.
LEMMA FunctionSequence ==
  ASSUME NEW n \in Nat, NEW f, f = [i \in 1..n |-> f[i]]
  PROVE  Sequence(f) /\ Len(f) = n
<1> DEFINE S == {f[i] : i \in 1..n}
<1>1. \A i \in 1..n : f[i] \in S
  OBVIOUS
<1> HIDE DEF S
<1>2. [i \in 1..n |-> f[i]] \in [1..n -> S]
  BY <1>1
<1>3. f \in [1..n -> S]
  BY <1>2, Zenon
<1>4. f \in Seq(S)
  BY <1>3, SeqDef
<1> QED
  BY <1>3, <1>4 DEF Sequence

\* A sequence without its first element.
LEMMA SequenceTail ==
  ASSUME NEW s, Sequence(s), Len(s) > 0
  PROVE  /\ Sequence(Tail(s)) /\ Len(s) \in Nat /\ Len(Tail(s)) = Len(s) - 1 /\ Head(s) = s[1]
         /\ \A i \in 1..Len(Tail(s)) : Tail(s)[i] = s[i + 1]
         /\ Tail(s) # <<>> => Len(Tail(s)) > 0
<1>1. PICK S : s \in Seq(S)
  BY DEF Sequence
<1>2. s # <<>>
  OBVIOUS
<1>3. Tail(s) \in Seq(S) /\ Len(Tail(s)) = Len(s) - 1 /\ \A i \in 1..Len(Tail(s)) : Tail(s)[i] = s[i + 1]
  BY <1>1, <1>2, HeadTailProperties
<1>4. Tail(s) # <<>> => Len(Tail(s)) > 0
  BY <1>3, EmptySeq
<1> QED
  BY <1>1, <1>2, <1>3, <1>4 DEF Sequence

\* What a handler knows of itself, and what a line of its is.
LEMMA HandlerFacts ==
  ASSUME LoggerTypeOK, NEW h \in 1..Len(handlers)
  PROVE  /\ handlers[h] \in Handlers /\ AttrsOf(h) \in Seq(Attrs)
         /\ Len(AttrsOf(h)) = handlers[h].attrs.len
<1>1. handlers[h] \in Handlers
  BY DEF LoggerTypeOK
<1>2. PICK a, n : a = handlers[h].attrs.arr /\ n = handlers[h].attrs.len
  OBVIOUS
<1>3. a \in 1..Len(attrArrays) /\ n \in Nat /\ n = Len(attrArrays[a])
  <2>1. handlers[h].attrs \in References
    BY <1>1 DEF Handlers
  <2>2. a \in Nat \ {0} /\ n \in Nat
    BY <1>2, <2>1 DEF References
  <2>3. a <= Len(attrArrays) /\ n = Len(attrArrays[a]) /\ Len(attrArrays) \in Nat
    BY <1>2 DEF LoggerTypeOK
  <2> QED
    BY <2>2, <2>3
<1>4. attrArrays[a] \in Seq(Attrs)
  BY <1>3 DEF LoggerTypeOK
<1>5. SubSeq(attrArrays[a], 1, n) \in Seq(Attrs) /\ Len(SubSeq(attrArrays[a], 1, n)) = n
  BY <1>3, <1>4, SubSeqFull
<1> QED
  BY <1>1, <1>2, <1>5 DEF AttrsOf

\* A line begins with its head.
LEMMA HeadAndPieces ==
  ASSUME NEW S, NEW s \in Seq(S), NEW x
  PROVE  /\ Len(<<x>> \o s) = Len(s) + 1 /\ (<<x>> \o s)[1] = x
         /\ \A i \in 1..Len(s) : (<<x>> \o s)[i + 1] = s[i]
<1>1. s \in Seq(S \cup {x}) /\ <<x>> \in Seq(S \cup {x}) /\ Len(<<x>>) = 1 /\ <<x>>[1] = x
  BY SeqDef
<1> QED
  BY <1>1, ConcatProperties, SMTT(30)

\* The pieces of a line behind its head.
Behind(h, r) == [i \in 1..(Len(AttrsOf(h)) + 1) |-> writeAttr(handlers[h].groups, Append(AttrsOf(h), r)[i])]

\* A line is its head and pieces, however it is rendered.
LEMMA RenderedPieces ==
  ASSUME LoggerTypeOK, NEW h \in 1..Len(handlers), NEW r \in Attrs
  PROVE  /\ handlers[h].json =>
              /\ Append(handlers[h].pre, writeAttr(handlers[h].groups, r)) \in Seq(Pieces)
              /\ Rendered(h, r) = <<LineHead>> \o Append(handlers[h].pre, writeAttr(handlers[h].groups, r))
         /\ ~handlers[h].json => Behind(h, r) \in Seq(Pieces) /\ Rendered(h, r) = <<LineHead>> \o Behind(h, r)
<1>1. /\ handlers[h].pre \in Seq(Pieces) /\ handlers[h].groups \in Seq(GroupNames)
      /\ AttrsOf(h) \in Seq(Attrs)
  BY HandlerFacts DEF Handlers
<1>2. \A a \in Attrs : writeAttr(handlers[h].groups, a) \in Pieces
  BY <1>1 DEF Pieces
<1>3. ASSUME handlers[h].json
      PROVE  /\ Append(handlers[h].pre, writeAttr(handlers[h].groups, r)) \in Seq(Pieces)
             /\ Rendered(h, r) = <<LineHead>> \o Append(handlers[h].pre, writeAttr(handlers[h].groups, r))
  <2>1. writeAttr(handlers[h].groups, r) \in Pieces
    BY <1>2
  <2>2. Append(handlers[h].pre, writeAttr(handlers[h].groups, r)) \in Seq(Pieces)
    BY <1>1, <2>1
  <2> QED
    BY <1>3, <2>2 DEF Rendered
<1>4. ASSUME ~handlers[h].json
      PROVE  Behind(h, r) \in Seq(Pieces) /\ Rendered(h, r) = <<LineHead>> \o Behind(h, r)
  <2> DEFINE as == Append(AttrsOf(h), r)
  <2>1. as \in Seq(Attrs) /\ Len(as) = Len(AttrsOf(h)) + 1 /\ Len(as) \in Nat
    BY <1>1
  <2>2. \A i \in 1..Len(as) : writeAttr(handlers[h].groups, as[i]) \in Pieces
    BY <1>2, <2>1
  <2>3. Behind(h, r) = [i \in 1..Len(as) |-> writeAttr(handlers[h].groups, as[i])]
    BY <2>1 DEF Behind
  <2>4. Rendered(h, r) = <<LineHead>> \o Behind(h, r)
    BY <1>4, <2>3 DEF Rendered, WriteAll
  <2> HIDE DEF as
  <2>5. Behind(h, r) \in [1..Len(as) -> Pieces]
    BY <2>2, <2>3
  <2>6. Behind(h, r) \in Seq(Pieces)
    <3> DEFINE n == Len(as)
    <3>1. n \in Nat /\ Behind(h, r) \in [1..n -> Pieces]
      BY <2>1, <2>5
    <3> HIDE DEF n
    <3> QED
      BY <3>1, SeqDef
  <2> QED
    BY <2>4, <2>6
<1> QED
  BY <1>3, <1>4

\* No line is empty.
LEMMA RenderedLength ==
  ASSUME LoggerTypeOK, NEW h \in 1..Len(handlers), NEW r \in Attrs
  PROVE  Len(Rendered(h, r)) \in Nat \ {0}
<1>1. \A s \in Seq(Pieces) : Len(<<LineHead>> \o s) \in Nat \ {0}
  <2> SUFFICES ASSUME NEW s \in Seq(Pieces) PROVE Len(<<LineHead>> \o s) \in Nat \ {0}
    OBVIOUS
  <2>1. Len(s) \in Nat
    OBVIOUS
  <2>2. Len(<<LineHead>> \o s) = Len(s) + 1
    BY HeadAndPieces
  <2> QED
    BY <2>1, <2>2
<1> QED
  BY <1>1, RenderedPieces

\* A started goroutine has a logger.
LEMMA CurrentExists ==
  ASSUME LoggerTypeOK, NEW g \in Goroutines, ctxLogger[g] # NotStarted
  PROVE  Current(g) \in 1..Len(handlers)
  BY DEF LoggerTypeOK, Current

\* The process starts with one handler and an empty file.
LEMMA LoggerInitInv == LoggerInit => LoggerInv
<1> SUFFICES ASSUME LoggerInit PROVE LoggerInv
  OBVIOUS
<1>1. PICK env \in Environments : handlers = <<NewHandler(env)>>
  BY DEF LoggerInit
<1>2. parseLevel(env.LOG_LEVEL) \in Int
  BY DEF parseLevel, LevelOf
<1>3. NewHandler(env) \in Handlers /\ NewHandler(env).attrs.arr = 1 /\ NewHandler(env).attrs.len = 0
  BY <1>2 DEF NewHandler, Handlers, References
<1>4. attrArrays = << <<>> >> /\ attrArrays \in Seq(Seq(Attrs)) /\ Len(attrArrays[1]) = 0
  BY DEF LoggerInit
<1>5. LoggerTypeOK
  <2>1. handlers \in Seq(Handlers) /\ Len(handlers) = 1 /\ handlers[1] = NewHandler(env)
    BY <1>1, <1>3
  <2>2. ctxLogger \in [Goroutines -> {NotStarted, NoLogger} \cup 1..Len(handlers)]
    BY DEF LoggerInit
  <2>3. logged \in [Goroutines -> Nat]
    BY DEF LoggerInit
  <2> QED
    BY <1>3, <1>4, <2>1, <2>2, <2>3 DEF LoggerTypeOK
<1>6. LinesOK
  <2>1. /\ output = <<>> /\ fdmu = NoGoroutine /\ DOMAIN pending = Goroutines
        /\ \A g \in Goroutines : pending[g] = <<>>
    BY DEF LoggerInit
  <2>2. Sequence(output) /\ Len(output) = 0
    BY <2>1, EmptySeq DEF Sequence
  <2> QED
    BY <2>1, <2>2, LoggerAssumption DEF LinesOK, LineOK, Buffered, LinesWhole
<1> QED
  BY <1>5, <1>6 DEF LoggerInv

\* Steps that write nothing and log nothing.
LEMMA LinesKept ==
  ASSUME LinesOK, UNCHANGED <<pending, fdmu, output, logged>>
  PROVE  LinesOK'
  BY DEF LinesOK, LineOK, Buffered, HoldsFile, NotBegun, LinesWhole

\* A goroutine starts.
LEMMA SpawnInv ==
  ASSUME LoggerInv, NEW g \in Goroutines, Spawn(g)
  PROVE  LoggerInv'
<1>1. PICK c : /\ c \in {NoLogger} \cup {ctxLogger[f] : f \in {f \in Goroutines : ctxLogger[f] # NotStarted}}
               /\ ctxLogger' = [ctxLogger EXCEPT ![g] = c]
  BY DEF Spawn
<1>2. UNCHANGED <<attrArrays, handlers, pending, fdmu, output, logged>>
  BY DEF Spawn
<1>3. c \in {NotStarted, NoLogger} \cup 1..Len(handlers)
  BY <1>1 DEF LoggerInv, LoggerTypeOK
<1>4. ctxLogger' \in [Goroutines -> {NotStarted, NoLogger} \cup 1..Len(handlers)]
  BY <1>1, <1>3 DEF LoggerInv, LoggerTypeOK
<1>5. LoggerTypeOK'
  BY <1>2, <1>4 DEF LoggerInv, LoggerTypeOK
<1> QED
  BY <1>2, <1>5, LinesKept DEF LoggerInv

\* The mutex of a handler plays no part.
LEMMA LockInv ==
  ASSUME LoggerInv, NEW g \in Goroutines, Lock(g) \/ Unlock(g)
  PROVE  LoggerInv'
<1>1. UNCHANGED <<attrArrays, handlers, ctxLogger, pending, fdmu, output, logged>>
  BY DEF Lock, Unlock
<1>2. LoggerTypeOK'
  BY <1>1 DEF LoggerInv, LoggerTypeOK
<1> QED
  BY <1>1, <1>2, LinesKept DEF LoggerInv

\* A sequence with one element more.
LEMMA Appended ==
  ASSUME NEW S, NEW s \in Seq(S), NEW x \in S
  PROVE  /\ Append(s, x) \in Seq(S) /\ Len(Append(s, x)) = Len(s) + 1 /\ Append(s, x)[Len(s) + 1] = x
         /\ \A i \in 1..Len(s) : Append(s, x)[i] = s[i]
         /\ Len(s) \in Nat
  OBVIOUS

\* A handler made with an array of its own.
LEMMA Derived ==
  ASSUME LoggerTypeOK, NEW p \in Handlers, NEW as \in Seq(Attrs), NEW g \in Goroutines,
         p.attrs.arr = Len(attrArrays) + 1, p.attrs.len = Len(as),
         attrArrays' = Append(attrArrays, as), handlers' = Append(handlers, p),
         ctxLogger' = [ctxLogger EXCEPT ![g] = Len(handlers) + 1], UNCHANGED logged
  PROVE  LoggerTypeOK'
<1> DEFINE A == Seq(Attrs)
<1>0. attrArrays \in Seq(A) /\ as \in A /\ handlers \in Seq(Handlers)
  BY DEF LoggerTypeOK
<1>1. /\ attrArrays' \in Seq(A) /\ Len(attrArrays') = Len(attrArrays) + 1
      /\ attrArrays'[Len(attrArrays) + 1] = as /\ \A a \in 1..Len(attrArrays) : attrArrays'[a] = attrArrays[a]
      /\ Len(attrArrays) \in Nat
  <2> HIDE DEF A
  <2>1. \A s \in Seq(A), x \in A :
          /\ Append(s, x) \in Seq(A) /\ Len(Append(s, x)) = Len(s) + 1 /\ Append(s, x)[Len(s) + 1] = x
          /\ \A a \in 1..Len(s) : Append(s, x)[a] = s[a]
          /\ Len(s) \in Nat
    BY Appended
  <2> QED
    BY <1>0, <2>1, Zenon
<1>2. /\ handlers' \in Seq(Handlers) /\ Len(handlers') = Len(handlers) + 1
      /\ handlers'[Len(handlers) + 1] = p /\ \A h \in 1..Len(handlers) : handlers'[h] = handlers[h]
      /\ Len(handlers) \in Nat
  BY <1>0, Appended
<1>3. \A h \in 1..Len(handlers') : /\ handlers'[h].attrs.arr <= Len(attrArrays')
                                   /\ handlers'[h].attrs.len = Len(attrArrays'[handlers'[h].attrs.arr])
  <2> SUFFICES ASSUME NEW h \in 1..Len(handlers')
               PROVE  /\ handlers'[h].attrs.arr <= Len(attrArrays')
                      /\ handlers'[h].attrs.len = Len(attrArrays'[handlers'[h].attrs.arr])
    OBVIOUS
  <2>1. CASE h = Len(handlers) + 1
    <3>1. handlers'[h] = p /\ attrArrays'[p.attrs.arr] = as /\ p.attrs.arr <= Len(attrArrays')
      BY <1>1, <1>2, <2>1
    <3> QED
      BY <3>1
  <2>2. CASE h # Len(handlers) + 1
    <3>1. h \in 1..Len(handlers) /\ handlers'[h] = handlers[h]
      BY <1>2, <2>2
    <3>2. PICK a : a = handlers[h].attrs.arr
      OBVIOUS
    <3>3. a <= Len(attrArrays) /\ handlers[h].attrs.len = Len(attrArrays[a])
      BY <3>1, <3>2 DEF LoggerTypeOK
    <3>4. a \in Nat \ {0}
      <4>1. handlers[h] \in Handlers
        BY <1>0, <3>1
      <4>2. handlers[h].attrs \in References
        BY <4>1 DEF Handlers
      <4> QED
        BY <3>2, <4>2 DEF References
    <3>5. a \in 1..Len(attrArrays)
      BY <1>1, <3>3, <3>4
    <3>6. attrArrays'[a] = attrArrays[a] /\ a <= Len(attrArrays')
      BY <1>1, <3>5
    <3> QED
      BY <3>1, <3>2, <3>3, <3>6
  <2> QED
    BY <2>1, <2>2
<1>4. ctxLogger' \in [Goroutines -> {NotStarted, NoLogger} \cup 1..Len(handlers')]
  <2>1. Len(handlers) + 1 \in 1..Len(handlers') /\ 1..Len(handlers) \subseteq 1..Len(handlers')
    BY <1>2
  <2> QED
    BY <2>1 DEF LoggerTypeOK
<1>5. Len(handlers') > 0 /\ logged' \in [Goroutines -> Nat]
  BY <1>2 DEF LoggerTypeOK
<1> QED
  BY <1>1, <1>2, <1>3, <1>4, <1>5, Zenon DEF LoggerTypeOK, A

\* Deriving a logger makes a handler and touches no line.
LEMMA DeriveInv ==
  ASSUME LoggerInv, NEW g \in Goroutines, Derive(g)
  PROVE  LoggerInv'
<1>1. /\ ctxLogger[g] # NotStarted /\ ctxLogger' = [ctxLogger EXCEPT ![g] = Len(handlers) + 1]
      /\ UNCHANGED <<pending, fdmu, output, logged>>
  BY DEF Derive, Idle
<1>2. PICK h \in 1..Len(handlers) : h = Current(g)
  BY <1>1, CurrentExists DEF LoggerInv
<1>3. PICK p : p = handlers[h]
  OBVIOUS
<1>4. p \in Handlers /\ AttrsOf(h) \in Seq(Attrs) /\ Len(AttrsOf(h)) = p.attrs.len
  BY <1>3, HandlerFacts DEF LoggerInv
<1>5. p.attrs \in References /\ p.made \in Seq(Derivations) /\ p.groups \in Seq(GroupNames) /\ p.mutex \in Nat
      /\ p.attrs.len \in Nat /\ p.pre \in Seq(Pieces)
  BY <1>4 DEF Handlers, References
<1>6. Len(attrArrays) \in Nat /\ Len(handlers) \in Nat
  BY DEF LoggerInv, LoggerTypeOK
<1>7. PICK u \in Nat : u = IF p.json THEN p.mutex ELSE Len(handlers) + 1
  BY <1>5, <1>6
<1>8. ASSUME NEW a \in Attrs, WithAttrs(g, a) PROVE LoggerTypeOK'
  <2> DEFINE q == [p EXCEPT !.attrs = [arr |-> Len(attrArrays) + 1, len |-> p.attrs.len + 1],
                            !.mutex = u, !.pre = Append(@, writeAttr(p.groups, a)),
                            !.made = Append(@, [with |-> a])]
  <2>1. attrArrays' = Append(attrArrays, Append(AttrsOf(h), a)) /\ handlers' = Append(handlers, q)
    BY <1>2, <1>3, <1>7, <1>8 DEF WithAttrs
  <2>2. /\ Append(AttrsOf(h), a) \in Seq(Attrs) /\ Len(Append(AttrsOf(h), a)) = p.attrs.len + 1
    BY <1>4, <1>8
  <2>3. Append(p.made, [with |-> a]) \in Seq(Derivations) /\ Append(p.pre, writeAttr(p.groups, a)) \in Seq(Pieces)
    <3>1. [with |-> a] \in Derivations
      BY DEF Derivations
    <3>2. writeAttr(p.groups, a) \in Pieces
      BY <1>5 DEF Pieces
    <3> QED
      BY <1>5, <3>1, <3>2
  <2>4. [arr |-> Len(attrArrays) + 1, len |-> p.attrs.len + 1] \in References
    BY <1>5, <1>6 DEF References
  <2>5. q \in Handlers /\ q.attrs = [arr |-> Len(attrArrays) + 1, len |-> p.attrs.len + 1]
    BY <1>4, <2>3, <2>4 DEF Handlers
  <2>6. q.attrs.arr = Len(attrArrays) + 1 /\ q.attrs.len = p.attrs.len + 1
    BY <2>5
  <2> HIDE DEF q
  <2> QED
    BY <1>1, <2>1, <2>2, <2>5, <2>6, Derived DEF LoggerInv
<1>9. ASSUME NEW name \in GroupNames, WithGroup(g, name) PROVE LoggerTypeOK'
  <2> DEFINE q == [p EXCEPT !.attrs.arr = Len(attrArrays) + 1, !.groups = Append(@, name),
                            !.mutex = u, !.made = Append(@, [group |-> name])]
  <2>1. attrArrays' = Append(attrArrays, AttrsOf(h)) /\ handlers' = Append(handlers, q)
    BY <1>2, <1>3, <1>7, <1>9 DEF WithGroup
  <2>3. Append(p.made, [group |-> name]) \in Seq(Derivations) /\ Append(p.groups, name) \in Seq(GroupNames)
    <3>1. [group |-> name] \in Derivations
      BY DEF Derivations
    <3> QED
      BY <1>5, <3>1
  <2>4. PICK at \in References : at = [p.attrs EXCEPT !.arr = Len(attrArrays) + 1]
    <3>1. \A r \in References : \A n \in Nat \ {0} : [r EXCEPT !.arr = n] \in References
      BY DEF References
    <3>2. Len(attrArrays) + 1 \in Nat \ {0}
      BY <1>6
    <3> QED
      BY <1>5, <3>1, <3>2
  <2>5. at.arr = Len(attrArrays) + 1 /\ at.len = p.attrs.len
    BY <1>5, <2>4 DEF References
  <2>6. q \in Handlers /\ q.attrs = at
    BY <1>4, <2>3, <2>4 DEF Handlers
  <2> HIDE DEF q
  <2> QED
    BY <1>1, <1>4, <2>1, <2>5, <2>6, Derived DEF LoggerInv
<1> QED
  BY <1>1, <1>8, <1>9, LinesKept DEF Derive, LoggerInv

\* A line is formatted: its number is new.
LEMMA LogInv ==
  ASSUME LoggerInv, NEW g \in Goroutines, Log(g)
  PROVE  LoggerInv'
<1> USE DEF LoggerInv
<1>1. PICK r \in Attrs : Handle(g, r)
  BY DEF Log
<1>2. ctxLogger[g] # NotStarted /\ pending[g] = <<>>
  BY DEF Log, Idle
<1>3. PICK h \in 1..Len(handlers) : h = Current(g)
  BY <1>2, CurrentExists
<1>4. PICK k \in Nat \ {0} : k = Len(Rendered(h, r))
  BY RenderedLength
<1>5. PICK line : line = [i \in 1..k |-> [of |-> <<g, logged[g] + 1>>, text |-> Rendered(h, r)[i]]]
  OBVIOUS
<1>6. /\ pending' = [pending EXCEPT ![g] = <<line>>] /\ logged' = [logged EXCEPT ![g] = @ + 1]
      /\ UNCHANGED <<attrArrays, handlers, ctxLogger, fdmu, output>>
  BY <1>1, <1>3, <1>4, <1>5 DEF Handle, Buffers
<1>7. logged \in [Goroutines -> Nat] /\ DOMAIN pending = Goroutines
  BY DEF LoggerTypeOK, LinesOK
<1>8. /\ logged' \in [Goroutines -> Nat] /\ logged'[g] = logged[g] + 1 /\ DOMAIN pending' = Goroutines
      /\ pending'[g] = <<line>>
      /\ \A f \in Goroutines \ {g} : logged'[f] = logged[f] /\ pending'[f] = pending[f]
  BY <1>6, <1>7
<1>9. LoggerTypeOK'
  BY <1>6, <1>8 DEF LoggerTypeOK
<1>10. Sequence(line) /\ Len(line) = k /\ \A i \in 1..k : line[i].of = <<g, logged[g] + 1>>
  <2>1. line = [i \in 1..k |-> line[i]]
    BY <1>5
  <2> QED
    BY <1>5, <2>1, FunctionSequence
<1>11. Buffered(g)'
  <2>1. pending'[g][1] = line /\ pending'[g] = <<line>>
    BY <1>8
  <2> QED
    BY <1>7, <1>8, <1>10, <2>1 DEF Buffered
<1>12. fdmu # g
  BY <1>2 DEF LinesOK, LineOK, HoldsFile
<1>13. NotBegun(g)'
  <2> SUFFICES ASSUME NEW i \in 1..Len(output) PROVE output[i].of # <<g, logged[g] + 1>>
    BY <1>6, <1>8 DEF NotBegun
  <2>1. PICK f \in Goroutines : \E n \in 1..logged[f] : output[i].of = <<f, n>>
    BY DEF LinesOK
  <2>2. PICK n \in 1..logged[f] : output[i].of = <<f, n>>
    BY <2>1
  <2>3. f = g => n # logged[g] + 1
    BY <1>7, <2>2
  <2> QED
    BY <2>2, <2>3
<1>14. LineOK(g)'
  BY <1>6, <1>11, <1>12, <1>13 DEF LineOK
<1>15. ASSUME NEW f \in Goroutines \ {g} PROVE LineOK(f)'
  BY <1>6, <1>8 DEF LinesOK, LineOK, Buffered, HoldsFile, NotBegun
<1>16. \A i \in 1..Len(output) : \E f \in Goroutines : \E n \in 1..logged'[f] : output[i].of = <<f, n>>
  <2>1. \A f \in Goroutines : 1..logged[f] \subseteq 1..logged'[f]
    BY <1>7, <1>8
  <2> QED
    BY <2>1 DEF LinesOK
<1>17. LinesWhole' /\ Sequence(output') /\ fdmu' \in Goroutines \cup {NoGoroutine}
  <2>1. LinesWhole /\ Sequence(output) /\ fdmu \in Goroutines \cup {NoGoroutine}
    BY DEF LinesOK
  <2>2. output' = output /\ fdmu' = fdmu
    BY <1>6
  <2> QED
    BY <2>1, <2>2 DEF LinesWhole
<1>18. LinesOK'
  BY <1>6, <1>8, <1>14, <1>15, <1>16, <1>17, SMTT(30) DEF LinesOK
<1> QED
  BY <1>9, <1>18

\* A piece follows the pieces of its line, or is the first of it.
LEMMA WriteInv ==
  ASSUME LoggerInv, NEW g \in Goroutines, Write(g)
  PROVE  LoggerInv'
<1> USE DEF LoggerInv
<1>1. PICK buf, rest, x : buf = pending[g][1] /\ rest = Tail(buf) /\ x = buf[1]
  OBVIOUS
<1>2. pending[g] # <<>> /\ fdmu \in {NoGoroutine, g} /\ UNCHANGED <<attrArrays, handlers, ctxLogger, logged>>
  BY DEF Write
<1>3. /\ pending[g] = <<buf>> /\ Sequence(buf) /\ Len(buf) > 0
      /\ \A i \in 1..Len(buf) : buf[i].of = <<g, logged[g]>>
  BY <1>1, <1>2 DEF LinesOK, LineOK, Buffered
<1>4. /\ Sequence(rest) /\ Len(buf) \in Nat /\ Len(rest) = Len(buf) - 1 /\ Head(buf) = x
      /\ \A i \in 1..Len(rest) : rest[i] = buf[i + 1]
      /\ rest # <<>> => Len(rest) > 0
  BY <1>1, <1>3, SequenceTail
<1>5. x.of = <<g, logged[g]>> /\ \A i \in 1..Len(rest) : rest[i].of = <<g, logged[g]>>
  BY <1>1, <1>3, <1>4
<1>6. Head(pending[g]) = buf /\ Tail(pending[g]) = <<>> /\ <<rest>> \o <<>> = <<rest>>
  BY <1>3
<1>7. /\ output' = Append(output, x) /\ fdmu' = (IF rest = <<>> THEN NoGoroutine ELSE g)
      /\ pending' = [pending EXCEPT ![g] = IF rest = <<>> THEN <<>> ELSE <<rest>>]
  BY <1>1, <1>4, <1>6 DEF Write
<1>8. /\ DOMAIN pending' = Goroutines /\ pending'[g] = (IF rest = <<>> THEN <<>> ELSE <<rest>>)
      /\ \A f \in Goroutines \ {g} : pending'[f] = pending[f]
  BY <1>7 DEF LinesOK
<1>9. /\ Sequence(output') /\ Len(output) \in Nat /\ Len(output') = Len(output) + 1
      /\ output'[Len(output) + 1] = x /\ \A i \in 1..Len(output) : output'[i] = output[i]
  BY <1>7, SequenceAppend DEF LinesOK
<1>10. LoggerTypeOK'
  BY <1>2 DEF LoggerTypeOK
<1>11. g # NoGoroutine
  BY LoggerAssumption
<1>12. Buffered(g)'
  <2>1. rest # <<>> => pending'[g][1] = rest
    BY <1>8
  <2> QED
    BY <1>2, <1>4, <1>5, <1>8, <2>1 DEF LinesOK, LineOK, Buffered
<1>13. LineOK(g)'
  <2>1. CASE rest = <<>>
    BY <1>7, <1>8, <1>11, <1>12, <2>1 DEF LineOK
  <2>2. CASE rest # <<>>
    <3>1. fdmu' = g /\ pending'[g] = <<rest>>
      BY <1>7, <1>8, <2>2
    <3>2. HoldsFile(g)'
      BY <1>2, <1>5, <1>9, <3>1 DEF HoldsFile
    <3> QED
      BY <1>12, <3>1, <3>2 DEF LineOK
  <2> QED
    BY <2>1, <2>2
<1>14. ASSUME NEW f \in Goroutines \ {g} PROVE LineOK(f)'
  <2>1. fdmu # f /\ fdmu' # f
    BY <1>2, <1>7, LoggerAssumption
  <2>2. Buffered(f)'
    BY <1>2, <1>8 DEF LinesOK, LineOK, Buffered
  <2>3. ASSUME pending'[f] # <<>> PROVE NotBegun(f)'
    <3>1. NotBegun(f)
      BY <1>8, <2>1, <2>3 DEF LinesOK, LineOK
    <3>2. x.of # <<f, logged[f]>>
      BY <1>5
    <3> SUFFICES ASSUME NEW i \in 1..Len(output') PROVE output'[i].of # <<f, logged[f]>>
      BY <1>2 DEF NotBegun
    <3>3. CASE i = Len(output) + 1
      BY <1>9, <3>2, <3>3
    <3>4. CASE i \in 1..Len(output)
      BY <1>9, <3>1, <3>4 DEF NotBegun
    <3> QED
      BY <1>9, <3>3, <3>4
  <2> QED
    BY <2>1, <2>2, <2>3 DEF LineOK
<1>15. ASSUME NEW i \in 1..Len(output')
       PROVE  \E f \in Goroutines : \E n \in 1..logged[f] : output'[i].of = <<f, n>>
  <2>1. CASE i = Len(output) + 1
    <3>1. logged[g] \in 1..logged[g]
      BY <1>2 DEF LoggerTypeOK, LinesOK, LineOK, Buffered
    <3> QED
      BY <1>5, <1>9, <2>1, <3>1
  <2>2. CASE i \in 1..Len(output)
    BY <1>9, <2>2 DEF LinesOK
  <2> QED
    BY <1>9, <2>1, <2>2
<1>16. LinesWhole'
  <2> SUFFICES ASSUME NEW i \in 1..Len(output'), NEW k \in 1..Len(output'), NEW j \in i..k,
                      i < k, output'[i].of = output'[k].of
               PROVE  output'[j].of = output'[i].of
    BY DEF LinesWhole
  <2>1. CASE k \in 1..Len(output)
    <3>1. i \in 1..Len(output) /\ j \in 1..Len(output)
      BY <2>1
    <3> QED
      BY <1>9, <2>1, <3>1 DEF LinesOK, LinesWhole
  <2>2. CASE k = Len(output) + 1
    <3>1. i \in 1..Len(output) /\ output[i].of = <<g, logged[g]>>
      BY <1>5, <1>9, <2>2
    <3>2. fdmu = g
      BY <1>2, <3>1 DEF LinesOK, LineOK, NotBegun
    <3>3. Len(output) > 0 /\ output[Len(output)].of = <<g, logged[g]>>
      BY <3>2 DEF LinesOK, LineOK, HoldsFile
    <3>4. CASE j = Len(output) + 1
      BY <1>5, <1>9, <3>1, <3>4
    <3>5. CASE j \in i..Len(output)
      <4>1. j \in 1..Len(output) /\ Len(output) \in 1..Len(output)
        BY <1>9, <3>1, <3>3, <3>5
      <4>2. output[j].of = output[i].of
        <5>1. CASE i = Len(output)
          <6>1. j = i
            BY <1>9, <3>1, <3>3, <3>5, <5>1
          <6> QED
            BY <6>1
        <5>2. CASE i < Len(output)
          <6>1. \A p, q \in 1..Len(output) : p < q /\ output[p].of = output[q].of
                   => \A r \in p..q : output[r].of = output[p].of
            BY DEF LinesOK, LinesWhole
          <6>2. output[i].of = output[Len(output)].of
            BY <3>1, <3>3
          <6> QED
            BY <3>1, <3>5, <4>1, <5>2, <6>1, <6>2
        <5> QED
          BY <1>9, <3>1, <5>1, <5>2
      <4> QED
        BY <1>9, <3>1, <4>1, <4>2
    <3> QED
      BY <1>9, <2>2, <3>1, <3>4, <3>5
  <2> QED
    BY <1>9, <2>1, <2>2
<1>17. fdmu' \in Goroutines \cup {NoGoroutine}
  BY <1>7
<1>18. LinesOK'
  BY <1>2, <1>8, <1>9, <1>13, <1>14, <1>15, <1>16, <1>17 DEF LinesOK
<1> QED
  BY <1>10, <1>18

\* Every step keeps the invariant of the file.
LEMMA LoggerStepInv == LoggerInv /\ [LoggerNext]_loggerVars => LoggerInv'
<1> SUFFICES ASSUME LoggerInv, [LoggerNext]_loggerVars PROVE LoggerInv'
  OBVIOUS
<1>1. CASE UNCHANGED loggerVars
  <2>1. LoggerTypeOK'
    BY <1>1 DEF loggerVars, LoggerInv, LoggerTypeOK
  <2> QED
    BY <1>1, <2>1, LinesKept DEF loggerVars, LoggerInv
<1>2. CASE LoggerNext
  BY <1>2, SpawnInv, DeriveInv, LogInv, LockInv, WriteInv DEF LoggerNext
<1> QED
  BY <1>1, <1>2

\* However loggers are derived and whatever goroutines log at once, the pieces
\* of a line stay together in the file: derived handlers have mutexes of their
\* own, and the lock of the file is enough because a line is one Write.
THEOREM LinesAlwaysWhole == LoggerSpec => []LinesWhole
<1>1. LoggerInv => LinesWhole
  BY DEF LoggerInv, LinesOK
<1> QED
  BY <1>1, LoggerInitInv, LoggerStepInv, PTL DEF LoggerSpec

\* A logger keeps its attributes and groups for ever.
HandlersKept == \A h \in 1..Len(handlers) : handlers'[h] = handlers[h] /\ AttrsOf(h)' = AttrsOf(h)

\* What is appended to the arrays changes no handler that exists.
LEMMA AppendKeepsHandlers ==
  ASSUME LoggerTypeOK, NEW x, NEW y,
         attrArrays' = Append(attrArrays, x), handlers' = Append(handlers, y)
  PROVE  HandlersKept
<1>1. Sequence(attrArrays) /\ Sequence(handlers)
  BY DEF LoggerTypeOK, Sequence
<1>2. \A i \in 1..Len(attrArrays) : attrArrays'[i] = attrArrays[i]
  BY <1>1, SequenceAppend
<1>3. \A h \in 1..Len(handlers) : handlers'[h] = handlers[h]
  BY <1>1, SequenceAppend
<1>4. \A h \in 1..Len(handlers) : handlers[h].attrs.arr \in 1..Len(attrArrays)
  <2> SUFFICES ASSUME NEW h \in 1..Len(handlers) PROVE handlers[h].attrs.arr \in 1..Len(attrArrays)
    OBVIOUS
  <2>1. handlers[h] \in Handlers /\ Len(attrArrays) \in Nat
    BY DEF LoggerTypeOK
  <2>2. handlers[h].attrs \in References
    BY <2>1 DEF Handlers
  <2>3. handlers[h].attrs.arr \in Nat \ {0} /\ handlers[h].attrs.arr <= Len(attrArrays)
    BY <2>2 DEF References, LoggerTypeOK
  <2> QED
    BY <2>1, <2>3
<1> QED
  BY <1>2, <1>3, <1>4 DEF HandlersKept, AttrsOf

\* Whatever is derived from a logger, by whom and how often, its own attributes
\* and groups and those of its other descendants stay: WithAttrs and WithGroup
\* copy the array, and so share none that an append could write to.
THEOREM DerivingLeavesLoggers == LoggerSpec => [][HandlersKept]_loggerVars
<1>1. LoggerInv /\ [LoggerNext]_loggerVars => [HandlersKept]_loggerVars
  <2> SUFFICES ASSUME LoggerInv, NEW g \in Goroutines,
                      Spawn(g) \/ Derive(g) \/ Log(g) \/ Lock(g) \/ Write(g) \/ Unlock(g)
               PROVE  HandlersKept
    BY DEF LoggerNext
  <2>1. CASE Derive(g)
    <3>1. \E x, y : attrArrays' = Append(attrArrays, x) /\ handlers' = Append(handlers, y)
      BY <2>1 DEF Derive, WithAttrs, WithGroup
    <3> QED
      BY <3>1, AppendKeepsHandlers DEF LoggerInv
  <2>2. CASE Spawn(g) \/ Log(g) \/ Lock(g) \/ Write(g) \/ Unlock(g)
    <3>1. attrArrays' = attrArrays /\ handlers' = handlers
      BY <2>2 DEF Spawn, Log, Handle, Lock, Write, Unlock
    <3> QED
      BY <3>1 DEF HandlersKept, AttrsOf
  <2> QED
    BY <2>1, <2>2
<1> QED
  BY <1>1, LoggerInitInv, LoggerStepInv, PTL DEF LoggerSpec
-----------------------------------------------------------------------------
(* PrettyHandler: what a line shows *)

\* Two sequences have the positions in I, and the same elements there.
AlikeAt(s, t, I) == I \in SUBSET (1..Len(s)) /\ I \in SUBSET (1..Len(t)) /\ \A i \in I : s[i] = t[i]

\* What is kept depends only on the elements kept.
LEMMA AtSame ==
  ASSUME NEW S, NEW s \in Seq(S), NEW T, NEW t \in Seq(T), NEW I, AlikeAt(s, t, I)
  PROVE  At(s, I) = At(t, I)
<1>0. I \in SUBSET (1..Len(s)) /\ I \in SUBSET (1..Len(t)) /\ \A i \in I : s[i] = t[i]
  BY DEF AlikeAt
<1>1. /\ Cardinality(I) \in 0..Len(s) /\ At(s, I) \in Seq(S) /\ Len(At(s, I)) = Cardinality(I)
      /\ \A n \in 1..Cardinality(I) : \E i \in I : Place(I, i) = n /\ At(s, I)[n] = s[i]
  BY <1>0, AtProperties
<1>2. /\ At(t, I) \in Seq(T) /\ Len(At(t, I)) = Cardinality(I)
      /\ \A i \in I : Place(I, i) \in 1..Cardinality(I) /\ At(t, I)[Place(I, i)] = t[i]
  BY <1>0, AtProperties
<1>3. \A n \in 1..Cardinality(I) : At(s, I)[n] = At(t, I)[n]
  BY <1>0, <1>1, <1>2
<1>4. At(s, I) \in Seq(S \cup T) /\ At(t, I) \in Seq(S \cup T)
  BY <1>1, <1>2
<1> QED
  BY <1>1, <1>2, <1>3, <1>4, SeqEqual

\* One position more, behind the others.
LEMMA AtLonger ==
  ASSUME NEW S, NEW s \in Seq(S), NEW T, NEW t \in Seq(T), NEW I, AlikeAt(s, t, I), Len(t) = Len(s) + 1
  PROVE  At(t, I \cup {Len(t)}) = Append(At(s, I), t[Len(t)])
<1>1. Len(t) \in 1..Len(t) /\ I \in SUBSET (1..(Len(t) - 1))
  BY DEF AlikeAt
<1>2. At(t, I) = At(s, I)
  BY AtSame
<1>3. At(t, I \cup {Len(t)}) = Append(At(t, I), t[Len(t)])
  BY <1>1, AtAppend
<1> QED
  BY <1>2, <1>3

\* One derivation more.
Further(made, d, more) ==
  /\ more \in Seq(Derivations) /\ Len(made) \in Nat /\ Len(more) = Len(made) + 1
  /\ more[Len(more)] = d /\ \A i \in 1..Len(made) : more[i] = made[i]
  /\ "with" \in DOMAIN d => Withs(more) = Withs(made) \cup {Len(more)}
  /\ "with" \notin DOMAIN d => Withs(more) = Withs(made)
  /\ Withs(made) \in SUBSET (1..Len(made))

\* A derivation more is at the end, and adds an attribute or a group.
LEMMA OneFurther ==
  ASSUME NEW made \in Seq(Derivations), NEW d \in Derivations
  PROVE  Further(made, d, Append(made, d))
<1> DEFINE more == Append(made, d)
<1>1. /\ more \in Seq(Derivations) /\ Len(made) \in Nat /\ Len(more) = Len(made) + 1
      /\ more[Len(more)] = d /\ \A i \in 1..Len(made) : more[i] = made[i]
  BY Appended
<1> HIDE DEF more
<1>2. 1..Len(more) = (1..Len(made)) \cup {Len(more)}
  BY <1>1
<1>3. /\ "with" \in DOMAIN d => Withs(more) = Withs(made) \cup {Len(more)}
      /\ "with" \notin DOMAIN d => Withs(more) = Withs(made)
  <2>1. \A i \in 1..Len(made) : i \in Withs(more) <=> i \in Withs(made)
    BY <1>1, <1>2 DEF Withs
  <2>2. Len(more) \in Withs(more) <=> "with" \in DOMAIN d
    BY <1>1, <1>2 DEF Withs
  <2>3. Withs(more) \subseteq (1..Len(made)) \cup {Len(more)} /\ Withs(made) \subseteq 1..Len(made)
    BY <1>2 DEF Withs
  <2> QED
    BY <2>1, <2>2, <2>3
<1> QED
  BY <1>1, <1>3 DEF Further, Withs, more

\* The groups opened before a derivation are of those before it.
LEMMA GroupsEarlier ==
  ASSUME NEW made \in Seq(Derivations), NEW d, NEW more, Further(made, d, more), NEW i \in 1..(Len(made) + 1)
  PROVE  GroupsBefore(more, i) = GroupsBefore(made, i)
<1> DEFINE I == (1..(i - 1)) \ Withs(made)
<1>1. /\ more \in Seq(Derivations) /\ Len(made) \in Nat /\ Len(more) = Len(made) + 1
      /\ \A j \in 1..Len(made) : more[j] = made[j]
      /\ "with" \in DOMAIN d => Withs(more) = Withs(made) \cup {Len(more)}
      /\ "with" \notin DOMAIN d => Withs(more) = Withs(made)
  BY DEF Further
<1>2. I \in SUBSET (1..Len(made)) /\ I \in SUBSET (1..Len(more)) /\ I = (1..(i - 1)) \ Withs(more)
  BY <1>1
<1> HIDE DEF I
<1>3. AlikeAt(more, made, I)
  BY <1>1, <1>2 DEF AlikeAt
<1>4. At(more, I) = At(made, I)
  BY <1>1, <1>3, AtSame
<1> QED
  BY <1>2, <1>4 DEF GroupsBefore, I

\* Mapping goes element by element.
LEMMA MapSliceAppend ==
  ASSUME NEW S, NEW s \in Seq(S), NEW x \in S, NEW f
  PROVE  MapSlice(Append(s, x), f) = Append(MapSlice(s, f), f[x])
<1> DEFINE m == MapSlice(s, f)
           t == Append(s, x)
           T == {f[y] : y \in S}
<1>0. \A y \in S : f[y] \in T
  OBVIOUS
<1> HIDE DEF T
<1>1. Len(s) \in Nat /\ t \in Seq(S) /\ Len(t) = Len(s) + 1 /\ t[Len(s) + 1] = x /\ \A i \in 1..Len(s) : t[i] = s[i]
  BY Appended
<1>2. m \in [1..Len(s) -> T] /\ \A i \in 1..Len(s) : m[i] = f[s[i]]
  BY <1>0 DEF MapSlice
<1>3. m \in Seq(T) /\ Len(m) = Len(s) /\ f[x] \in T
  BY <1>0, <1>1, <1>2, SeqDef
<1> HIDE DEF m, t
<1>4. MapSlice(t, f) \in [1..Len(t) -> T] /\ \A i \in 1..Len(t) : MapSlice(t, f)[i] = f[t[i]]
  BY <1>0, <1>1 DEF MapSlice
<1>5. MapSlice(t, f) \in Seq(T) /\ Len(MapSlice(t, f)) = Len(t)
  BY <1>1, <1>4, SeqDef
<1>6. /\ Append(m, f[x]) \in Seq(T) /\ Len(Append(m, f[x])) = Len(s) + 1 /\ Append(m, f[x])[Len(s) + 1] = f[x]
      /\ \A i \in 1..Len(s) : Append(m, f[x])[i] = m[i]
  BY <1>3, Appended
<1>7. \A i \in 1..Len(t) : MapSlice(t, f)[i] = Append(m, f[x])[i]
  <2> SUFFICES ASSUME NEW i \in 1..Len(t) PROVE MapSlice(t, f)[i] = Append(m, f[x])[i]
    OBVIOUS
  <2>1. i \in 1..Len(s) \/ i = Len(s) + 1
    BY <1>1
  <2> QED
    BY <1>1, <1>2, <1>4, <1>6, <2>1
<1>8. MapSlice(t, f) = Append(m, f[x])
  BY <1>1, <1>5, <1>6, <1>7, SeqEqual
<1> QED
  BY <1>8 DEF m, t

\* The attributes a derivation adds.
Given(made) == LET ds == At(made, Withs(made)) IN [n \in 1..Len(ds) |-> ds[n].with]
AllGroups(made) == GroupsBefore(made, Len(made) + 1)

\* The pieces due at the places of made.
Due(made) ==
  [i \in 1..Len(made) |-> IF i \in Withs(made) THEN writeAttr(GroupsBefore(made, i), made[i].with) ELSE <<>>]

WithOf == [d \in Derivations |-> d.with]
GroupOf == [d \in Derivations |-> d.group]

\* The attributes and the groups of derivations, as mappings.
LEMMA Mappings ==
  ASSUME NEW ds \in Seq(Derivations)
  PROVE  /\ [n \in 1..Len(ds) |-> ds[n].with] = MapSlice(ds, WithOf)
         /\ [n \in 1..Len(ds) |-> ds[n].group] = MapSlice(ds, GroupOf)
<1>1. \A n \in 1..Len(ds) : ds[n] \in Derivations
  OBVIOUS
<1>2. \A d \in Derivations : WithOf[d] = d.with /\ GroupOf[d] = d.group
  BY DEF WithOf, GroupOf
<1>3. \A n \in 1..Len(ds) : WithOf[ds[n]] = ds[n].with /\ GroupOf[ds[n]] = ds[n].group
  BY <1>1, <1>2
<1> QED
  BY <1>3 DEF MapSlice

\* The groups opened before a place, from the places of the groups.
LEMMA GroupsAt ==
  ASSUME NEW made \in Seq(Derivations), NEW i, NEW I, (1..(i - 1)) \ Withs(made) = I, I \in SUBSET (1..Len(made))
  PROVE  GroupsBefore(made, i) = MapSlice(At(made, I), GroupOf)
<1>1. At(made, I) \in Seq(Derivations)
  BY AtProperties
<1>2. GroupsBefore(made, i) = [n \in 1..Len(At(made, I)) |-> At(made, I)[n].group]
  BY DEF GroupsBefore
<1> QED
  BY <1>1, <1>2, Mappings

\* A derivation gives an attribute or opens a group.
LEMMA WithsKinds ==
  ASSUME NEW made \in Seq(Derivations)
  PROVE  /\ Withs(made) \in SUBSET (1..Len(made)) /\ Len(made) \in Nat
         /\ \A i \in Withs(made) : made[i].with \in Attrs
         /\ \A i \in (1..Len(made)) \ Withs(made) : made[i].group \in GroupNames
<1>1. \A i \in 1..Len(made) : made[i] \in Derivations
  OBVIOUS
<1>2. \A d \in Derivations : IF "with" \in DOMAIN d THEN d.with \in Attrs ELSE d.group \in GroupNames
  <2> SUFFICES ASSUME NEW d \in Derivations
               PROVE  IF "with" \in DOMAIN d THEN d.with \in Attrs ELSE d.group \in GroupNames
    OBVIOUS
  <2>1. CASE d \in [with : Attrs]
    BY <2>1
  <2>2. CASE d \in [group : GroupNames]
    <3>1. DOMAIN d = {"group"} /\ d.group \in GroupNames
      BY <2>2
    <3> QED
      BY <3>1
  <2> QED
    BY <2>1, <2>2 DEF Derivations
<1>3. Withs(made) \in SUBSET (1..Len(made)) /\ \A i \in 1..Len(made) : i \in Withs(made) <=> "with" \in DOMAIN made[i]
  BY DEF Withs
<1> QED
  BY <1>1, <1>2, <1>3

\* The groups opened are names of groups.
LEMMA GroupsTyped ==
  ASSUME NEW made \in Seq(Derivations), NEW i \in 1..(Len(made) + 1)
  PROVE  GroupsBefore(made, i) \in Seq(GroupNames)
<1> DEFINE I == (1..(i - 1)) \ Withs(made)
           ds == At(made, I)
<1>1. I \in SUBSET (1..Len(made)) /\ I \subseteq (1..Len(made)) \ Withs(made)
  BY WithsKinds
<1> HIDE DEF I
<1>2. /\ ds \in Seq(Derivations) /\ Len(ds) = Cardinality(I)
      /\ \A n \in 1..Cardinality(I) : \E j \in I : ds[n] = made[j]
  BY <1>1, AtProperties
<1>3. \A j \in I : made[j].group \in GroupNames
  BY <1>1, WithsKinds
<1>4. GroupsBefore(made, i) = [n \in 1..Len(ds) |-> ds[n].group]
  BY DEF GroupsBefore, I
<1> HIDE DEF ds
<1>5. \A n \in 1..Len(ds) : ds[n].group \in GroupNames
  BY <1>2, <1>3
<1>6. GroupsBefore(made, i) \in [1..Len(ds) -> GroupNames] /\ Len(ds) \in Nat
  BY <1>2, <1>4, <1>5
<1> QED
  BY <1>6, SeqDef

\* The attributes given, each at the place of its derivation.
LEMMA GivenTyped ==
  ASSUME NEW made \in Seq(Derivations)
  PROVE  /\ Cardinality(Withs(made)) \in Nat /\ Given(made) \in Seq(Attrs)
         /\ Len(Given(made)) = Cardinality(Withs(made))
         /\ \A i \in Withs(made) : Given(made)[Place(Withs(made), i)] = made[i].with
<1> DEFINE ds == At(made, Withs(made))
<1>1. Withs(made) \in SUBSET (1..Len(made)) /\ \A i \in Withs(made) : made[i].with \in Attrs
  BY WithsKinds
<1>2. /\ ds \in Seq(Derivations) /\ Len(ds) = Cardinality(Withs(made))
      /\ \A n \in 1..Cardinality(Withs(made)) : \E j \in Withs(made) : ds[n] = made[j]
      /\ \A i \in Withs(made) : /\ Place(Withs(made), i) \in 1..Cardinality(Withs(made))
                                /\ ds[Place(Withs(made), i)] = made[i]
  BY <1>1, AtProperties
<1>3. Given(made) = [n \in 1..Len(ds) |-> ds[n].with]
  BY DEF Given
<1> HIDE DEF ds
<1>4. \A n \in 1..Len(ds) : ds[n].with \in Attrs
  BY <1>1, <1>2
<1>5. Given(made) \in [1..Len(ds) -> Attrs] /\ Len(ds) \in Nat
  BY <1>2, <1>3, <1>4
<1>6. Given(made) \in Seq(Attrs) /\ Len(Given(made)) = Len(ds)
  BY <1>5, SeqDef
<1>7. \A i \in Withs(made) : Given(made)[Place(Withs(made), i)] = made[i].with
  BY <1>2, <1>3
<1> QED
  BY <1>2, <1>5, <1>6, <1>7

\* The pieces due are pieces, and the ones shown are those of the attributes.
LEMMA DueTyped ==
  ASSUME NEW made \in Seq(Derivations)
  PROVE  /\ Due(made) \in Seq(Pieces \cup {<<>>}) /\ Len(Due(made)) = Len(made)
         /\ Shown(made) = At(Due(made), Withs(made))
<1>1. Len(made) \in Nat /\ \A i \in 1..Len(made) : i \in 1..(Len(made) + 1)
  OBVIOUS
<1>2. ASSUME NEW i \in Withs(made) PROVE writeAttr(GroupsBefore(made, i), made[i].with) \in Pieces
  <2>1. made[i].with \in Attrs /\ i \in 1..(Len(made) + 1)
    BY <1>1, WithsKinds
  <2>2. GroupsBefore(made, i) \in Seq(GroupNames)
    BY <2>1, GroupsTyped
  <2> QED
    BY <2>1, <2>2 DEF Pieces
<1>3. Due(made) \in [1..Len(made) -> Pieces \cup {<<>>}]
  BY <1>2 DEF Due
<1>4. Due(made) \in Seq(Pieces \cup {<<>>}) /\ Len(Due(made)) = Len(made)
  BY <1>1, <1>3, SeqDef
<1> QED
  BY <1>4 DEF Shown, Due

\* Adding an attribute adds its piece, under the groups opened so far.
LEMMA WithAdded ==
  ASSUME NEW made \in Seq(Derivations), NEW a \in Attrs, NEW more, Further(made, [with |-> a], more)
  PROVE  /\ Given(more) = Append(Given(made), a)
         /\ AllGroups(more) = AllGroups(made)
         /\ Shown(more) = Append(Shown(made), writeAttr(AllGroups(made), a))
<1> DEFINE W == Withs(made)
           N == Len(made)
<1>1. /\ more \in Seq(Derivations) /\ N \in Nat /\ Len(more) = N + 1
      /\ more[N + 1] = [with |-> a] /\ \A i \in 1..N : more[i] = made[i]
      /\ Withs(more) = W \cup {Len(more)} /\ W \in SUBSET (1..N)
  BY DEF Further
<1>2. more[N + 1].with = a /\ [with |-> a] \in Derivations
  BY <1>1 DEF Derivations
<1> HIDE DEF W
<1>3. AlikeAt(made, more, W)
  BY <1>1 DEF AlikeAt
<1>4. At(more, Withs(more)) = Append(At(made, W), [with |-> a])
  BY <1>1, <1>3, AtLonger
<1>5. Given(more) = Append(Given(made), a)
  <2>1. At(made, W) \in Seq(Derivations)
    BY <1>1, AtProperties
  <2>2. Append(At(made, W), [with |-> a]) \in Seq(Derivations)
    BY <1>2, <2>1
  <2>4. MapSlice(Append(At(made, W), [with |-> a]), WithOf) = Append(MapSlice(At(made, W), WithOf), WithOf[[with |-> a]])
    <3> DEFINE d == [with |-> a]
               s == At(made, W)
    <3>1. d \in Derivations /\ s \in Seq(Derivations)
      BY <1>2, <2>1
    <3> HIDE DEF d, s
    <3>2. MapSlice(Append(s, d), WithOf) = Append(MapSlice(s, WithOf), WithOf[d])
      BY <3>1, MapSliceAppend
    <3> QED
      BY <3>2 DEF d, s
  <2>5. WithOf[[with |-> a]] = a
    BY <1>2 DEF WithOf
  <2>6. Given(made) = MapSlice(At(made, W), WithOf)
    BY <2>1, Mappings DEF Given, W
  <2>7. Given(more) = MapSlice(Append(At(made, W), [with |-> a]), WithOf)
    BY <1>4, <2>2, Mappings DEF Given
  <2> QED
    BY <2>4, <2>5, <2>6, <2>7
<1>6. AllGroups(more) = AllGroups(made)
  <2> DEFINE I == (1..N) \ W
  <2>1. I \in SUBSET (1..N) /\ I \in SUBSET (1..Len(more)) /\ I = (1..(N + 1)) \ Withs(more)
    BY <1>1
  <2>2. (1..(N + 1 - 1)) \ W = I /\ (1..(Len(more) + 1 - 1)) \ Withs(more) = I
    <3>1. (1..(N + 1 - 1)) = 1..N /\ (1..(Len(more) + 1 - 1)) = 1..(N + 1)
      BY <1>1
    <3> QED
      BY <2>1, <3>1
  <2> HIDE DEF I
  <2>3. AlikeAt(made, more, I)
    BY <1>1, <2>1 DEF AlikeAt
  <2>4. At(made, I) = At(more, I)
    BY <1>1, <2>3, AtSame
  <2>5. GroupsBefore(made, N + 1) = MapSlice(At(made, I), GroupOf)
    BY <2>1, <2>2, GroupsAt DEF W
  <2>6. GroupsBefore(more, Len(more) + 1) = MapSlice(At(more, I), GroupOf)
    BY <1>1, <2>1, <2>2, GroupsAt
  <2> QED
    BY <2>4, <2>5, <2>6 DEF AllGroups
<1>7. Shown(more) = Append(Shown(made), writeAttr(AllGroups(made), a))
  <2>1. /\ Due(made) \in Seq(Pieces \cup {<<>>}) /\ Len(Due(made)) = N /\ Shown(made) = At(Due(made), W)
        /\ Due(more) \in Seq(Pieces \cup {<<>>}) /\ Len(Due(more)) = N + 1 /\ Shown(more) = At(Due(more), Withs(more))
    BY <1>1, DueTyped DEF W
  <2>2. ASSUME NEW i \in W PROVE Due(made)[i] = Due(more)[i]
    <3>1. i \in 1..N /\ i \in 1..(N + 1) /\ i \in Withs(more) /\ i \in 1..Len(more) /\ more[i] = made[i]
      BY <1>1
    <3>2. GroupsBefore(more, i) = GroupsBefore(made, i)
      BY <3>1, GroupsEarlier
    <3> QED
      BY <3>1, <3>2 DEF Due, W
  <2>3. AlikeAt(Due(made), Due(more), W)
    BY <1>1, <2>1, <2>2 DEF AlikeAt
  <2>4. Due(more)[N + 1] = writeAttr(AllGroups(made), a)
    <3>1. N + 1 \in Withs(more) /\ N + 1 \in 1..Len(more) /\ N + 1 \in 1..(N + 1)
      BY <1>1
    <3>2. GroupsBefore(more, N + 1) = GroupsBefore(made, N + 1)
      BY <3>1, GroupsEarlier
    <3> QED
      BY <1>2, <3>1, <3>2 DEF Due, AllGroups
  <2>5. At(Due(more), W \cup {N + 1}) = Append(At(Due(made), W), Due(more)[N + 1])
    <3> DEFINE S == Pieces \cup {<<>>}
               s == Due(made)
               t == Due(more)
    <3>1. s \in Seq(S) /\ t \in Seq(S) /\ Len(t) = Len(s) + 1 /\ Len(t) = N + 1 /\ AlikeAt(s, t, W)
      BY <2>1, <2>3
    <3> HIDE DEF S, s, t
    <3>2. At(t, W \cup {Len(t)}) = Append(At(s, W), t[Len(t)])
      BY <3>1, AtLonger
    <3> QED
      BY <3>1, <3>2 DEF s, t
  <2> QED
    BY <1>1, <2>1, <2>4, <2>5
<1> QED
  BY <1>5, <1>6, <1>7

\* Opening a group shows nothing by itself.
LEMMA GroupAdded ==
  ASSUME NEW made \in Seq(Derivations), NEW name \in GroupNames, NEW more, Further(made, [group |-> name], more)
  PROVE  /\ Given(more) = Given(made)
         /\ AllGroups(more) = Append(AllGroups(made), name)
         /\ Shown(more) = Shown(made)
<1> DEFINE W == Withs(made)
           N == Len(made)
           d == [group |-> name]
<1>1. DOMAIN d = {"group"} /\ d.group = name /\ d \in Derivations
  BY DEF Derivations
<1>2. /\ more \in Seq(Derivations) /\ N \in Nat /\ Len(more) = N + 1
      /\ more[N + 1] = d /\ \A i \in 1..N : more[i] = made[i]
      /\ Withs(more) = W /\ W \in SUBSET (1..N)
  BY <1>1 DEF Further
<1> HIDE DEF W, d
<1>3. W \in SUBSET (1..Len(more))
  BY <1>2
<1>4. AlikeAt(made, more, W)
  BY <1>2, <1>3 DEF AlikeAt
<1>5. Given(more) = Given(made)
  <2>1. At(made, W) = At(more, W)
    BY <1>2, <1>4, AtSame
  <2> QED
    BY <1>2, <2>1 DEF Given, W
<1>6. AllGroups(more) = Append(AllGroups(made), name)
  <2> DEFINE I == (1..N) \ W
             J == I \cup {Len(more)}
  <2>1. I \in SUBSET (1..N) /\ I \in SUBSET (1..Len(more)) /\ J \in SUBSET (1..Len(more))
    BY <1>2
  <2>2. (1..(N + 1 - 1)) \ W = I /\ (1..(Len(more) + 1 - 1)) \ Withs(more) = J
    <3>1. (1..(N + 1 - 1)) = 1..N /\ (1..(Len(more) + 1 - 1)) = (1..N) \cup {Len(more)} /\ Len(more) \notin W
      BY <1>2
    <3> QED
      BY <1>2, <3>1
  <2> HIDE DEF I
  <2>3. AlikeAt(made, more, I)
    BY <1>2, <2>1 DEF AlikeAt
  <2>4. At(more, J) = Append(At(made, I), d)
    BY <1>2, <2>3, AtLonger
  <2> HIDE DEF J
  <2>5. AllGroups(made) = MapSlice(At(made, I), GroupOf)
    BY <2>1, <2>2, GroupsAt DEF W, AllGroups
  <2>6. AllGroups(more) = MapSlice(At(more, J), GroupOf)
    BY <1>2, <2>1, <2>2, GroupsAt DEF AllGroups
  <2>7. At(made, I) \in Seq(Derivations)
    BY <2>1, AtProperties
  <2>8. MapSlice(Append(At(made, I), d), GroupOf) = Append(MapSlice(At(made, I), GroupOf), GroupOf[d])
    BY <1>1, <2>7, MapSliceAppend
  <2>9. GroupOf[d] = name
    BY <1>1 DEF GroupOf
  <2> QED
    BY <2>4, <2>5, <2>6, <2>8, <2>9
<1>7. Shown(more) = Shown(made)
  <2>1. /\ Due(made) \in Seq(Pieces \cup {<<>>}) /\ Len(Due(made)) = N /\ Shown(made) = At(Due(made), W)
        /\ Due(more) \in Seq(Pieces \cup {<<>>}) /\ Len(Due(more)) = N + 1 /\ Shown(more) = At(Due(more), W)
    BY <1>2, DueTyped DEF W
  <2>2. ASSUME NEW i \in W PROVE Due(made)[i] = Due(more)[i]
    <3>1. i \in 1..N /\ i \in 1..(N + 1) /\ i \in Withs(more) /\ i \in 1..Len(more) /\ more[i] = made[i]
      BY <1>2
    <3>2. GroupsBefore(more, i) = GroupsBefore(made, i)
      BY <3>1, GroupsEarlier DEF d
    <3> QED
      BY <3>1, <3>2 DEF Due, W
  <2>3. AlikeAt(Due(made), Due(more), W)
    BY <1>2, <1>3, <2>1, <2>2 DEF AlikeAt
  <2> QED
    BY <2>1, <2>3, AtSame
<1> QED
  BY <1>5, <1>6, <1>7

\* A handler nobody has derived has given nothing and opened nothing.
LEMMA NothingMade == Given(<<>>) = <<>> /\ AllGroups(<<>>) = <<>> /\ Shown(<<>>) = <<>>
<1>1. Withs(<<>>) = {} /\ (1..(Len(<<>>) + 1 - 1)) \ Withs(<<>>) = {} /\ Len(<<>>) = 0
  BY DEF Withs
<1>2. \A s : At(s, {}) = <<>>
  BY AtEmpty
<1>3. Given(<<>>) = [n \in 1..0 |-> <<>>[n].with]
  BY <1>1, <1>2 DEF Given
<1>4. AllGroups(<<>>) = [n \in 1..0 |-> <<>>[n].group]
  BY <1>1, <1>2 DEF AllGroups, GroupsBefore
<1>5. Shown(<<>>) = <<>>
  BY <1>1, <1>2 DEF Shown
<1> QED
  BY <1>3, <1>4, <1>5

\* The last element is the one appended.
LEMMA LastAppended ==
  ASSUME NEW S, NEW s \in Seq(S), NEW x PROVE Append(s, x)[Len(Append(s, x))] = x
<1>1. s \in Seq(S \cup {x}) /\ x \in S \cup {x}
  OBVIOUS
<1> QED
  BY <1>1, Appended

\* The groups only qualify the keys.
LEMMA KeysWhateverGroups ==
  ASSUME NEW gs \in Seq(GroupNames), NEW hs \in Seq(GroupNames), NEW a \in Attrs
  PROVE  SameKeys(writeAttr(gs, a), writeAttr(hs, a))
<1>1. CASE a.kind = "empty"
  <2>1. writeAttr(gs, a) = <<>> /\ writeAttr(hs, a) = <<>>
    BY <1>1 DEF writeAttr
  <2> QED
    BY <2>1 DEF SameKeys
<1>2. CASE a.kind = "group"
  <2> DEFINE P(fs) == IF a.key = "" THEN fs ELSE Append(fs, a.key)
  <2>1. Len(a.members) \in Nat
    BY <1>2, LoggerAssumption
  <2>2. ASSUME NEW fs \in Seq(GroupNames)
        PROVE  /\ Len(writeAttr(fs, a)) = Len(a.members)
               /\ \A k \in 1..Len(a.members) : writeAttr(fs, a)[k][Len(writeAttr(fs, a)[k])] = a.members[k]
    <3>1. writeAttr(fs, a) = [i \in 1..Len(a.members) |-> Append(P(fs), a.members[i])]
      BY <1>2 DEF writeAttr
    <3>2. P(fs) \in Seq(GroupNames \cup {a.key})
      <4> DEFINE G == GroupNames \cup {a.key}
      <4>1. fs \in Seq(G) /\ a.key \in G
        OBVIOUS
      <4> HIDE DEF G
      <4>2. Append(fs, a.key) \in Seq(G)
        BY <4>1, Appended
      <4>3. P(fs) \in Seq(G)
        BY <4>1, <4>2
      <4> QED
        BY <4>3 DEF G
    <3> HIDE DEF P
    <3>3. \A k \in 1..Len(a.members) : Append(P(fs), a.members[k])[Len(Append(P(fs), a.members[k]))] = a.members[k]
      BY <3>2, LastAppended
    <3>4. Len(writeAttr(fs, a)) = Len(a.members)
      <4>1. writeAttr(fs, a) = [i \in 1..Len(a.members) |-> writeAttr(fs, a)[i]]
        BY <3>1
      <4> QED
        BY <2>1, <4>1, FunctionSequence
    <3> QED
      BY <3>1, <3>3, <3>4
  <2> QED
    BY <2>2 DEF SameKeys
<1>3. CASE a.kind # "empty" /\ a.kind # "group"
  <2>1. writeAttr(gs, a) = <<Append(gs, a.key)>> /\ writeAttr(hs, a) = <<Append(hs, a.key)>>
    BY <1>3 DEF writeAttr
  <2>2. /\ Append(gs, a.key)[Len(Append(gs, a.key))] = a.key
        /\ Append(hs, a.key)[Len(Append(hs, a.key))] = a.key
    BY LastAppended
  <2>3. \A p, q : Len(<<p>>) = Len(<<q>>) /\ Len(<<p>>) = 1 /\ <<p>>[1] = p
    OBVIOUS
  <2>4. \A k \in 1..1 : k = 1
    OBVIOUS
  <2> QED
    BY <2>1, <2>2, <2>3, <2>4 DEF SameKeys
<1> QED
  BY <1>1, <1>2, <1>3

\* A handler is what its derivation makes it, in all three of its parts.
HandlerMade(h) ==
  /\ AttrsOf(h) = Given(handlers[h].made)
  /\ handlers[h].groups = AllGroups(handlers[h].made)
  /\ handlers[h].pre = Shown(handlers[h].made)

MadeOK == \A h \in 1..Len(handlers) : HandlerMade(h)

\* The first handler is one nobody has derived.
LEMMA MadeInit == LoggerInit => MadeOK
<1> SUFFICES ASSUME LoggerInit PROVE MadeOK
  OBVIOUS
<1>1. PICK env \in Environments : handlers = <<NewHandler(env)>>
  BY DEF LoggerInit
<1>2. PICK p : p = NewHandler(env)
  OBVIOUS
<1>3. /\ p.made = <<>> /\ p.groups = <<>> /\ p.pre = <<>> /\ p.attrs = [arr |-> 1, len |-> 0]
  BY <1>2 DEF NewHandler
<1>4. Len(handlers) = 1 /\ handlers[1] = p
  BY <1>1, <1>2
<1>5. attrArrays[1] = <<>>
  BY DEF LoggerInit
<1>6. AttrsOf(1) = <<>>
  <2>1. AttrsOf(1) = SubSeq(<<>>, 1, 0)
    BY <1>3, <1>4, <1>5 DEF AttrsOf
  <2>2. <<>> \in Seq(Attrs) /\ Len(<<>>) = 0
    OBVIOUS
  <2> QED
    BY <2>1, <2>2, SubSeqFull
<1> QED
  BY <1>3, <1>4, <1>6, NothingMade DEF MadeOK, HandlerMade

\* A handler made with an array of its own, as its derivation says.
LEMMA MadeDerived ==
  ASSUME LoggerTypeOK, MadeOK, NEW p \in Handlers, NEW as \in Seq(Attrs),
         p.attrs.arr = Len(attrArrays) + 1, p.attrs.len = Len(as),
         attrArrays' = Append(attrArrays, as), handlers' = Append(handlers, p),
         as = Given(p.made), p.groups = AllGroups(p.made), p.pre = Shown(p.made)
  PROVE  MadeOK'
<1> DEFINE A == Seq(Attrs)
<1>1. attrArrays \in Seq(A) /\ as \in A /\ handlers \in Seq(Handlers)
  BY DEF LoggerTypeOK
<1> HIDE DEF A
<1>2. attrArrays'[Len(attrArrays) + 1] = as
  <2>1. \A s \in Seq(A), x \in A : Append(s, x)[Len(s) + 1] = x
    BY Appended
  <2> QED
    BY <1>1, <2>1, Zenon
<1>3. /\ Len(handlers') = Len(handlers) + 1 /\ handlers'[Len(handlers) + 1] = p /\ Len(handlers) \in Nat
  BY <1>1, Appended
<1>4. HandlersKept
  BY AppendKeepsHandlers
<1> SUFFICES ASSUME NEW h \in 1..Len(handlers') PROVE HandlerMade(h)'
  BY DEF MadeOK
<1>5. CASE h \in 1..Len(handlers)
  <2>1. handlers'[h] = handlers[h] /\ AttrsOf(h)' = AttrsOf(h)
    BY <1>4, <1>5 DEF HandlersKept
  <2> QED
    BY <1>5, <2>1 DEF MadeOK, HandlerMade
<1>6. CASE h = Len(handlers) + 1
  <2>1. handlers'[h] = p
    BY <1>3, <1>6
  <2>2. AttrsOf(h)' = as
    <3>1. AttrsOf(h)' = SubSeq(as, 1, Len(as))
      BY <1>2, <2>1 DEF AttrsOf
    <3> QED
      BY <3>1, SubSeqFull
  <2> QED
    BY <2>1, <2>2 DEF HandlerMade
<1> QED
  BY <1>3, <1>5, <1>6

\* Every step keeps the handlers what their derivations make them.
LEMMA MadeStep ==
  ASSUME LoggerInv, MadeOK, [LoggerNext]_loggerVars
  PROVE  MadeOK' /\ HandlersKept /\ Len(handlers) \in Nat /\ Len(handlers') \in Nat /\ Len(handlers') >= Len(handlers)
<1>0. handlers \in Seq(Handlers) /\ Len(handlers) \in Nat /\ Len(attrArrays) \in Nat
  BY DEF LoggerInv, LoggerTypeOK
<1>1. CASE attrArrays' = attrArrays /\ handlers' = handlers
  BY <1>0, <1>1 DEF MadeOK, HandlerMade, AttrsOf, HandlersKept
<1>2. ASSUME NEW g \in Goroutines, Derive(g)
      PROVE  MadeOK' /\ HandlersKept /\ Len(handlers') \in Nat /\ Len(handlers') >= Len(handlers)
  <2>1. ctxLogger[g] # NotStarted
    BY <1>2 DEF Derive, Idle
  <2>2. PICK h \in 1..Len(handlers) : h = Current(g)
    BY <2>1, CurrentExists DEF LoggerInv
  <2>3. PICK p : p = handlers[h]
    OBVIOUS
  <2>4. p \in Handlers /\ AttrsOf(h) \in Seq(Attrs) /\ Len(AttrsOf(h)) = p.attrs.len
    BY <2>3, HandlerFacts DEF LoggerInv
  <2>5. p.attrs \in References /\ p.made \in Seq(Derivations) /\ p.groups \in Seq(GroupNames) /\ p.mutex \in Nat
        /\ p.attrs.len \in Nat /\ p.pre \in Seq(Pieces)
    BY <2>4 DEF Handlers, References
  <2>6. AttrsOf(h) = Given(p.made) /\ p.groups = AllGroups(p.made) /\ p.pre = Shown(p.made)
    BY <2>3 DEF MadeOK, HandlerMade
  <2>7. PICK u \in Nat : u = IF p.json THEN p.mutex ELSE Len(handlers) + 1
    BY <1>0, <2>5
  <2>8. ASSUME NEW a \in Attrs, WithAttrs(g, a) PROVE MadeOK'
    <3> DEFINE q == [p EXCEPT !.attrs = [arr |-> Len(attrArrays) + 1, len |-> p.attrs.len + 1],
                              !.mutex = u, !.pre = Append(@, writeAttr(p.groups, a)),
                              !.made = Append(@, [with |-> a])]
               more == Append(p.made, [with |-> a])
               as == Append(AttrsOf(h), a)
    <3>1. attrArrays' = Append(attrArrays, as) /\ handlers' = Append(handlers, q)
      BY <2>2, <2>3, <2>7, <2>8 DEF WithAttrs
    <3>2. as \in Seq(Attrs) /\ Len(as) = p.attrs.len + 1
      BY <2>4
    <3>3. [with |-> a] \in Derivations /\ writeAttr(p.groups, a) \in Pieces
      BY <2>5 DEF Derivations, Pieces
    <3>4. more \in Seq(Derivations) /\ Append(p.pre, writeAttr(p.groups, a)) \in Seq(Pieces)
      BY <2>5, <3>3
    <3>5. [arr |-> Len(attrArrays) + 1, len |-> p.attrs.len + 1] \in References
      BY <1>0, <2>5 DEF References
    <3>6. /\ q \in Handlers /\ q.attrs = [arr |-> Len(attrArrays) + 1, len |-> p.attrs.len + 1]
          /\ q.made = more /\ q.groups = p.groups /\ q.pre = Append(p.pre, writeAttr(p.groups, a))
      BY <2>4, <3>4, <3>5 DEF Handlers
    <3>7. q.attrs.arr = Len(attrArrays) + 1 /\ q.attrs.len = p.attrs.len + 1
      BY <3>6
    <3>8. Further(p.made, [with |-> a], more)
      BY <2>5, <3>3, OneFurther
    <3> HIDE DEF q, more
    <3>9. /\ Given(more) = Append(Given(p.made), a) /\ AllGroups(more) = AllGroups(p.made)
          /\ Shown(more) = Append(Shown(p.made), writeAttr(AllGroups(p.made), a))
      BY <2>5, <3>8, WithAdded
    <3>10. as = Given(q.made) /\ q.groups = AllGroups(q.made) /\ q.pre = Shown(q.made)
      BY <2>6, <3>6, <3>9
    <3> HIDE DEF as
    <3> QED
      BY <3>1, <3>2, <3>6, <3>7, <3>10, MadeDerived DEF LoggerInv
  <2>9. ASSUME NEW name \in GroupNames, WithGroup(g, name) PROVE MadeOK'
    <3> DEFINE q == [p EXCEPT !.attrs.arr = Len(attrArrays) + 1, !.groups = Append(@, name),
                              !.mutex = u, !.made = Append(@, [group |-> name])]
               more == Append(p.made, [group |-> name])
    <3>1. attrArrays' = Append(attrArrays, AttrsOf(h)) /\ handlers' = Append(handlers, q)
      BY <2>2, <2>3, <2>7, <2>9 DEF WithGroup
    <3>2. [group |-> name] \in Derivations
      BY DEF Derivations
    <3>3. more \in Seq(Derivations) /\ Append(p.groups, name) \in Seq(GroupNames)
      BY <2>5, <3>2
    <3>4. PICK at \in References : at = [p.attrs EXCEPT !.arr = Len(attrArrays) + 1]
      <4>1. \A r \in References : \A n \in Nat \ {0} : [r EXCEPT !.arr = n] \in References
        BY DEF References
      <4>2. Len(attrArrays) + 1 \in Nat \ {0}
        BY <1>0
      <4> QED
        BY <2>5, <4>1, <4>2
    <3>5. at.arr = Len(attrArrays) + 1 /\ at.len = p.attrs.len
      BY <2>5, <3>4 DEF References
    <3>6. q \in Handlers /\ q.attrs = at /\ q.made = more /\ q.groups = Append(p.groups, name) /\ q.pre = p.pre
      BY <2>4, <3>3, <3>4 DEF Handlers
    <3>7. Further(p.made, [group |-> name], more)
      BY <2>5, <3>2, OneFurther
    <3> HIDE DEF q, more
    <3>8. /\ Given(more) = Given(p.made) /\ AllGroups(more) = Append(AllGroups(p.made), name)
          /\ Shown(more) = Shown(p.made)
      BY <2>5, <3>7, GroupAdded
    <3>9. AttrsOf(h) = Given(q.made) /\ q.groups = AllGroups(q.made) /\ q.pre = Shown(q.made)
      BY <2>6, <3>6, <3>8
    <3> QED
      BY <2>4, <3>1, <3>5, <3>6, <3>9, MadeDerived DEF LoggerInv
  <2>10. \E x, y : attrArrays' = Append(attrArrays, x) /\ handlers' = Append(handlers, y)
    BY <1>2 DEF Derive, WithAttrs, WithGroup
  <2>11. HandlersKept
    BY <2>10, AppendKeepsHandlers DEF LoggerInv
  <2>12. Sequence(handlers)
    BY <1>0 DEF Sequence
  <2>13. Len(handlers') = Len(handlers) + 1
    BY <2>10, <2>12, SequenceAppend
  <2> QED
    BY <1>0, <1>2, <2>8, <2>9, <2>11, <2>13 DEF Derive
<1>3. (\E g \in Goroutines : Derive(g)) \/ (attrArrays' = attrArrays /\ handlers' = handlers)
  BY DEF LoggerNext, Spawn, Log, Handle, Lock, Write, Unlock, loggerVars
<1> QED
  BY <1>0, <1>1, <1>2, <1>3

\* AsDue for a handler that is known to be JSON or not.
Agrees(json, made, p, q) == IF json \/ GroupsFirst(made) THEN p = q ELSE SameKeys(p, q)

\* A piece agrees with itself.
LEMMA AgreesWithItself == ASSUME NEW json, NEW made, NEW p PROVE Agrees(json, made, p, p)
  BY DEF Agrees, SameKeys

\* When the groups come first, they qualify every attribute.
LEMMA GroupsComeFirst ==
  ASSUME NEW made \in Seq(Derivations), GroupsFirst(made), NEW i \in Withs(made)
  PROVE  GroupsBefore(made, i) = AllGroups(made)
<1>1. Len(made) \in Nat /\ i \in 1..Len(made) /\ \A j \in i..Len(made) : j \in Withs(made)
  BY WithsKinds DEF GroupsFirst
<1> DEFINE I == (1..Len(made)) \ Withs(made)
<1>2. (1..(i - 1)) \ Withs(made) = I /\ (1..(Len(made) + 1 - 1)) \ Withs(made) = I /\ I \in SUBSET (1..Len(made))
  BY <1>1
<1> HIDE DEF I
<1> QED
  BY <1>2, GroupsAt DEF AllGroups

\* The pretty handler's pieces, with all the groups, and the pieces due.
LEMMA PrettyPieces ==
  ASSUME NEW made \in Seq(Derivations), NEW n \in 1..Len(Given(made))
  PROVE  /\ Len(Shown(made)) = Len(Given(made))
         /\ Agrees(FALSE, made, writeAttr(AllGroups(made), Given(made)[n]), Shown(made)[n])
<1> DEFINE W == Withs(made)
<1>1. W \in SUBSET (1..Len(made)) /\ Len(made) \in Nat /\ \A i \in W : made[i].with \in Attrs
  BY WithsKinds
<1>2. /\ Cardinality(W) \in Nat /\ Len(Given(made)) = Cardinality(W)
      /\ \A i \in W : Given(made)[Place(W, i)] = made[i].with
  BY GivenTyped
<1>3. /\ Due(made) \in Seq(Pieces \cup {<<>>}) /\ Len(Due(made)) = Len(made) /\ Shown(made) = At(Due(made), W)
  BY DueTyped
<1>4. /\ Len(At(Due(made), W)) = Cardinality(W)
      /\ \A k \in 1..Cardinality(W) : \E i \in W : Place(W, i) = k /\ At(Due(made), W)[k] = Due(made)[i]
  <2> DEFINE S == Pieces \cup {<<>>}
             s == Due(made)
  <2>1. s \in Seq(S) /\ W \in SUBSET (1..Len(s))
    BY <1>1, <1>3
  <2> HIDE DEF S, s, W
  <2>2. /\ Len(At(s, W)) = Cardinality(W)
        /\ \A k \in 1..Cardinality(W) : \E i \in W : Place(W, i) = k /\ At(s, W)[k] = s[i]
    BY <2>1, AtProperties
  <2> QED
    BY <2>2 DEF s
<1>5. PICK i \in W : Place(W, i) = n /\ Shown(made)[n] = Due(made)[i]
  BY <1>2, <1>3, <1>4
<1>6. i \in 1..Len(made) /\ i \in 1..(Len(made) + 1) /\ Len(made) + 1 \in 1..(Len(made) + 1) /\ made[i].with \in Attrs
  BY <1>1
<1>7. Shown(made)[n] = writeAttr(GroupsBefore(made, i), made[i].with) /\ Given(made)[n] = made[i].with
  BY <1>2, <1>5, <1>6 DEF Due
<1>8. GroupsBefore(made, i) \in Seq(GroupNames) /\ AllGroups(made) \in Seq(GroupNames)
  BY <1>6, GroupsTyped DEF AllGroups
<1>9. GroupsFirst(made) => GroupsBefore(made, i) = AllGroups(made)
  BY GroupsComeFirst
<1>10. SameKeys(writeAttr(AllGroups(made), made[i].with), writeAttr(GroupsBefore(made, i), made[i].with))
  BY <1>6, <1>8, KeysWhateverGroups
<1>11. Len(Shown(made)) = Len(Given(made))
  BY <1>2, <1>3, <1>4
<1> QED
  BY <1>7, <1>9, <1>10, <1>11 DEF Agrees

\* A piece is shown for every attribute given.
LEMMA ShownPieces ==
  ASSUME NEW made \in Seq(Derivations)
  PROVE  /\ Shown(made) \in Seq(Pieces \cup {<<>>}) /\ Len(Shown(made)) = Len(Given(made)) /\ Len(Given(made)) \in Nat
<1> DEFINE S == Pieces \cup {<<>>}
           s == Due(made)
           W == Withs(made)
<1>1. s \in Seq(S) /\ W \in SUBSET (1..Len(s)) /\ Shown(made) = At(s, W)
  BY DueTyped, WithsKinds
<1>2. Cardinality(W) \in Nat /\ Len(Given(made)) = Cardinality(W)
  BY GivenTyped
<1> HIDE DEF S, s, W
<1>3. At(s, W) \in Seq(S) /\ Len(At(s, W)) = Cardinality(W)
  BY <1>1, AtProperties
<1> QED
  BY <1>1, <1>2, <1>3 DEF S

\* What a handler renders is what is due.
LEMMA RenderedAsDue ==
  ASSUME LoggerTypeOK, MadeOK, NEW h \in 1..Len(handlers), NEW r \in Attrs,
         NEW m, m = Append(handlers[h].made, [with |-> r])
  PROVE  /\ m \in Seq(Derivations) /\ Len(Rendered(h, r)) = Len(Qualified(m))
         /\ \A i \in 1..Len(Rendered(h, r)) : Agrees(handlers[h].json, m, Rendered(h, r)[i], Qualified(m)[i])
<1>1. PICK p : p = handlers[h]
  OBVIOUS
<1>2. p \in Handlers
  BY <1>1, HandlerFacts
<1>3. p.made \in Seq(Derivations) /\ p.groups \in Seq(GroupNames) /\ p.pre \in Seq(Pieces) /\ p.json \in BOOLEAN
  BY <1>2 DEF Handlers
<1>4. [with |-> r] \in Derivations
  BY DEF Derivations
<1>5. m \in Seq(Derivations)
  BY <1>1, <1>3, <1>4
<1>6. Further(p.made, [with |-> r], m)
  BY <1>1, <1>3, <1>4, OneFurther
<1>7. /\ Given(m) = Append(Given(p.made), r) /\ AllGroups(m) = AllGroups(p.made)
      /\ Shown(m) = Append(Shown(p.made), writeAttr(AllGroups(p.made), r))
  BY <1>3, <1>6, WithAdded
<1>8. AttrsOf(h) = Given(p.made) /\ p.groups = AllGroups(p.made) /\ p.pre = Shown(p.made)
  BY <1>1 DEF MadeOK, HandlerMade
<1>9. CASE p.json
  <2>1. Rendered(h, r) = <<LineHead>> \o Append(p.pre, writeAttr(p.groups, r))
    BY <1>1, <1>9, RenderedPieces
  <2>2. Rendered(h, r) = Qualified(m)
    BY <1>7, <1>8, <2>1 DEF Qualified
  <2> QED
    BY <1>5, <2>2, AgreesWithItself
<1>10. CASE ~p.json
  <2>1. Behind(h, r) \in Seq(Pieces) /\ Rendered(h, r) = <<LineHead>> \o Behind(h, r)
    BY <1>1, <1>10, RenderedPieces
  <2> DEFINE S == Pieces \cup {<<>>}
             b == Behind(h, r)
             s == Shown(m)
             n == Len(Given(m))
  <2>2. b = [i \in 1..n |-> writeAttr(AllGroups(m), Given(m)[i])]
    <3>1. Given(p.made) \in Seq(Attrs)
      BY <1>3, GivenTyped
    <3>2. n = Len(AttrsOf(h)) + 1
      BY <1>7, <1>8, <3>1
    <3> QED
      BY <1>1, <1>7, <1>8, <3>2 DEF Behind
  <2>3. s \in Seq(S) /\ Len(s) = n /\ n \in Nat
    BY <1>5, ShownPieces
  <2>4. \A i \in 1..n : Agrees(FALSE, m, writeAttr(AllGroups(m), Given(m)[i]), s[i])
    BY <1>5, PrettyPieces
  <2>5. Qualified(m) = <<LineHead>> \o s
    BY DEF Qualified
  <2> HIDE DEF S, s, n
  <2>6. \A i \in 1..n : b[i] = writeAttr(AllGroups(m), Given(m)[i])
    BY <2>2
  <2>11. DOMAIN b = 1..n
    BY <2>2
  <2> HIDE DEF b
  <2>7. Len(b) = n
    BY <2>1, <2>3, <2>11 DEF b
  <2>8. /\ Len(<<LineHead>> \o b) = n + 1 /\ (<<LineHead>> \o b)[1] = LineHead
        /\ \A i \in 1..n : (<<LineHead>> \o b)[i + 1] = b[i]
    BY <2>1, <2>7, HeadAndPieces DEF b
  <2>9. /\ Len(<<LineHead>> \o s) = n + 1 /\ (<<LineHead>> \o s)[1] = LineHead
        /\ \A i \in 1..n : (<<LineHead>> \o s)[i + 1] = s[i]
    BY <2>3, HeadAndPieces
  <2>10. ASSUME NEW i \in 1..(n + 1) PROVE Agrees(FALSE, m, (<<LineHead>> \o b)[i], (<<LineHead>> \o s)[i])
    <3>1. CASE i = 1
      BY <2>8, <2>9, <3>1, AgreesWithItself
    <3>2. CASE i # 1
      <4>1. PICK j \in 1..n : i = j + 1
        <5>1. i - 1 \in 1..n /\ i = (i - 1) + 1
          BY <2>3, <3>2
        <5> QED
          BY <5>1
      <4>2. Agrees(FALSE, m, b[j], s[j])
        BY <2>4, <2>6
      <4> QED
        BY <2>8, <2>9, <4>1, <4>2
    <3> QED
      BY <3>1, <3>2
  <2> QED
    BY <1>1, <1>3, <1>5, <1>10, <2>1, <2>5, <2>8, <2>9, <2>10 DEF b
<1> QED
  BY <1>9, <1>10

\* LineOf, of a file and a line.
OfLine(out, k) == {i \in 1..Len(out) : out[i].of = k}
TextsOf(out, k) == LET mine == At(out, OfLine(out, k)) IN [i \in 1..Len(mine) |-> mine[i].text]

\* A line as the texts of its pieces in the file.
LEMMA LineTexts == ASSUME NEW g, NEW n PROVE LineOf(g, n) = TextsOf(output, <<g, n>>)
  BY DEF LineOf, TextsOf, OfLine

\* The texts of pieces, as a mapping.
LEMMA TextsMapped ==
  ASSUME NEW S, NEW mine \in Seq(S)
  PROVE  [i \in 1..Len(mine) |-> mine[i].text] = MapSlice(mine, [y \in S |-> y.text])
<1>1. \A i \in 1..Len(mine) : mine[i] \in S
  OBVIOUS
<1> DEFINE f == [y \in S |-> y.text]
<1>2. \A y \in S : f[y] = y.text
  OBVIOUS
<1> HIDE DEF f
<1>3. \A i \in 1..Len(mine) : f[mine[i]] = mine[i].text
  BY <1>1, <1>2
<1>4. [i \in 1..Len(mine) |-> mine[i].text] = MapSlice(mine, f)
  BY <1>3 DEF MapSlice
<1> QED
  BY <1>4 DEF f

\* The texts of a line are a sequence, empty when nothing is in the file.
LEMMA TextsSequence ==
  ASSUME NEW out, Sequence(out), NEW k
  PROVE  /\ Sequence(TextsOf(out, k)) /\ Len(TextsOf(out, k)) \in Nat
         /\ (\A i \in 1..Len(out) : out[i].of # k) => TextsOf(out, k) = <<>>
<1>1. PICK S : out \in Seq(S)
  BY DEF Sequence
<1> DEFINE mine == At(out, OfLine(out, k))
<1>2. OfLine(out, k) \in SUBSET (1..Len(out))
  BY DEF OfLine
<1>3. mine \in Seq(S)
  BY <1>1, <1>2, AtProperties
<1>4. Len(mine) \in Nat
  BY <1>3
<1>5. TextsOf(out, k) = [i \in 1..Len(mine) |-> mine[i].text]
  BY DEF TextsOf
<1>6. ASSUME \A i \in 1..Len(out) : out[i].of # k PROVE TextsOf(out, k) = <<>>
  <2>1. OfLine(out, k) = {}
    BY <1>6 DEF OfLine
  <2>2. mine = <<>>
    BY <2>1, AtEmpty
  <2> QED
    BY <1>5, <2>2
<1> HIDE DEF mine
<1>7. Sequence(TextsOf(out, k)) /\ Len(TextsOf(out, k)) = Len(mine)
  <2> DEFINE n == Len(mine)
             f == TextsOf(out, k)
  <2>1. f = [i \in 1..n |-> f[i]] /\ n \in Nat
    BY <1>4, <1>5
  <2> HIDE DEF n, f
  <2>2. Sequence(f) /\ Len(f) = n
    BY <2>1, FunctionSequence
  <2> QED
    BY <2>2 DEF n, f
<1> QED
  BY <1>4, <1>6, <1>7

\* A piece more in the file is a piece more of its own line, and of no other.
LEMMA TextsLonger ==
  ASSUME NEW out, Sequence(out), NEW x, NEW k
  PROVE  /\ x.of = k => TextsOf(Append(out, x), k) = Append(TextsOf(out, k), x.text)
         /\ x.of # k => TextsOf(Append(out, x), k) = TextsOf(out, k)
<1>1. PICK R : out \in Seq(R)
  BY DEF Sequence
<1>2. PICK S : S = R \cup {x}
  OBVIOUS
<1>3. out \in Seq(S) /\ x \in S
  BY <1>1, <1>2
<1> DEFINE more == Append(out, x)
           I == OfLine(out, k)
<1>4. /\ more \in Seq(S) /\ Len(more) = Len(out) + 1 /\ more[Len(more)] = x
      /\ \A i \in 1..Len(out) : more[i] = out[i]
      /\ Len(out) \in Nat
  BY <1>3, Appended
<1> HIDE DEF more
<1>5. AlikeAt(out, more, I)
  BY <1>4 DEF AlikeAt, OfLine
<1>6. 1..Len(more) = (1..Len(out)) \cup {Len(more)}
  BY <1>4
<1>7. At(out, I) \in Seq(S)
  <2>1. I \in SUBSET (1..Len(out))
    BY DEF OfLine
  <2> QED
    BY <1>3, <2>1, AtProperties
<1>8. ASSUME x.of = k PROVE TextsOf(more, k) = Append(TextsOf(out, k), x.text)
  <2>1. OfLine(more, k) = I \cup {Len(more)}
    BY <1>4, <1>6, <1>8 DEF OfLine
  <2> HIDE DEF I
  <2>2. At(more, I \cup {Len(more)}) = Append(At(out, I), x)
    BY <1>3, <1>4, <1>5, AtLonger
  <2> DEFINE f == [y \in S |-> y.text]
             mine == At(out, I)
  <2>3. f[x] = x.text
    BY <1>3
  <2> HIDE DEF f, mine
  <2>4. Append(mine, x) \in Seq(S) /\ mine \in Seq(S)
    BY <1>3, <1>7, Appended DEF mine
  <2>5. TextsOf(out, k) = MapSlice(mine, f)
    BY <2>4, TextsMapped DEF TextsOf, mine, f, I
  <2>6. TextsOf(more, k) = MapSlice(Append(mine, x), f)
    <3>1. At(more, OfLine(more, k)) = Append(mine, x)
      BY <2>1, <2>2 DEF mine
    <3>2. PICK longer \in Seq(S) : longer = Append(mine, x)
      BY <2>4
    <3>3. TextsOf(more, k) = [i \in 1..Len(longer) |-> longer[i].text]
      BY <3>1, <3>2 DEF TextsOf
    <3>4. TextsOf(more, k) = MapSlice(longer, f)
      BY <3>3, TextsMapped DEF f
    <3> QED
      BY <3>2, <3>4
  <2>7. MapSlice(Append(mine, x), f) = Append(MapSlice(mine, f), f[x])
    BY <1>3, <2>4, MapSliceAppend
  <2> QED
    BY <2>3, <2>5, <2>6, <2>7
<1>9. ASSUME x.of # k PROVE TextsOf(more, k) = TextsOf(out, k)
  <2>1. OfLine(more, k) = I
    BY <1>4, <1>6, <1>9 DEF OfLine
  <2>2. At(more, I) = At(out, I)
    <3> HIDE DEF I
    <3> QED
      BY <1>3, <1>4, <1>5, AtSame
  <2> QED
    BY <2>1, <2>2 DEF TextsOf
<1> QED
  BY <1>8, <1>9 DEF more

\* A line as far as it is written, and what of it is still to be written.
Begun(json, made, line, rest) ==
  /\ Len(line) + Len(rest) = Len(Qualified(made))
  /\ \A i \in 1..Len(line) : Agrees(json, made, line[i], Qualified(made)[i])
  /\ \A i \in 1..Len(rest) : Agrees(json, made, rest[i].text, Qualified(made)[Len(line) + i])

\* Writing the next piece of what is left keeps line and rest together as due.
LEMMA BegunFurther ==
  ASSUME NEW json, NEW made, NEW line, NEW rest, Sequence(line), Sequence(rest), Len(rest) > 0,
         Begun(json, made, line, rest)
  PROVE  Begun(json, made, Append(line, rest[1].text), Tail(rest))
<1> DEFINE more == Append(line, rest[1].text)
           left == Tail(rest)
<1>1. /\ Len(line) \in Nat /\ Len(more) = Len(line) + 1 /\ more[Len(line) + 1] = rest[1].text
      /\ \A i \in 1..Len(line) : more[i] = line[i]
  BY SequenceAppend
<1>2. /\ Len(rest) \in Nat /\ Len(left) = Len(rest) - 1 /\ \A i \in 1..Len(left) : left[i] = rest[i + 1]
  BY SequenceTail
<1> HIDE DEF more, left
<1>3. Len(more) + Len(left) = Len(Qualified(made))
  <2>1. Len(line) + Len(rest) = Len(Qualified(made))
    BY DEF Begun
  <2>2. Len(more) + Len(left) = Len(line) + Len(rest)
    BY <1>1, <1>2
  <2> QED
    BY <2>1, <2>2
<1>4. ASSUME NEW i \in 1..Len(more) PROVE Agrees(json, made, more[i], Qualified(made)[i])
  <2>1. CASE i = Len(line) + 1
    <3>1. 1 \in 1..Len(rest)
      BY <1>2
    <3>2. Agrees(json, made, rest[1].text, Qualified(made)[Len(line) + 1])
      BY <3>1 DEF Begun
    <3> QED
      BY <1>1, <2>1, <3>2
  <2>2. CASE i \in 1..Len(line)
    BY <1>1, <2>2 DEF Begun
  <2> QED
    BY <1>1, <2>1, <2>2
<1>5. ASSUME NEW i \in 1..Len(left) PROVE Agrees(json, made, left[i].text, Qualified(made)[Len(more) + i])
  <2>1. i + 1 \in 1..Len(rest) /\ Len(line) + (i + 1) = Len(more) + i
    <3>1. i \in Int /\ i + 1 \in 1..Len(rest)
      BY <1>2
    <3>2. Len(line) + (i + 1) = (Len(line) + 1) + i
      BY <1>1, <3>1
    <3> QED
      BY <1>1, <3>1, <3>2
  <2>2. Agrees(json, made, rest[i + 1].text, Qualified(made)[Len(line) + (i + 1)])
    BY <2>1 DEF Begun
  <2> QED
    BY <1>2, <2>1, <2>2
<1> QED
  BY <1>3, <1>4, <1>5 DEF Begun, more, left

Wants == [h : Nat, made : Seq(Derivations)]

WantsOK ==
  /\ want \in [Goroutines -> Seq(Wants)]
  /\ \A g \in Goroutines : Len(want[g]) = logged[g] /\ \A n \in 1..logged[g] : want[g][n].h \in 1..Len(handlers)

\* What is still to be written of a line.
ToWrite(g, n) == IF n = logged[g] /\ pending[g] # <<>> THEN pending[g][1] ELSE <<>>

LineBegun(g, n) == Begun(handlers[want[g][n].h].json, want[g][n].made, LineOf(g, n), ToWrite(g, n))

LinesBegun == \A g \in Goroutines : \A n \in 1..logged[g] : LineBegun(g, n)

LinesInv == LoggerInv /\ MadeOK /\ WantsOK /\ LinesBegun

\* Nothing is logged yet.
LEMMA LinesInitInv == LoggerInit => LinesInv
<1> SUFFICES ASSUME LoggerInit PROVE LinesInv
  OBVIOUS
<1>1. /\ want = [g \in Goroutines |-> <<>>] /\ logged = [g \in Goroutines |-> 0]
  BY DEF LoggerInit
<1>2. WantsOK /\ LinesBegun
  BY <1>1 DEF WantsOK, LinesBegun
<1> QED
  BY <1>2, LoggerInitInv, MadeInit DEF LinesInv

\* Steps that neither log nor write.
LEMMA BegunKept ==
  ASSUME WantsOK, LinesBegun, HandlersKept, UNCHANGED <<pending, output, logged, want>>,
         Len(handlers) \in Nat, Len(handlers') \in Nat, Len(handlers') >= Len(handlers)
  PROVE  WantsOK' /\ LinesBegun'
<1>1. ASSUME NEW g \in Goroutines, NEW n \in 1..logged[g]
      PROVE  want[g][n].h \in 1..Len(handlers') /\ LineBegun(g, n)'
  <2>1. want[g][n].h \in 1..Len(handlers)
    BY DEF WantsOK
  <2>2. handlers'[want[g][n].h] = handlers[want[g][n].h] /\ want[g][n].h \in 1..Len(handlers')
    BY <2>1 DEF HandlersKept
  <2>3. LineOf(g, n)' = LineOf(g, n) /\ ToWrite(g, n)' = ToWrite(g, n)
    BY DEF LineOf, ToWrite
  <2>4. LineBegun(g, n)
    BY DEF LinesBegun
  <2> QED
    BY <2>2, <2>3, <2>4 DEF LineBegun
<1> QED
  BY <1>1 DEF WantsOK, LinesBegun

\* A line is formatted: all of it is still to be written.
LEMMA LogBegun ==
  ASSUME LinesInv, NEW g \in Goroutines, Log(g)
  PROVE  WantsOK' /\ LinesBegun'
<1> USE DEF LinesInv
<1>1. PICK r \in Attrs : Handle(g, r)
  BY DEF Log
<1>2. ctxLogger[g] # NotStarted /\ pending[g] = <<>>
  BY DEF Log, Idle
<1>3. PICK h \in 1..Len(handlers) : h = Current(g)
  BY <1>2, CurrentExists DEF LoggerInv
<1>4. PICK k \in Nat \ {0} : k = Len(Rendered(h, r))
  BY RenderedLength DEF LoggerInv
<1>5. PICK line : line = [i \in 1..k |-> [of |-> <<g, logged[g] + 1>>, text |-> Rendered(h, r)[i]]]
  OBVIOUS
<1>6. PICK m : m = Append(handlers[h].made, [with |-> r])
  OBVIOUS
<1>7. PICK w : w = [h |-> h, made |-> m]
  OBVIOUS
<1>8. /\ pending' = [pending EXCEPT ![g] = <<line>>] /\ logged' = [logged EXCEPT ![g] = @ + 1]
      /\ want' = [want EXCEPT ![g] = Append(@, w)]
      /\ UNCHANGED <<handlers, output>>
  BY <1>1, <1>3, <1>4, <1>5, <1>6, <1>7 DEF Handle, Buffers
<1>9. logged \in [Goroutines -> Nat] /\ DOMAIN pending = Goroutines /\ want \in [Goroutines -> Seq(Wants)]
      /\ handlers \in Seq(Handlers)
  BY DEF LoggerInv, LoggerTypeOK, LinesOK, WantsOK
<1>10. /\ m \in Seq(Derivations) /\ k = Len(Qualified(m))
       /\ \A i \in 1..k : Agrees(handlers[h].json, m, Rendered(h, r)[i], Qualified(m)[i])
  BY <1>4, <1>6, RenderedAsDue DEF LoggerInv
<1>11. w \in Wants /\ w.h = h /\ w.made = m
  BY <1>7, <1>9, <1>10 DEF Wants
<1>12. /\ logged'[g] = logged[g] + 1 /\ pending'[g] = <<line>> /\ want'[g] = Append(want[g], w)
       /\ logged[g] \in Nat
       /\ \A f \in Goroutines \ {g} : logged'[f] = logged[f] /\ pending'[f] = pending[f] /\ want'[f] = want[f]
  BY <1>8, <1>9
<1>13. /\ Append(want[g], w) \in Seq(Wants) /\ Len(Append(want[g], w)) = logged[g] + 1
       /\ Append(want[g], w)[logged[g] + 1] = w
       /\ \A n \in 1..logged[g] : Append(want[g], w)[n] = want[g][n]
  <2>1. want[g] \in Seq(Wants) /\ Len(want[g]) = logged[g]
    BY <1>9 DEF WantsOK
  <2> QED
    BY <1>11, <2>1, Appended
<1>14. WantsOK'
  <2>1. want' \in [Goroutines -> Seq(Wants)]
    BY <1>8, <1>9, <1>13
  <2>2. ASSUME NEW f \in Goroutines
        PROVE  Len(want'[f]) = logged'[f] /\ \A n \in 1..logged'[f] : want'[f][n].h \in 1..Len(handlers')
    <3>1. CASE f # g
      BY <1>8, <1>12, <3>1 DEF WantsOK
    <3>2. CASE f = g
      <4>1. \A n \in 1..(logged[g] + 1) : n \in 1..logged[g] \/ n = logged[g] + 1
        BY <1>12
      <4>2. \A n \in 1..logged[g] : want[g][n].h \in 1..Len(handlers)
        BY DEF WantsOK
      <4> QED
        BY <1>8, <1>11, <1>12, <1>13, <3>2, <4>1, <4>2
    <3> QED
      BY <3>1, <3>2
  <2> QED
    BY <2>1, <2>2 DEF WantsOK
<1>15. ASSUME NEW f \in Goroutines, NEW n \in 1..logged[f] PROVE LineBegun(f, n)'
  <2>1. LineBegun(f, n)
    BY DEF LinesBegun
  <2>2. want'[f][n] = want[f][n]
    BY <1>12, <1>13
  <2>3. LineOf(f, n)' = LineOf(f, n)
    BY <1>8 DEF LineOf
  <2>4. ToWrite(f, n)' = ToWrite(f, n)
    <3>1. CASE f # g
      BY <1>12, <3>1 DEF ToWrite
    <3>2. CASE f = g
      <4>1. n # logged'[f]
        BY <1>12, <3>2
      <4> QED
        BY <1>2, <3>2, <4>1 DEF ToWrite
    <3> QED
      BY <3>1, <3>2
  <2> QED
    BY <1>8, <2>1, <2>2, <2>3, <2>4 DEF LineBegun
<1>0. PICK n : n = logged[g] + 1
  OBVIOUS
<1>16. LineBegun(g, n)'
  <2>1. want'[g][n] = w
    BY <1>0, <1>12, <1>13
  <2>2. \A i \in 1..Len(output) : output[i].of # <<g, n>>
    <3> SUFFICES ASSUME NEW i \in 1..Len(output) PROVE output[i].of # <<g, n>>
      OBVIOUS
    <3>1. PICK f \in Goroutines : \E l \in 1..logged[f] : output[i].of = <<f, l>>
      BY DEF LoggerInv, LinesOK
    <3>2. PICK l \in 1..logged[f] : output[i].of = <<f, l>>
      BY <3>1
    <3>3. f = g => l # n
      BY <1>0, <1>12, <3>2
    <3> QED
      BY <3>2, <3>3
  <2>3. LineOf(g, n) = <<>>
    <3>1. Sequence(output)
      BY DEF LoggerInv, LinesOK
    <3>2. TextsOf(output, <<g, n>>) = <<>>
      BY <2>2, <3>1, TextsSequence
    <3> QED
      BY <3>2, LineTexts
  <2>4. LineOf(g, n)' = <<>>
    <3>1. LineOf(g, n)' = LineOf(g, n)
      BY <1>8 DEF LineOf
    <3> QED
      BY <2>3, <3>1
  <2>5. ToWrite(g, n)' = line
    <3>1. logged'[g] = n /\ pending'[g] # <<>> /\ pending'[g][1] = line
      BY <1>0, <1>12
    <3> QED
      BY <3>1 DEF ToWrite
  <2>6. Len(line) = k /\ \A i \in 1..k : line[i].text = Rendered(h, r)[i]
    <3>1. line = [i \in 1..k |-> line[i]]
      BY <1>5
    <3> QED
      BY <1>5, <3>1, FunctionSequence
  <2>7. Begun(handlers[h].json, m, <<>>, line)
    <3>1. Len(<<>>) = 0 /\ 0 + k = k /\ (\A i \in 1..k : 0 + i = i) /\ \A i \in 1..0 : FALSE
      OBVIOUS
    <3>2. Len(<<>>) + Len(line) = Len(Qualified(m))
      BY <1>10, <2>6, <3>1
    <3>3. \A i \in 1..Len(line) : Agrees(handlers[h].json, m, line[i].text, Qualified(m)[Len(<<>>) + i])
      BY <1>10, <2>6, <3>1
    <3> QED
      BY <3>1, <3>2, <3>3 DEF Begun
  <2> QED
    BY <1>8, <1>11, <2>1, <2>4, <2>5, <2>7 DEF LineBegun
<1>17. LinesBegun'
  <2> SUFFICES ASSUME NEW f \in Goroutines, NEW l \in 1..logged'[f] PROVE LineBegun(f, l)'
    BY DEF LinesBegun
  <2>1. l \in 1..logged[f] \/ (f = g /\ l = n)
    BY <1>0, <1>12
  <2> QED
    BY <1>15, <1>16, <2>1
<1> QED
  BY <1>14, <1>17

\* A piece is written: it leaves the buffer and joins its line.
LEMMA WriteBegun ==
  ASSUME LinesInv, NEW g \in Goroutines, Write(g)
  PROVE  WantsOK' /\ LinesBegun'
<1> USE DEF LinesInv
<1>1. PICK buf, rest, x : buf = pending[g][1] /\ rest = Tail(buf) /\ x = buf[1]
  OBVIOUS
<1>2. pending[g] # <<>> /\ UNCHANGED <<handlers, logged, want>>
  BY DEF Write
<1>3. /\ pending[g] = <<buf>> /\ Sequence(buf) /\ Len(buf) > 0 /\ logged[g] > 0
      /\ \A i \in 1..Len(buf) : buf[i].of = <<g, logged[g]>>
  BY <1>1, <1>2 DEF LoggerInv, LinesOK, LineOK, Buffered
<1>4. /\ Sequence(rest) /\ Len(buf) \in Nat /\ Len(rest) = Len(buf) - 1 /\ Head(buf) = x
      /\ \A i \in 1..Len(rest) : rest[i] = buf[i + 1]
      /\ rest # <<>> => Len(rest) > 0
  BY <1>1, <1>3, SequenceTail
<1>5. x.of = <<g, logged[g]>>
  BY <1>1, <1>3, <1>4
<1>6. Head(pending[g]) = buf /\ Tail(pending[g]) = <<>> /\ <<rest>> \o <<>> = <<rest>>
  BY <1>3
<1>7. /\ output' = Append(output, x)
      /\ pending' = [pending EXCEPT ![g] = IF rest = <<>> THEN <<>> ELSE <<rest>>]
  BY <1>1, <1>4, <1>6 DEF Write
<1>8. /\ pending'[g] = (IF rest = <<>> THEN <<>> ELSE <<rest>>)
      /\ \A f \in Goroutines \ {g} : pending'[f] = pending[f]
  BY <1>7 DEF LoggerInv, LinesOK
<1>9. Sequence(output) /\ logged \in [Goroutines -> Nat]
  BY DEF LoggerInv, LinesOK, LoggerTypeOK
<1>10. WantsOK'
  BY <1>2 DEF WantsOK
<1>11. ASSUME NEW f \in Goroutines, NEW n \in 1..logged[f], <<f, n>> # <<g, logged[g]>> PROVE LineBegun(f, n)'
  <2>1. LineBegun(f, n)
    BY DEF LinesBegun
  <2>2. LineOf(f, n)' = LineOf(f, n)
    <3>1. TextsOf(Append(output, x), <<f, n>>) = TextsOf(output, <<f, n>>)
      BY <1>5, <1>9, <1>11, TextsLonger
    <3>2. LineOf(f, n)' = TextsOf(output', <<f, n>>)
      BY DEF LineOf, TextsOf, OfLine
    <3> QED
      BY <1>7, <3>1, <3>2, LineTexts
  <2>3. ToWrite(f, n)' = ToWrite(f, n)
    <3>1. CASE f # g
      BY <1>2, <1>8, <3>1 DEF ToWrite
    <3>2. CASE f = g
      <4>1. n # logged[f]
        BY <1>11, <3>2
      <4> QED
        BY <1>2, <4>1 DEF ToWrite
    <3> QED
      BY <3>1, <3>2
  <2> QED
    BY <1>2, <2>1, <2>2, <2>3 DEF LineBegun
<1>0. PICK n : n = logged[g]
  OBVIOUS
<1>12. LineBegun(g, n)'
  <2> DEFINE line == LineOf(g, n)
             w == want[g][n]
  <2>1. LineBegun(g, n)
    <3>1. n \in 1..logged[g]
      BY <1>0, <1>3, <1>9
    <3> QED
      BY <3>1 DEF LinesBegun
  <2>2. ToWrite(g, n) = buf
    BY <1>0, <1>1, <1>2 DEF ToWrite
  <2>3. Begun(handlers[w.h].json, w.made, line, buf)
    BY <2>1, <2>2 DEF LineBegun
  <2>4. Sequence(line)
    BY <1>9, TextsSequence, LineTexts
  <2>5. LineOf(g, n)' = Append(line, x.text)
    <3>1. TextsOf(Append(output, x), <<g, n>>) = Append(TextsOf(output, <<g, n>>), x.text)
      BY <1>0, <1>5, <1>9, TextsLonger
    <3>2. LineOf(g, n)' = TextsOf(output', <<g, n>>)
      BY <1>2 DEF LineOf, TextsOf, OfLine
    <3> QED
      BY <1>7, <3>1, <3>2, LineTexts
  <2>6. ToWrite(g, n)' = rest
    <3>1. CASE rest = <<>>
      BY <1>2, <1>8, <3>1 DEF ToWrite
    <3>2. CASE rest # <<>>
      <4>1. pending'[g] = <<rest>> /\ pending'[g] # <<>> /\ pending'[g][1] = rest /\ n = logged'[g]
        BY <1>0, <1>2, <1>8, <3>2
      <4> QED
        BY <4>1 DEF ToWrite
    <3> QED
      BY <3>1, <3>2
  <2>7. w' = w
    BY <1>2
  <2> HIDE DEF line, w
  <2>8. Begun(handlers[w.h].json, w.made, Append(line, x.text), rest)
    BY <1>1, <1>3, <2>3, <2>4, BegunFurther
  <2> QED
    BY <1>2, <2>5, <2>6, <2>8 DEF LineBegun, w
<1>13. LinesBegun'
  <2> SUFFICES ASSUME NEW f \in Goroutines, NEW l \in 1..logged[f] PROVE LineBegun(f, l)'
    BY <1>2 DEF LinesBegun
  <2>1. CASE <<f, l>> = <<g, logged[g]>>
    <3>1. f = g /\ l = n
      BY <1>0, <2>1
    <3> QED
      BY <1>12, <3>1
  <2>2. CASE <<f, l>> # <<g, logged[g]>>
    BY <1>11, <2>2
  <2> QED
    BY <2>1, <2>2
<1> QED
  BY <1>10, <1>13

\* Every step keeps line and buffer together as due.
LEMMA LinesStepInv == LinesInv /\ [LoggerNext]_loggerVars => LinesInv'
<1> SUFFICES ASSUME LinesInv, [LoggerNext]_loggerVars PROVE LinesInv'
  OBVIOUS
<1>1. LoggerInv'
  BY LoggerStepInv DEF LinesInv
<1>2. /\ MadeOK' /\ HandlersKept
      /\ Len(handlers) \in Nat /\ Len(handlers') \in Nat /\ Len(handlers') >= Len(handlers)
  BY MadeStep DEF LinesInv
<1>3. CASE UNCHANGED <<pending, output, logged, want>>
  <2>1. WantsOK' /\ LinesBegun'
    BY <1>2, <1>3, BegunKept DEF LinesInv
  <2> QED
    BY <1>1, <1>2, <2>1 DEF LinesInv
<1>4. ASSUME NEW g \in Goroutines, Log(g) \/ Write(g) PROVE LinesInv'
  <2>1. WantsOK' /\ LinesBegun'
    BY <1>4, LogBegun, WriteBegun
  <2> QED
    BY <1>1, <1>2, <2>1 DEF LinesInv
<1>5. UNCHANGED <<pending, output, logged, want>> \/ \E g \in Goroutines : Log(g) \/ Write(g)
  BY DEF LoggerNext, Spawn, Derive, Lock, Unlock, loggerVars
<1> QED
  BY <1>3, <1>4, <1>5

\* What is written of a line is then as due, and all of it when its buffer is empty.
LEMMA InvGivesLines == LinesInv => LineAsDerived
<1> SUFFICES ASSUME LinesInv, NEW g \in Goroutines, NEW n \in 1..logged[g]
             PROVE  LET due == Qualified(want[g][n].made) line == LineOf(g, n) IN
                    /\ Len(line) <= Len(due)
                    /\ (pending[g] = <<>> \/ n < logged[g]) => Len(line) = Len(due)
                    /\ \A i \in 1..Len(line) : AsDue(want[g][n], line[i], due[i])
  BY DEF LineAsDerived
<1> DEFINE line == LineOf(g, n)
           due == Qualified(want[g][n].made)
           rest == ToWrite(g, n)
<1>1. LineBegun(g, n)
  BY DEF LinesInv, LinesBegun
<1>2. /\ Len(line) + Len(rest) = Len(due)
      /\ \A i \in 1..Len(line) : Agrees(handlers[want[g][n].h].json, want[g][n].made, line[i], due[i])
  BY <1>1 DEF LineBegun, Begun
<1>3. Len(line) \in Nat
  <2>1. Sequence(output)
    BY DEF LinesInv, LoggerInv, LinesOK
  <2> QED
    BY <2>1, TextsSequence, LineTexts
<1>4. logged[g] \in Nat
  BY DEF LinesInv, LoggerInv, LoggerTypeOK
<1>5. Len(rest) \in Nat /\ ((pending[g] = <<>> \/ n < logged[g]) => Len(rest) = 0)
  <2>1. CASE n = logged[g] /\ pending[g] # <<>>
    <3>1. Sequence(pending[g][1]) /\ Len(pending[g][1]) > 0
      BY <2>1 DEF LinesInv, LoggerInv, LinesOK, LineOK, Buffered
    <3>2. Len(pending[g][1]) \in Nat
      BY <3>1, SequenceTail
    <3>3. rest = pending[g][1]
      BY <2>1 DEF ToWrite
    <3> QED
      BY <1>4, <2>1, <3>2, <3>3
  <2>2. CASE ~(n = logged[g] /\ pending[g] # <<>>)
    <3>1. rest = <<>>
      BY <2>2 DEF ToWrite
    <3> QED
      BY <3>1
  <2> QED
    BY <2>1, <2>2
<1>6. \A i \in 1..Len(line) : AsDue(want[g][n], line[i], due[i])
  BY <1>2 DEF Agrees, AsDue
<1> HIDE DEF line, due, rest
<1>7. Len(line) <= Len(due) /\ ((pending[g] = <<>> \/ n < logged[g]) => Len(line) = Len(due))
  BY <1>2, <1>3, <1>5
<1> QED
  BY <1>6, <1>7 DEF line, due

\* Whatever loggers the goroutines derive from each other and in which order
\* their pieces reach the file, every line shows the attributes its own logger
\* was given, in order: those of slog's JSON handler under the groups opened
\* before each of them, those of the pretty handler under the same groups when
\* the groups were opened first, and otherwise with the same keys.
THEOREM LinesAlwaysAsDerived == LoggerSpec => []LineAsDerived
  BY LinesInitInv, LinesStepInv, InvGivesLines, PTL DEF LoggerSpec
-----------------------------------------------------------------------------
(* Query: the order *)

Values == Nat \cup {Null}
Clauses == {OrderString([Column |-> "created_at", Direction |-> d]) : d \in {"ASC", "DESC"}}

\* What a database may be asked to order: rows no two of which are alike.
Distinct(t) == t \in Seq(Values) /\ \A i, j \in 1..Len(t) : t[i] = t[j] => i = j

LEMMA BeforeIsOrder ==
  ASSUME NEW c \in Clauses, NEW x \in Values, NEW y \in Values, NEW z \in Values
  PROVE  /\ ~Before(c, x, x)
         /\ Before(c, x, y) /\ Before(c, y, z) => Before(c, x, z)
         /\ x = y \/ Before(c, x, y) \/ Before(c, y, x)
<1>1. c = [desc |-> TRUE, nulls |-> "LAST"] \/ c = [desc |-> FALSE, nulls |-> "FIRST"]
  BY DEF Clauses, OrderString
<1>2. CASE c = [desc |-> TRUE, nulls |-> "LAST"]
  BY <1>2, QueryAssumption DEF Before, Values
<1>3. CASE c = [desc |-> FALSE, nulls |-> "FIRST"]
  BY <1>3, QueryAssumption DEF Before, Values
<1> QED
  BY <1>1, <1>2, <1>3

\* The rows before row i of t.
Ahead(t, c, i) == {j \in 1..Len(t) : Before(c, t[j], t[i])}

LEMMA AheadFinite ==
  ASSUME NEW t, Distinct(t), NEW c, NEW i \in 1..Len(t)
  PROVE  IsFiniteSet(Ahead(t, c, i)) /\ Cardinality(Ahead(t, c, i)) \in Nat
<1>1. IsFiniteSet(1..Len(t))
  BY FS_Interval DEF Distinct
<1>2. Ahead(t, c, i) \in SUBSET (1..Len(t))
  BY DEF Ahead
<1>3. IsFiniteSet(Ahead(t, c, i))
  BY <1>1, <1>2, FS_Subset
<1> QED
  BY <1>3, FS_CardinalityType

LEMMA RankRange ==
  ASSUME NEW t, Distinct(t), NEW c \in Clauses, NEW i \in 1..Len(t)
  PROVE  Rank(t, c, i) \in 1..Len(t)
<1>1. Len(t) \in Nat /\ t[i] \in Values
  BY DEF Distinct
<1>2. IsFiniteSet(1..Len(t)) /\ Cardinality(1..Len(t)) = Len(t)
  <2>1. 1 \in Int /\ Len(t) \in Int
    BY <1>1
  <2>2. IsFiniteSet(1..Len(t)) /\ Cardinality(1..Len(t)) = IF 1 > Len(t) THEN 0 ELSE Len(t) - 1 + 1
    BY <2>1, FS_Interval
  <2> QED
    BY <1>1, <2>2
<1>3. IsFiniteSet((1..Len(t)) \ {i}) /\ Cardinality((1..Len(t)) \ {i}) = Len(t) - 1
  BY <1>2, FS_RemoveElement
<1>4. ~Before(c, t[i], t[i])
  BY <1>1, BeforeIsOrder
<1>5. Ahead(t, c, i) \in SUBSET ((1..Len(t)) \ {i})
  BY <1>4 DEF Ahead
<1>6. Cardinality(Ahead(t, c, i)) <= Len(t) - 1
  BY <1>3, <1>5, FS_Subset
<1>7. Cardinality(Ahead(t, c, i)) \in Nat
  BY AheadFinite
<1> QED
  BY <1>1, <1>6, <1>7 DEF Rank, Ahead

LEMMA RankGrows ==
  ASSUME NEW t, Distinct(t), NEW c \in Clauses, NEW i \in 1..Len(t), NEW j \in 1..Len(t),
         Before(c, t[i], t[j])
  PROVE  Rank(t, c, i) < Rank(t, c, j)
<1>1. \A k \in 1..Len(t) : t[k] \in Values
  BY DEF Distinct
<1>2. ~Before(c, t[i], t[i])
  BY <1>1, BeforeIsOrder
<1>3. \A k \in 1..Len(t) : Before(c, t[k], t[i]) => Before(c, t[k], t[j])
  BY <1>1, BeforeIsOrder
<1>4. Ahead(t, c, i) \in SUBSET Ahead(t, c, j)
  BY <1>3 DEF Ahead
<1>5. i \in Ahead(t, c, j) /\ i \notin Ahead(t, c, i)
  BY <1>2 DEF Ahead
<1>6. /\ Cardinality(Ahead(t, c, i)) <= Cardinality(Ahead(t, c, j))
      /\ Cardinality(Ahead(t, c, j)) # Cardinality(Ahead(t, c, i))
  BY <1>4, <1>5, AheadFinite, FS_Subset
<1>7. Cardinality(Ahead(t, c, i)) \in Nat /\ Cardinality(Ahead(t, c, j)) \in Nat
  BY AheadFinite
<1> QED
  BY <1>6, <1>7 DEF Rank, Ahead

LEMMA RankInjective ==
  ASSUME NEW t, Distinct(t), NEW c \in Clauses, NEW i \in 1..Len(t), NEW j \in 1..Len(t)
  PROVE  /\ Rank(t, c, i) = Rank(t, c, j) => i = j
         /\ Rank(t, c, i) < Rank(t, c, j) => Before(c, t[i], t[j])
<1>1. t[i] \in Values /\ t[j] \in Values /\ (t[i] = t[j] => i = j)
  BY DEF Distinct
<1>2. t[i] = t[j] \/ Before(c, t[i], t[j]) \/ Before(c, t[j], t[i])
  BY <1>1, BeforeIsOrder
<1>3. Rank(t, c, i) \in Int /\ Rank(t, c, j) \in Int
  BY RankRange
<1>4. Before(c, t[i], t[j]) => Rank(t, c, i) < Rank(t, c, j)
  BY RankGrows
<1>5. Before(c, t[j], t[i]) => Rank(t, c, j) < Rank(t, c, i)
  BY RankGrows
<1> QED
  BY <1>1, <1>2, <1>3, <1>4, <1>5

\* Every place is some row's: the ranks are an injection of 1..Len(t) to itself.
LEMMA RankSurjective ==
  ASSUME NEW t, Distinct(t), NEW c \in Clauses, NEW n \in 1..Len(t)
  PROVE  \E i \in 1..Len(t) : Rank(t, c, i) = n
<1> DEFINE f == [i \in 1..Len(t) |-> Rank(t, c, i)]
<1>1. IsFiniteSet(1..Len(t))
  BY FS_Interval DEF Distinct
<1>2. f \in [1..Len(t) -> 1..Len(t)]
  BY RankRange
<1>3. \A i, j \in 1..Len(t) : f[i] = f[j] => i = j
  BY RankInjective
<1>4. f \in Injection(1..Len(t), 1..Len(t))
  BY <1>2, <1>3 DEF Injection, IsInjective
<1>5. f \in Surjection(1..Len(t), 1..Len(t))
  BY <1>1, <1>4, FS_Injection
<1> QED
  BY <1>5 DEF Surjection

\* What OrderBy returns: every row at the place of its rank, in order.
LEMMA OrderByProperties ==
  ASSUME NEW t, Distinct(t), NEW c \in Clauses
  PROVE  /\ OrderBy(t, c) \in Seq(Values) /\ Len(OrderBy(t, c)) = Len(t)
         /\ \A i \in 1..Len(t) : OrderBy(t, c)[Rank(t, c, i)] = t[i]
         /\ \A n \in 1..Len(t) : \E i \in 1..Len(t) : Rank(t, c, i) = n /\ OrderBy(t, c)[n] = t[i]
         /\ \A n, m \in 1..Len(t) : n < m => Before(c, OrderBy(t, c)[n], OrderBy(t, c)[m])
<1> DEFINE RowAt(n) == CHOOSE i \in 1..Len(t) : Rank(t, c, i) = n
<1>1. \A n \in 1..Len(t) : RowAt(n) \in 1..Len(t) /\ Rank(t, c, RowAt(n)) = n
  BY RankSurjective
<1>2. Len(t) \in Nat /\ \A i \in 1..Len(t) : t[i] \in Values
  BY DEF Distinct
<1>3. OrderBy(t, c) = [n \in 1..Len(t) |-> t[RowAt(n)]]
  BY DEF OrderBy
<1> HIDE DEF RowAt
<1>4. OrderBy(t, c) \in [1..Len(t) -> Values]
  BY <1>1, <1>2, <1>3
<1>5. OrderBy(t, c) \in Seq(Values) /\ Len(OrderBy(t, c)) = Len(t)
  BY <1>2, <1>4
<1>6. ASSUME NEW i \in 1..Len(t) PROVE OrderBy(t, c)[Rank(t, c, i)] = t[i]
  <2>1. Rank(t, c, i) \in 1..Len(t)
    BY RankRange
  <2>2. RowAt(Rank(t, c, i)) = i
    BY <1>1, <2>1, RankInjective
  <2> QED
    BY <1>3, <2>1, <2>2
<1>7. \A n \in 1..Len(t) : \E i \in 1..Len(t) : Rank(t, c, i) = n /\ OrderBy(t, c)[n] = t[i]
  BY <1>1, <1>3
<1>8. ASSUME NEW n \in 1..Len(t), NEW m \in 1..Len(t), n < m
      PROVE  Before(c, OrderBy(t, c)[n], OrderBy(t, c)[m])
  <2>1. Before(c, t[RowAt(n)], t[RowAt(m)])
    BY <1>1, <1>8, RankInjective
  <2> QED
    BY <1>3, <2>1
<1> QED
  BY <1>5, <1>6, <1>7, <1>8
-----------------------------------------------------------------------------
(* Query: the pages *)

Clause == OrderString(NewOrder("", ParseDirection(asked.dir)))
Whole == OrderBy(table, Clause)
Size == Limit(NewOffsetPaging(1, asked.size))

\* A client that has not seen the end has read the pages before the next one,
\* all of them full; the page number has not wrapped.
QueryInv ==
  /\ table \in Tables /\ ended \in BOOLEAN
  /\ asked \in [size : Uint32, dir : {"", "asc", "desc", "DESC"}]
  /\ Len(table) < Word - 1 =>
       /\ got \in Seq(Values) /\ Len(got) <= Len(table)
       /\ \A i \in 1..Len(got) : got[i] = Whole[i]
       /\ ended => Len(got) = Len(table)
       /\ ~ended => page \in 1..(Word - 1) /\ Len(got) = (page - 1) * Size

LEMMA TableDistinct == ASSUME NEW t \in Tables PROVE Distinct(t) /\ Len(t) \in Nat
<1>1. t \in Seq(Values)
  BY QueryAssumption DEF Values
<1>2. DOMAIN t = 1..Len(t) /\ Len(t) \in Nat
  BY <1>1
<1> QED
  BY <1>1, <1>2, QueryAssumption DEF Distinct

LEMMA ClauseOK == ASSUME QueryInv PROVE Clause \in Clauses
<1>1. NewOrder("", ParseDirection(asked.dir)) \in [Column : {"created_at"}, Direction : {"ASC", "DESC"}]
  BY DEF NewOrder, ParseDirection
<1> QED
  BY <1>1 DEF Clause, Clauses, OrderString

\* The clause orders the way the client has asked.
LEMMA BeforeIsInOrder ==
  ASSUME QueryInv, NEW a \in Values, NEW b \in Values
  PROVE  Before(Clause, a, b) <=> InOrder(a, b)
<1>1. CASE asked.dir \in {"desc", "DESC"}
  <2>1. Clause = [desc |-> TRUE, nulls |-> "LAST"]
    BY <1>1 DEF Clause, OrderString, NewOrder, ParseDirection
  <2> QED
    BY <1>1, <2>1, QueryAssumption DEF Before, InOrder, Precedes, Values
<1>2. CASE asked.dir \in {"", "asc"}
  <2>1. Clause = [desc |-> FALSE, nulls |-> "FIRST"]
    BY <1>2 DEF Clause, OrderString, NewOrder, ParseDirection
  <2> QED
    BY <1>2, <2>1, QueryAssumption DEF Before, InOrder, Precedes, Values
<1> QED
  BY <1>1, <1>2 DEF QueryInv

LEMMA WholeProperties ==
  ASSUME QueryInv
  PROVE  /\ Whole \in Seq(Values) /\ Len(Whole) = Len(table) /\ Len(table) \in Nat
         /\ \A i \in 1..Len(table) : /\ Rank(table, Clause, i) \in 1..Len(table)
                                     /\ Whole[Rank(table, Clause, i)] = table[i]
         /\ \A n \in 1..Len(table) : \E i \in 1..Len(table) :
              Rank(table, Clause, i) = n /\ Whole[n] = table[i]
         /\ \A n, m \in 1..Len(table) : n < m => InOrder(Whole[n], Whole[m])
<1>1. Distinct(table) /\ Len(table) \in Nat
  BY TableDistinct DEF QueryInv
<1>2. Clause \in Clauses
  BY ClauseOK
<1>3. /\ Whole \in Seq(Values) /\ Len(Whole) = Len(table)
      /\ \A i \in 1..Len(table) : Whole[Rank(table, Clause, i)] = table[i]
      /\ \A n \in 1..Len(table) : \E i \in 1..Len(table) :
           Rank(table, Clause, i) = n /\ Whole[n] = table[i]
      /\ \A n, m \in 1..Len(table) : n < m => Before(Clause, Whole[n], Whole[m])
  BY <1>1, <1>2, OrderByProperties DEF Whole
<1>4. \A i \in 1..Len(table) : Rank(table, Clause, i) \in 1..Len(table)
  BY <1>1, <1>2, RankRange
<1>5. \A n \in 1..Len(table) : Whole[n] \in Values
  BY <1>3
<1>6. ASSUME NEW n \in 1..Len(table), NEW m \in 1..Len(table), n < m
      PROVE  InOrder(Whole[n], Whole[m])
  BY <1>3, <1>5, <1>6, BeforeIsInOrder
<1> QED
  BY <1>1, <1>3, <1>4, <1>6

LEMMA SizeRange ==
  ASSUME QueryInv
  PROVE  /\ Size \in 1..MaxPageSize
         /\ Size = IF asked.size = 0 THEN DefaultPageSize
                   ELSE IF asked.size <= MaxPageSize THEN asked.size ELSE MaxPageSize
         /\ \A pg \in Uint32 \ {0} : NewOffsetPaging(pg, asked.size) = [Page |-> pg, PageSize |-> Size]
<1>1. asked.size \in 0..(Word - 1)
  BY DEF QueryInv, Uint32
<1> QED
  BY <1>1, QueryAssumption DEF Size, Limit, NewOffsetPaging, DefaultPage, Uint32

LEMMA Product ==
  ASSUME NEW p \in Nat \ {0}, NEW n \in Nat \ {0}
  PROVE  /\ (p - 1) * n \in Nat /\ p * n \in Nat
         /\ (p - 1) * n + n = p * n /\ p <= p * n
OBVIOUS

\* A page is the part of the list behind its offset.
LEMMA ListProperties ==
  ASSUME QueryInv, NEW pg \in Uint32 \ {0}, (pg - 1) * Size < Word
  PROVE  LET off == (pg - 1) * Size IN
         /\ List(pg) \in Seq(Values) /\ Limit(NewOffsetPaging(pg, asked.size)) = Size
         /\ Len(List(pg)) = IF off >= Len(table) THEN 0
                            ELSE IF off + Size > Len(table) THEN Len(table) - off ELSE Size
         /\ \A j \in 1..Len(List(pg)) : off + j \in 1..Len(table) /\ List(pg)[j] = Whole[off + j]
<1> DEFINE off == (pg - 1) * Size
           end == IF off + Size > Len(table) THEN Len(table) ELSE off + Size
<1>1. pg \in Nat \ {0} /\ Word \in Nat
  BY QueryAssumption DEF Uint32
<1>2. Size \in Nat \ {0} /\ NewOffsetPaging(pg, asked.size) = [Page |-> pg, PageSize |-> Size]
  BY SizeRange, QueryAssumption
<1>3. off \in Nat /\ off < Word
  BY <1>1, <1>2, Product
<1> HIDE DEF off
<1>4. Offset(NewOffsetPaging(pg, asked.size)) = off
  <2>1. Offset(NewOffsetPaging(pg, asked.size)) = off % Word
    BY <1>2 DEF Offset, off
  <2> QED
    BY <1>1, <1>3, <2>1
<1>5. Limit(NewOffsetPaging(pg, asked.size)) = Size
  BY <1>2 DEF Limit
<1>6. Len(Whole) = Len(table) /\ Len(table) \in Nat /\ \A i \in 1..Len(table) : Whole[i] \in Values
  BY WholeProperties
<1>7. List(pg) = SubSeq(Whole, off + 1, end)
  BY <1>4, <1>5, <1>6 DEF List, Select, Whole, Clause
<1>8. end \in Nat /\ end <= Len(table)
  BY <1>2, <1>3, <1>6
<1>9. /\ off + 1 \in Int /\ end \in Int
      /\ \A i \in (off + 1)..end : Whole[i] \in Values
  BY <1>3, <1>6, <1>8
<1> HIDE DEF end
<1>10. /\ List(pg) \in Seq(Values)
       /\ Len(List(pg)) = IF off + 1 <= end THEN end - (off + 1) + 1 ELSE 0
       /\ \A i \in 1..(end - (off + 1) + 1) : List(pg)[i] = Whole[off + 1 + i - 1]
  BY <1>7, <1>9, SubSeqProperties
<1>11. ASSUME NEW j \in 1..Len(List(pg)) PROVE off + j \in 1..Len(table) /\ List(pg)[j] = Whole[off + j]
  <2>1. j \in 1..(end - (off + 1) + 1) /\ off + 1 + j - 1 = off + j
    BY <1>3, <1>8, <1>10
  <2> QED
    BY <1>3, <1>6, <1>8, <1>10, <2>1
<1>12. Len(List(pg)) = IF off >= Len(table) THEN 0
                      ELSE IF off + Size > Len(table) THEN Len(table) - off ELSE Size
  BY <1>2, <1>3, <1>6, <1>10 DEF end
<1> QED
  BY <1>5, <1>10, <1>11, <1>12 DEF off

LEMMA QueryInitInv == QueryInit => QueryInv
<1> SUFFICES ASSUME QueryInit PROVE QueryInv
  OBVIOUS
<1>1. table \in Tables /\ asked \in [size : Uint32, dir : {"", "asc", "desc", "DESC"}]
  BY DEF QueryInit
<1>2. got = <<>> /\ page = 1
  BY DEF QueryInit
<1>3. ended = FALSE
  BY DEF QueryInit
<1>4. got \in Seq(Values) /\ Len(got) = 0
  BY <1>2, EmptySeq
<1>5. Len(table) \in Nat
  BY <1>1, TableDistinct
<1>6. Size \in Nat
  <2>1. asked.size \in 0..(Word - 1)
    BY <1>1 DEF Uint32
  <2> QED
    BY <2>1, QueryAssumption DEF Size, Limit, NewOffsetPaging
<1>7. page \in 1..(Word - 1)
  BY <1>2, QueryAssumption
<1>8. Len(got) = (page - 1) * Size
  BY <1>2, <1>4, <1>6
<1>9. Len(got) <= Len(table) /\ \A i \in 1..Len(got) : got[i] = Whole[i]
  BY <1>4, <1>5
<1> QED
  BY <1>1, <1>3, <1>4, <1>7, <1>8, <1>9 DEF QueryInv

LEMMA FetchInv == ASSUME QueryInv, Fetch PROVE QueryInv'
<1>1. /\ table' = table /\ asked' = asked /\ ended = FALSE
      /\ got' = got \o List(page) /\ page' = (page + 1) % Word
      /\ ended' = (Len(List(page)) < Limit(NewOffsetPaging(page, asked.size)))
  BY DEF Fetch, QueryInv
<1>2. Whole' = Whole /\ Size' = Size
  BY <1>1 DEF Whole, Clause, Size
<1>3. /\ Len(table) \in Nat /\ Size \in Nat \ {0} /\ Word \in Nat /\ Size <= MaxPageSize
  <2>1. Len(table) \in Nat
    BY WholeProperties
  <2>2. Size \in 1..MaxPageSize
    BY SizeRange
  <2> QED
    BY <2>1, <2>2, QueryAssumption
<1>4. ASSUME Len(table) < Word - 1
      PROVE  /\ got' \in Seq(Values)
             /\ Len(got') <= Len(table)
             /\ \A i \in 1..Len(got') : got'[i] = Whole[i]
             /\ ended' => Len(got') = Len(table)
             /\ ~ended' => page' \in 1..(Word - 1) /\ Len(got') = (page' - 1) * Size
  <2> DEFINE off == Len(got)
  <2>1. /\ page \in 1..(Word - 1) /\ off = (page - 1) * Size /\ off \in Nat
        /\ got \in Seq(Values) /\ off <= Len(table) /\ \A i \in 1..off : got[i] = Whole[i]
    <3>1. /\ got \in Seq(Values) /\ Len(got) <= Len(table) /\ \A i \in 1..Len(got) : got[i] = Whole[i]
          /\ page \in 1..(Word - 1) /\ Len(got) = (page - 1) * Size
      BY <1>1, <1>4 DEF QueryInv
    <3> QED
      BY <3>1
  <2>2. page \in Uint32 \ {0} /\ (page - 1) * Size < Word
    BY <1>3, <1>4, <2>1 DEF Uint32
  <2>3. /\ List(page) \in Seq(Values) /\ Limit(NewOffsetPaging(page, asked.size)) = Size
        /\ Len(List(page)) = IF off >= Len(table) THEN 0
                             ELSE IF off + Size > Len(table) THEN Len(table) - off ELSE Size
        /\ \A j \in 1..Len(List(page)) : List(page)[j] = Whole[off + j]
    BY <2>1, <2>2, ListProperties
  <2>4. /\ got' \in Seq(Values) /\ Len(got') = off + Len(List(page))
        /\ \A i \in 1..(off + Len(List(page))) :
             got'[i] = IF i <= off THEN got[i] ELSE List(page)[i - off]
    BY <1>1, <2>1, <2>3, ConcatProperties
  <2>5. Len(List(page)) \in Nat
    BY <2>3
  <2> HIDE DEF off
  <2>6. ASSUME NEW i \in 1..Len(got') PROVE got'[i] = Whole[i]
    <3>1. off \in Nat /\ i \in 1..(off + Len(List(page)))
      BY <2>1, <2>4
    <3>2. got'[i] = IF i <= off THEN got[i] ELSE List(page)[i - off]
      BY <2>4, <3>1
    <3>3. CASE i <= off
      <4>1. i \in 1..off
        BY <3>1, <3>3
      <4> QED
        BY <2>1, <3>2, <3>3, <4>1
    <3>4. CASE i > off
      <4>1. i - off \in 1..Len(List(page)) /\ off + (i - off) = i
        BY <2>5, <3>1, <3>4
      <4>2. got'[i] = List(page)[i - off]
        BY <3>1, <3>2, <3>4
      <4> QED
        BY <2>3, <4>1, <4>2
    <3> QED
      BY <3>1, <3>3, <3>4
  <2>7. Len(got') <= Len(table) /\ (Len(List(page)) < Size => Len(got') = Len(table))
    <3>1. Len(List(page)) = IF off >= Len(table) THEN 0
                           ELSE IF off + Size > Len(table) THEN Len(table) - off ELSE Size
      BY <2>3
    <3>2. Len(got') = off + Len(List(page)) /\ off \in Nat /\ off <= Len(table)
      BY <2>1, <2>4
    <3> QED
      BY <1>3, <3>1, <3>2
  <2>8. ended' <=> Len(List(page)) < Size
    BY <1>1, <2>3
  <2>9. ended' => Len(got') = Len(table)
    BY <2>7, <2>8
  <2>10. ASSUME ~ended' PROVE page' \in 1..(Word - 1) /\ Len(got') = (page' - 1) * Size
    <3>1. page \in Nat \ {0}
      BY <1>3, <2>1
    <3>2. /\ (page - 1) * Size + Size = page * Size /\ page <= page * Size
          /\ page * Size \in Nat
      BY <1>3, <3>1, Product
    <3>3. Len(List(page)) = Size /\ off + Size <= Len(table)
      BY <1>3, <2>1, <2>3, <2>8, <2>10
    <3>4. page * Size <= Len(table) /\ Len(got') = page * Size
      BY <2>1, <2>4, <3>2, <3>3
    <3>5. page + 1 < Word
      BY <1>3, <1>4, <3>1, <3>2, <3>4
    <3>6. page' = page + 1
      <4>1. page' = (page + 1) % Word
        BY <1>1
      <4> QED
        BY <1>3, <3>1, <3>5, <4>1
    <3>7. page' - 1 = page
      BY <3>1, <3>6
    <3> QED
      BY <1>3, <3>1, <3>4, <3>5, <3>6, <3>7
  <2> QED
    BY <2>4, <2>6, <2>7, <2>9, <2>10
<1>5. table' \in Tables /\ asked' \in [size : Uint32, dir : {"", "asc", "desc", "DESC"}]
  BY <1>1 DEF QueryInv
<1>6. ended' \in BOOLEAN
  BY <1>1
<1> QED
  BY <1>1, <1>2, <1>4, <1>5, <1>6 DEF QueryInv

LEMMA QueryStepInv == QueryInv /\ [QueryNext]_queryVars => QueryInv'
<1> SUFFICES ASSUME QueryInv, [QueryNext]_queryVars PROVE QueryInv'
  OBVIOUS
<1>1. CASE UNCHANGED queryVars
  <2>1. table' = table /\ asked' = asked /\ got' = got /\ ended' = ended /\ page' = page
    BY <1>1 DEF queryVars
  <2>2. Whole' = Whole /\ Size' = Size
    BY <2>1 DEF Whole, Clause, Size
  <2> QED
    BY <2>1, <2>2 DEF QueryInv
<1>2. CASE Fetch
  BY <1>2, FetchInv
<1> QED
  BY <1>1, <1>2 DEF QueryNext

LEMMA InvGivesEveryRow == QueryInv => EveryRowOnce
<1> SUFFICES ASSUME QueryInv, Len(table) < Word - 1
             PROVE  LET received == {got[i] : i \in 1..Len(got)} IN
                    /\ Sorted(got) /\ received \subseteq Rows
                    /\ \A a \in received, b \in Rows \ received : InOrder(a, b)
                    /\ ended => received = Rows
  BY DEF EveryRowOnce
<1> DEFINE received == {got[i] : i \in 1..Len(got)}
<1>1. /\ got \in Seq(Values) /\ Len(got) <= Len(table) /\ \A i \in 1..Len(got) : got[i] = Whole[i]
      /\ ended => Len(got) = Len(table)
  BY DEF QueryInv
<1>2. /\ Len(table) \in Nat
      /\ \A i \in 1..Len(table) : /\ Rank(table, Clause, i) \in 1..Len(table)
                                  /\ Whole[Rank(table, Clause, i)] = table[i]
      /\ \A n \in 1..Len(table) : \E i \in 1..Len(table) : Whole[n] = table[i]
      /\ \A n, m \in 1..Len(table) : n < m => InOrder(Whole[n], Whole[m])
  BY WholeProperties
<1>3. Len(got) \in Nat /\ 1..Len(got) \subseteq 1..Len(table)
  BY <1>1, <1>2
<1>4. Sorted(got)
  <2> SUFFICES ASSUME NEW i \in 1..Len(got), NEW j \in 1..Len(got), i < j PROVE InOrder(got[i], got[j])
    BY DEF Sorted
  <2>1. i \in 1..Len(table) /\ j \in 1..Len(table) /\ got[i] = Whole[i] /\ got[j] = Whole[j]
    BY <1>1, <1>3
  <2>2. InOrder(Whole[i], Whole[j])
    BY <1>2, <2>1
  <2> QED
    BY <2>1, <2>2
<1>5. received \subseteq Rows
  <2> SUFFICES ASSUME NEW i \in 1..Len(got) PROVE got[i] \in Rows
    OBVIOUS
  <2>1. i \in 1..Len(table) /\ got[i] = Whole[i]
    BY <1>1, <1>3
  <2>2. PICK m \in 1..Len(table) : Whole[i] = table[m]
    BY <1>2, <2>1
  <2> QED
    BY <2>1, <2>2 DEF Rows
<1>6. ASSUME NEW a \in received, NEW b \in Rows \ received PROVE InOrder(a, b)
  <2>1. PICK i \in 1..Len(got) : a = got[i]
    OBVIOUS
  <2>2. PICK m \in 1..Len(table) : b = table[m]
    BY DEF Rows
  <2> DEFINE r == Rank(table, Clause, m)
  <2>3. r \in 1..Len(table) /\ Whole[r] = b
    BY <1>2, <2>2
  <2> HIDE DEF r
  <2>4. r \notin 1..Len(got)
    BY <1>1, <2>3
  <2>5. i < r /\ i \in 1..Len(table) /\ a = Whole[i]
    BY <1>1, <1>3, <2>1, <2>3, <2>4
  <2> QED
    BY <1>2, <2>3, <2>5
<1>7. ASSUME ended, NEW b \in Rows PROVE b \in received
  <2>1. PICK m \in 1..Len(table) : b = table[m]
    BY DEF Rows
  <2>2. PICK r \in 1..Len(table) : Whole[r] = b
    BY <1>2, <2>1
  <2>3. r \in 1..Len(got)
    BY <1>1, <1>7
  <2> QED
    BY <1>1, <2>2, <2>3
<1>8. ended => received = Rows
  BY <1>5, <1>7
<1> QED
  BY <1>4, <1>5, <1>6, <1>8

\* A client that reads a list page by page receives every row once and in
\* order, whatever page size it asks for, the sizes NewOffsetPaging replaces
\* included, and however long the list is, if the page numbers fit a word.
THEOREM EveryRowAlwaysOnce == QuerySpec => []EveryRowOnce
BY InvGivesEveryRow, QueryInitInv, QueryStepInv, PTL DEF QuerySpec

LEMMA EarlierRows ==
  ASSUME QueryInv, NEW i \in 1..Len(table)
  PROVE  Cardinality({j \in 1..Len(table) : InOrder(table[j], table[i])}) = Rank(table, Clause, i) - 1
<1>1. \A j \in 1..Len(table) : table[j] \in Values
  <2>1. Distinct(table)
    BY TableDistinct DEF QueryInv
  <2> QED
    BY <2>1 DEF Distinct
<1>2. {j \in 1..Len(table) : InOrder(table[j], table[i])} = Ahead(table, Clause, i)
  BY <1>1, BeforeIsInOrder DEF Ahead
<1>3. Cardinality(Ahead(table, Clause, i)) \in Nat
  BY AheadFinite, TableDistinct DEF QueryInv
<1> QED
  <2>1. Rank(table, Clause, i) = Cardinality(Ahead(table, Clause, i)) + 1
    BY Zenon DEF Rank, Ahead
  <2>2. Rank(table, Clause, i) - 1 = Cardinality(Ahead(table, Clause, i))
    BY <1>3, <2>1
  <2> QED
    BY <1>2, <2>2, Zenon

LEMMA Quotient ==
  ASSUME NEW a \in Nat, NEW n \in Nat \ {0}, NEW q \in Nat
  PROVE  a \div n = q <=> q * n <= a /\ a < q * n + n
<1> DEFINE d == a \div n
           r == a % n
<1>1. d \in Nat /\ r \in 0..(n - 1) /\ a = d * n + r
  OBVIOUS
<1> HIDE DEF d, r
<1>2. ASSUME d < q PROVE ~(q * n <= a)
  <2>1. (d + 1) * n <= q * n
    BY <1>1, <1>2
  <2> QED
    BY <1>1, <2>1
<1>3. ASSUME d > q PROVE ~(a < q * n + n)
  <2>1. (q + 1) * n <= d * n
    BY <1>1, <1>3
  <2> QED
    BY <1>1, <2>1
<1>4. d = q => q * n <= a /\ a < q * n + n
  BY <1>1
<1> QED
  BY <1>1, <1>2, <1>3, <1>4 DEF d

LEMMA InvGivesPage == QueryInv => PageAsAsked
<1> SUFFICES ASSUME QueryInv, NEW pg \in Uint32 \ {0}, (pg - 1) * Size < Word
             PROVE  /\ Len(List(pg)) <= MaxPageSize
                    /\ Sorted(List(pg))
                    /\ {List(pg)[i] : i \in 1..Len(List(pg))}
                         = {v \in Rows : Cardinality({i \in 1..Len(table) : InOrder(table[i], v)})
                                           \div Size = pg - 1}
  BY SizeRange DEF PageAsAsked
<1> DEFINE off == (pg - 1) * Size
           Earlier(v) == Cardinality({i \in 1..Len(table) : InOrder(table[i], v)})
<1>1. pg \in Nat \ {0} /\ Size \in Nat \ {0} /\ Size <= MaxPageSize /\ MaxPageSize \in Nat
  <2>1. Size \in 1..MaxPageSize
    BY SizeRange
  <2> QED
    BY <2>1, QueryAssumption DEF Uint32
<1>2. off \in Nat
  BY <1>1, Product
<1>3. /\ List(pg) \in Seq(Values)
      /\ Len(List(pg)) = IF off >= Len(table) THEN 0
                         ELSE IF off + Size > Len(table) THEN Len(table) - off ELSE Size
      /\ \A j \in 1..Len(List(pg)) : off + j \in 1..Len(table) /\ List(pg)[j] = Whole[off + j]
  BY ListProperties
<1>4. /\ Len(table) \in Nat
      /\ \A i \in 1..Len(table) : /\ Rank(table, Clause, i) \in 1..Len(table)
                                  /\ Whole[Rank(table, Clause, i)] = table[i]
      /\ \A n \in 1..Len(table) : \E i \in 1..Len(table) :
           Rank(table, Clause, i) = n /\ Whole[n] = table[i]
      /\ \A n, m \in 1..Len(table) : n < m => InOrder(Whole[n], Whole[m])
  BY WholeProperties
<1>5. \A i \in 1..Len(table) : Earlier(table[i]) = Rank(table, Clause, i) - 1
  BY EarlierRows
<1> HIDE DEF Earlier
<1>6. ASSUME NEW k \in 1..Len(table)
      PROVE  (k - 1) \div Size = pg - 1 <=> off <= k - 1 /\ k - 1 < off + Size
  <2>1. k - 1 \in Nat /\ pg - 1 \in Nat /\ Size \in Nat \ {0}
    BY <1>1
  <2> QED
    BY <2>1, Quotient
<1> HIDE DEF off
<1>7. Len(List(pg)) <= MaxPageSize
  BY <1>1, <1>2, <1>3, <1>4
<1>8. Sorted(List(pg))
  <2> SUFFICES ASSUME NEW i \in 1..Len(List(pg)), NEW j \in 1..Len(List(pg)), i < j
               PROVE  InOrder(List(pg)[i], List(pg)[j])
    BY DEF Sorted
  <2>1. /\ off + i \in 1..Len(table) /\ List(pg)[i] = Whole[off + i]
        /\ off + j \in 1..Len(table) /\ List(pg)[j] = Whole[off + j]
    BY <1>3
  <2>2. off + i < off + j
    BY <1>2, <1>3
  <2>3. InOrder(Whole[off + i], Whole[off + j])
    BY <1>4, <2>1, <2>2
  <2> QED
    BY <2>1, <2>3
<1>9. ASSUME NEW j \in 1..Len(List(pg))
      PROVE  List(pg)[j] \in Rows /\ Earlier(List(pg)[j]) \div Size = pg - 1
  <2> DEFINE k == off + j
  <2>1. k \in 1..Len(table) /\ List(pg)[j] = Whole[k]
    BY <1>3
  <2>2. off <= k - 1 /\ k - 1 < off + Size
    <3>1. j \in Nat /\ 1 <= j /\ j <= Size
      BY <1>1, <1>2, <1>3, <1>4
    <3> QED
      BY <1>1, <1>2, <3>1
  <2> HIDE DEF k
  <2>3. PICK i \in 1..Len(table) : Rank(table, Clause, i) = k /\ Whole[k] = table[i]
    BY <1>4, <2>1
  <2>4. Earlier(table[i]) = k - 1
    BY <1>5, <2>3
  <2>5. (k - 1) \div Size = pg - 1
    BY <1>6, <2>1, <2>2
  <2> QED
    BY <2>1, <2>3, <2>4, <2>5 DEF Rows
<1>10. ASSUME NEW v \in Rows, Earlier(v) \div Size = pg - 1
       PROVE  \E j \in 1..Len(List(pg)) : v = List(pg)[j]
  <2>1. PICK i \in 1..Len(table) : v = table[i]
    BY DEF Rows
  <2> DEFINE r == Rank(table, Clause, i)
  <2>2. r \in 1..Len(table) /\ Whole[r] = v /\ Earlier(v) = r - 1
    BY <1>4, <1>5, <2>1
  <2> HIDE DEF r
  <2>3. off <= r - 1 /\ r - 1 < off + Size
    BY <1>6, <1>10, <2>2
  <2>4. r - off \in 1..Len(List(pg)) /\ off + (r - off) = r
    <3>1. Len(List(pg)) = IF off >= Len(table) THEN 0
                         ELSE IF off + Size > Len(table) THEN Len(table) - off ELSE Size
      BY <1>3
    <3> QED
      <4>1. Len(table) \in Nat /\ r \in Nat /\ 1 <= r /\ r <= Len(table)
        BY <1>4, <2>2
      <4> QED
        BY <1>1, <1>2, <2>3, <3>1, <4>1
  <2>5. List(pg)[r - off] = v
    BY <1>3, <2>2, <2>4
  <2> QED
    BY <2>4, <2>5
<1>11. {List(pg)[i] : i \in 1..Len(List(pg))} = {v \in Rows : Earlier(v) \div Size = pg - 1}
  BY <1>9, <1>10
<1> QED
  BY <1>7, <1>8, <1>11 DEF Earlier

\* Any page a client asks for, of any size, has the rows its number stands for
\* and no more than MaxPageSize, as long as its offset fits a word.
THEOREM PagesAlwaysAsAsked == QuerySpec => []PageAsAsked
BY InvGivesPage, QueryInitInv, QueryStepInv, PTL DEF QuerySpec
=============================================================================
