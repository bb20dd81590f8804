--------------------------- MODULE IbmDbErrorsProofs ---------------------------
(***************************************************************************)
(* Proofs about IbmDbErrors.  A function of the API is a sequence of       *)
(* driver calls, so what it keeps is shown for one call and carried along  *)
(* the sequence.  The invariant says of each struct what it may keep:      *)
(* diagnostics of its own handle, failures reported to it and, if anything *)
(* was reported to it, the last of these.                                  *)
(***************************************************************************)
EXTENDS IbmDbErrors, WellFoundedInduction, SequenceTheorems, TLAPS

-----------------------------------------------------------------------------
(* Sequences of calls.                                                     *)

\* A non-empty set of numbers has a least one.
LEMMA Least ==
    ASSUME NEW T \in SUBSET Nat, T # {}
    PROVE  \E x \in T : \A y \in T : ~(y < x)
<1> DEFINE R == OpToRel(<, Nat)
<1>1. IsWellFoundedOn(R, Nat)
  BY NatLessThanWellFounded
<1>2. \A x, y \in Nat : <<y, x>> \in R <=> y < x
  BY DEF OpToRel
<1> HIDE DEF R
<1>3. \E x \in T : \A y \in T : ~(<<y, x>> \in R)
  BY <1>1, WFMin
<1> QED
  BY <1>2, <1>3

\* Is f the error states after each of the first n calls?
Fits(f, n, prog, results, b) ==
    f = [m \in 0..n |-> IF m = 0 THEN {b}
                        ELSE UNION {Each(st, prog[m], results) : st \in f[m - 1]}]

\* They exist: the definition by recursion in Outcomes is one.
LEMMA AfterExists ==
    ASSUME NEW n \in Nat, NEW prog, NEW results, NEW b
    PROVE  \E f : Fits(f, n, prog, results, b)
<1> DEFINE Bad == {k \in Nat : ~\E f : Fits(f, k, prog, results, b)}
<1>1. SUFFICES ASSUME Bad # {} PROVE FALSE
  OBVIOUS
<1>2. PICK k \in Bad : \A j \in Bad : ~(j < k)
  BY <1>1, Least
<1>3. CASE k = 0
  <2> DEFINE f == [m \in 0..0 |-> {b}]
  <2>1. Fits(f, 0, prog, results, b)
    BY DEF Fits
  <2> QED
    BY <1>2, <1>3, <2>1
<1>4. CASE k # 0
  <2>1. k \in Nat /\ k - 1 \in Nat /\ k - 1 < k
    BY <1>2, <1>4
  <2>2. PICK f : Fits(f, k - 1, prog, results, b)
    BY <1>2, <2>1
  <2> DEFINE Nexts(S, m) == UNION {Each(st, prog[m], results) : st \in S}
             e == [m \in 0..k |-> IF m = k THEN Nexts(f[k - 1], k) ELSE f[m]]
  <2>3. \A m \in 0..(k - 1) : f[m] = IF m = 0 THEN {b} ELSE Nexts(f[m - 1], m)
    BY <2>2, Zenon DEF Fits
  <2>4. /\ \A m \in 0..k : m # k => m \in 0..(k - 1)
        /\ \A m \in 0..k : m # 0 => m - 1 \in 0..(k - 1) /\ m - 1 \in 0..k /\ m - 1 # k
        /\ k \in 0..k
    BY <2>1
  <2> HIDE DEF Nexts
  <2>5. \A m \in 0..k : e[m] = IF m = 0 THEN {b} ELSE Nexts(e[m - 1], m)
    BY <2>3, <2>4, <1>4
  <2>6. e = [m \in 0..k |-> IF m = 0 THEN {b} ELSE Nexts(e[m - 1], m)]
    <3> DEFINE F == [m \in 0..k |-> IF m = 0 THEN {b} ELSE Nexts(e[m - 1], m)]
    <3>1. \A m \in 0..k : e[m] = F[m]
      BY <2>5
    <3> QED
      BY <3>1
  <2>7. Fits(e, k, prog, results, b)
    BY <2>6 DEF Fits, Nexts
  <2> QED
    BY <1>2, <2>7
<1> QED
  BY <1>3, <1>4

\* What holds at the beginning and is carried along by every call holds at the
\* end; J[n] is what is known after n calls.
LEMMA OutcomesReach ==
    ASSUME NEW prog, Len(prog) \in Nat, NEW results, NEW r, NEW g, NEW J,
           Begun(r, g) \in J[0],
           \A n \in 1..Len(prog) : \A st \in J[n - 1] :
               Each(st, prog[n], results) \subseteq J[n]
    PROVE  Outcomes(prog, results, r, g) \subseteq J[Len(prog)]
<1> DEFINE L == Len(prog)
           b == Begun(r, g)
           f == CHOOSE f : Fits(f, L, prog, results, b)
<1>1. Fits(f, L, prog, results, b)
  BY AfterExists, Zenon
<1>2. Outcomes(prog, results, r, g) = f[L]
  BY DEF Outcomes, Fits
<1> DEFINE Bad == {n \in Nat : n <= L /\ ~(f[n] \subseteq J[n])}
<1> HIDE DEF f, b
<1>3. /\ f[0] = {b}
      /\ \A n \in 1..L : f[n] = UNION {Each(st, prog[n], results) : st \in f[n - 1]}
  <2>1. \A m \in 0..L : f[m] = IF m = 0 THEN {b}
                               ELSE UNION {Each(st, prog[m], results) : st \in f[m - 1]}
    BY <1>1, Zenon DEF Fits
  <2>2. 0 \in 0..L /\ \A n \in 1..L : n \in 0..L /\ n # 0
    OBVIOUS
  <2> QED
    BY <2>1, <2>2
<1>4. ASSUME NEW n \in Bad, \A m \in Bad : ~(m < n) PROVE FALSE
  <2>1. n # 0
    BY <1>3 DEF b
  <2>2. n - 1 \in Nat /\ n - 1 <= L /\ n - 1 < n /\ n \in 1..L
    BY <2>1
  <2>3. f[n - 1] \subseteq J[n - 1]
    BY <1>4, <2>2
  <2>4. f[n] \subseteq J[n]
    BY <1>3, <2>2, <2>3
  <2> QED
    BY <2>4
<1>5. Bad = {}
  BY <1>4, Least
<1> QED
  BY <1>2, <1>5

-----------------------------------------------------------------------------
(* The invariant.                                                          *)

\* What is kept of errors for resource q: struct x, diagnostics d of its handle,
\* last report p to it.
Tidy(q, x, d, p) ==
    /\ x \in ResRecords /\ d \in Failures /\ p \in Failures
    /\ ~x.live => x = NoRes /\ d = None /\ p = None
    /\ q \in Stmts => x.errorType = 1 /\ (x.live => x.conn \in Conns)
    /\ d # None => d.on = q
    /\ x.err.msg # None => x.err.msg.to = q
    /\ x.err.state # None => x.err.state.to = q
    /\ p # None => /\ x.err.msg = p
                   /\ \/ x.err.state = p
                      \/ q \in Stmts /\ p.on \in Conns

\* The failures kept for the process.
Globals == [conn : Failures, stmt : Failures]
Apart(g) == g.conn.on \in Conns \union {NULL} /\ g.stmt.on \notin Conns

\* A cleared cache has nothing, or the rest of a failure.
Cleared(f) == f = None \/ ~f.whole

Good(r, d, g, n, p) ==
    /\ r \in [Resources -> ResRecords] /\ d \in [Resources -> Failures]
    /\ g \in Globals /\ n \in 0..MaxFailures /\ p \in [Resources -> Failures]
    /\ Apart(g)
    /\ \A q \in Resources : Tidy(q, r[q], d[q], p[q])

Inv ==
    /\ Good(res, diag, global, failures, reported)
    /\ last \in [fn : {"other", "connect", "exec", "nx"}, ok : BOOLEAN, failure : Failures]
    /\ FullAnswerIsOfAttempt /\ NxIsTrue

\* The error states within a function that started with structs r.
RunStates ==
    [res : [Resources -> ResRecords], diag : [Resources -> Failures], global : Globals,
     failures : 0..MaxFailures, reported : [Resources -> Failures],
     failure : Failures, ok : BOOLEAN]

Runs(r) ==
    {st \in RunStates :
        /\ Good(st.res, st.diag, st.global, st.failures, st.reported)
        /\ \A q \in Resources : st.res[q].live = r[q].live /\ st.res[q].conn = r[q].conn}

\* The calls a function makes: on handles of live structs, or of none, reporting
\* to live structs, or to none.
Calls(r) ==
    {d \in [on : Resources \union {Scratch}, to : Resources \union {NULL},
            stops : BOOLEAN, quiet : BOOLEAN] :
        /\ d.on # Scratch => r[d.on].live
        /\ d.to # NULL => r[d.to].live
        /\ d.quiet => d.on \in Conns /\ d.to \in Stmts}

-----------------------------------------------------------------------------
(* One call.                                                               *)

LEMMA NoneIs ==
    /\ None \in Failures /\ None.n = 0 /\ None.on = NULL /\ None.to = NULL
    /\ NoRes \in ResRecords /\ ~NoRes.live /\ NoRes.errorType = 1 /\ NoRes.conn = NULL
    /\ NoRes.err.msg = None /\ NoRes.err.state = None
    /\ NULL \notin Resources /\ Scratch \notin Resources /\ Scratch # NULL
    /\ MaxFailures \in Nat /\ MaxRecno \in Nat /\ MaxRecno >= 1
    /\ Conns \intersect Stmts = {} /\ Conns \union Stmts = Resources
<1>1. None \in Failures
  BY ErrorsAssumption DEF None, Failures
<1>2. NoRes \in ResRecords
  <2>1. [msg |-> None, state |-> None] \in [msg : Failures, state : Failures]
    BY <1>1
  <2>2. [msg |-> 0, state |-> 0] \in [msg : 0..MaxRecno, state : 0..MaxRecno]
    BY ErrorsAssumption
  <2> QED
    BY <2>1, <2>2 DEF NoRes, ResRecords
<1>3. NoRes.err = [msg |-> None, state |-> None] /\ ~NoRes.live /\ NoRes.errorType = 1 /\ NoRes.conn = NULL
  BY DEF NoRes
<1>4. None.n = 0 /\ None.on = NULL /\ None.to = NULL
  BY DEF None
<1> QED
  BY <1>1, <1>2, <1>3, <1>4, ErrorsAssumption DEF Resources

\* The report of a failure to the struct it goes to.
LEMMA KeptTidy ==
    ASSUME NEW q \in Resources, NEW x, NEW g, NEW p, Tidy(q, x, g, p), x.live,
           NEW d, d.quiet \in BOOLEAN, d.quiet => d.on \in Conns /\ q \in Stmts,
           d.to = q, NEW f \in Failures, f # None, f.on = d.on, f.to = q,
           NEW y, y = Kept(x, d, f)
    PROVE  /\ Tidy(q, y, g, f) /\ y.live /\ y.conn = x.conn
           /\ ~d.quiet => y.exists = f.exists
<1>1. x \in ResRecords /\ g \in Failures
  BY DEF Tidy
<1>2. CASE d.quiet
  <2> DEFINE e == [msg |-> f, state |-> x.err.state]
  <2>1. y = [x EXCEPT !.err = e]
    BY <1>1, <1>2 DEF Kept, ResRecords
  <2>2. e \in [msg : Failures, state : Failures] /\ e.msg = f /\ e.state = x.err.state
    BY <1>1 DEF ResRecords
  <2> HIDE DEF e
  <2>3. y \in ResRecords
    BY <1>1, <2>1, <2>2 DEF ResRecords
  <2>4. /\ y.err = e /\ y.live = x.live
        /\ y.conn = x.conn /\ y.errorType = x.errorType
    BY <1>1, <2>1 DEF ResRecords
  <2> QED
    BY <1>1, <1>2, <2>2, <2>3, <2>4 DEF Tidy
<1>3. CASE ~d.quiet
  <2> DEFINE type == IF d.on \in Conns THEN 1 ELSE IF d.to \in Conns THEN 0 ELSE x.errorType
             e == [msg |-> f, state |-> f]
  <2>1. y = [x EXCEPT !.err = e, !.exists = f.exists, !.errorType = type]
    BY <1>1, <1>3 DEF Kept, ResRecords
  <2>2. /\ type \in {0, 1} /\ f.exists \in BOOLEAN
        /\ e \in [msg : Failures, state : Failures] /\ e.msg = f /\ e.state = f
    BY <1>1 DEF ResRecords, Failures
  <2>3. q \in Stmts => type = 1
    BY NoneIs DEF Tidy
  <2> HIDE DEF type, e
  <2>4. y \in ResRecords
    BY <1>1, <2>1, <2>2 DEF ResRecords
  <2>5. /\ y.err = e /\ y.exists = f.exists
        /\ y.live = x.live /\ y.conn = x.conn /\ y.errorType = type
    BY <1>1, <2>1 DEF ResRecords
  <2>6. y.err.msg = f /\ y.err.state = f /\ y.live /\ (q \in Stmts => y.errorType = 1)
    BY <2>2, <2>3, <2>5
  <2>7. q \in Stmts => y.conn \in Conns
    BY <2>5 DEF Tidy
  <2>8. g # None => g.on = q
    BY DEF Tidy
  <2>9. Tidy(q, y, g, f)
    BY <1>1, <2>4, <2>6, <2>7, <2>8 DEF Tidy
  <2> QED
    BY <1>3, <2>5, <2>9
<1> QED
  BY <1>2, <1>3

\* The other fields of an error state.
SameBut(st, w) ==
    /\ w.res = st.res /\ w.global = st.global /\ w.reported = st.reported
    /\ w.failure = st.failure

\* The driver's diagnostics of the handle of a call.
LEMMA DiagnosedRuns ==
    ASSUME NEW r, NEW st \in Runs(r), NEW d \in Calls(r), NEW f \in Failures,
           f = None \/ f.on = d.on, NEW w, w = Diagnosed(st, d, f)
    PROVE  /\ w \in Runs(r) /\ SameBut(st, w)
           /\ w.failures = st.failures /\ w.ok = st.ok
<1>1. CASE d.on = Scratch
  BY <1>1 DEF Diagnosed, SameBut
<1>2. CASE d.on # Scratch
  <2> DEFINE h == d.on
             e == [st.diag EXCEPT ![h] = f]
  <2>1. st \in RunStates /\ h \in Resources /\ r[h].live
    BY <1>2 DEF Runs, Calls
  <2>2. w = [st EXCEPT !.diag = e]
    BY <1>2, <2>1 DEF Diagnosed, RunStates
  <2>3. e \in [Resources -> Failures] /\ e[h] = f /\ \A q \in Resources : q # h => e[q] = st.diag[q]
    BY <2>1 DEF RunStates
  <2> HIDE DEF e
  <2>4. w \in RunStates
    BY <2>1, <2>2, <2>3 DEF RunStates
  <2>5. /\ w.diag = e /\ SameBut(st, w)
        /\ w.failures = st.failures /\ w.ok = st.ok
    BY <2>1, <2>2 DEF RunStates, SameBut
  <2>6. /\ Good(st.res, st.diag, st.global, st.failures, st.reported)
        /\ \A q \in Resources : st.res[q].live = r[q].live /\ st.res[q].conn = r[q].conn
    BY DEF Runs
  <2>7. ASSUME NEW q \in Resources PROVE Tidy(q, st.res[q], e[q], st.reported[q])
    <3>1. Tidy(q, st.res[q], st.diag[q], st.reported[q])
      BY <2>6 DEF Good
    <3>2. CASE q = h
      <4>1. st.res[q].live
        BY <2>1, <2>6, <3>2
      <4> QED
        BY <2>3, <3>1, <3>2, <4>1 DEF Tidy
    <3> QED
      BY <2>3, <3>1, <3>2
  <2>8. Good(w.res, w.diag, w.global, w.failures, w.reported)
    BY <2>3, <2>5, <2>6, <2>7 DEF Good, SameBut
  <2>9. \A q \in Resources : w.res[q].live = r[q].live /\ w.res[q].conn = r[q].conn
    BY <2>5, <2>6 DEF SameBut
  <2> QED
    BY <2>4, <2>5, <2>8, <2>9 DEF Runs
<1> QED
  BY <1>1, <1>2

\* The failure is counted.
LEMMA CountedRuns ==
    ASSUME NEW r, NEW st \in Runs(r), st.failures < MaxFailures, NEW ok \in BOOLEAN,
           NEW w, w = [st EXCEPT !.failures = @ + 1, !.ok = ok]
    PROVE  w \in Runs(r) /\ SameBut(st, w) /\ w.ok = ok
<1>1. /\ st \in RunStates
      /\ Good(st.res, st.diag, st.global, st.failures, st.reported)
      /\ \A q \in Resources : st.res[q].live = r[q].live /\ st.res[q].conn = r[q].conn
  BY DEF Runs
<1>2. st.failures + 1 \in 0..MaxFailures
  BY <1>1, NoneIs DEF RunStates
<1>3. w \in RunStates
  BY <1>1, <1>2 DEF RunStates
<1>4. /\ SameBut(st, w) /\ w.failures = st.failures + 1 /\ w.ok = ok
      /\ w.diag = st.diag
  BY <1>1 DEF RunStates, SameBut
<1>5. Good(w.res, w.diag, w.global, w.failures, w.reported)
  BY <1>1, <1>2, <1>4 DEF Good, SameBut
<1> QED
  BY <1>1, <1>3, <1>4, <1>5 DEF Runs, SameBut

\* The global place for a failure.
Noted(g, d, f) ==
    IF d.on \in Conns THEN [g EXCEPT !.conn = f] ELSE [g EXCEPT !.stmt = f]

\* It is kept in the struct and for the process.
LEMMA ReportedRuns ==
    ASSUME NEW r, NEW st \in Runs(r), NEW d \in Calls(r), d.to # NULL,
           NEW f \in Failures, f # None, f.on = d.on, f.to = d.to,
           NEW w, w = CheckSqlErrors(st, d, f)
    PROVE  /\ w \in Runs(r) /\ w.failure = f /\ w.ok = st.ok
           /\ ~d.quiet => /\ w.global = Noted(st.global, d, f)
                          /\ w.res[d.to].exists = f.exists
<1> DEFINE q == d.to
           y == Kept(st.res[q], d, f)
           rr == [st.res EXCEPT ![q] = y]
           pp == [st.reported EXCEPT ![q] = f]
           gg == IF d.quiet THEN st.global ELSE Noted(st.global, d, f)
<1>1. /\ st \in RunStates
      /\ Good(st.res, st.diag, st.global, st.failures, st.reported)
      /\ \A z \in Resources : st.res[z].live = r[z].live /\ st.res[z].conn = r[z].conn
  BY DEF Runs
<1>2. /\ q \in Resources /\ r[q].live /\ d.quiet \in BOOLEAN
      /\ d.quiet => d.on \in Conns /\ q \in Stmts
  BY DEF Calls
<1>3. /\ Tidy(q, y, st.diag[q], f) /\ y.live /\ y.conn = st.res[q].conn
      /\ ~d.quiet => y.exists = f.exists
  BY <1>1, <1>2, KeptTidy DEF Good
<1>4. w = [st EXCEPT !.res = rr, !.reported = pp, !.failure = f, !.global = gg]
  BY <1>1 DEF CheckSqlErrors, RunStates, Globals, Noted
<1>5. /\ rr \in [Resources -> ResRecords] /\ rr[q] = y
      /\ \A z \in Resources : z # q => rr[z] = st.res[z]
  BY <1>1, <1>2, <1>3 DEF RunStates, Tidy
<1>6. /\ pp \in [Resources -> Failures] /\ pp[q] = f
      /\ \A z \in Resources : z # q => pp[z] = st.reported[z]
  BY <1>1, <1>2 DEF RunStates
<1>7. gg \in Globals /\ Apart(gg)
  <2>1. st.global \in Globals /\ Apart(st.global)
    BY <1>1 DEF Good
  <2>2. CASE d.quiet
    BY <2>1, <2>2
  <2>3. CASE ~d.quiet /\ d.on \in Conns
    BY <2>1, <2>3 DEF Globals, Apart, Noted
  <2>4. CASE ~d.quiet /\ d.on \notin Conns
    BY <2>1, <2>4 DEF Globals, Apart, Noted
  <2> QED
    BY <1>2, <2>2, <2>3, <2>4
<1> HIDE DEF y, rr, pp, gg
<1>8. w \in RunStates
  BY <1>1, <1>4, <1>5, <1>6, <1>7 DEF RunStates
<1>9. /\ w.res = rr /\ w.reported = pp /\ w.failure = f /\ w.global = gg
      /\ w.diag = st.diag /\ w.failures = st.failures /\ w.ok = st.ok
  BY <1>1, <1>4 DEF RunStates
<1>10. \A z \in Resources : Tidy(z, rr[z], st.diag[z], pp[z])
  BY <1>1, <1>3, <1>5, <1>6 DEF Good
<1>11. Good(w.res, w.diag, w.global, w.failures, w.reported)
  BY <1>1, <1>5, <1>6, <1>7, <1>9, <1>10 DEF Good
<1>12. ASSUME NEW z \in Resources
       PROVE  w.res[z].live = r[z].live /\ w.res[z].conn = r[z].conn
  <2>1. CASE z = q
    BY <1>1, <1>2, <1>3, <1>5, <1>9, <2>1
  <2>2. CASE z # q
    BY <1>1, <1>5, <1>9, <2>2
  <2> QED
    BY <2>1, <2>2
<1> QED
  BY <1>3, <1>5, <1>8, <1>9, <1>11, <1>12 DEF Runs, gg

Answers == {"ok", "failed", "exists"}

\* The failure a call makes of answer x.
FailureOf(st, d, x) ==
    [n |-> st.failures + 1, on |-> d.on, to |-> d.to, exists |-> x = "exists",
     whole |-> TRUE]

\* What is known of the error state w after call d answered x.
Told(st, d, x, w) ==
    /\ x = "ok" => SameBut(st, w) /\ w.ok = st.ok
    /\ x # "ok" => w.ok = ~d.stops
    /\ x # "ok" /\ d.to = NULL => SameBut(st, w)
    /\ x # "ok" /\ d.to # NULL =>
          /\ w.failure = FailureOf(st, d, x) /\ w.failure # None
          /\ ~d.quiet => /\ w.global = Noted(st.global, d, w.failure)
                         /\ w.res[d.to].exists = w.failure.exists

LEMMA StepRuns ==
    ASSUME NEW r, NEW st \in Runs(r), NEW d \in Calls(r), NEW x \in Answers,
           x # "ok" => st.failures < MaxFailures, NEW w, w = Step(st, d, x)
    PROVE  w \in Runs(r) /\ Told(st, d, x, w)
<1>1. CASE x = "ok"
  <2>1. w = Diagnosed(st, d, None)
    BY <1>1 DEF Step
  <2>2. /\ w \in Runs(r) /\ SameBut(st, w) /\ w.ok = st.ok
    BY <2>1, NoneIs, DiagnosedRuns
  <2> QED
    BY <1>1, <2>2 DEF Told
<1>2. CASE x # "ok"
  <2> DEFINE f == FailureOf(st, d, x)
             t == Diagnosed(st, d, f)
             go == ~d.stops
             u == [t EXCEPT !.failures = @ + 1, !.ok = go]
  <2>1. st.failures \in 0..MaxFailures /\ st.failures < MaxFailures
    BY <1>2 DEF Runs, RunStates
  <2>2. /\ d.on \in Resources \union {Scratch} /\ d.to \in Resources \union {NULL}
        /\ go \in BOOLEAN
    BY DEF Calls
  <2>3. f.n = st.failures + 1 /\ f.on = d.on /\ f.to = d.to /\ f.exists = (x = "exists")
    BY DEF FailureOf
  <2>4. f \in Failures
    BY <2>1, <2>2, NoneIs DEF FailureOf, Failures
  <2>5. f # None
    BY <2>1, <2>3, NoneIs
  <2>6. w = IF d.to = NULL THEN u ELSE CheckSqlErrors(u, d, f)
    BY <1>2, Zenon DEF Step, FailureOf
  <2> HIDE DEF f
  <2>7. t \in Runs(r) /\ SameBut(st, t) /\ t.failures = st.failures
    BY <2>3, <2>4, DiagnosedRuns
  <2> HIDE DEF t, go
  <2>8. u \in Runs(r) /\ SameBut(t, u) /\ u.ok = go
    BY <2>1, <2>2, <2>7, CountedRuns
  <2> HIDE DEF u
  <2>9. SameBut(st, u)
    BY <2>7, <2>8 DEF SameBut
  <2>10. CASE d.to = NULL
    BY <1>2, <2>6, <2>8, <2>9, <2>10 DEF Told, go
  <2>11. CASE d.to # NULL
    <3>1. w = CheckSqlErrors(u, d, f)
      BY <2>6, <2>11
    <3>2. /\ w \in Runs(r) /\ w.failure = f /\ w.ok = u.ok
          /\ ~d.quiet => /\ w.global = Noted(u.global, d, f)
                         /\ w.res[d.to].exists = f.exists
      BY <2>3, <2>4, <2>5, <2>8, <2>11, <3>1, ReportedRuns
    <3>3. u.global = st.global
      BY <2>9 DEF SameBut
    <3> QED
      BY <1>2, <2>5, <2>8, <2>11, <3>2, <3>3 DEF Told, f, go
  <2> QED
    BY <2>10, <2>11
<1> QED
  BY <1>1, <1>2

-----------------------------------------------------------------------------
(* How functions begin and how they end.                                   *)

\* A struct that was just made, as far as errors go.
Blank(q, x) ==
    /\ x \in ResRecords /\ x.live /\ x.err = NoRes.err
    /\ q \in Stmts => x.errorType = 1 /\ x.conn \in Conns

\* Structs and failures of the process a function may start with.
Begins(r, g) ==
    /\ r \in [Resources -> ResRecords] /\ g \in Globals /\ Apart(g)
    /\ \A q \in Resources : r[q] = res[q] \/ Blank(q, r[q])

LEMMA BegunRuns ==
    ASSUME Inv, NEW r, NEW g, Begins(r, g)
    PROVE  /\ Begun(r, g) \in Runs(r) /\ Begun(r, g).res = r /\ Begun(r, g).global = g
           /\ Begun(r, g).failure = None /\ Begun(r, g).ok
<1> DEFINE w == Begun(r, g)
           pp == [q \in Resources |-> IF r[q] = res[q] THEN reported[q] ELSE None]
<1>1. Good(res, diag, global, failures, reported)
  BY DEF Inv
<1>2. w = [res |-> r, diag |-> diag, global |-> g, failures |-> failures,
           reported |-> pp, failure |-> None, ok |-> TRUE]
  BY DEF Begun
<1>3. pp \in [Resources -> Failures]
  BY <1>1, NoneIs DEF Good
<1>4. ASSUME NEW q \in Resources PROVE Tidy(q, r[q], diag[q], pp[q])
  <2>1. Tidy(q, res[q], diag[q], reported[q])
    BY <1>1 DEF Good
  <2>2. CASE r[q] = res[q]
    BY <2>1, <2>2
  <2>3. CASE r[q] # res[q]
    <3>1. Blank(q, r[q]) /\ pp[q] = None
      BY <2>3 DEF Begins
    <3> QED
      BY <2>1, <3>1, NoneIs DEF Tidy, Blank
  <2> QED
    BY <2>2, <2>3
<1> HIDE DEF pp
<1>5. w \in RunStates
  BY <1>1, <1>2, <1>3, NoneIs DEF RunStates, Good, Begins
<1>6. Good(w.res, w.diag, w.global, w.failures, w.reported)
  BY <1>1, <1>2, <1>3, <1>4 DEF Good, Begins
<1> HIDE DEF w
<1>7. w \in Runs(r) /\ w.res = r /\ w.global = g /\ w.failure = None /\ w.ok
  BY <1>2, <1>5, <1>6 DEF Runs
<1> QED
  BY <1>7 DEF w

LEMMA OutcomesRun ==
    ASSUME Inv, NEW r, NEW g, Begins(r, g), NEW results \in SUBSET Answers,
           NEW prog \in Seq(Calls(r))
    PROVE  Outcomes(prog, results, r, g) \subseteq Runs(r)
<1> DEFINE J == [n \in 0..Len(prog) |-> Runs(r)]
<1>1. Len(prog) \in Nat /\ \A n \in 1..Len(prog) : prog[n] \in Calls(r)
  OBVIOUS
<1>2. Begun(r, g) \in J[0]
  <2>1. Begun(r, g) \in Runs(r)
    BY BegunRuns
  <2> QED
    BY <1>1, <2>1
<1>3. ASSUME NEW n \in 1..Len(prog), NEW st \in J[n - 1]
      PROVE  Each(st, prog[n], results) \subseteq J[n]
  <2>1. st \in Runs(r) /\ J[n] = Runs(r) /\ prog[n] \in Calls(r)
    BY <1>1, <1>3
  <2>2. ASSUME NEW x \in Possible(st, results) PROVE Step(st, prog[n], x) \in Runs(r)
    BY <2>1, <2>2, StepRuns DEF Possible
  <2> QED
    BY <2>1, <2>2 DEF Each
<1>4. J[Len(prog)] = Runs(r)
  BY <1>1
<1> HIDE DEF J
<1> QED
  BY <1>1, <1>2, <1>3, <1>4, OutcomesReach

\* What a function may make of struct x when it ends: nothing, a new struct, or
\* the same with other trackers.
Ended(q, x, y) ==
    \/ y = x
    \/ y = NoRes
    \/ ~x.live /\ Blank(q, y)
    \/ /\ x.live /\ y.live /\ y.conn = x.conn
       /\ y.err = x.err /\ y.errorType = x.errorType

LEMMA EndedTidy ==
    ASSUME NEW q \in Resources, NEW x, NEW d, NEW p, Tidy(q, x, d, p),
           NEW y \in ResRecords, Ended(q, x, y)
    PROVE  Tidy(q, y, IF y.live THEN d ELSE None, IF y.live THEN p ELSE None)
<1>1. CASE y = x
  BY <1>1, NoneIs DEF Tidy
<1>2. CASE y = NoRes
  BY <1>2, NoneIs DEF Tidy
<1>3. CASE ~x.live /\ Blank(q, y)
  BY <1>3, NoneIs DEF Tidy, Blank
<1>4. CASE /\ x.live /\ y.live /\ y.conn = x.conn
           /\ y.err = x.err /\ y.errorType = x.errorType
  BY <1>4 DEF Tidy
<1> QED
  BY <1>1, <1>2, <1>3, <1>4 DEF Ended

LEMMA ReturnsGood ==
    ASSUME NEW r, NEW st \in Runs(r), NEW rr \in [Resources -> ResRecords],
           \A q \in Resources : Ended(q, st.res[q], rr[q]),
           NEW dd, dd = [q \in Resources |-> IF rr[q].live THEN st.diag[q] ELSE None],
           NEW pp, pp = [q \in Resources |-> IF rr[q].live THEN st.reported[q] ELSE None]
    PROVE  Good(rr, dd, st.global, st.failures, pp)
<1>1. Good(st.res, st.diag, st.global, st.failures, st.reported)
  BY DEF Runs
<1>2. dd \in [Resources -> Failures] /\ pp \in [Resources -> Failures]
  BY <1>1, NoneIs DEF Good
<1>3. ASSUME NEW q \in Resources PROVE Tidy(q, rr[q], dd[q], pp[q])
  <2>1. Tidy(q, st.res[q], st.diag[q], st.reported[q])
    BY <1>1 DEF Good
  <2>2. /\ dd[q] = IF rr[q].live THEN st.diag[q] ELSE None
        /\ pp[q] = IF rr[q].live THEN st.reported[q] ELSE None
    OBVIOUS
  <2> QED
    BY <2>1, <2>2, EndedTidy
<1> QED
  BY <1>1, <1>2, <1>3 DEF Good

\* What an attempt to connect leaves of connection failures, and one to make a
\* statement of statement failures: its own last one, or none in full.
ConnTold(w) == w.global.conn = w.failure \/ (w.failure = None /\ Cleared(w.global.conn))

StmtTold(w) ==
    IF w.failure.on \in Stmts THEN w.global.stmt = w.failure ELSE Cleared(w.global.stmt)

\* What the properties ask of the end of a function.
Fulfils(fn, st) ==
    /\ fn \in {"other", "connect", "exec", "nx"}
    /\ fn = "connect" => ConnTold(st)
    /\ fn = "exec" => StmtTold(st)
    /\ fn = "nx" => st.ok = (st.failure = None \/ st.failure.exists)

LEMMA ReturnsHolds ==
    ASSUME NEW r, NEW st \in Runs(r), NEW rr \in [Resources -> ResRecords],
           \A q \in Resources : Ended(q, st.res[q], rr[q]),
           NEW fn, Fulfils(fn, st), Returns(fn, st, rr)
    PROVE  Inv'
<1>1. Good(res', diag', global', failures', reported')
  <2>1. /\ res' = rr /\ global' = st.global /\ failures' = st.failures
        /\ diag' = [q \in Resources |-> IF rr[q].live THEN st.diag[q] ELSE None]
        /\ reported' = [q \in Resources |-> IF rr[q].live THEN st.reported[q] ELSE None]
    BY DEF Returns
  <2> QED
    BY <2>1, ReturnsGood
<1>2. st.failure \in Failures /\ st.ok \in BOOLEAN
  BY DEF Runs, RunStates
<1>3. global' = st.global
  BY DEF Returns
<1>4. CASE fn = "other"
  <2>1. last' = NoCall /\ last'.fn = "other"
    BY <1>4 DEF Returns, NoCall
  <2>2. NoCall \in [fn : {"other", "connect", "exec", "nx"}, ok : BOOLEAN, failure : Failures]
    BY NoneIs DEF NoCall
  <2> QED
    BY <1>1, <2>1, <2>2 DEF Inv, FullAnswerIsOfAttempt, NxIsTrue
<1>5. CASE fn # "other"
  <2>1. last' = [fn |-> fn, ok |-> st.ok, failure |-> st.failure]
    BY <1>5 DEF Returns
  <2>2. last'.fn = fn /\ last'.ok = st.ok /\ last'.failure = st.failure
    BY <2>1
  <2>3. last' \in [fn : {"other", "connect", "exec", "nx"}, ok : BOOLEAN, failure : Failures]
    BY <1>2, <2>1 DEF Fulfils
  <2>4. FullAnswerIsOfAttempt' /\ NxIsTrue'
    BY <1>3, <2>2 DEF Fulfils, ConnTold, StmtTold, Cleared, FullAnswerIsOfAttempt, NxIsTrue,
                      ConnAnswer, StmtAnswer
  <2> QED
    BY <1>1, <2>3, <2>4 DEF Inv
<1> QED
  BY <1>4, <1>5

-----------------------------------------------------------------------------
(* What functions are made of.                                             *)

LEMMA Sequenced ==
    ASSUME NEW D
    PROVE  /\ <<>> \in Seq(D)
           /\ \A a \in D : <<a>> \in Seq(D)
           /\ \A a, b \in D : <<a, b>> \in Seq(D)
           /\ \A p, q \in Seq(D) : p \o q \in Seq(D)
OBVIOUS

\* A call on handle h that reports to struct q.
LEMMA CallIs ==
    ASSUME NEW r, NEW h \in Resources \union {Scratch}, NEW q \in Resources \union {NULL},
           h # Scratch => r[h].live, q # NULL => r[q].live
    PROVE  /\ On(h, q) \in Calls(r) /\ Overlooked(On(h, q)) \in Calls(r)
           /\ h \in Conns /\ q \in Stmts => Quiet(On(h, q)) \in Calls(r)
           /\ On(h, q).on = h /\ On(h, q).to = q /\ On(h, q).stops
           /\ ~On(h, q).quiet
           /\ Overlooked(On(h, q)).on = h /\ ~Overlooked(On(h, q)).quiet
<1> DEFINE d == On(h, q)
           D == [on : Resources \union {Scratch}, to : Resources \union {NULL},
                 stops : BOOLEAN, quiet : BOOLEAN]
<1>1. d \in D /\ d.on = h /\ d.to = q /\ d.stops = TRUE /\ d.quiet = FALSE
  BY DEF On
<1> HIDE DEF d
<1>2. [d EXCEPT !.stops = FALSE] \in D /\ [d EXCEPT !.stops = FALSE].on = h
      /\ [d EXCEPT !.stops = FALSE].to = q /\ [d EXCEPT !.stops = FALSE].quiet = FALSE
  BY <1>1
<1>3. [d EXCEPT !.quiet = TRUE] \in D /\ [d EXCEPT !.quiet = TRUE].on = h
      /\ [d EXCEPT !.quiet = TRUE].to = q
  BY <1>1
<1>4. Overlooked(d) = [d EXCEPT !.stops = FALSE] /\ Quiet(d) = [d EXCEPT !.quiet = TRUE]
  BY DEF Overlooked, Quiet
<1>5. d \in Calls(r) /\ Overlooked(d) \in Calls(r)
  BY <1>1, <1>2, <1>4 DEF Calls
<1>6. h \in Conns /\ q \in Stmts => Quiet(d) \in Calls(r)
  BY <1>3, <1>4 DEF Calls
<1> QED
  BY <1>1, <1>2, <1>4, <1>5, <1>6 DEF d

\* The calls on a live connection, and those on a live statement.
DbcCalls(r) == {d \in Calls(r) : d.on \in Conns /\ ~d.quiet}

LEMMA ConnCalls ==
    ASSUME NEW r, NEW c \in Conns, r[c].live
    PROVE  /\ Dbc(c) \in DbcCalls(r) /\ Overlooked(Dbc(c)) \in DbcCalls(r)
           /\ AssignOption(c) \in DbcCalls(r)
           /\ Overlooked(AssignOption(c)) \in DbcCalls(r)
           /\ On(c, c) \in DbcCalls(r) /\ Unseen(c) \in DbcCalls(r)
<1>1. c \in Resources
  BY NoneIs
<1>2. /\ On(c, c) \in Calls(r) /\ Overlooked(On(c, c)) \in Calls(r)
      /\ On(c, c).on = c /\ ~On(c, c).quiet
      /\ Overlooked(On(c, c)).on = c /\ ~Overlooked(On(c, c)).quiet
  BY <1>1, CallIs
<1>3. /\ Overlooked(On(c, NULL)) \in Calls(r)
      /\ Overlooked(On(c, NULL)).on = c /\ ~Overlooked(On(c, NULL)).quiet
  BY <1>1, CallIs
<1> QED
  BY <1>2, <1>3 DEF Dbc, Unseen, AssignOption, DbcCalls

LEMMA StmtCalls ==
    ASSUME NEW r, NEW s \in Stmts, r[s].live
    PROVE  /\ OnStmt(s) \in Calls(r) /\ Overlooked(OnStmt(s)) \in Calls(r)
           /\ AssignOption(s) \in Calls(r) /\ Overlooked(AssignOption(s)) \in Calls(r)
           /\ On(s, s) \in Calls(r) /\ On(Scratch, s) \in Calls(r)
BY CallIs, NoneIs DEF OnStmt, AssignOption

LEMMA Blanks ==
    /\ \A c \in Conns : \A p \in BOOLEAN : Blank(c, NewConn(p))
    /\ \A s \in Stmts, c \in Conns : Blank(s, NewStmt(c))
    /\ FromFirst \in [msg : 0..MaxRecno, state : 0..MaxRecno]
<1>1. FromFirst \in [msg : 0..MaxRecno, state : 0..MaxRecno]
  BY NoneIs DEF FromFirst
<1>2. ASSUME NEW c \in Conns, NEW p \in BOOLEAN PROVE Blank(c, NewConn(p))
  <2>1. NewConn(p) \in ResRecords
    BY <1>1, NoneIs DEF NewConn, ResRecords
  <2>2. NewConn(p).live /\ NewConn(p).err = NoRes.err
    BY NoneIs DEF NewConn, ResRecords
  <2> QED
    BY <2>1, <2>2, NoneIs DEF Blank
<1>3. ASSUME NEW s \in Stmts, NEW c \in Conns PROVE Blank(s, NewStmt(c))
  <2>1. NewStmt(c) \in ResRecords
    BY <1>1, NoneIs DEF NewStmt, ResRecords
  <2>2. /\ NewStmt(c).live /\ NewStmt(c).err = NoRes.err
        /\ NewStmt(c).errorType = 1 /\ NewStmt(c).conn = c
    BY NoneIs DEF NewStmt, ResRecords
  <2> QED
    BY <2>1, <2>2 DEF Blank
<1> QED
  BY <1>1, <1>2, <1>3

\* next_result makes its struct without trackers.
LEMMA NextBlank ==
    ASSUME NEW s \in Stmts, res[s].conn \in Conns, NEW t \in Stmts
    PROVE  Blank(t, NextStmt(s))
<1> DEFINE c == res[s].conn
           x == NextStmt(s)
<1>1. x = [NoRes EXCEPT !.live = TRUE, !.conn = c]
  BY DEF NextStmt
<1> HIDE DEF x
<1>2. x \in ResRecords /\ x.live /\ x.err = NoRes.err /\ x.errorType = 1 /\ x.conn = c
  BY <1>1, NoneIs DEF ResRecords
<1> QED
  BY <1>2 DEF Blank, x

\* What clearing leaves of a failure: never all of it.
LEMMA RestIs ==
    ASSUME NEW f \in Failures
    PROVE  Rest(f) \in Failures /\ Cleared(Rest(f)) /\ Rest(f).on = f.on
<1>1. CASE f = None
  BY <1>1 DEF Rest, Cleared
<1>2. CASE f # None
  BY <1>2 DEF Rest, Cleared, Failures
<1> QED
  BY <1>1, <1>2

\* What the current structs and failures of the process are like.
LEMMA NowIs ==
    ASSUME Inv
    PROVE  /\ res \in [Resources -> ResRecords] /\ global \in Globals /\ Apart(global)
           /\ \A q \in Resources : Tidy(q, res[q], diag[q], reported[q])
           /\ Begins(res, global) /\ Begins(res, ClearConnErrCache)
           /\ Begins(res, ClearStmtErrCache)
           /\ Cleared(ClearConnErrCache.conn) /\ Cleared(ClearStmtErrCache.stmt)
<1>1. /\ res \in [Resources -> ResRecords] /\ global \in Globals /\ Apart(global)
      /\ \A q \in Resources : Tidy(q, res[q], diag[q], reported[q])
  BY DEF Inv, Good
<1>2. /\ ClearConnErrCache \in Globals /\ Apart(ClearConnErrCache)
      /\ Cleared(ClearConnErrCache.conn)
  <2>1. ClearConnErrCache = [global EXCEPT !.conn = Rest(global.conn)]
    BY DEF ClearConnErrCache
  <2>2. global.conn \in Failures
    BY <1>1 DEF Globals
  <2>3. /\ Rest(global.conn) \in Failures /\ Cleared(Rest(global.conn))
        /\ Rest(global.conn).on = global.conn.on
    BY <2>2, RestIs
  <2> QED
    BY <1>1, <2>1, <2>3 DEF Globals, Apart
<1>3. /\ ClearStmtErrCache \in Globals /\ Apart(ClearStmtErrCache)
      /\ Cleared(ClearStmtErrCache.stmt)
  <2>1. ClearStmtErrCache = [global EXCEPT !.stmt = Rest(global.stmt)]
    BY DEF ClearStmtErrCache
  <2>2. global.stmt \in Failures
    BY <1>1 DEF Globals
  <2>3. /\ Rest(global.stmt) \in Failures /\ Cleared(Rest(global.stmt))
        /\ Rest(global.stmt).on = global.stmt.on
    BY <2>2, RestIs
  <2> QED
    BY <1>1, <2>1, <2>3 DEF Globals, Apart
<1> QED
  BY <1>1, <1>2, <1>3 DEF Begins

\* A usable statement and its connection are live.
LEMMA UsableIs ==
    ASSUME Inv, NEW s \in Stmts, Usable(s)
    PROVE  /\ s \in Resources /\ res[s].live
           /\ res[s].conn \in Conns /\ res[res[s].conn].live
<1>1. s \in Resources
  BY NoneIs
<1> QED
  BY <1>1, NowIs DEF Usable, Open, Tidy

-----------------------------------------------------------------------------
(* What the attempts leave for the readers without a resource.             *)

\* Calls on connections that tell the struct all they tell the process leave
\* the last failure of the function, if any, as that of the process.
LEMMA ConnectTells ==
    ASSUME Inv, NEW r, NEW g, Begins(r, g), Cleared(g.conn),
           NEW prog \in Seq(DbcCalls(r)), NEW results \in SUBSET Answers,
           NEW st \in Outcomes(prog, results, r, g)
    PROVE  st \in Runs(r) /\ ConnTold(st)
<1> DEFINE A == {w \in Runs(r) : ConnTold(w)}
           J == [n \in 0..Len(prog) |-> A]
<1>1. Len(prog) \in Nat /\ \A n \in 1..Len(prog) : prog[n] \in DbcCalls(r)
  OBVIOUS
<1>2. Begun(r, g) \in J[0]
  <2>1. /\ Begun(r, g) \in Runs(r) /\ Begun(r, g).global = g
        /\ Begun(r, g).failure = None
    BY BegunRuns
  <2>2. Begun(r, g) \in A
    BY <2>1 DEF ConnTold
  <2> QED
    BY <1>1, <2>2
<1>3. ASSUME NEW n \in 1..Len(prog), NEW w \in J[n - 1]
      PROVE  Each(w, prog[n], results) \subseteq J[n]
  <2> DEFINE d == prog[n]
  <2>1. w \in A /\ J[n] = A /\ d \in DbcCalls(r)
    BY <1>1, <1>3
  <2>2. ASSUME NEW x \in Possible(w, results) PROVE Step(w, d, x) \in A
    <3> DEFINE v == Step(w, d, x)
    <3>1. /\ w \in Runs(r) /\ d \in Calls(r) /\ d.on \in Conns /\ ~d.quiet
          /\ x \in Answers /\ (x # "ok" => w.failures < MaxFailures)
          /\ ConnTold(w)
      BY <2>1, <2>2 DEF DbcCalls, Possible
    <3> HIDE DEF d
    <3>2. v \in Runs(r) /\ Told(w, d, x, v)
      BY <3>1, StepRuns
    <3>3. CASE SameBut(w, v)
      BY <3>1, <3>2, <3>3 DEF SameBut, ConnTold
    <3>4. CASE v.global = Noted(w.global, d, v.failure)
      <4>1. v.global = [w.global EXCEPT !.conn = v.failure]
        BY <3>1, <3>4 DEF Noted
      <4>2. w.global \in Globals
        BY <3>1 DEF Runs, RunStates
      <4>3. v.global.conn = v.failure
        BY <4>1, <4>2 DEF Globals
      <4> QED
        BY <3>2, <4>3 DEF ConnTold
    <3> QED
      BY <3>1, <3>2, <3>3, <3>4 DEF Told
  <2> HIDE DEF A, J
  <2>3. Each(w, d, results) \subseteq A
    BY <2>1, <2>2 DEF Each
  <2> QED
    BY <2>1, <2>3
<1>4. J[Len(prog)] = A
  BY <1>1
<1>5. Outcomes(prog, results, r, g) \subseteq J[Len(prog)]
  <2> HIDE DEF J
  <2> QED
    BY <1>1, <1>2, <1>3, OutcomesReach
<1> QED
  BY <1>4, <1>5

\* One call of an attempt to make a statement: the first is made on the
\* connection, and ends the attempt if it fails, the others on the statement.
LEMMA AttemptStep ==
    ASSUME NEW r, NEW w \in Runs(r), StmtTold(w), NEW d \in Calls(r), ~d.quiet,
           \/ d.on \in Stmts
           \/ d.on \in Conns /\ w.failure = None,
           d.to # NULL,
           NEW x \in Answers, x # "ok" => w.failures < MaxFailures,
           NEW v, v = Step(w, d, x)
    PROVE  v \in Runs(r) /\ StmtTold(v)
<1>1. v \in Runs(r) /\ Told(w, d, x, v)
  BY StepRuns
<1>2. CASE x = "ok"
  <2>1. SameBut(w, v)
    BY <1>1, <1>2 DEF Told
  <2> QED
    BY <1>1, <2>1 DEF SameBut, StmtTold
<1>3. CASE x # "ok"
  <2>1. /\ v.failure = FailureOf(w, d, x) /\ v.ok = ~d.stops
        /\ v.global = Noted(w.global, d, v.failure)
    BY <1>1, <1>3 DEF Told
  <2>2. v.failure.on = d.on
    BY <2>1 DEF FailureOf
  <2>3. w.global \in Globals
    BY DEF Runs, RunStates
  <2>4. CASE d.on \in Stmts
    <3>1. v.global = [w.global EXCEPT !.stmt = v.failure]
      BY <2>1, <2>4, NoneIs DEF Noted
    <3>2. v.global.stmt = v.failure
      BY <2>3, <3>1 DEF Globals
    <3> QED
      BY <1>1, <2>1, <2>2, <2>4, <3>2 DEF StmtTold
  <2>5. CASE d.on \in Conns /\ w.failure = None
    <3>1. v.global = [w.global EXCEPT !.conn = v.failure]
      BY <2>1, <2>5 DEF Noted
    <3>2. v.global.stmt = w.global.stmt
      BY <2>3, <3>1 DEF Globals
    <3>3. Cleared(w.global.stmt) /\ v.failure.on \notin Stmts
      BY <2>2, <2>5, NoneIs DEF StmtTold
    <3> QED
      BY <1>1, <2>1, <3>2, <3>3 DEF StmtTold
  <2> QED
    BY <2>4, <2>5
<1> QED
  BY <1>2, <1>3

LEMMA AttemptTells ==
    ASSUME Inv, NEW r, NEW g, Begins(r, g), Cleared(g.stmt),
           NEW prog \in Seq(Calls(r)),
           \A n \in 1..Len(prog) : ~prog[n].quiet /\ prog[n].to # NULL,
           \A n \in 1..Len(prog) :
               IF n = 1 THEN prog[n].on \in Conns ELSE prog[n].on \in Stmts,
           NEW results \in SUBSET Answers,
           NEW st \in Outcomes(prog, results, r, g)
    PROVE  st \in Runs(r) /\ StmtTold(st)
<1> DEFINE A(n) == {w \in Runs(r) : StmtTold(w) /\ (n = 0 => w.failure = None)}
           J == [n \in 0..Len(prog) |-> A(n)]
<1>1. Len(prog) \in Nat /\ \A n \in 1..Len(prog) : prog[n] \in Calls(r)
  OBVIOUS
<1>2. Begun(r, g) \in J[0]
  <2>1. /\ Begun(r, g) \in Runs(r) /\ Begun(r, g).global = g
        /\ Begun(r, g).failure = None
    BY BegunRuns
  <2>2. Begun(r, g) \in A(0)
    BY <2>1, NoneIs DEF StmtTold
  <2> QED
    BY <1>1, <2>2
<1>3. ASSUME NEW n \in 1..Len(prog), NEW w \in J[n - 1]
      PROVE  Each(w, prog[n], results) \subseteq J[n]
  <2> DEFINE d == prog[n]
  <2>1. w \in A(n - 1) /\ J[n] = A(n) /\ d \in Calls(r) /\ n # 0
    BY <1>1, <1>3
  <2>2. w \in Runs(r) /\ StmtTold(w) /\ (n = 1 => w.failure = None)
    BY <2>1
  <2>3. /\ ~d.quiet /\ d.to # NULL
        /\ IF n = 1 THEN d.on \in Conns ELSE d.on \in Stmts
    OBVIOUS
  <2>4. ASSUME NEW x \in Possible(w, results) PROVE Step(w, d, x) \in A(n)
    <3>1. x \in Answers /\ (x # "ok" => w.failures < MaxFailures)
      BY <2>4 DEF Possible
    <3> HIDE DEF d
    <3>2. Step(w, d, x) \in Runs(r) /\ StmtTold(Step(w, d, x))
      BY <2>1, <2>2, <2>3, <3>1, AttemptStep
    <3> QED
      BY <2>1, <3>2
  <2>5. w \in A(n)
    BY <2>1, <2>2
  <2> HIDE DEF A, J
  <2>6. Each(w, d, results) \subseteq A(n)
    BY <2>4, <2>5 DEF Each
  <2> QED
    BY <2>1, <2>6
<1>4. J[Len(prog)] \subseteq {w \in Runs(r) : StmtTold(w)}
  BY <1>1
<1>5. Outcomes(prog, results, r, g) \subseteq J[Len(prog)]
  <2> HIDE DEF J
  <2> QED
    BY <1>1, <1>2, <1>3, OutcomesReach
<1> QED
  BY <1>4, <1>5

\* One call on a connection and nothing else: when it fails, the struct has the
\* SQLCODE of the failure.
Sure(w, c) ==
    /\ w.ok => w.failure = None
    /\ ~w.ok => w.failure # None /\ w.res[c].exists = w.failure.exists

LEMMA CreateTells ==
    ASSUME Inv, NEW g, Begins(res, g), NEW c \in Conns, res[c].live,
           NEW results \in SUBSET Answers,
           NEW st \in Outcomes(<<Dbc(c)>>, results, res, g)
    PROVE  st \in Runs(res) /\ Sure(st, c)
<1> DEFINE d == Dbc(c)
           A == {w \in Runs(res) : Sure(w, c)}
           J == [n \in 0..1 |-> A]
<1>1. Begun(res, g) \in A
  BY BegunRuns DEF Sure
<1>2. /\ d \in Calls(res) /\ d.to = c /\ d.stops /\ ~d.quiet /\ d.to # NULL
      /\ Len(<<d>>) = 1 /\ <<d>>[1] = d
  BY ConnCalls, CallIs, NoneIs DEF DbcCalls, Dbc
<1> HIDE DEF d
<1>3. ASSUME NEW w \in A, NEW x \in Possible(w, results), w.ok PROVE Step(w, d, x) \in A
  <2> DEFINE v == Step(w, d, x)
  <2>1. /\ w \in Runs(res) /\ w.failure = None
        /\ x \in Answers /\ (x # "ok" => w.failures < MaxFailures)
    BY <1>3 DEF Possible, Sure
  <2>2. v \in Runs(res) /\ Told(w, d, x, v)
    BY <1>2, <2>1, StepRuns
  <2> HIDE DEF v
  <2>3. CASE x = "ok"
    <3>1. v.ok /\ v.failure = None
      BY <1>3, <2>1, <2>2, <2>3 DEF Told, SameBut
    <3> QED
      BY <2>2, <3>1 DEF v, Sure
  <2>4. CASE x # "ok"
    <3>1. ~v.ok /\ v.failure # None /\ v.res[c].exists = v.failure.exists
      BY <1>2, <2>2, <2>4 DEF Told
    <3> QED
      BY <2>2, <3>1 DEF v, Sure
  <2> QED
    BY <2>3, <2>4
<1>4. ASSUME NEW w \in A PROVE Each(w, d, results) \subseteq A
  <2> HIDE DEF A
  <2> QED
    BY <1>3, <1>4 DEF Each
<1>5. J[0] = A /\ J[1] = A /\ \A n \in 1..1 : n = 1 /\ n - 1 = 0
  OBVIOUS
<1> HIDE DEF J
<1>6. Outcomes(<<d>>, results, res, g) \subseteq J[1]
  <2> DEFINE p == <<d>>
  <2>1. Len(p) = 1 /\ p[1] = d /\ Len(p) \in Nat
    BY <1>2
  <2> HIDE DEF p, A
  <2>2. \A n \in 1..Len(p) : \A w \in J[n - 1] : Each(w, p[n], results) \subseteq J[n]
    BY <1>4, <1>5, <2>1
  <2>3. Begun(res, g) \in J[0]
    BY <1>1, <1>5
  <2>4. Outcomes(p, results, res, g) \subseteq J[Len(p)]
    BY <2>1, <2>2, <2>3, OutcomesReach
  <2> QED
    BY <2>1, <2>4 DEF p
<1> QED
  BY <1>5, <1>6 DEF d

-----------------------------------------------------------------------------
(* The actions.                                                            *)

LEMMA InitHolds == Init => Inv
<1> SUFFICES ASSUME Init PROVE Inv
  OBVIOUS
<1>1. last \in [fn : {"other", "connect", "exec", "nx"}, ok : BOOLEAN, failure : Failures]
      /\ last.fn = "other"
  BY NoneIs DEF Init, NoCall
<1>2. FullAnswerIsOfAttempt /\ NxIsTrue
  BY <1>1 DEF FullAnswerIsOfAttempt, NxIsTrue
<1>3. global \in Globals /\ Apart(global)
  <2>1. global.conn = None /\ global.stmt = None /\ global = [conn |-> None, stmt |-> None]
    BY DEF Init
  <2> QED
    BY <2>1, NoneIs DEF Globals, Apart
<1>4. ASSUME NEW q \in Resources PROVE Tidy(q, res[q], diag[q], reported[q])
  <2>1. res[q] = NoRes /\ diag[q] = None /\ reported[q] = None
    BY DEF Init
  <2> QED
    BY <2>1, NoneIs DEF Tidy
<1>5. /\ res \in [Resources -> ResRecords] /\ diag \in [Resources -> Failures]
      /\ failures \in 0..MaxFailures /\ reported \in [Resources -> Failures]
  BY NoneIs DEF Init
<1> QED
  BY <1>1, <1>2, <1>3, <1>4, <1>5 DEF Inv, Good

\* Functions that change no structs, or leave others behind: rr is what they do.
LEMMA FunctionHolds ==
    ASSUME Inv, NEW r, NEW g, Begins(r, g), NEW prog \in Seq(Calls(r)),
           NEW st \in Outcomes(prog, {"ok", "failed"}, r, g),
           NEW rr \in [Resources -> ResRecords],
           \A q \in Resources : Ended(q, st.res[q], rr[q]),
           Returns("other", st, rr)
    PROVE  Inv'
<1>1. st \in Runs(r)
  BY OutcomesRun DEF Answers
<1>2. Fulfils("other", st)
  BY DEF Fulfils
<1> QED
  BY <1>1, <1>2, ReturnsHolds

LEMMA PlainHolds ==
    ASSUME Inv, NEW progs \in SUBSET Seq(Calls(res)), Plain(progs)
    PROVE  Inv'
<1>1. PICK p \in progs : \E st \in Outcomes(p, {"ok", "failed"}, res, global) :
        Returns("other", st, st.res)
  BY DEF Plain, Function
<1>2. PICK st \in Outcomes(p, {"ok", "failed"}, res, global) : Returns("other", st, st.res)
  BY <1>1
<1>3. p \in Seq(Calls(res)) /\ Begins(res, global)
  BY NowIs
<1>4. st \in Runs(res)
  BY <1>3, OutcomesRun DEF Answers
<1>5. st.res \in [Resources -> ResRecords]
  BY <1>4 DEF Runs, RunStates
<1>6. \A q \in Resources : Ended(q, st.res[q], st.res[q])
  BY DEF Ended
<1> QED
  BY <1>3, <1>5, <1>6, <1>2, FunctionHolds

\* The structs at the end of a run, and the ones that were live before.
LEMMA RunIs ==
    ASSUME NEW r, NEW st \in Runs(r)
    PROVE  /\ st.res \in [Resources -> ResRecords]
           /\ \A q \in Resources :
                /\ st.res[q].live <=> r[q].live
                /\ st.res[q].conn = r[q].conn
BY DEF Runs, RunStates, Good

LEMMA MadeIs ==
    ASSUME NEW r, NEW st \in Runs(r), NEW ok, NEW q \in Resources
    PROVE  /\ Made(st.res, ok, q) \in [Resources -> ResRecords]
           /\ \A z \in Resources : Ended(z, st.res[z], Made(st.res, ok, q)[z])
BY RunIs, NoneIs DEF Made, Ended

LEMMA TrackersIs ==
    ASSUME NEW r, NEW st \in Runs(r), NEW q \in Resources, r[q].live,
           NEW new, new = Refused(st.res, q) \/ new = InitErrorInfo(st.res, q)
    PROVE  /\ new \in [Resources -> ResRecords]
           /\ \A z \in Resources : Ended(z, st.res[z], new[z])
<1> DEFINE x == st.res[q]
           y == [x EXCEPT !.recno = FromFirst]
<1>1. st.res \in [Resources -> ResRecords] /\ x \in ResRecords /\ x.live
  BY RunIs
<1>2. y \in ResRecords /\ y.live /\ y.conn = x.conn /\ y.err = x.err /\ y.errorType = x.errorType
  <2> HIDE DEF x
  <2> QED
    BY <1>1, Blanks DEF ResRecords
<1>3. new = [st.res EXCEPT ![q] = y]
  BY <1>1 DEF Refused, InitErrorInfo
<1> HIDE DEF y
<1>4. new[q] = y /\ \A z \in Resources : z # q => new[z] = st.res[z]
  BY <1>1, <1>3
<1>5. new \in [Resources -> ResRecords]
  BY <1>1, <1>2, <1>3
<1> QED
  BY <1>1, <1>2, <1>4, <1>5 DEF Ended

\* A struct made at the beginning of a function.
With(q, x) == [res EXCEPT ![q] = x]

LEMMA BeginsNew ==
    ASSUME Inv, NEW q \in Resources, NEW x, Blank(q, x), NEW g \in Globals, Apart(g)
    PROVE  /\ Begins(With(q, x), g) /\ With(q, x)[q] = x
           /\ \A z \in Resources : z # q => With(q, x)[z] = res[z]
BY NowIs DEF Begins, Blank, With

LEMMA ConnectHolds ==
    ASSUME Inv, NEW c \in Conns, Connect(c) \/ Pconnect(c)
    PROVE  Inv'
<1>1. PICK persistent \in BOOLEAN,
           p \in {<<Dbc(c), Unseen(c)>> \o Options(c) \o <<Dbc(c)>>,
                  <<Unseen(c)>>, <<Unseen(c)>> \o Options(c)} :
        \E st \in Outcomes(p, {"ok", "failed"}, [res EXCEPT ![c] = NewConn(persistent)],
                           ClearConnErrCache) :
            Returns("connect", st, Made(st.res, st.ok, c))
  <2>1. CASE Connect(c)
    BY <2>1 DEF Connect, Function
  <2>2. CASE Pconnect(c)
    BY <2>2 DEF Pconnect, Function
  <2> QED
    BY <2>1, <2>2
<1> DEFINE r == [res EXCEPT ![c] = NewConn(persistent)]
<1>2. PICK st \in Outcomes(p, {"ok", "failed"}, r, ClearConnErrCache) :
        Returns("connect", st, Made(st.res, st.ok, c))
  BY <1>1
<1>3. /\ Begins(r, ClearConnErrCache) /\ r[c].live /\ c \in Resources
      /\ Cleared(ClearConnErrCache.conn)
  <2>1. /\ Blank(c, NewConn(persistent)) /\ NewConn(persistent).live /\ c \in Resources
        /\ Begins(res, ClearConnErrCache) /\ Cleared(ClearConnErrCache.conn)
    BY Blanks, NowIs, NoneIs DEF Blank
  <2>2. r = With(c, NewConn(persistent))
    BY DEF With
  <2> HIDE DEF r
  <2>3. Begins(r, ClearConnErrCache) /\ r[c] = NewConn(persistent)
    BY <2>1, <2>2, BeginsNew DEF Begins
  <2> QED
    BY <2>1, <2>3
<1> HIDE DEF r
<1>4. p \in Seq(DbcCalls(r))
  <2>1. Options(c) \in Seq(DbcCalls(r))
    BY <1>3, ConnCalls, Sequenced DEF Options
  <2>2. /\ <<Dbc(c), Unseen(c)>> \in Seq(DbcCalls(r))
        /\ <<Dbc(c)>> \in Seq(DbcCalls(r)) /\ <<Unseen(c)>> \in Seq(DbcCalls(r))
    BY <1>3, ConnCalls, Sequenced
  <2>3. <<Dbc(c), Unseen(c)>> \o Options(c) \in Seq(DbcCalls(r))
    BY <2>1, <2>2, Sequenced
  <2>4. <<Dbc(c), Unseen(c)>> \o Options(c) \o <<Dbc(c)>> \in Seq(DbcCalls(r))
    BY <2>2, <2>3, Sequenced
  <2>5. <<Unseen(c)>> \o Options(c) \in Seq(DbcCalls(r))
    BY <2>1, <2>2, Sequenced
  <2> QED
    BY <2>2, <2>4, <2>5
<1>5. st \in Runs(r) /\ ConnTold(st)
  BY <1>3, <1>4, ConnectTells DEF Answers
<1>6. Fulfils("connect", st)
  BY <1>5 DEF Fulfils
<1>7. /\ Made(st.res, st.ok, c) \in [Resources -> ResRecords]
      /\ \A z \in Resources : Ended(z, st.res[z], Made(st.res, st.ok, c)[z])
  BY <1>3, <1>5, MadeIs
<1> QED
  BY <1>5, <1>6, <1>7, <1>2, ReturnsHolds

LEMMA CloseHolds ==
    ASSUME Inv, NEW c \in Conns, Close(c)
    PROVE  Inv'
<1>1. PICK st \in Outcomes(<<Dbc(c)>>, {"ok", "failed"}, res, global) :
        Returns("other", st,
                IF st.ok THEN [q \in Resources |-> IF q = c \/ res[q].conn = c THEN NoRes
                                                   ELSE st.res[q]]
                ELSE st.res)
  BY DEF Close, Function
<1> DEFINE rr == IF st.ok THEN [q \in Resources |-> IF q = c \/ res[q].conn = c THEN NoRes
                                                   ELSE st.res[q]]
                ELSE st.res
<1>2. res[c].live
  BY DEF Close, Open
<1>3. <<Dbc(c)>> \in Seq(Calls(res))
  BY <1>2, ConnCalls, Sequenced DEF DbcCalls
<1>4. Begins(res, global)
  BY NowIs
<1>5. st \in Runs(res)
  BY <1>3, <1>4, OutcomesRun DEF Answers
<1>6. rr \in [Resources -> ResRecords] /\ \A q \in Resources : Ended(q, st.res[q], rr[q])
  BY <1>5, RunIs, NoneIs DEF Ended
<1> HIDE DEF rr
<1> QED
  BY <1>1, <1>3, <1>4, <1>6, FunctionHolds DEF rr

LEMMA UseConnHolds ==
    ASSUME Inv, NEW c \in Conns, UseConn(c)
    PROVE  Inv'
<1> DEFINE progs == {Commit(c), Rollback(c), Autocommit(c), ServerInfo(c), ClientInfo(c),
                     Active(c), SetOption(c), GetOption(c)}
<1>1. res[c].live /\ Plain(progs)
  BY DEF UseConn, Open
<1>2. /\ Dbc(c) \in Calls(res) /\ Overlooked(Dbc(c)) \in Calls(res)
      /\ AssignOption(c) \in Calls(res) /\ Overlooked(AssignOption(c)) \in Calls(res)
      /\ On(c, c) \in Calls(res)
  BY <1>1, ConnCalls DEF DbcCalls
<1>3. \A p \in progs : p \in Seq(Calls(res))
  BY <1>2, Sequenced DEF Commit, Rollback, Autocommit, ServerInfo, ClientInfo, Active,
                         SetOption, GetOption, Options
<1> HIDE DEF progs
<1> QED
  BY <1>1, <1>3, PlainHolds

LEMMA DropDbHolds ==
    ASSUME Inv, NEW c \in Conns, DropDb(c)
    PROVE  Inv'
<1>1. PICK st \in Outcomes(<<Dbc(c)>>, {"ok", "failed"}, res, ClearConnErrCache) :
        Returns("other", st, IF st.ok THEN st.res ELSE Refused(st.res, c))
  BY DEF DropDb, Function
<1> DEFINE rr == IF st.ok THEN st.res ELSE Refused(st.res, c)
<1>2. res[c].live /\ c \in Resources
  BY NoneIs DEF DropDb, Open
<1>3. <<Dbc(c)>> \in Seq(Calls(res)) /\ Begins(res, ClearConnErrCache)
  BY <1>2, ConnCalls, Sequenced, NowIs DEF DbcCalls
<1>4. st \in Runs(res)
  BY <1>3, OutcomesRun DEF Answers
<1>5. rr \in [Resources -> ResRecords] /\ \A q \in Resources : Ended(q, st.res[q], rr[q])
  <2>1. CASE st.ok
    BY <1>4, <2>1, RunIs DEF Ended
  <2>2. CASE ~st.ok
    BY <1>2, <1>4, <2>2, TrackersIs
  <2> QED
    BY <2>1, <2>2
<1> HIDE DEF rr
<1> QED
  BY <1>1, <1>3, <1>5, FunctionHolds DEF rr

\* createDBNX forgets a failure that is none to it.
Dropped(st, c) ==
    [st EXCEPT !.ok = TRUE, !.reported[c] = None, !.res[c].err = NoRes.err]

LEMMA DroppedRuns ==
    ASSUME NEW r, NEW st \in Runs(r), NEW c \in Conns, r[c].live,
           NEW w, w = Dropped(st, c)
    PROVE  w \in Runs(r) /\ w.ok /\ w.failure = st.failure
<1> DEFINE x == st.res[c]
           y == [x EXCEPT !.err = NoRes.err]
           rr == [st.res EXCEPT ![c] = y]
           pp == [st.reported EXCEPT ![c] = None]
<1>1. /\ st \in RunStates /\ c \in Resources
      /\ Good(st.res, st.diag, st.global, st.failures, st.reported)
      /\ \A z \in Resources : st.res[z].live = r[z].live /\ st.res[z].conn = r[z].conn
  BY NoneIs DEF Runs
<1>2. Tidy(c, x, st.diag[c], st.reported[c]) /\ x.live
  BY <1>1 DEF Good
<1>3. /\ y \in ResRecords /\ y.live /\ y.conn = x.conn /\ y.errorType = x.errorType
      /\ y.err.msg = None /\ y.err.state = None
  <2>1. x \in ResRecords /\ NoRes.err \in [msg : Failures, state : Failures]
    BY <1>2, NoneIs DEF Tidy, ResRecords
  <2> HIDE DEF x
  <2>2. y \in ResRecords /\ y.live = x.live /\ y.err = NoRes.err
        /\ y.conn = x.conn /\ y.errorType = x.errorType
    BY <2>1 DEF ResRecords
  <2> QED
    BY <1>2, <2>2, NoneIs
<1>4. w = [st EXCEPT !.ok = TRUE, !.reported = pp, !.res = rr]
  BY <1>1 DEF RunStates, Dropped
<1> HIDE DEF y
<1>5. /\ rr \in [Resources -> ResRecords] /\ rr[c] = y
      /\ \A z \in Resources : z # c => rr[z] = st.res[z]
  BY <1>1, <1>3 DEF RunStates
<1>6. /\ pp \in [Resources -> Failures] /\ pp[c] = None
      /\ \A z \in Resources : z # c => pp[z] = st.reported[z]
  BY <1>1, NoneIs DEF RunStates
<1> HIDE DEF rr, pp
<1>7. w \in RunStates
  BY <1>1, <1>4, <1>5, <1>6 DEF RunStates
<1>8. /\ w.res = rr /\ w.reported = pp /\ w.ok /\ w.failure = st.failure
      /\ w.global = st.global /\ w.diag = st.diag /\ w.failures = st.failures
  BY <1>1, <1>4 DEF RunStates
<1>9. Tidy(c, y, st.diag[c], None)
  BY <1>2, <1>3, NoneIs DEF Tidy
<1>10. \A z \in Resources : Tidy(z, rr[z], st.diag[z], pp[z])
  BY <1>1, <1>5, <1>6, <1>9 DEF Good
<1>11. Good(w.res, w.diag, w.global, w.failures, w.reported)
  BY <1>1, <1>5, <1>6, <1>8, <1>10 DEF Good
<1>12. ASSUME NEW z \in Resources
       PROVE  w.res[z].live = r[z].live /\ w.res[z].conn = r[z].conn
  <2>1. CASE z = c
    BY <1>1, <1>2, <1>3, <1>5, <1>8, <2>1
  <2>2. CASE z # c
    BY <1>1, <1>5, <1>8, <2>2
  <2> QED
    BY <2>1, <2>2
<1> QED
  BY <1>7, <1>8, <1>11, <1>12 DEF Runs

LEMMA CreateDbHolds ==
    ASSUME Inv, NEW c \in Conns, NEW nx \in BOOLEAN, CreateDb(c, nx)
    PROVE  Inv'
<1>1. res[c].live /\ c \in Resources
  BY NoneIs DEF CreateDb, Open
<1>2. PICK st \in Outcomes(<<Dbc(c)>>, {"ok", "failed", "exists"}, res, ClearConnErrCache) :
        LET dropped == [st EXCEPT !.ok = TRUE, !.reported[c] = None, !.res[c].err = NoRes.err]
            end == IF ~st.ok /\ nx /\ st.res[c].exists THEN dropped ELSE st
        IN  Returns(IF nx THEN "nx" ELSE "other", end,
                    IF st.ok THEN end.res ELSE Refused(end.res, c))
  BY DEF CreateDb
<1> DEFINE dropped == Dropped(st, c)
           end == IF ~st.ok /\ nx /\ st.res[c].exists THEN dropped ELSE st
           fn == IF nx THEN "nx" ELSE "other"
           rr == IF st.ok THEN end.res ELSE Refused(end.res, c)
<1>3. Returns(fn, end, rr)
  BY <1>2 DEF Dropped
<1>4. st \in Runs(res) /\ Sure(st, c)
  <2>1. Begins(res, ClearConnErrCache) /\ Answers \in SUBSET Answers
    BY NowIs
  <2>2. st \in Outcomes(<<Dbc(c)>>, Answers, res, ClearConnErrCache)
    BY <1>2 DEF Answers
  <2> QED
    BY <1>1, <2>1, <2>2, CreateTells
<1>5. dropped \in Runs(res) /\ dropped.ok /\ dropped.failure = st.failure
  BY <1>1, <1>4, DroppedRuns
<1>6. st.ok \in BOOLEAN /\ st.failure.exists \in BOOLEAN /\ st.res[c].exists \in BOOLEAN
  BY <1>1, <1>4 DEF Runs, RunStates, Failures, ResRecords
<1> HIDE DEF dropped
<1>7. end \in Runs(res)
  BY <1>4, <1>5
<1>8. Fulfils(fn, end)
  <2>1. CASE ~nx
    BY <2>1 DEF Fulfils
  <2>2. CASE nx /\ ~st.ok /\ st.res[c].exists
    <3>1. end.ok /\ end.failure = st.failure /\ st.failure.exists
      BY <1>4, <1>5, <2>2 DEF Sure
    <3>2. end.ok \in BOOLEAN
      BY <1>7 DEF Runs, RunStates
    <3> QED
      BY <2>2, <3>1, <3>2 DEF Fulfils
  <2>3. CASE nx /\ ~(~st.ok /\ st.res[c].exists)
    <3>1. end = st /\ (st.ok <=> st.failure = None \/ st.failure.exists)
      BY <1>4, <2>3 DEF Sure
    <3> QED
      BY <1>6, <2>3, <3>1 DEF Fulfils
  <2> QED
    BY <2>1, <2>2, <2>3
<1>9. rr \in [Resources -> ResRecords] /\ \A q \in Resources : Ended(q, end.res[q], rr[q])
  <2> HIDE DEF end
  <2>1. CASE st.ok
    BY <1>7, <2>1, RunIs DEF Ended
  <2>2. CASE ~st.ok
    BY <1>1, <1>7, <2>2, TrackersIs
  <2> QED
    BY <2>1, <2>2
<1> HIDE DEF rr, end, fn
<1> QED
  BY <1>3, <1>7, <1>8, <1>9, ReturnsHolds

\* exec, prepare and the catalog functions make the struct of a statement.
LEMMA StatementBegins ==
    ASSUME Inv, NEW c \in Conns, NEW s \in Stmts, Open(c), ~res[s].live,
           NEW g \in Globals, Apart(g), NEW r, r = [res EXCEPT ![s] = NewStmt(c)]
    PROVE  /\ Begins(r, g) /\ r[s].live /\ r[c].live /\ s \in Resources /\ c \in Resources
           /\ s # c
<1>1. s \in Resources /\ c \in Resources /\ s # c
  BY NoneIs
<1>2. Blank(s, NewStmt(c)) /\ NewStmt(c).live
  BY Blanks DEF Blank
<1>3. Begins(r, g) /\ r[s] = NewStmt(c) /\ r[c] = res[c]
  <2>1. r = With(s, NewStmt(c))
    BY DEF With
  <2>2. /\ Begins(With(s, NewStmt(c)), g) /\ With(s, NewStmt(c))[s] = NewStmt(c)
        /\ With(s, NewStmt(c))[c] = res[c]
    BY <1>1, <1>2, BeginsNew
  <2> QED
    BY <2>1, <2>2
<1> QED
  BY <1>1, <1>2, <1>3 DEF Open

\* One call more after three.
LEMMA OneMore ==
    ASSUME NEW D, NEW u \in Seq(D), NEW v \in Seq(D), Len(u) = 3, Len(v) = 1
    PROVE  /\ u \o v \in Seq(D) /\ Len(u \o v) = 4 /\ (u \o v)[4] = v[1]
           /\ \A i \in 1..3 : (u \o v)[i] = u[i]
<1> DEFINE w == u \o v
<1>1. /\ w \in Seq(D) /\ Len(w) = Len(u) + Len(v)
      /\ \A i \in 1..(Len(u) + Len(v)) :
            w[i] = IF i <= Len(u) THEN u[i] ELSE v[i - Len(u)]
  BY ConcatProperties, Zenon
<1>2. Len(u) + Len(v) = 4
  OBVIOUS
<1>3. \A i \in 1..4 : w[i] = IF i <= 3 THEN u[i] ELSE v[i - 3]
  BY <1>1, <1>2
<1>4. w \in Seq(D) /\ Len(w) = 4
  BY <1>1, <1>2
<1> HIDE DEF w
<1>5. w[4] = v[1] /\ \A i \in 1..3 : w[i] = u[i]
  BY <1>3
<1> QED
  BY <1>4, <1>5 DEF w

\* The calls of exec and prepare.
LEMMA ExecCalls ==
    ASSUME NEW r, NEW c \in Conns, NEW s \in Stmts, r[c].live, r[s].live,
           NEW p, p = <<Dbc(c)>> \o Options(s) \o <<On(s, c)>>
    PROVE  /\ p \in Seq(Calls(r))
           /\ \A n \in 1..Len(p) : ~p[n].quiet /\ p[n].to # NULL
           /\ \A n \in 1..Len(p) :
                  IF n = 1 THEN p[n].on \in Conns ELSE p[n].on \in Stmts
<1>1. c \in Resources /\ s \in Resources /\ c # NULL /\ s # NULL
  BY NoneIs
<1> DEFINE a == Dbc(c)
           b == Overlooked(AssignOption(s))
           d == AssignOption(s)
           e == On(s, c)
<1>2. a \in Calls(r) /\ a.on = c /\ a.to = c /\ ~a.quiet
  BY <1>1, CallIs DEF Dbc
<1>3. b \in Calls(r) /\ b.on = s /\ b.to = s /\ ~b.quiet
  BY <1>1, CallIs DEF AssignOption, Overlooked
<1>4. d \in Calls(r) /\ d.on = s /\ d.to = s /\ ~d.quiet
  BY <1>1, CallIs DEF AssignOption
<1>5. e \in Calls(r) /\ e.on = s /\ e.to = c /\ ~e.quiet
  BY <1>1, CallIs
<1>6. p = <<a>> \o <<b, d>> \o <<e>>
  BY DEF Options
<1> HIDE DEF a, b, d, e
<1> DEFINE D == Calls(r)
           u == <<a>> \o <<b, d>>
           v == <<e>>
<1> HIDE DEF D
<1>7. /\ u \in Seq(D) /\ Len(u) = 3 /\ u[1] = a /\ u[2] = b /\ u[3] = d
      /\ v \in Seq(D) /\ Len(v) = 1 /\ v[1] = e
  <2>1. a \in D /\ b \in D /\ d \in D /\ e \in D
    BY <1>2, <1>3, <1>4, <1>5 DEF D
  <2> QED
    BY <2>1
<1> HIDE DEF u, v
<1>8. Len(p) = 4 /\ p[1] = a /\ p[2] = b /\ p[3] = d /\ p[4] = e /\ p \in Seq(D)
  <2>1. p = u \o v
    BY <1>6 DEF u, v
  <2>2. /\ u \o v \in Seq(D) /\ Len(u \o v) = 4 /\ (u \o v)[4] = v[1]
        /\ \A i \in 1..3 : (u \o v)[i] = u[i]
    BY <1>7, OneMore
  <2>3. 1 \in 1..3 /\ 2 \in 1..3 /\ 3 \in 1..3
    OBVIOUS
  <2>4. p \in Seq(D) /\ Len(p) = 4 /\ p[4] = v[1] /\ \A i \in 1..3 : p[i] = u[i]
    BY <2>1, <2>2, Zenon
  <2>5. p[1] = u[1] /\ p[2] = u[2] /\ p[3] = u[3]
    BY <2>3, <2>4, Zenon
  <2> QED
    BY <1>7, <2>4, <2>5, Zenon
<1>9. ASSUME NEW n \in 1..Len(p)
      PROVE  /\ ~p[n].quiet /\ p[n].to # NULL
             /\ IF n = 1 THEN p[n].on \in Conns ELSE p[n].on \in Stmts
  <2>1. n = 1 \/ n = 2 \/ n = 3 \/ n = 4
    BY <1>8
  <2>2. CASE n = 1
    BY <1>1, <1>2, <1>8, <2>2
  <2>3. CASE n # 1
    <3>1. p[n] \in {b, d, e}
      BY <1>8, <2>1, <2>3
    <3> QED
      BY <1>1, <1>3, <1>4, <1>5, <2>3, <3>1
  <2> QED
    BY <2>2, <2>3
<1>10. p \in Seq(Calls(r))
  BY <1>8 DEF D
<1> QED
  BY <1>9, <1>10

LEMMA AttemptHolds ==
    ASSUME Inv, NEW c \in Conns, NEW s \in Stmts, Attempt(c, s)
    PROVE  Inv'
<1> DEFINE r == [res EXCEPT ![s] = NewStmt(c)]
           p == <<Dbc(c)>> \o Options(s) \o <<On(s, c)>>
           g == ClearStmtErrCache
<1>1. PICK st \in Outcomes(p, {"ok", "failed"}, r, g) : Returns("exec", st, Made(st.res, st.ok, s))
  BY DEF Attempt, Statement, Function, Exec, Prepare
<1>2. Open(c) /\ ~res[s].live
  BY DEF Attempt, Statement
<1>3. g \in Globals /\ Apart(g) /\ Cleared(g.stmt)
  BY NowIs DEF Begins
<1> HIDE DEF r, g
<1>4. Begins(r, g) /\ r[s].live /\ r[c].live /\ s \in Resources
  BY <1>2, <1>3, StatementBegins DEF r
<1> HIDE DEF p
<1>5. /\ p \in Seq(Calls(r))
      /\ \A n \in 1..Len(p) : ~p[n].quiet /\ p[n].to # NULL
      /\ \A n \in 1..Len(p) : IF n = 1 THEN p[n].on \in Conns ELSE p[n].on \in Stmts
  BY <1>4, ExecCalls DEF p
<1>6. st \in Runs(r) /\ StmtTold(st)
  BY <1>3, <1>4, <1>5, AttemptTells DEF Answers
<1>7. Fulfils("exec", st)
  BY <1>6 DEF Fulfils
<1>8. /\ Made(st.res, st.ok, s) \in [Resources -> ResRecords]
      /\ \A z \in Resources : Ended(z, st.res[z], Made(st.res, st.ok, s)[z])
  BY <1>4, <1>6, MadeIs
<1> QED
  BY <1>1, <1>6, <1>7, <1>8, ReturnsHolds

LEMMA CatalogHolds ==
    ASSUME Inv, NEW c \in Conns, NEW s \in Stmts, Catalog(c, s)
    PROVE  Inv'
<1> DEFINE r == [res EXCEPT ![s] = NewStmt(c)]
           p == <<Dbc(c), On(s, c)>>
<1>1. PICK st \in Outcomes(p, {"ok", "failed"}, r, global) :
        Returns("other", st, Made(st.res, st.ok, s))
  BY DEF Catalog, Statement, Function, CatalogCalls, ColumnPrivileges, Columns, ForeignKeys,
         PrimaryKeys, ProcedureColumns, Procedures, SpecialColumns, Statistics,
         TablePrivileges, Tables
<1>2. Open(c) /\ ~res[s].live
  BY DEF Catalog, Statement
<1> HIDE DEF r
<1>3. Begins(r, global) /\ r[s].live /\ r[c].live /\ s \in Resources /\ c \in Resources
  BY <1>2, NowIs, StatementBegins DEF r
<1>4. p \in Seq(Calls(r))
  <2>1. Dbc(c) \in Calls(r) /\ On(s, c) \in Calls(r)
    BY <1>3, CallIs DEF Dbc
  <2> QED
    BY <2>1, Sequenced
<1> HIDE DEF p
<1>5. st \in Runs(r)
  BY <1>3, <1>4, OutcomesRun DEF Answers
<1>6. /\ Made(st.res, st.ok, s) \in [Resources -> ResRecords]
      /\ \A z \in Resources : Ended(z, st.res[z], Made(st.res, st.ok, s)[z])
  BY <1>3, <1>5, MadeIs
<1> QED
  BY <1>1, <1>3, <1>4, <1>6, FunctionHolds

LEMMA NextResultHolds ==
    ASSUME Inv, NEW s \in Stmts, NEW t \in Stmts, NextResult(s, t)
    PROVE  Inv'
<1> DEFINE p == <<Quiet(On(res[s].conn, s)), OnStmt(s)>>
<1>1. PICK st \in Outcomes(p, {"ok", "failed"}, res, ClearStmtErrCache) :
        Returns("other", st, IF st.ok THEN [st.res EXCEPT ![t] = NextStmt(s)] ELSE st.res)
  BY DEF NextResult, Function
<1>2. /\ s \in Resources /\ res[s].live /\ res[s].conn \in Conns /\ res[res[s].conn].live
      /\ t \in Resources /\ ~res[t].live
  BY UsableIs, NoneIs DEF NextResult
<1>3. p \in Seq(Calls(res))
  <2>1. Quiet(On(res[s].conn, s)) \in Calls(res) /\ OnStmt(s) \in Calls(res)
    BY <1>2, CallIs, StmtCalls, NoneIs
  <2> QED
    BY <2>1, Sequenced
<1>4. Begins(res, ClearStmtErrCache)
  BY NowIs
<1> HIDE DEF p
<1>5. st \in Runs(res)
  BY <1>3, <1>4, OutcomesRun DEF Answers
<1> DEFINE rr == IF st.ok THEN [st.res EXCEPT ![t] = NextStmt(s)] ELSE st.res
<1>6. rr \in [Resources -> ResRecords] /\ \A q \in Resources : Ended(q, st.res[q], rr[q])
  <2>1. Blank(t, NextStmt(s)) /\ NextStmt(s) \in ResRecords
    BY <1>2, NextBlank DEF Blank
  <2>2. st.res \in [Resources -> ResRecords] /\ ~st.res[t].live
    BY <1>2, <1>5, RunIs
  <2> QED
    BY <1>2, <2>1, <2>2 DEF Ended
<1> HIDE DEF rr
<1> QED
  BY <1>1, <1>3, <1>4, <1>6, FunctionHolds DEF rr

\* The calls that the functions on a statement are made of.
LEMMA StmtSequences ==
    ASSUME Inv, NEW s \in Stmts, Usable(s), NEW D, D = Seq(Calls(res))
    PROVE  /\ <<OnStmt(s)>> \in D /\ <<Overlooked(OnStmt(s)), OnStmt(s)>> \in D
           /\ Options(s) \in D /\ <<On(s, s)>> \in D
           /\ \A v \in Values(s) : v \in D
           /\ \A d \in Described(s) : d \in D
<1>1. /\ s \in Resources /\ res[s].live /\ res[s].conn \in Conns /\ res[res[s].conn].live
      /\ res[s].conn \in Resources
  BY UsableIs, NoneIs
<1>2. /\ OnStmt(s) \in Calls(res) /\ Overlooked(OnStmt(s)) \in Calls(res)
      /\ AssignOption(s) \in Calls(res) /\ Overlooked(AssignOption(s)) \in Calls(res)
      /\ On(s, s) \in Calls(res) /\ On(Scratch, s) \in Calls(res)
      /\ Quiet(On(res[s].conn, s)) \in Calls(res)
  BY <1>1, StmtCalls, CallIs
<1>3. <<>> \in D /\ <<OnStmt(s)>> \in D /\ <<Overlooked(OnStmt(s)), OnStmt(s)>> \in D
  BY <1>2, Sequenced
<1>4. Options(s) \in D /\ <<On(s, s)>> \in D
  BY <1>2, Sequenced DEF Options
<1>5. GetData(s) \in D /\ GetLength(s) \in D /\ GetData2(s) \in D
  BY <1>2, Sequenced DEF GetData, GetLength, GetData2
<1>6. GetLength(s) \o GetData2(s) \in D
  BY <1>5, Sequenced
<1>7. \A v \in Values(s) : v \in D
  BY <1>3, <1>5, <1>6 DEF Values
<1>8. \A d \in Described(s) : d \in D
  BY <1>3 DEF Described
<1> QED
  BY <1>3, <1>4, <1>7, <1>8

LEMMA ExecuteSequences ==
    ASSUME Inv, NEW s \in Stmts, Usable(s), NEW p \in Execute(s)
    PROVE  p \in Seq(Calls(res))
<1> DEFINE D == Seq(Calls(res))
           a == <<OnStmt(s)>>
<1>1. a \in D /\ <<>> \in D
  BY StmtSequences, Sequenced
<1>2. PICK b \in {BindMarker(s), DescribeAndBind(s)}, d \in {<<>>, a} : p = a \o b \o a \o d
  BY DEF Execute
<1>3. BindMarker(s) \in D /\ DescribeAndBind(s) \in D
  BY <1>1, Sequenced DEF BindMarker, DescribeAndBind
<1>4. b \in D /\ d \in D
  BY <1>1, <1>2, <1>3
<1> HIDE DEF a
<1>5. a \o b \in D
  BY <1>1, <1>4, Sequenced
<1>6. a \o b \o a \in D
  BY <1>1, <1>5, Sequenced
<1>7. a \o b \o a \o d \in D
  BY <1>4, <1>6, Sequenced
<1> QED
  BY <1>2, <1>7

LEMMA UseStmtHolds ==
    ASSUME Inv, NEW s \in Stmts, UseStmt(s)
    PROVE  Inv'
<1> DEFINE D == Seq(Calls(res))
           progs == UNION {BindParam(s), Execute(s), NumFields(s), NumRows(s), FieldName(s),
                           FieldNum(s), FieldPrecision(s), FieldScale(s), FieldType(s),
                           FieldDisplaySize(s), FieldWidth(s), Result(s), FetchRow(s),
                           FreeResult(s), GetLastSerialValue(s),
                           {SetOption(s), GetOption(s)}}
<1>1. Usable(s) /\ Plain(progs)
  BY DEF UseStmt
<1>2. /\ <<>> \in D /\ <<OnStmt(s)>> \in D /\ Options(s) \in D /\ <<On(s, s)>> \in D
      /\ \A v \in Values(s) : v \in D
      /\ \A d \in Described(s) : d \in D
      /\ \A p, q \in D : p \o q \in D
  BY <1>1, StmtSequences, Sequenced
<1>3. Execute(s) \subseteq D
  BY <1>1, ExecuteSequences
<1> HIDE DEF D
<1>4. /\ BindParam(s) \subseteq D /\ NumFields(s) \subseteq D /\ NumRows(s) \subseteq D
      /\ FreeResult(s) \subseteq D /\ GetLastSerialValue(s) \subseteq D
      /\ {SetOption(s), GetOption(s)} \subseteq D
  BY <1>2 DEF BindParam, NumFields, NumRows, FreeResult, GetLastSerialValue, SetOption, GetOption
<1>5. /\ FieldName(s) \subseteq D /\ FieldNum(s) \subseteq D /\ FieldPrecision(s) \subseteq D
      /\ FieldScale(s) \subseteq D /\ FieldType(s) \subseteq D
  BY <1>2 DEF FieldName, FieldNum, FieldPrecision, FieldScale, FieldType
<1>6. /\ FieldDisplaySize(s) \subseteq D /\ FieldWidth(s) \subseteq D /\ FetchRow(s) \subseteq D
  BY <1>2 DEF FieldDisplaySize, FieldWidth, FetchRow
<1>7. ASSUME NEW p \in Result(s) PROVE p \in D
  <2>1. PICK d \in Described(s), v \in Values(s) : p = d \o v
    BY DEF Result
  <2>2. d \in D /\ v \in D
    BY <1>2
  <2> QED
    BY <1>2, <2>1, <2>2
<1>8. progs \subseteq D
  BY <1>3, <1>4, <1>5, <1>6, <1>7
<1> HIDE DEF progs
<1> QED
  BY <1>1, <1>8, PlainHolds DEF D

LEMMA FetchSequences ==
    ASSUME Inv, NEW s \in Stmts, Usable(s), NEW d \in Described(s), NEW f \in BindFetch(s)
    PROVE  d \o f \in Seq(Calls(res))
<1> DEFINE D == Seq(Calls(res))
           a == <<OnStmt(s)>>
<1>1. PICK b \in Bound(s), v \in Values(s) : f = b \o a \o v
  BY DEF BindFetch
<1>2. a \in D /\ d \in D /\ v \in D /\ b \in D
  BY StmtSequences, Sequenced DEF Bound
<1> HIDE DEF a
<1>3. b \o a \in D
  BY <1>2, Sequenced
<1>4. b \o a \o v \in D
  BY <1>2, <1>3, Sequenced
<1> QED
  BY <1>1, <1>2, <1>4, Sequenced

LEMMA FetchHolds ==
    ASSUME Inv, NEW s \in Stmts, Fetch(s)
    PROVE  Inv'
<1>1. Usable(s)
  BY DEF Fetch, Function
<1>2. s \in Resources /\ res[s].live
  BY <1>1, UsableIs
<1>3. PICK p \in {d \o f : d \in Described(s), f \in BindFetch(s)} :
        \E st \in Outcomes(p, {"ok", "failed"}, res, global) :
            Returns("other", st, InitErrorInfo(st.res, s))
  BY DEF Fetch, Function
<1>4. PICK st \in Outcomes(p, {"ok", "failed"}, res, global) :
        Returns("other", st, InitErrorInfo(st.res, s))
  BY <1>3
<1>5. p \in Seq(Calls(res)) /\ Begins(res, global)
  <2>1. PICK d \in Described(s), f \in BindFetch(s) : p = d \o f
    OBVIOUS
  <2> QED
    BY <1>1, <2>1, FetchSequences, NowIs
<1>6. st \in Runs(res)
  BY <1>5, OutcomesRun DEF Answers
<1> DEFINE rr == InitErrorInfo(st.res, s)
<1>7. rr \in [Resources -> ResRecords] /\ \A q \in Resources : Ended(q, st.res[q], rr[q])
  BY <1>2, <1>6, TrackersIs
<1> HIDE DEF rr
<1> QED
  BY <1>4, <1>5, <1>7, FunctionHolds DEF rr

LEMMA FreeStmtHolds ==
    ASSUME Inv, NEW s \in Stmts, FreeStmt(s)
    PROVE  Inv'
<1>1. PICK st \in Outcomes(<<>>, {"ok", "failed"}, res, global) :
        Returns("other", st, [st.res EXCEPT ![s] = NoRes])
  BY DEF FreeStmt, Function
<1>2. <<>> \in Seq(Calls(res)) /\ Begins(res, global)
  BY Sequenced, NowIs
<1>3. st \in Runs(res)
  BY <1>2, OutcomesRun DEF Answers
<1> DEFINE rr == [st.res EXCEPT ![s] = NoRes]
<1>4. rr \in [Resources -> ResRecords] /\ \A q \in Resources : Ended(q, st.res[q], rr[q])
  BY <1>3, RunIs, NoneIs DEF Ended
<1> HIDE DEF rr
<1> QED
  BY <1>1, <1>2, <1>4, FunctionHolds DEF rr

-----------------------------------------------------------------------------
(* The readers.                                                            *)

Trackers == [msg : Nat, state : Nat]

\* Trackers that moved are trackers.
LEMMA AdvancedIs ==
    ASSUME NEW recno \in Trackers, NEW which \in {"msg", "state"}
    PROVE  /\ Advanced(recno, which) \in Trackers
           /\ [recno EXCEPT ![which] = @ + 1] \in Trackers
<1>1. CASE which = "msg"
  BY <1>1 DEF Trackers, Advanced, Other
<1>2. CASE which = "state"
  BY <1>2 DEF Trackers, Advanced, Other
<1> QED
  BY <1>1, <1>2

\* A reader moves the trackers of a live struct and changes nothing else.
LEMMA MovesHolds ==
    ASSUME Inv, NEW r \in Resources, res[r].live, NEW recno \in Trackers, Moves(r, recno)
    PROVE  Inv'
<1> DEFINE x == res[r]
           y == [x EXCEPT !.recno = recno]
<1>1. /\ recno \in [msg : 0..MaxRecno, state : 0..MaxRecno]
      /\ res' = [res EXCEPT ![r].recno = recno] /\ last' = NoCall
      /\ diag' = diag /\ global' = global /\ failures' = failures /\ reported' = reported
  BY NoneIs DEF Moves, Trackers
<1>2. /\ Good(res, diag, global, failures, reported)
      /\ res \in [Resources -> ResRecords] /\ x \in ResRecords
      /\ Tidy(r, x, diag[r], reported[r])
  BY DEF Inv, Good
<1>3. /\ y \in ResRecords /\ y.live = x.live /\ y.conn = x.conn /\ y.err = x.err
      /\ y.errorType = x.errorType
  <2> HIDE DEF x
  <2> QED
    BY <1>1, <1>2 DEF ResRecords
<1>4. res' = [res EXCEPT ![r] = y]
  BY <1>1, <1>2
<1>5. Tidy(r, y, diag[r], reported[r])
  BY <1>2, <1>3 DEF Tidy
<1> HIDE DEF y
<1>6. /\ res' \in [Resources -> ResRecords]
      /\ \A q \in Resources : Tidy(q, res'[q], diag[q], reported[q])
  BY <1>2, <1>3, <1>4, <1>5 DEF Good
<1>7. Good(res', diag', global', failures', reported')
  BY <1>1, <1>2, <1>6 DEF Good
<1>8. /\ last' \in [fn : {"other", "connect", "exec", "nx"}, ok : BOOLEAN, failure : Failures]
      /\ last'.fn = "other"
  BY <1>1, NoneIs DEF NoCall
<1> QED
  BY <1>7, <1>8 DEF Inv, FullAnswerIsOfAttempt, NxIsTrue

LEMMA ReadsHold ==
    ASSUME Inv, ReadStep
    PROVE  Inv'
<1>1. ASSUME NEW r \in Resources PROVE res[r].recno \in Trackers
  <2>1. res[r] \in ResRecords
    BY NowIs
  <2> QED
    BY <2>1, NoneIs DEF ResRecords, Trackers
<1>2. ASSUME NEW r \in Resources, res[r].live, NEW which \in {"msg", "state"},
             Moves(r, Advanced(res[r].recno, which))
      PROVE  Inv'
  BY <1>1, <1>2, AdvancedIs, MovesHolds
<1>3. ASSUME NEW r \in Resources, res[r].live, NEW which \in {"msg", "state"},
             GetMoves(r, which)
      PROVE  Inv'
  <2>1. CASE IsKept(r, which)
    <3> DEFINE n == [res[r].recno EXCEPT ![which] = @ + 1]
    <3>1. Moves(r, n)
      BY <1>3, <2>1 DEF GetMoves
    <3>2. n \in Trackers
      BY <1>1, AdvancedIs
    <3> HIDE DEF n
    <3> QED
      BY <1>3, <3>1, <3>2, MovesHolds
  <2>2. CASE ~IsKept(r, which)
    <3>1. Moves(r, Advanced(res[r].recno, which))
      BY <1>3, <2>2 DEF GetMoves
    <3> QED
      BY <1>2, <1>3, <3>1
  <2> QED
    BY <2>1, <2>2
<1>4. Conns \subseteq Resources /\ Stmts \subseteq Resources
  BY NoneIs
<1>5. ASSUME NEW c \in Conns, ConnErrormsg(c) \/ ConnError(c) PROVE Inv'
  BY <1>2, <1>4, <1>5 DEF ConnErrormsg, ConnError, Open
<1>6. ASSUME NEW s \in Stmts, StmtErrormsg(s) \/ StmtError(s) PROVE Inv'
  BY <1>2, <1>4, <1>6 DEF StmtErrormsg, StmtError, Usable
<1>7. ASSUME NEW r \in Resources, GetErrormsg(r) \/ GetErrorstate(r) PROVE Inv'
  BY <1>3, <1>7 DEF GetErrormsg, GetErrorstate, Open, Usable
<1> QED
  BY <1>5, <1>6, <1>7 DEF ReadStep

-----------------------------------------------------------------------------
(* The theorems.                                                           *)

LEMMA NextHolds == Inv /\ [Next]_vars => Inv'
<1> SUFFICES ASSUME Inv, [Next]_vars PROVE Inv'
  OBVIOUS
<1>1. ASSUME NEW c \in Conns, ConnStep(c) PROVE Inv'
  BY <1>1, ConnectHolds, CloseHolds, UseConnHolds, DropDbHolds, CreateDbHolds DEF ConnStep
<1>2. ASSUME NEW s \in Stmts, StmtStep(s) PROVE Inv'
  BY <1>2, AttemptHolds, CatalogHolds, NextResultHolds, UseStmtHolds, FetchHolds,
     FreeStmtHolds DEF StmtStep
<1>3. CASE UNCHANGED vars
  BY <1>3 DEF vars, Inv, FullAnswerIsOfAttempt, NxIsTrue, ConnAnswer, StmtAnswer
<1> QED
  BY <1>1, <1>2, <1>3, ReadsHold DEF Next

\* What may be kept of errors, in the structs of connections and statements, in
\* the driver and for the process, is kept so by every function, whatever its
\* driver calls answer.
THEOREM Invariance == Spec => []Inv
BY InitHolds, NextHolds, PTL DEF Spec

LEMMA InvGivesTypes == Inv => TypeOK
<1> SUFFICES ASSUME Inv PROVE TypeOK
  OBVIOUS
<1>1. /\ res \in [Resources -> ResRecords] /\ diag \in [Resources -> Failures]
      /\ global \in Globals /\ failures \in 0..MaxFailures
      /\ reported \in [Resources -> Failures] /\ Apart(global)
      /\ \A q \in Resources : Tidy(q, res[q], diag[q], reported[q])
  BY DEF Inv, Good
<1>2. \A r \in Resources : ~res[r].live => res[r] = NoRes /\ diag[r] = None /\ reported[r] = None
  BY <1>1 DEF Tidy
<1>3. \A s \in Stmts : res[s].errorType = 1
  BY <1>1, NoneIs DEF Tidy
<1>4. last \in [fn : {"other", "connect", "exec", "nx"}, ok : BOOLEAN, failure : Failures]
  BY DEF Inv
<1> QED
  BY <1>1, <1>2, <1>3, <1>4 DEF TypeOK, Globals, Apart

\* The failure a struct keeps, for message and SQLSTATE.
LEMMA KeptIs ==
    ASSUME Inv, NEW r \in Resources, NEW which \in {"msg", "state"}
    PROVE  LET f == res[r].err[which] IN
           /\ f # None => f.to = r
           /\ reported[r] # None =>
                 \/ f = reported[r]
                 \/ which = "state" /\ r \in Stmts /\ reported[r].on \in Conns
<1>1. Tidy(r, res[r], diag[r], reported[r])
  BY NowIs
<1>2. CASE which = "msg"
  BY <1>1, <1>2 DEF Tidy
<1>3. CASE which = "state"
  BY <1>1, <1>3 DEF Tidy
<1> QED
  BY <1>2, <1>3

LEMMA InvGivesOwn == Inv => OwnErrors
<1> SUFFICES ASSUME Inv, NEW r \in Resources, NEW which \in {"msg", "state"}
             PROVE  /\ DiagAnswer(r, which) # None => r = DiagAnswer(r, which).on
                    /\ GetAnswer(r, which) # None =>
                          r \in {GetAnswer(r, which).on, GetAnswer(r, which).to}
  BY DEF OwnErrors
<1>1. DiagAnswer(r, which) # None => r = DiagAnswer(r, which).on
  <2>1. diag[r] # None => diag[r].on = r
    BY NowIs DEF Tidy
  <2> QED
    BY <2>1 DEF DiagAnswer, DiagRec
<1>2. res[r].err[which] # None => res[r].err[which].to = r
  BY KeptIs
<1> QED
  BY <1>1, <1>2 DEF GetAnswer

LEMMA InvGivesLast == Inv => ReadsLast
<1> SUFFICES ASSUME Inv, NEW r \in Resources, NEW which \in {"msg", "state"},
                    First(r, which), reported[r] # None
             PROVE  \/ GetAnswer(r, which) = reported[r]
                    \/ which = "state" /\ r \in Stmts /\ reported[r].on \in Conns
  BY DEF ReadsLast
<1>1. CASE res[r].err[which] = reported[r]
  <2>1. IsKept(r, which)
    BY <1>1 DEF IsKept, First
  <2> QED
    BY <1>1, <2>1 DEF GetAnswer
<1>2. CASE which = "state" /\ r \in Stmts /\ reported[r].on \in Conns
  BY <1>2
<1> QED
  BY <1>1, <1>2, KeptIs

\* The shape of every variable in every reachable state: what is not live keeps
\* nothing, statements have no error type, and the process keeps the failures of
\* connections apart from those of statements.
THEOREM TypesHold == Spec => []TypeOK
BY Invariance, InvGivesTypes, PTL

\* A reader asked about a connection or a statement never answers with a failure
\* that neither happened on its handle nor was reported to its struct, for any
\* number of resources, failures and records read (7198-7478, 7510-7769).
THEOREM ErrorsAreOwn == Spec => []OwnErrors
BY Invariance, InvGivesOwn, PTL

\* getErrormsg and getErrorstate, when no record was read before, answer with
\* the last failure reported to the resource, even if the driver has forgotten
\* it; but the SQLSTATE of a failure on the connection that was reported to a
\* statement may be missing (7538-7555, 7584).
THEOREM LastIsRead == Spec => []ReadsLast
BY Invariance, InvGivesLast, PTL

\* After an attempt to connect, to execute or to prepare, what the readers
\* without a resource answer in full is of this attempt: a cleared cache keeps
\* no more than the rest of an earlier failure (2800-2805, 2036-2040).
THEOREM AttemptsAreAnswered == Spec => []FullAnswerIsOfAttempt
<1>1. Inv => FullAnswerIsOfAttempt
  BY DEF Inv
<1> QED
  BY <1>1, Invariance, PTL

\* createDBNX answers TRUE exactly if the database was made or existed, although
\* it asks the connection for the SQLCODE, which other failures set too (3023).
THEOREM NxHolds == Spec => []NxIsTrue
<1>1. Inv => NxIsTrue
  BY DEF Inv
<1> QED
  BY <1>1, Invariance, PTL

=============================================================================
