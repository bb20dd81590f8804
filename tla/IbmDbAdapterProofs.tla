------------------------- MODULE IbmDbAdapterProofs -------------------------
(***************************************************************************)
(* Proofs about IbmDbAdapter for any set of statements: types whatever     *)
(* goes wrong; the restored mode where commit, rollback and the switching  *)
(* of autocommit do not fail on a connection that lasts; and, where        *)
(* besides no deadlock takes the earlier work of a block, the refinement   *)
(* of IbmDbAtomicTx.                                                       *)
(*                                                                         *)
(* The inductive invariant says what the server holds of an open block:    *)
(* on a living connection exactly the work the block has done, with        *)
(* autocommit off (Holds).  A statement is followed through the stages of  *)
(* its execution (Ready) to what its outcomes have in common (Reached).    *)
(***************************************************************************)
EXTENDS IbmDbAdapter, TLAPS

-----------------------------------------------------------------------------
(* The inductive invariant.                                                *)

\* Commit, rollback and autocommit do what they are asked for, or the
\* connection is lost.
Steady == "end" \notin Faults /\ "mode" \notin Faults

\* The server keeps the work of a block until its end, or the connection is lost.
Whole == "late deadlock" \notin Faults

Conns == [open : BOOLEAN, alive : BOOLEAN, autocommit : BOOLEAN,
          pending : SUBSET Work, begun : BOOLEAN]

Sane(c) ==
    /\ c \in Conns
    /\ c.pending # {} => c.alive /\ ~c.autocommit
    /\ c.alive => c.open

\* On a living connection the work is pending if the block has begun, and there
\* is no transaction if it has not.
Holds(c, work) ==
    c.alive => IF c.begun THEN ~c.autocommit /\ (Whole => c.pending = work)
                          ELSE c.autocommit /\ c.pending = {}

Typed ==
    /\ db \in SUBSET Work /\ tried \in SUBSET Work
    /\ tx \in [open : BOOLEAN, work : SUBSET Work, told : SUBSET Work]
    /\ ~tx.open => tx = NoBlock
    /\ answer \in [says : {"none", "done", "failed", "committed", "rolled back"},
                   work : SUBSET Work]

Inv ==
    /\ Typed
    /\ Sane(conn)
    /\ conn.begun => tx.open
    /\ Steady => Holds(conn, tx.work) /\ (tx.open /\ ~conn.begun => tx.work = {})

LEMMA InvIsEnough == Inv => TypeOK /\ (Steady => ModeRestored)
<1> SUFFICES ASSUME Inv PROVE TypeOK /\ (Steady => ModeRestored)
  OBVIOUS
<1>1. TypeOK
  BY DEF Inv, Typed, Sane, Conns, TypeOK
<1>2. Steady => ModeRestored
  BY DEF Inv, Holds, ModeRestored
<1> QED
  BY <1>1, <1>2

-----------------------------------------------------------------------------
(* The stages of a statement.                                              *)

\* A connection is never new to a block that has done something, and a block
\* that has begun keeps its connection.
Steps(c) ==
    /\ Sane(c)
    /\ c.begun => tx.open
    /\ conn.begun => c.begun /\ c.open
    /\ Steady /\ c.alive /\ ~conn.alive => tx.work = {}

\* Connection c and database d before an attempt.
Ready(c, d) ==
    /\ Steps(c) /\ d \in SUBSET Work
    /\ Steady => Holds(c, tx.work) /\ d = db

\* An open block has begun.
Begun(c) == tx.open => c.begun

Whys == {"done", "link", "statement", "deadlock", "sequence"}

\* The outcome o of an attempt at w.
Reached(o, w) ==
    /\ o.why \in Whys
    /\ Steps(o.c) /\ o.db \in SUBSET Work
    /\ o.why \in {"done", "deadlock", "sequence"} => Begun(o.c)
    /\ Steady =>
          /\ Holds(o.c, tx.work \union IF o.why = "done" THEN {w} ELSE {})
          /\ o.why = "done" => o.c.alive
          /\ o.why \in {"deadlock", "sequence"} \/ tx.open => o.db = db
          /\ o.db = db \/ o.db = db \union {w}
          /\ o.why = "done" /\ ~tx.open => o.db = db \union {w}

-----------------------------------------------------------------------------
(* The calls of the extension.                                             *)

\* Every outcome of a call is its effect, a failure, or a loss of the connection.
LEMMA CallOutcomes ==
    ASSUME NEW c, NEW d, NEW done, NEW failures, NEW o \in Call(c, d, done, failures)
    PROVE  \/ ~c.alive /\ o = Outcome(c, d, "link")
           \/ c.alive /\ o = done
           \/ c.alive /\ o \in failures
           \/ c.alive /\ o = Outcome(Lost(c), d, "link")
           \/ c.alive /\ o = Outcome(Lost(done.c), done.db, "link")
BY DEF Call

LEMMA OutcomeFields ==
    \A c, d, why : /\ Outcome(c, d, why).c = c /\ Outcome(c, d, why).db = d
                   /\ Outcome(c, d, why).why = why
BY DEF Outcome

LEMMA BeginOutcomes ==
    ASSUME NEW c, Sane(c), NEW d, NEW o \in BeginDbTransaction(c, d)
    PROVE  /\ o.db = d /\ Sane(o.c)
           /\ o.c.begun /\ o.c.open = c.open
           /\ o.c.alive => c.alive /\ o.c.pending = c.pending
           /\ Steady /\ o.c.alive => ~o.c.autocommit
<1> DEFINE b == [c EXCEPT !.begun = TRUE]
           set == [b EXCEPT !.autocommit = FALSE]
<1>1. c \in Conns
  BY DEF Sane
<1>2. /\ b \in Conns /\ b.open = c.open /\ b.alive = c.alive /\ b.begun
      /\ b.pending = c.pending /\ b.autocommit = c.autocommit
  BY <1>1 DEF Conns
<1> HIDE DEF b
<1>3. /\ set \in Conns /\ set.open = c.open /\ set.alive = c.alive /\ set.begun
      /\ set.pending = c.pending /\ ~set.autocommit
  BY <1>2 DEF Conns
<1> HIDE DEF set
<1>4. o \in Call(b, d, Outcome(set, d, "done"), Failure(b, d, "mode"))
  BY DEF BeginDbTransaction, AutoCommitOff, IBM_DB_autocommit, b, set
<1>5. \/ ~b.alive /\ o.c = b /\ o.db = d
      \/ o.c = set /\ o.db = d
      \/ ~Steady /\ o.c = b /\ o.db = d
      \/ (o.c = Lost(b) \/ o.c = Lost(set)) /\ o.db = d
  BY <1>4, CallOutcomes, OutcomeFields DEF Failure, Steady
<1>6. \A x \in Conns : /\ Lost(x) \in Conns /\ ~Lost(x).alive /\ Lost(x).pending = {}
                       /\ Lost(x).open = x.open /\ Lost(x).begun = x.begun
  BY DEF Lost, Conns
<1> QED
  BY <1>2, <1>3, <1>5, <1>6 DEF Sane

\* What executing w makes of a connection and a database.
LEMMA ExecuteOutcomes ==
    ASSUME NEW c, Sane(c), NEW d, NEW w, NEW o \in IBM_DB_execute(c, d, w)
    PROVE  /\ o.why \in Whys
           /\ o.c.open = c.open /\ o.c.begun = c.begun /\ o.c.autocommit = c.autocommit
           /\ \/ ~o.c.alive /\ o.c.pending = {} /\ o.why = "link"
                 /\ (o.db = d \/ (c.alive /\ c.autocommit /\ o.db = d \union {w}))
              \/ o.c.alive /\ c.alive /\ o.why = "done"
                 /\ IF c.autocommit THEN o.c.pending = {} /\ o.db = d \union {w}
                                    ELSE o.c.pending = c.pending \union {w} /\ o.db = d
              \/ o.c.alive /\ c.alive /\ o.why \in {"statement", "sequence"}
                 /\ o.c.pending = c.pending /\ o.db = d
              \/ o.c.alive /\ c.alive /\ o.why = "deadlock" /\ o.c.pending = {} /\ o.db = d
                 /\ (Whole => c.pending = {})
           /\ w \in Work => o.c \in Conns
<1> DEFINE more == [c EXCEPT !.pending = @ \union {w}]
           done == IF c.autocommit THEN Outcome(c, d \union {w}, "done") ELSE Outcome(more, d, "done")
           failures == Failure(c, d, "statement") \union Failure(c, d, "sequence")
                       \union Deadlock(c, d)
<1>1. c \in Conns /\ (c.pending # {} => c.alive /\ ~c.autocommit)
  BY DEF Sane
<1>2. /\ more.open = c.open /\ more.alive = c.alive /\ more.begun = c.begun
      /\ more.pending = c.pending \union {w} /\ more.autocommit = c.autocommit
      /\ w \in Work => more \in Conns
  BY <1>1 DEF Conns
<1> HIDE DEF more
<1>3. o \in Call(c, d, done, failures)
  BY DEF IBM_DB_execute, more
<1>4. /\ done.why = "done"
      /\ c.autocommit => done.c = c /\ done.db = d \union {w}
      /\ ~c.autocommit => done.c = more /\ done.db = d
  <2>1. CASE c.autocommit
    BY <2>1, OutcomeFields
  <2>2. CASE ~c.autocommit
    BY <2>2, OutcomeFields
  <2> QED
    BY <2>1, <2>2
<1> HIDE DEF done
<1>5. /\ Lost(c).open = c.open /\ Lost(c).begun = c.begun /\ Lost(c).autocommit = c.autocommit
      /\ ~Lost(c).alive /\ Lost(c).pending = {} /\ Lost(c) \in Conns
      /\ Lost(more).open = more.open /\ Lost(more).begun = more.begun
      /\ Lost(more).autocommit = more.autocommit
      /\ ~Lost(more).alive /\ Lost(more).pending = {} /\ (w \in Work => Lost(more) \in Conns)
      /\ Ended(c).open = c.open /\ Ended(c).begun = c.begun /\ Ended(c).autocommit = c.autocommit
      /\ Ended(c).alive = c.alive /\ Ended(c).pending = {} /\ Ended(c) \in Conns
  <2>1. c \in Conns /\ DOMAIN more = DOMAIN c
    BY <1>1 DEF more
  <2> QED
    BY <1>1, <1>2 DEF Lost, Ended, Conns, more
<1>6. CASE ~c.alive /\ o = Outcome(c, d, "link")
  BY <1>1, <1>6, OutcomeFields DEF Whys
<1>7. CASE c.alive /\ o = done
  BY <1>1, <1>2, <1>4, <1>7 DEF Whys
<1>8. CASE c.alive /\ o \in failures
  <2>1. \/ o = Outcome(c, d, "statement") \/ o = Outcome(c, d, "sequence")
        \/ o = Outcome(Ended(c), d, "deadlock") /\ (Whole => c.pending = {})
    BY <1>8 DEF Failure, Deadlock, Whole
  <2>2. CASE o = Outcome(c, d, "statement") \/ o = Outcome(c, d, "sequence")
    BY <1>1, <1>8, <2>2, OutcomeFields DEF Whys
  <2>3. CASE o = Outcome(Ended(c), d, "deadlock") /\ (Whole => c.pending = {})
    <3>1. o.c = Ended(c) /\ o.db = d /\ o.why = "deadlock"
      BY <2>3, OutcomeFields
    <3> QED
      BY <1>5, <1>8, <2>3, <3>1 DEF Whys
  <2> QED
    BY <2>1, <2>2, <2>3
<1>9. CASE c.alive /\ o = Outcome(Lost(c), d, "link")
  BY <1>1, <1>5, <1>9, OutcomeFields DEF Whys
<1>10. CASE c.alive /\ o = Outcome(Lost(done.c), done.db, "link")
  BY <1>1, <1>2, <1>4, <1>5, <1>10, OutcomeFields DEF Whys
<1> HIDE DEF failures
<1> QED
  BY <1>3, <1>6, <1>7, <1>8, <1>9, <1>10, CallOutcomes

-----------------------------------------------------------------------------
(* A statement, stage by stage.                                            *)

\* Outside of a block, and before it begins, nothing has been done.
LEMMA NothingDone == Inv /\ ~conn.begun /\ Steady => tx.work = {}
<1>1. NoBlock.work = {}
  BY DEF NoBlock
<1> QED
  BY <1>1 DEF Inv, Typed

LEMMA StartsReady ==
    ASSUME Inv, conn.begun => conn.open
    PROVE  Ready(conn, db)
BY DEF Inv, Typed, Ready, Steps, Sane

LEMMA MaterializeReady ==
    ASSUME Inv, NEW c, NEW d, Ready(c, d), NEW o \in Materialize(c, d)
    PROVE  Ready(o.c, o.db) /\ Begun(o.c)
<1>1. CASE tx.open /\ ~c.begun
  <2>1. Sane(c)
    BY DEF Ready, Steps
  <2>2. /\ o.db = d /\ Sane(o.c)
        /\ o.c.begun /\ o.c.open = c.open
        /\ o.c.alive => c.alive /\ o.c.pending = c.pending
        /\ Steady /\ o.c.alive => ~o.c.autocommit
    BY <1>1, <2>1, BeginOutcomes DEF Materialize
  <2>3. ~conn.begun /\ (Steady => tx.work = {})
    BY <1>1, NothingDone DEF Ready, Steps
  <2>4. Steps(o.c)
    BY <1>1, <2>2, <2>3 DEF Steps
  <2>5. Steady => Holds(o.c, tx.work)
    BY <1>1, <2>2, <2>3 DEF Ready, Holds
  <2> QED
    BY <2>2, <2>4, <2>5 DEF Ready, Begun
<1>2. CASE ~(tx.open /\ ~c.begun)
  <2>1. o.c = c /\ o.db = d
    BY <1>2, OutcomeFields DEF Materialize
  <2> QED
    BY <1>2, <2>1 DEF Begun
<1> QED
  BY <1>1, <1>2

\* A connection of its own is as good as new, or there is none.
LEMMA ConnectIsSane ==
    \A c \in Connect : /\ Sane(c) /\ ~c.begun /\ c.pending = {}
                       /\ c.alive => c.autocommit
<1>1. /\ Sane(NotConnected) /\ ~NotConnected.begun /\ NotConnected.pending = {}
      /\ ~NotConnected.alive
  BY DEF NotConnected, Sane, Conns
<1>2. /\ Sane(Connected) /\ ~Connected.begun /\ Connected.pending = {}
      /\ Connected.autocommit
  BY DEF Connected, NotConnected, Sane, Conns
<1> QED
  BY <1>1, <1>2 DEF Connect

LEMMA VerifyReady ==
    ASSUME Inv, NEW c, NEW d, Ready(c, d), NEW o \in Verify(c, d)
    PROVE  Ready(o.c, o.db) /\ (Begun(c) => Begun(o.c))
<1>1. Sane(c)
  BY DEF Ready, Steps
<1>2. CASE IBM_DB_active(c)
  <2>1. o.c = c /\ o.db = d
    BY <1>2, OutcomeFields DEF Verify
  <2> QED
    BY <2>1
<1>3. CASE ~IBM_DB_active(c)
  <2>1. PICK x \in Reconnect(c) :
            IF c.begun /\ ~conn.begun THEN o \in BeginDbTransaction(x, d)
            ELSE o = Outcome(x, d, "done")
    BY <1>3 DEF Verify
  <2>2. /\ Sane(x) /\ (c.open => x = c)
        /\ ~c.open => ~x.begun /\ x.pending = {} /\ (x.alive => x.autocommit)
    BY <1>1, ConnectIsSane DEF Reconnect
  <2>3. c.open => ~c.alive
    BY <1>3 DEF IBM_DB_active
  <2>4. CASE c.begun /\ ~conn.begun
    <3>1. /\ o.db = d /\ Sane(o.c) /\ o.c.begun /\ o.c.open = x.open
          /\ o.c.alive => x.alive /\ o.c.pending = x.pending
          /\ Steady /\ o.c.alive => ~o.c.autocommit
      BY <2>1, <2>2, <2>4, BeginOutcomes
    <3>2. tx.open /\ (Steady => tx.work = {})
      BY <2>4 DEF Ready, Steps, Inv
    <3>4. o.c.alive => o.c.pending = {}
      BY <2>2, <2>3, <3>1
    <3>5. Steps(o.c)
      BY <2>4, <3>1, <3>2 DEF Steps
    <3>6. Steady => Holds(o.c, tx.work)
      BY <3>1, <3>2, <3>4 DEF Holds
    <3> QED
      BY <3>1, <3>5, <3>6 DEF Ready, Begun
  <2>5. CASE ~(c.begun /\ ~conn.begun)
    <3>1. o.c = x /\ o.db = d
      BY <2>1, <2>5, OutcomeFields
    <3>2. CASE c.open
      BY <2>2, <3>1, <3>2
    <3>3. CASE ~c.open
      <4>1. ~conn.begun /\ ~c.begun
        BY <2>5, <3>3 DEF Ready, Steps
      <4>2. Steady => tx.work = {}
        BY <4>1, NothingDone
      <4>3. Steps(x) /\ Holds(x, tx.work)
        BY <2>2, <3>3, <4>1, <4>2 DEF Steps, Holds
      <4> QED
        BY <3>1, <4>1, <4>3 DEF Ready, Begun
    <3> QED
      BY <3>2, <3>3
  <2> QED
    BY <2>4, <2>5
<1> QED
  BY <1>2, <1>3

LEMMA ExecuteReached ==
    ASSUME Inv, NEW w \in Work, NEW c, NEW d, Ready(c, d), Begun(c),
           NEW o \in IBM_DB_execute(c, d, w)
    PROVE  Reached(o, w)
<1>1. Sane(c) /\ d \in SUBSET Work
  BY DEF Ready, Steps
<1>2. /\ o.why \in Whys
      /\ o.c.open = c.open /\ o.c.begun = c.begun /\ o.c.autocommit = c.autocommit
      /\ \/ ~o.c.alive /\ o.c.pending = {} /\ o.why = "link"
            /\ (o.db = d \/ (c.alive /\ c.autocommit /\ o.db = d \union {w}))
         \/ o.c.alive /\ c.alive /\ o.why = "done"
            /\ IF c.autocommit THEN o.c.pending = {} /\ o.db = d \union {w}
                               ELSE o.c.pending = c.pending \union {w} /\ o.db = d
         \/ o.c.alive /\ c.alive /\ o.why \in {"statement", "sequence"}
            /\ o.c.pending = c.pending /\ o.db = d
         \/ o.c.alive /\ c.alive /\ o.why = "deadlock" /\ o.c.pending = {} /\ o.db = d
            /\ (Whole => c.pending = {})
      /\ o.c \in Conns
  BY <1>1, ExecuteOutcomes
<1>3. o.db \in SUBSET Work
  BY <1>1, <1>2
<1>4. Steps(o.c)
  <2>1. Sane(o.c)
    BY <1>1, <1>2 DEF Sane
  <2> QED
    BY <1>2, <2>1 DEF Ready, Steps
<1>5. Begun(o.c)
  BY <1>2 DEF Begun
<1>6. ASSUME Steady
      PROVE  /\ Holds(o.c, tx.work \union IF o.why = "done" THEN {w} ELSE {})
             /\ o.why = "done" => o.c.alive
             /\ o.why \in {"deadlock", "sequence"} \/ tx.open => o.db = db
             /\ o.db = db \/ o.db = db \union {w}
             /\ o.why = "done" /\ ~tx.open => o.db = db \union {w}
  <2>1. Holds(c, tx.work) /\ d = db /\ (c.begun <=> tx.open)
    BY <1>6 DEF Ready, Steps, Begun
  <2>2. CASE ~o.c.alive
    <3>1. tx.open /\ c.alive => ~c.autocommit
      BY <2>1 DEF Holds
    <3> QED
      BY <1>1, <1>2, <2>1, <2>2, <3>1 DEF Holds
  <2>3. CASE o.c.alive /\ o.why = "deadlock"
    BY <1>2, <2>1, <2>3 DEF Holds
  <2>4. CASE o.c.alive /\ o.why # "deadlock"
    BY <1>2, <2>1, <2>4 DEF Holds
  <2> QED
    BY <2>2, <2>3, <2>4
<1> QED
  BY <1>2, <1>3, <1>4, <1>5, <1>6 DEF Reached

\* What an attempt has left is what the next one starts from.
LEMMA ReachedReady ==
    ASSUME NEW w, NEW o, Reached(o, w), o.why \in {"deadlock", "sequence"}
    PROVE  Ready(o.c, o.db) /\ Begun(o.c)
BY DEF Reached, Ready

\* Preparing changes nothing but the state of the link.
LEMMA PrepareReached ==
    ASSUME NEW w, NEW c, NEW d, Ready(c, d),
           NEW o \in IBM_DB_prepare(c, d)
    PROVE  /\ o.why = "done" => Ready(o.c, o.db)
           /\ o.why # "done" => o.why \notin {"deadlock", "sequence"} /\ Reached(o, w)
<1>1. Sane(c) /\ d \in SUBSET Work
  BY DEF Ready, Steps
<1>2. /\ Lost(c).open = c.open /\ Lost(c).begun = c.begun /\ Lost(c).autocommit = c.autocommit
      /\ ~Lost(c).alive /\ Lost(c).pending = {} /\ Lost(c) \in Conns
  BY <1>1 DEF Lost, Sane, Conns
<1>3. o \in Call(c, d, Outcome(c, d, "done"), Failure(c, d, "statement"))
  BY DEF IBM_DB_prepare
<1>4. /\ o.db = d
      /\ \/ o.c = c /\ o.why \in {"done", "link", "statement"}
         \/ o.c = Lost(c) /\ o.why = "link"
  BY <1>3, CallOutcomes, OutcomeFields DEF Failure
<1>5. Steps(c) /\ Steps(Lost(c))
  <2>1. Steps(c)
    BY DEF Ready
  <2>2. Sane(Lost(c))
    BY <1>2 DEF Sane
  <2> QED
    BY <1>2, <2>1, <2>2 DEF Steps
<1>6. Steps(o.c) /\ (o.c = c \/ ~o.c.alive)
  BY <1>2, <1>4, <1>5
<1>7. Steady => Holds(o.c, tx.work) /\ o.db = db
  BY <1>4, <1>6 DEF Ready, Holds
<1>8. o.why # "done" => Reached(o, w)
  BY <1>1, <1>4, <1>6, <1>7 DEF Reached, Whys
<1> QED
  BY <1>1, <1>4, <1>6, <1>7, <1>8 DEF Ready

\* The attempts of RawExecute and their repetition.
RawAttempt(w, c, d) == UNION {IBM_DB_execute(v.c, v.db, w) : v \in Verify(c, d)}

RawRepeated(w, outcomes) ==
    {o \in outcomes : o.why # "deadlock"}
    \union UNION {RawAttempt(w, o.c, o.db) : o \in {p \in outcomes : p.why = "deadlock"}}

LEMMA RawExecuteIs ==
    ASSUME NEW w
    PROVE  RawExecute(w) =
               RawRepeated(w, RawRepeated(w,
                   UNION {RawAttempt(w, o.c, o.db) : o \in Materialize(conn, db)}))
BY DEF RawExecute, Repeated, Then, RawRepeated, RawAttempt

\* What an attempt from a stage, or a repetition of it, comes to.
Attempted(w, outcomes) == \A o \in outcomes : Reached(o, w)

LEMMA RawAttemptReached ==
    ASSUME Inv, NEW w \in Work, NEW c, NEW d, Ready(c, d), Begun(c),
           NEW a \in RawAttempt(w, c, d)
    PROVE  Reached(a, w)
<1>1. PICK v \in Verify(c, d) : a \in IBM_DB_execute(v.c, v.db, w)
  BY DEF RawAttempt
<1>2. Ready(v.c, v.db) /\ Begun(v.c)
  BY VerifyReady
<1> QED
  BY <1>1, <1>2, ExecuteReached

LEMMA RawRepeatedReached ==
    ASSUME Inv, NEW w \in Work, NEW outcomes, Attempted(w, outcomes)
    PROVE  Attempted(w, RawRepeated(w, outcomes))
<1> SUFFICES ASSUME NEW x \in RawRepeated(w, outcomes) PROVE Reached(x, w)
  BY DEF Attempted
<1>1. CASE x \in outcomes
  BY <1>1 DEF Attempted
<1>2. ASSUME NEW o \in outcomes, o.why = "deadlock", x \in RawAttempt(w, o.c, o.db)
      PROVE  Reached(x, w)
  <2>1. Ready(o.c, o.db) /\ Begun(o.c)
    BY <1>2, ReachedReady DEF Attempted
  <2> QED
    BY <1>2, <2>1, RawAttemptReached
<1> QED
  BY <1>1, <1>2 DEF RawRepeated

LEMMA RawExecuteReached ==
    ASSUME Inv, conn.begun => conn.open, NEW w \in Work
    PROVE  Attempted(w, RawExecute(w))
<1> DEFINE first == UNION {RawAttempt(w, o.c, o.db) : o \in Materialize(conn, db)}
<1>1. Attempted(w, first)
  <2> SUFFICES ASSUME NEW o \in Materialize(conn, db), NEW a \in RawAttempt(w, o.c, o.db)
               PROVE  Reached(a, w)
    BY DEF Attempted
  <2>1. Ready(o.c, o.db) /\ Begun(o.c)
    BY StartsReady, MaterializeReady
  <2> QED
    BY <2>1, RawAttemptReached
<1> HIDE DEF first
<1>2. Attempted(w, RawRepeated(w, RawRepeated(w, first)))
  BY <1>1, RawRepeatedReached
<1> QED
  BY <1>2, RawExecuteIs DEF first

\* The attempts of ExecQueryRetStmt and their repetition.
QueryAttempt(w, c, d) ==
    {p \in IBM_DB_prepare(c, d) : p.why # "done"}
    \union UNION {UNION {IBM_DB_execute(m.c, m.db, w) : m \in Materialize(p.c, p.db)} :
                  p \in {q \in IBM_DB_prepare(c, d) : q.why = "done"}}

LEMMA ExecQueryIs ==
    ASSUME NEW w
    PROVE  ExecQueryRetStmt(w) =
               {o \in QueryAttempt(w, conn, db) : o.why # "sequence"}
               \union UNION {QueryAttempt(w, o.c, o.db) :
                             o \in {p \in QueryAttempt(w, conn, db) : p.why = "sequence"}}
BY DEF ExecQueryRetStmt, Repeated, Then, QueryAttempt

LEMMA QueryAttemptReached ==
    ASSUME Inv, NEW w \in Work, NEW c, NEW d, Ready(c, d),
           NEW a \in QueryAttempt(w, c, d)
    PROVE  Reached(a, w)
<1>1. CASE a \in IBM_DB_prepare(c, d) /\ a.why # "done"
  BY <1>1, PrepareReached
<1>2. ASSUME NEW p \in IBM_DB_prepare(c, d), p.why = "done", NEW m \in Materialize(p.c, p.db),
             a \in IBM_DB_execute(m.c, m.db, w)
      PROVE  Reached(a, w)
  <2>1. Ready(p.c, p.db)
    BY <1>2, PrepareReached
  <2>2. Ready(m.c, m.db) /\ Begun(m.c)
    BY <2>1, MaterializeReady
  <2> QED
    BY <1>2, <2>2, ExecuteReached
<1> QED
  BY <1>1, <1>2 DEF QueryAttempt

LEMMA ExecQueryReached ==
    ASSUME Inv, conn.begun => conn.open, NEW w \in Work
    PROVE  Attempted(w, ExecQueryRetStmt(w))
<1>1. ASSUME NEW o \in QueryAttempt(w, conn, db)
      PROVE  Reached(o, w)
  BY StartsReady, QueryAttemptReached
<1>2. ASSUME NEW o \in QueryAttempt(w, conn, db), o.why = "sequence",
             NEW a \in QueryAttempt(w, o.c, o.db)
      PROVE  Reached(a, w)
  <2>1. Ready(o.c, o.db)
    BY <1>1, <1>2, ReachedReady
  <2> QED
    BY <2>1, QueryAttemptReached
<1> QED
  BY <1>1, <1>2, ExecQueryIs DEF Attempted

-----------------------------------------------------------------------------
(* Commit, rollback and what follows them.                                 *)

\* What the calls that end a transaction keep of a connection.
Follows(o, c) ==
    /\ Sane(o.c) /\ o.c.open = c.open /\ o.c.begun = c.begun
    /\ o.c.alive => c.alive

LEMMA AutoCommitOnOutcomes ==
    ASSUME NEW c, Sane(c), NEW d, NEW o \in AutoCommitOn(c, d)
    PROVE  /\ Follows(o, c)
           /\ o.db = d \/ o.db = d \union c.pending
           /\ Steady /\ o.c.alive => /\ o.c.autocommit /\ o.c.pending = {}
                                     /\ o.db = d \union c.pending
<1> DEFINE set == [c EXCEPT !.autocommit = TRUE]
           done == Ended(set)
<1>1. c \in Conns /\ (c.pending # {} => c.alive /\ ~c.autocommit) /\ (c.alive => c.open)
  BY DEF Sane
<1>2. /\ done \in Conns /\ done.open = c.open /\ done.alive = c.alive /\ done.begun = c.begun
      /\ done.autocommit /\ done.pending = {}
  BY <1>1 DEF Ended, Conns
<1>3. o \in Call(c, d, Outcome(done, d \union c.pending, "done"), Failure(c, d, "mode"))
  BY DEF AutoCommitOn, IBM_DB_autocommit
<1> HIDE DEF done
<1>4. \A x \in Conns : /\ Lost(x) \in Conns /\ ~Lost(x).alive /\ Lost(x).pending = {}
                       /\ Lost(x).open = x.open /\ Lost(x).begun = x.begun
  BY DEF Lost, Conns
<1>5. \/ ~c.alive /\ o.c = c /\ o.db = d
      \/ o.c = done /\ o.db = d \union c.pending
      \/ ~Steady /\ o.c = c /\ o.db = d
      \/ o.c = Lost(c) /\ o.db = d
      \/ o.c = Lost(done) /\ o.db = d \union c.pending
  BY <1>3, CallOutcomes, OutcomeFields DEF Failure, Steady
<1>6. Sane(done) /\ Sane(Lost(c)) /\ Sane(Lost(done))
  BY <1>1, <1>2, <1>4 DEF Sane
<1> QED
  BY <1>1, <1>2, <1>4, <1>5, <1>6 DEF Follows

LEMMA CommitOutcomes ==
    ASSUME NEW c, Sane(c), NEW d, NEW o \in IBM_DB_commit(c, d)
    PROVE  /\ Follows(o, c)
           /\ \/ o.c.pending = {} /\ (o.db = d \/ o.db = d \union c.pending)
              \/ o.c.pending = c.pending /\ o.db = d
           /\ Steady => o.c.pending = {}
           /\ Steady /\ o.c.alive => o.db = d \union c.pending
<1>1. c \in Conns /\ (c.pending # {} => c.alive /\ ~c.autocommit) /\ (c.alive => c.open)
  BY DEF Sane
<1>2. /\ Ended(c) \in Conns /\ Ended(c).open = c.open /\ Ended(c).alive = c.alive
      /\ Ended(c).begun = c.begun /\ Ended(c).pending = {}
  BY <1>1 DEF Ended, Conns
<1>3. \A x \in Conns : /\ Lost(x) \in Conns /\ ~Lost(x).alive /\ Lost(x).pending = {}
                       /\ Lost(x).open = x.open /\ Lost(x).begun = x.begun
  BY DEF Lost, Conns
<1>4. o \in Call(c, d, Outcome(Ended(c), d \union c.pending, "done"), Failure(c, d, "end"))
  BY DEF IBM_DB_commit
<1>5. \/ ~c.alive /\ o.c = c /\ o.db = d
      \/ o.c = Ended(c) /\ o.db = d \union c.pending
      \/ ~Steady /\ o.c = c /\ o.db = d
      \/ o.c = Lost(c) /\ o.db = d
      \/ o.c = Lost(Ended(c)) /\ o.db = d \union c.pending
  BY <1>4, CallOutcomes, OutcomeFields DEF Failure, Steady
<1>6. Sane(Ended(c)) /\ Sane(Lost(c)) /\ Sane(Lost(Ended(c)))
  BY <1>1, <1>2, <1>3 DEF Sane
<1> QED
  BY <1>1, <1>2, <1>3, <1>5, <1>6 DEF Follows

LEMMA RollbackOutcomes ==
    ASSUME NEW c, Sane(c), NEW d, NEW o \in IBM_DB_rollback(c, d)
    PROVE  /\ Follows(o, c) /\ o.db = d
           /\ o.c.pending = {} \/ o.c.pending = c.pending
           /\ Steady => o.c.pending = {}
<1>1. c \in Conns /\ (c.pending # {} => c.alive /\ ~c.autocommit) /\ (c.alive => c.open)
  BY DEF Sane
<1>2. /\ Ended(c) \in Conns /\ Ended(c).open = c.open /\ Ended(c).alive = c.alive
      /\ Ended(c).begun = c.begun /\ Ended(c).pending = {}
  BY <1>1 DEF Ended, Conns
<1>3. \A x \in Conns : /\ Lost(x) \in Conns /\ ~Lost(x).alive /\ Lost(x).pending = {}
                       /\ Lost(x).open = x.open /\ Lost(x).begun = x.begun
  BY DEF Lost, Conns
<1>4. o \in Call(c, d, Outcome(Ended(c), d, "done"), Failure(c, d, "end"))
  BY DEF IBM_DB_rollback
<1>5. /\ o.db = d
      /\ \/ ~c.alive /\ o.c = c
         \/ o.c = Ended(c)
         \/ ~Steady /\ o.c = c
         \/ o.c = Lost(c)
         \/ o.c = Lost(Ended(c))
  BY <1>4, CallOutcomes, OutcomeFields DEF Failure, Steady
<1>6. Sane(Ended(c)) /\ Sane(Lost(c)) /\ Sane(Lost(Ended(c)))
  BY <1>1, <1>2, <1>3 DEF Sane
<1> QED
  BY <1>1, <1>2, <1>3, <1>5, <1>6 DEF Follows

\* A transaction is over and the mode restored, or the connection is lost.
Over(o, c) == Follows(o, c) /\ (Steady /\ o.c.alive => o.c.autocommit /\ o.c.pending = {})

LEMMA CommitDbOutcomes ==
    ASSUME NEW c, Sane(c), NEW d, NEW o \in CommitDbTransaction(c, d)
    PROVE  /\ Over(o, c)
           /\ o.db = d \/ o.db = d \union c.pending
           /\ Steady /\ o.c.alive => o.db = d \union c.pending
<1>1. PICK e \in IBM_DB_commit(c, d) : o \in AutoCommitOn(e.c, e.db)
  BY DEF CommitDbTransaction, Then
<1>2. /\ Follows(e, c)
      /\ \/ e.c.pending = {} /\ (e.db = d \/ e.db = d \union c.pending)
         \/ e.c.pending = c.pending /\ e.db = d
      /\ Steady => e.c.pending = {}
      /\ Steady /\ e.c.alive => e.db = d \union c.pending
  BY CommitOutcomes
<1>3. /\ Follows(o, e.c)
      /\ o.db = e.db \/ o.db = e.db \union e.c.pending
      /\ Steady /\ o.c.alive => /\ o.c.autocommit /\ o.c.pending = {}
                                /\ o.db = e.db \union e.c.pending
  BY <1>1, <1>2, AutoCommitOnOutcomes DEF Follows
<1>4. Over(o, c)
  BY <1>2, <1>3 DEF Over, Follows
<1>5. o.db = d \/ o.db = d \union c.pending
  BY <1>2, <1>3
<1>6. Steady /\ o.c.alive => o.db = d \union c.pending
  BY <1>2, <1>3 DEF Follows
<1> QED
  BY <1>4, <1>5, <1>6

LEMMA RollbackDbOutcomes ==
    ASSUME NEW c, Sane(c), NEW d, NEW o \in RollbackDbTransaction(c, d)
    PROVE  /\ Over(o, c)
           /\ o.db = d \/ o.db = d \union c.pending
           /\ Steady => o.db = d
<1>1. PICK e \in IBM_DB_rollback(c, d) : o \in AutoCommitOn(e.c, e.db)
  BY DEF RollbackDbTransaction, Then
<1>2. /\ Follows(e, c) /\ e.db = d
      /\ e.c.pending = {} \/ e.c.pending = c.pending
      /\ Steady => e.c.pending = {}
  BY RollbackOutcomes
<1>3. /\ Follows(o, e.c)
      /\ o.db = e.db \/ o.db = e.db \union e.c.pending
      /\ Steady /\ o.c.alive => o.c.autocommit /\ o.c.pending = {}
  BY <1>1, <1>2, AutoCommitOnOutcomes DEF Follows
<1>4. Over(o, c)
  BY <1>2, <1>3 DEF Over, Follows
<1> QED
  BY <1>2, <1>3, <1>4

-----------------------------------------------------------------------------
(* Every step keeps the invariant, and, while calls are steady and blocks   *)
(* whole, is a step of IbmDbAtomicTx.                                      *)

\* A step as both proofs see it.
StepHolds == Inv' /\ (Steady /\ Whole => Tx!Next)

LEMMA NoBlockFields ==
    /\ NoBlock = [open |-> FALSE, work |-> {}, told |-> {}]
    /\ NoBlock \in [open : BOOLEAN, work : SUBSET Work, told : SUBSET Work]
    /\ ~NoBlock.open /\ NoBlock.work = {}
BY DEF NoBlock

LEMMA AfterFields ==
    ASSUME Typed, tx.open, NEW w \in Work, NEW o
    PROVE  /\ After(w, o) \in [open : BOOLEAN, work : SUBSET Work, told : SUBSET Work]
           /\ After(w, o).open
           /\ After(w, o).work = tx.work \union IF o.why = "done" THEN {w} ELSE {}
BY DEF Typed, After

\* What a statement makes of its block, from an outcome that is reached.
LEMMA StatementInBlock ==
    ASSUME Inv, NEW w \in Work, NEW o, Reached(o, w), tx.open,
           conn' = o.c, db' = o.db, tx' = After(w, o), tried' = tried \union {w},
           answer' = Says(IF o.why = "done" THEN "done" ELSE "failed")
    PROVE  StepHolds
<1> DEFINE done == IF o.why = "done" THEN {w} ELSE {}
<1>1. /\ tx' \in [open : BOOLEAN, work : SUBSET Work, told : SUBSET Work]
      /\ tx'.open /\ tx'.work = tx.work \union done
      /\ tx.work \in SUBSET Work /\ tx.open
  <2>1. Typed
    BY DEF Inv
  <2>2. /\ After(w, o) \in [open : BOOLEAN, work : SUBSET Work, told : SUBSET Work]
        /\ After(w, o).open /\ After(w, o).work = tx.work \union done
    BY <2>1, AfterFields
  <2> QED
    BY <2>1, <2>2 DEF Typed
<1>2. /\ answer' \in [says : {"none", "done", "failed", "committed", "rolled back"},
                      work : SUBSET Work]
      /\ answer'.says = IF o.why = "done" THEN "done" ELSE "failed"
  BY DEF Says
<1>3. /\ Steps(o.c) /\ o.db \in SUBSET Work
      /\ o.why \in {"done", "deadlock", "sequence"} => Begun(o.c)
  BY DEF Reached
<1>4. ASSUME Steady
      PROVE  /\ Holds(o.c, tx'.work)
             /\ o.why = "done" => o.c.alive
             /\ db' = db
  BY <1>1, <1>4 DEF Reached
<1>5. Inv'
  <2>1. Typed'
    BY <1>1, <1>2, <1>3 DEF Typed, Inv
  <2>2. Sane(conn)' /\ (conn.begun => tx.open)'
    BY <1>1, <1>3 DEF Steps, Sane
  <2>3. ASSUME Steady, ~o.c.begun
        PROVE  tx'.work = {}
    <3>1. ~conn.begun /\ o.why # "done"
      BY <1>1, <1>3, <2>3 DEF Steps, Begun
    <3>2. tx.work = {}
      BY <2>3, <3>1, NothingDone
    <3> QED
      BY <1>1, <3>1, <3>2
  <2>4. Steady => Holds(conn, tx.work)' /\ (tx.open /\ ~conn.begun => tx.work = {})'
    BY <1>4, <2>3 DEF Holds
  <2> QED
    BY <2>1, <2>2, <2>4 DEF Inv
<1>6. ASSUME Steady, Whole PROVE Tx!Next
  <2>1. conn'.alive /\ ~conn.alive => tx.work = {}
    BY <1>3, <1>6 DEF Steps
  <2>2. /\ [open |-> tx.open, work |-> tx.work]' = [open |-> TRUE, work |-> tx'.work]
        /\ [open |-> tx.open, work |-> tx.work].open
    BY <1>1
  <2>3. CASE o.why = "done"
    <3>1. Tx!Done(w)
      BY <1>1, <1>2, <1>4, <1>6, <2>2, <2>3 DEF Tx!Done, Tx!Becomes
    <3> QED
      BY <2>1, <3>1 DEF Tx!Next, Tx!ConnectionOf
  <2>4. CASE o.why # "done"
    <3>1. Tx!Failed
      BY <1>1, <1>2, <1>4, <1>6, <2>2, <2>4 DEF Tx!Failed, Tx!Becomes
    <3> QED
      BY <2>1, <3>1 DEF Tx!Next, Tx!ConnectionOf
  <2> QED
    BY <2>3, <2>4
<1> QED
  BY <1>5, <1>6 DEF StepHolds

\* Outside of a block a statement is there if it is reported as done.
LEMMA StatementAlone ==
    ASSUME Inv, NEW w \in Work, NEW o, Reached(o, w), ~tx.open,
           conn' = o.c, db' = o.db, tx' = tx, tried' = tried \union {w},
           answer' = Says(IF o.why = "done" THEN "done" ELSE "failed")
    PROVE  StepHolds
<1>1. tx = [open |-> FALSE, work |-> {}, told |-> {}]
  BY NoBlockFields DEF Inv, Typed
<1>2. /\ answer' \in [says : {"none", "done", "failed", "committed", "rolled back"},
                      work : SUBSET Work]
      /\ answer'.says = IF o.why = "done" THEN "done" ELSE "failed"
  BY DEF Says
<1>3. Steps(o.c) /\ o.db \in SUBSET Work
  BY DEF Reached
<1>4. ASSUME Steady
      PROVE  /\ Holds(o.c, {})
             /\ o.db = db \/ o.db = db \union {w}
             /\ o.why = "done" => o.db = db \union {w}
  <2>1. tx.work = {}
    BY <1>1
  <2>2. Holds(o.c, {} \union IF o.why = "done" THEN {w} ELSE {}) /\ ~o.c.begun
    BY <1>3, <1>4, <2>1 DEF Reached, Steps
  <2> QED
    BY <1>4, <2>2 DEF Reached, Holds
<1>5. Inv'
  <2>1. Typed'
    BY <1>1, <1>2, <1>3 DEF Typed, Inv
  <2>2. Sane(conn)' /\ (conn.begun => tx.open)'
    BY <1>3 DEF Steps, Sane
  <2>3. Steady => Holds(conn, tx.work)' /\ (tx.open /\ ~conn.begun => tx.work = {})'
    BY <1>1, <1>4 DEF Holds
  <2> QED
    BY <2>1, <2>2, <2>3 DEF Inv
<1>6. ASSUME Steady, Whole PROVE Tx!Next
  <2>1. Tx!Alone(w)
    BY <1>2, <1>4, <1>6 DEF Tx!Alone
  <2>2. Tx!ConnectionOf([open |-> tx.open, work |-> tx.work].work)
    BY <1>1 DEF Tx!ConnectionOf
  <2> QED
    BY <2>1, <2>2 DEF Tx!Next
<1> QED
  BY <1>5, <1>6 DEF StepHolds

LEMMA StatementHolds ==
    ASSUME Inv, NEW w \in Work, NEW outcomes, Statement(w, outcomes), Attempted(w, outcomes)
    PROVE  StepHolds
<1>1. PICK o \in outcomes :
          /\ conn' = o.c /\ db' = o.db
          /\ answer' = Says(IF o.why = "done" THEN "done" ELSE "failed")
          /\ tx' = IF tx.open THEN After(w, o) ELSE tx
  BY DEF Statement
<1>2. tried' = tried \union {w} /\ Reached(o, w)
  BY DEF Statement, Attempted
<1>3. CASE tx.open
  BY <1>1, <1>2, <1>3, StatementInBlock
<1>4. CASE ~tx.open
  BY <1>1, <1>2, <1>4, StatementAlone
<1> QED
  BY <1>3, <1>4

LEMMA StartHolds == Inv /\ Start => StepHolds
<1> SUFFICES ASSUME Inv, Start PROVE StepHolds
  OBVIOUS
<1>1. /\ tx = [open |-> FALSE, work |-> {}, told |-> {}]
      /\ tx' = [open |-> TRUE, work |-> {}, told |-> {}]
      /\ answer' = [says |-> "none", work |-> {}]
      /\ conn' = conn /\ db' = db /\ tried' = tried
  BY NoBlockFields DEF Start, NewBlock, Says, Inv, Typed
<1>2. Inv'
  BY <1>1 DEF Inv, Typed, Sane, Holds
<1>3. Tx!Start /\ Tx!ConnectionOf([open |-> tx.open, work |-> tx.work].work)
  BY <1>1 DEF Tx!Start, Tx!Becomes, Tx!ConnectionOf
<1> QED
  BY <1>2, <1>3 DEF StepHolds, Tx!Next

\* The block ends, reported as what, with the outcome o.
Ends(o, what) ==
    /\ tx.open /\ tx' = NoBlock /\ tried' = tried
    /\ conn' = [o.c EXCEPT !.begun = FALSE] /\ db' = o.db
    /\ answer' = [says |-> what, work |-> tx.told]

LEMMA EndHolds ==
    ASSUME Inv, NEW o, Over(o, conn), o.db = db \/ o.db = db \union conn.pending,
           NEW what \in {"committed", "rolled back"}, Ends(o, what)
    PROVE  /\ Inv'
           /\ tx' = [open |-> FALSE, work |-> {}, told |-> {}]
           /\ conn'.alive => conn.alive
           /\ conn'.alive <=> o.c.alive
<1>1. o.c \in Conns /\ (o.c.pending # {} => o.c.alive /\ ~o.c.autocommit)
      /\ (o.c.alive => o.c.open)
  BY DEF Over, Follows, Sane
<1>2. /\ conn' \in Conns /\ (conn'.open <=> o.c.open) /\ (conn'.alive <=> o.c.alive)
      /\ conn'.pending = o.c.pending /\ (conn'.autocommit <=> o.c.autocommit) /\ ~conn'.begun
  BY <1>1 DEF Conns, Ends
<1>3. tx' = NoBlock
  BY DEF Ends
<1>4. /\ answer' \in [says : {"none", "done", "failed", "committed", "rolled back"},
                      work : SUBSET Work]
      /\ db' \in SUBSET Work /\ tried' \in SUBSET Work
  <2>1. conn.pending \in SUBSET Work
    BY DEF Inv, Sane, Conns
  <2> QED
    BY <2>1 DEF Inv, Typed, Ends
<1>5. Typed'
  BY <1>3, <1>4, NoBlockFields DEF Typed
<1>6. Sane(conn)' /\ (conn.begun => tx.open)'
  BY <1>1, <1>2 DEF Sane
<1>7. Steady => Holds(conn, tx.work)' /\ (tx.open /\ ~conn.begun => tx.work = {})'
  <2>1. ~tx'.open
    BY <1>3, NoBlockFields
  <2> QED
    BY <1>2, <2>1 DEF Over, Holds
<1>8. Inv'
  BY <1>5, <1>6, <1>7 DEF Inv
<1> QED
  BY <1>2, <1>3, <1>8, NoBlockFields DEF Over, Follows

\* What the server holds of a block that ends.
LEMMA PendingWork ==
    ASSUME Inv, Steady, Whole, tx.open
    PROVE  /\ conn.begun /\ conn.alive => conn.pending = tx.work
           /\ ~conn.begun => tx.work = {}
           /\ ~conn.alive => conn.pending = {}
BY DEF Inv, Holds, Sane

LEMMA UnbegunOver ==
    ASSUME Inv, ~conn.begun
    PROVE  /\ Over(Outcome(conn, db, "done"), conn)
           /\ Outcome(conn, db, "done").db = db
           /\ Outcome(conn, db, "done").c = conn
BY OutcomeFields DEF Inv, Over, Follows, Holds

LEMMA CommitHolds == Inv /\ Commit => StepHolds
<1> SUFFICES ASSUME Inv, Commit PROVE StepHolds
  OBVIOUS
<1>1. /\ tx.open /\ tx' = NoBlock /\ tried' = tried
      /\ answer' = [says |-> "committed", work |-> tx.told]
  BY DEF Commit, End
<1>2. PICK o \in (IF conn.begun THEN CommitDbTransaction(conn, db)
                  ELSE {Outcome(conn, db, "done")}) :
          conn' = [o.c EXCEPT !.begun = FALSE] /\ db' = o.db
  BY DEF Commit, End
<1>3. /\ Over(o, conn)
      /\ o.db = db \/ o.db = db \union conn.pending
      /\ conn.begun /\ Steady /\ o.c.alive => o.db = db \union conn.pending
      /\ ~conn.begun => o.db = db
  <2>1. CASE conn.begun
    BY <1>2, <2>1, CommitDbOutcomes DEF Inv
  <2>2. CASE ~conn.begun
    BY <1>2, <2>2, UnbegunOver
  <2> QED
    BY <2>1, <2>2
<1>4. /\ Inv'
      /\ tx' = [open |-> FALSE, work |-> {}, told |-> {}]
      /\ conn'.alive => conn.alive
      /\ conn'.alive <=> o.c.alive
  <2>1. Ends(o, "committed")
    BY <1>1, <1>2 DEF Ends
  <2> QED
    BY <1>3, <2>1, EndHolds
<1>5. ASSUME Steady, Whole PROVE Tx!Next
  <2> DEFINE view == [open |-> tx.open, work |-> tx.work]
  <2>1. view.open /\ view.work = tx.work /\ view' = [open |-> FALSE, work |-> {}]
    BY <1>1, <1>4
  <2>2. db' \in {IF conn.alive THEN db \union tx.work ELSE db}
                \union (IF conn'.alive THEN {} ELSE {db})
    <3>1. CASE conn.begun
      BY <1>1, <1>2, <1>3, <1>4, <1>5, <3>1, PendingWork
    <3>2. CASE ~conn.begun
      BY <1>1, <1>2, <1>3, <1>5, <3>2, PendingWork
    <3> QED
      BY <3>1, <3>2
  <2>3. Tx!Commit
    BY <1>1, <2>1, <2>2 DEF Tx!Commit, Tx!Closed
  <2>4. Tx!ConnectionOf(view.work)
    BY <1>4 DEF Tx!ConnectionOf
  <2> QED
    BY <2>3, <2>4 DEF Tx!Next
<1> QED
  BY <1>4, <1>5 DEF StepHolds

LEMMA RollbackHolds == Inv /\ Rollback => StepHolds
<1> SUFFICES ASSUME Inv, Rollback PROVE StepHolds
  OBVIOUS
<1>1. /\ tx.open /\ tx' = NoBlock /\ tried' = tried
      /\ answer' = [says |-> "rolled back", work |-> tx.told]
  BY DEF Rollback, End
<1>2. PICK o \in (IF conn.begun THEN RollbackDbTransaction(conn, db)
                  ELSE {Outcome(conn, db, "done")}) :
          conn' = [o.c EXCEPT !.begun = FALSE] /\ db' = o.db
  BY DEF Rollback, End
<1>3. /\ Over(o, conn)
      /\ o.db = db \/ o.db = db \union conn.pending
      /\ Steady => o.db = db
  <2>1. CASE conn.begun
    BY <1>2, <2>1, RollbackDbOutcomes DEF Inv
  <2>2. CASE ~conn.begun
    BY <1>2, <2>2, UnbegunOver
  <2> QED
    BY <2>1, <2>2
<1>4. /\ Inv'
      /\ tx' = [open |-> FALSE, work |-> {}, told |-> {}]
      /\ conn'.alive => conn.alive
  <2>1. Ends(o, "rolled back")
    BY <1>1, <1>2 DEF Ends
  <2> QED
    BY <1>3, <2>1, EndHolds
<1>5. ASSUME Steady, Whole PROVE Tx!Next
  <2>1. Tx!Rollback
    <3>1. [open |-> tx.open, work |-> tx.work].open
      BY <1>1
    <3>2. [open |-> tx.open, work |-> tx.work]' = [open |-> FALSE, work |-> {}]
      BY <1>4
    <3> QED
      BY <1>1, <1>2, <1>3, <1>5, <3>1, <3>2 DEF Tx!Rollback, Tx!Closed
  <2>2. Tx!ConnectionOf([open |-> tx.open, work |-> tx.work].work)
    BY <1>4 DEF Tx!ConnectionOf
  <2> QED
    BY <2>1, <2>2 DEF Tx!Next
<1> QED
  BY <1>4, <1>5 DEF StepHolds

\* Between blocks a connection that is sane, of no block, and alive only with
\* the mode restored changes nothing that matters.
LEMMA BetweenHolds ==
    ASSUME Inv, ~tx.open, tx' = tx, tried' = tried,
           answer' = Says("none") \/ answer' = answer,
           Sane(conn'), ~conn'.begun, Steady => Holds(conn', {}),
           db' \in SUBSET Work, Steady => db' = db
    PROVE  StepHolds
<1>1. tx = [open |-> FALSE, work |-> {}, told |-> {}]
  BY NoBlockFields DEF Inv, Typed
<1>2. /\ answer' \in [says : {"none", "done", "failed", "committed", "rolled back"},
                      work : SUBSET Work]
      /\ answer'.says \in {"none", answer.says}
  <2>1. CASE answer' = Says("none")
    BY <2>1 DEF Says
  <2>2. CASE answer' = answer
    BY <2>2 DEF Inv, Typed
  <2> QED
    BY <2>1, <2>2
<1>3. Typed'
  BY <1>1, <1>2 DEF Typed, Inv
<1>4. Sane(conn)' /\ (conn.begun => tx.open)'
      /\ (Steady => Holds(conn, tx.work)' /\ (tx.open /\ ~conn.begun => tx.work = {})')
  BY <1>1 DEF Sane, Holds
<1>5. Inv'
  BY <1>3, <1>4 DEF Inv
<1>6. ASSUME Steady, Whole PROVE Tx!Next
  <2>1. Tx!Idle /\ Tx!ConnectionOf([open |-> tx.open, work |-> tx.work].work)
    BY <1>1, <1>2, <1>6 DEF Tx!Idle, Tx!ConnectionOf
  <2> QED
    BY <2>1 DEF Tx!Next
<1> QED
  BY <1>5, <1>6 DEF StepHolds

\* Verification between blocks.
LEMMA VerifyBetween ==
    ASSUME Inv, ~tx.open, NEW o \in Verify(conn, db)
    PROVE  /\ Sane(o.c) /\ ~o.c.begun /\ o.db \in SUBSET Work
           /\ Steady => Holds(o.c, {}) /\ o.db = db
<1>1. ~conn.begun
  BY DEF Inv
<1>2. Ready(conn, db)
  BY <1>1, StartsReady
<1>3. Ready(o.c, o.db)
  BY <1>2, VerifyReady
<1> QED
  BY <1>3 DEF Ready, Steps, Holds

LEMMA CheckOutHolds == Inv /\ CheckOut => StepHolds
<1> SUFFICES ASSUME Inv, CheckOut PROVE StepHolds
  OBVIOUS
<1>1. PICK o \in Verify(conn, db) : conn' = o.c /\ db' = o.db
  BY DEF CheckOut, Between
<1>2. ~tx.open /\ tx' = tx /\ tried' = tried /\ answer' = Says("none")
  BY DEF CheckOut, Between
<1> QED
  BY <1>1, <1>2, VerifyBetween, BetweenHolds

LEMMA ResetHolds == Inv /\ Reset => StepHolds
<1> SUFFICES ASSUME Inv, Reset PROVE StepHolds
  OBVIOUS
<1>1. PICK o \in (IF conn.open THEN RollbackDbTransaction(conn, db) ELSE Verify(conn, db)) :
          conn' = o.c /\ db' = o.db
  BY DEF Reset, Between
<1>2. ~tx.open /\ tx' = tx /\ tried' = tried /\ answer' = Says("none")
  BY DEF Reset, Between
<1>3. CASE conn.open
  <2>1. /\ Over(o, conn)
        /\ o.db = db \/ o.db = db \union conn.pending
        /\ Steady => o.db = db
    BY <1>1, <1>3, RollbackDbOutcomes DEF Inv
  <2>2. ~conn.begun /\ db \in SUBSET Work /\ conn.pending \in SUBSET Work
    BY <1>2 DEF Inv, Typed, Sane, Conns
  <2>3. Sane(o.c) /\ ~o.c.begun /\ (Steady => Holds(o.c, {}))
    BY <2>1, <2>2 DEF Over, Follows, Holds
  <2>4. o.db \in SUBSET Work
    BY <2>1, <2>2
  <2> QED
    BY <1>1, <1>2, <2>1, <2>3, <2>4, BetweenHolds
<1>4. CASE ~conn.open
  BY <1>1, <1>2, <1>4, VerifyBetween, BetweenHolds
<1> QED
  BY <1>3, <1>4

LEMMA DisconnectHolds == Inv /\ Disconnect => StepHolds
<1> SUFFICES ASSUME Inv, Disconnect PROVE StepHolds
  OBVIOUS
<1>1. conn' = NotConnected /\ db' = db
  BY OutcomeFields DEF Disconnect, Between
<1>2. ~tx.open /\ tx' = tx /\ tried' = tried /\ answer' = Says("none")
  BY DEF Disconnect, Between
<1>3. Sane(NotConnected) /\ ~NotConnected.begun /\ Holds(NotConnected, {})
  BY DEF NotConnected, Sane, Conns, Holds
<1> QED
  BY <1>1, <1>2, <1>3, BetweenHolds DEF Inv, Typed

LEMMA LinkDownHolds == Inv /\ LinkDown => StepHolds
<1> SUFFICES ASSUME Inv, LinkDown PROVE StepHolds
  OBVIOUS
<1>1. conn' = Lost(conn) /\ db' = db /\ tx' = tx /\ tried' = tried /\ answer' = answer
  BY DEF LinkDown
<1>2. /\ Lost(conn) \in Conns /\ ~Lost(conn).alive /\ Lost(conn).pending = {}
      /\ Lost(conn).begun = conn.begun
  BY DEF Lost, Inv, Sane, Conns
<1>3. Inv'
  <2>1. Typed'
    BY <1>1 DEF Typed, Inv
  <2>2. Sane(conn)' /\ (conn.begun => tx.open)' /\ Holds(conn, tx.work)'
    BY <1>1, <1>2 DEF Sane, Holds, Inv
  <2>3. Steady => (tx.open /\ ~conn.begun => tx.work = {})'
    BY <1>1, <1>2 DEF Inv
  <2> QED
    BY <2>1, <2>2, <2>3 DEF Inv
<1>4. Tx!Next
  BY <1>1, <1>2 DEF Tx!Next, Tx!Idle, Tx!ConnectionOf
<1> QED
  BY <1>3, <1>4 DEF StepHolds

LEMMA NextHolds == Inv /\ Next => StepHolds
<1> SUFFICES ASSUME Inv, Next PROVE StepHolds
  OBVIOUS
<1>1. ASSUME NEW w \in Work, Statement(w, RawExecute(w)) PROVE StepHolds
  <2>1. conn.begun => conn.open
    BY <1>1 DEF Statement
  <2> QED
    BY <1>1, <2>1, RawExecuteReached, StatementHolds
<1>2. ASSUME NEW w \in Work, Statement(w, ExecQueryRetStmt(w)) PROVE StepHolds
  <2>1. conn.begun => conn.open
    BY <1>2 DEF Statement
  <2> QED
    BY <1>2, <2>1, ExecQueryReached, StatementHolds
<1>3. CASE Start
  BY <1>3, StartHolds
<1>4. CASE Commit
  BY <1>4, CommitHolds
<1>5. CASE Rollback
  BY <1>5, RollbackHolds
<1>6. CASE CheckOut
  BY <1>6, CheckOutHolds
<1>7. CASE Reset
  BY <1>7, ResetHolds
<1>8. CASE Disconnect
  BY <1>8, DisconnectHolds
<1>9. CASE LinkDown
  BY <1>9, LinkDownHolds
<1> QED
  BY <1>1, <1>2, <1>3, <1>4, <1>5, <1>6, <1>7, <1>8, <1>9 DEF Next

LEMMA StutterHolds == Inv /\ UNCHANGED vars => Inv' /\ UNCHANGED Tx!avars
<1> SUFFICES ASSUME Inv, UNCHANGED vars PROVE Inv' /\ UNCHANGED Tx!avars
  OBVIOUS
<1>1. conn' = conn /\ db' = db /\ tx' = tx /\ tried' = tried /\ answer' = answer
  BY DEF vars
<1>2. Inv'
  BY <1>1 DEF Inv, Typed, Sane, Holds
<1> QED
  BY <1>1, <1>2 DEF Tx!avars

LEMMA InitHolds == Init => Inv /\ Tx!Init
<1> SUFFICES ASSUME Init PROVE Inv /\ Tx!Init
  OBVIOUS
<1>1. conn = Connected /\ db = {} /\ tx = NoBlock /\ tried = {} /\ answer = Says("none")
  BY DEF Init
<1>2. /\ Connected \in Conns /\ Connected.alive /\ Connected.open /\ ~Connected.begun
      /\ Connected.autocommit /\ Connected.pending = {}
  BY DEF Connected, NotConnected, Conns
<1>3. Inv
  BY <1>1, <1>2, NoBlockFields DEF Inv, Typed, Sane, Holds, Says
<1>4. Tx!Init
  BY <1>1, <1>2, NoBlockFields DEF Tx!Init, Tx!Closed, Says
<1> QED
  BY <1>3, <1>4

-----------------------------------------------------------------------------
(* Theorems.                                                               *)

\* The inductive invariant holds, whatever goes wrong.
THEOREM Invariance == Spec => []Inv
<1>1. Init => Inv
  BY InitHolds
<1>2. Inv /\ [Next]_vars => Inv'
  BY NextHolds, StutterHolds DEF StepHolds
<1> QED
  BY <1>1, <1>2, PTL DEF Spec

\* Every variable keeps its shape; what is pending is on a connection that lasts
\* and has autocommit off, whichever calls fail and however statements are
\* retried (1418, 2165-2208, 2309-2341).
THEOREM TypesHold == Spec => []TypeOK
<1>1. Inv => TypeOK
  BY InvIsEnough
<1> QED
  BY <1>1, Invariance, PTL

\* Between blocks a living connection has autocommit on and nothing pending,
\* although no call looks at what becomes of the ones that restore it
\* (2455-2521), if those fail only with the connection.
THEOREM ModeIsRestored == ASSUME Steady PROVE Spec => []ModeRestored
<1>1. Inv => ModeRestored
  BY InvIsEnough
<1> QED
  BY <1>1, Invariance, PTL

\* With the same proviso, and while no deadlock takes the earlier work of a
\* block, the adapter implements IbmDbAtomicTx: blocks reach the database as a
\* whole or not at all, across retries after sequence errors and after deadlocks
\* of first statements, reconnects and lost connections.
THEOREM Implementation == ASSUME Steady, Whole PROVE Spec => ActsAtomically
<1>1. Init => Tx!Init
  BY InitHolds
<1>2. Inv /\ [Next]_vars => [Tx!Next]_Tx!avars
  BY NextHolds, StutterHolds DEF StepHolds
<1> QED
  BY <1>1, <1>2, Invariance, PTL DEF Spec, Tx!Spec, ActsAtomically

=============================================================================
