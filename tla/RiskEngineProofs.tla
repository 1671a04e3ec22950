-------------------------- MODULE RiskEngineProofs --------------------------
(***************************************************************************)
(* Machine-checked proofs about RiskEngine: whatever the students, the     *)
(* number of concurrent recompute transactions, the signals and the        *)
(* configurations, each assessed student has exactly one current row, and  *)
(* each row superseded its immediate predecessor.                          *)
(***************************************************************************)
EXTENDS RiskEngine, SequenceTheorems, FiniteSetTheorems, TLAPS

IsRow(r) ==
  /\ r.is_current \in BOOLEAN
  /\ r = [is_current |-> r.is_current, tier |-> r.tier, score |-> r.score,
          findings |-> r.findings, signals |-> r.signals, minor |-> r.minor,
          config_version |-> r.config_version, supersedes |-> r.supersedes,
          alert |-> r.alert]

\* histories are sequences of rows, one per student
HistType ==
  /\ hist = [s \in Students |-> hist[s]]
  /\ \A s \in Students : IsSequence(hist[s]) /\ \A i \in DOMAIN hist[s] : IsRow(hist[s][i])

WorkerType ==
  /\ \A b \in due : b.students \in SUBSET Students
  /\ ids \in [Workers -> SUBSET Students]
  /\ pc \in [Workers -> {"idle", "reading", "loop", "flush"}]
  /\ todo \in [Workers -> SUBSET Students]
  /\ head \in [Workers -> Students \cup {Null}]
  /\ seen = [w \in Workers |-> seen[w]]
  /\ wrote = [w \in Workers |-> [s \in Students |-> wrote[w][s]]]
  /\ \A w \in Workers : pc[w] = "flush" => head[w] \in Students

\* what a transaction remembers of the row it selected stays true of the history
SeenValid ==
  \A w \in Workers : pc[w] = "flush" =>
    /\ seen[w] \subseteq DOMAIN hist[head[w]]
    /\ \A i, j \in seen[w] : i = j
    /\ \A i \in seen[w] :
         Signature(hist[head[w]][i]) # Evaluate(snap[w][head[w]].signals, config[w].config)

\* an uncommitted row will supersede exactly the row that is current now
WroteValid ==
  \A w \in Workers, s \in Students : wrote[w][s] # Null =>
    /\ IsRow(wrote[w][s]) /\ wrote[w][s].is_current = TRUE
    /\ wrote[w][s].supersedes = CurrentRows(s)
    /\ \A i \in CurrentRows(s) : Signature(hist[s][i]) # Signature(wrote[w][s])

\* the row lock and the unique index: one uncommitted row per student
OneWriter ==
  \A v, w \in Workers, s \in Students :
    wrote[v][s] # Null /\ wrote[w][s] # Null => v = w

IInv == HistType /\ WorkerType /\ OneCurrent /\ SupersessionChain
        /\ SeenValid /\ WroteValid /\ OneWriter

-----------------------------------------------------------------------------
(* What Superseded does to a history.                                      *)

\* Appending to a sequence keeps it one, and keeps its elements.
LEMMA AppendIsSequence ==
  ASSUME NEW q, IsSequence(q), NEW e
  PROVE  /\ IsSequence(Append(q, e))
         /\ Len(Append(q, e)) = Len(q) + 1
         /\ Append(q, e)[Len(q) + 1] = e
         /\ \A i \in 1..Len(q) : Append(q, e)[i] = q[i]
<1> DEFINE S == {q[i] : i \in 1..Len(q)} \cup {e}
<1>1. q \in Seq(S)
  <2>1. [i \in 1..Len(q) |-> q[i]] \in [1..Len(q) -> S]
    OBVIOUS
  <2>2. q \in [1..Len(q) -> S] /\ Len(q) \in Nat
    BY <2>1 DEF IsSequence
  <2> QED BY <2>2, SeqDef
<1>2. e \in S
  OBVIOUS
<1> HIDE DEF S
<1>3. Append(q, e) \in Seq(S) /\ Len(Append(q, e)) = Len(q) + 1
  BY <1>1, <1>2
<1>4. Append(q, e) = [i \in 1..Len(Append(q, e)) |-> Append(q, e)[i]]
  BY <1>3, LenProperties
<1> QED BY <1>1, <1>2, <1>3, <1>4 DEF IsSequence

\* Superseded appends the new row and retires, of the old ones, those it names.
LEMMA SupersededRows ==
  ASSUME NEW q, IsSequence(q), NEW r
  PROVE  /\ IsSequence(Superseded(q, r))
         /\ Len(Superseded(q, r)) = Len(q) + 1
         /\ DOMAIN q = 1..Len(q)
         /\ DOMAIN Superseded(q, r) = 1..(Len(q) + 1)
         /\ Superseded(q, r)[Len(q) + 1] = r
         /\ \A i \in 1..Len(q) : Superseded(q, r)[i] =
              IF i \in r.supersedes THEN Retired(q[i]) ELSE q[i]
<1> DEFINE p == [i \in DOMAIN q |-> IF i \in r.supersedes THEN Retired(q[i]) ELSE q[i]]
<1>1. DOMAIN q = 1..Len(q) /\ Len(q) \in Nat
  BY DEF IsSequence
<1>2. Len(p) = Len(q) /\ IsSequence(p)
  <2>1. p \in Seq({p[i] : i \in 1..Len(q)})
    <3>1. p \in [1..Len(q) -> {p[i] : i \in 1..Len(q)}]
      BY <1>1
    <3> HIDE DEF p
    <3> QED BY <1>1, <3>1, SeqDef
  <2>2. DOMAIN p = 1..Len(q)
    BY <1>1
  <2> HIDE DEF p
  <2>3. Len(p) \in Nat /\ DOMAIN p = 1..Len(p) /\ p = [i \in 1..Len(p) |-> p[i]]
    BY <2>1, LenProperties
  <2>4. Len(p) = Len(q)
    BY <1>1, <2>2, <2>3
  <2> QED BY <2>3, <2>4 DEF IsSequence
<1>3. \A i \in 1..Len(q) : p[i] = IF i \in r.supersedes THEN Retired(q[i]) ELSE q[i]
  BY <1>1
<1>4. Superseded(q, r) = Append(p, r)
  BY DEF Superseded
<1> HIDE DEF p
<1>5. /\ IsSequence(Append(p, r)) /\ Len(Append(p, r)) = Len(q) + 1
      /\ Append(p, r)[Len(q) + 1] = r /\ \A i \in 1..Len(q) : Append(p, r)[i] = p[i]
  BY <1>2, AppendIsSequence
<1>6. DOMAIN Append(p, r) = 1..(Len(q) + 1)
  BY <1>5 DEF IsSequence
<1> QED BY <1>1, <1>3, <1>4, <1>5, <1>6

\* A retired row keeps its signature and everything but is_current.
LEMMA RetiredRow ==
  ASSUME NEW r, IsRow(r)
  PROVE  /\ IsRow(Retired(r)) /\ Signature(Retired(r)) = Signature(r)
         /\ Retired(r).supersedes = r.supersedes
         /\ Retired(r).is_current = FALSE
         /\ Retired(r).tier = r.tier /\ Retired(r).minor = r.minor
<1> DEFINE c == FALSE
<1>a. Retired(r) = [r EXCEPT !.is_current = c]
  BY DEF Retired
<1> HIDE DEF c
<1>1. Retired(r) =
        [is_current |-> c, tier |-> r.tier, score |-> r.score,
         findings |-> r.findings, signals |-> r.signals, minor |-> r.minor,
         config_version |-> r.config_version, supersedes |-> r.supersedes,
         alert |-> r.alert]
  BY <1>a DEF IsRow
<1> USE DEF c
<1> HIDE DEF Retired
<1> DEFINE t == Retired(r)
<1>2. /\ t.is_current = FALSE /\ t.tier = r.tier /\ t.score = r.score
      /\ t.findings = r.findings /\ t.signals = r.signals /\ t.minor = r.minor
      /\ t.config_version = r.config_version /\ t.supersedes = r.supersedes
      /\ t.alert = r.alert
  BY <1>1
<1> QED BY <1>1, <1>2 DEF IsRow, Signature

LEMMA EvaluateIsSignature ==
  ASSUME NEW sig, NEW c
  PROVE  Evaluate(sig, c) = [tier |-> Evaluate(sig, c).tier, score |-> Evaluate(sig, c).score,
                             findings |-> Evaluate(sig, c).findings]
BY DEF Evaluate

-----------------------------------------------------------------------------
(* The inductive invariant.                                                *)

LEMMA InitIInv == Init => IInv
<1> SUFFICES ASSUME Init PROVE IInv
  OBVIOUS
<1> USE DEF Init
<1>1. HistType
  BY DEF HistType, IsSequence
<1>2. WorkerType
  BY DEF WorkerType, NothingWritten
<1>3. OneCurrent /\ SupersessionChain
  BY DEF OneCurrent, SupersessionChain, CurrentRows
<1>4. SeenValid
  BY DEF SeenValid
<1>5. WroteValid /\ OneWriter
  BY DEF WroteValid, OneWriter, NothingWritten
<1> QED BY <1>1, <1>2, <1>3, <1>4, <1>5 DEF IInv

\* Steps that write neither a history nor a worker's memory of one.
LEMMA Untouched ==
  ASSUME IInv, UNCHANGED <<hist, pc, ids, todo, snap, config, head, seen, wrote>>,
         \A b \in due' : b.students \in SUBSET Students
  PROVE  IInv'
<1>1. HistType' /\ OneCurrent' /\ SupersessionChain'
  BY DEF IInv, HistType, OneCurrent, SupersessionChain, CurrentRows
<1>2. WorkerType'
  BY DEF IInv, WorkerType
<1>3. SeenValid'
  BY DEF IInv, SeenValid
<1>4. WroteValid' /\ OneWriter'
  BY DEF IInv, WroteValid, OneWriter, CurrentRows
<1> QED BY <1>1, <1>2, <1>3, <1>4 DEF IInv

LEMMA BeginIInv ==
  ASSUME IInv, NEW w \in Workers, NEW S \in SUBSET Students, Begin(w, S), due' \subseteq due
  PROVE  IInv'
<1> USE DEF Begin, store
<1>1. HistType' /\ OneCurrent' /\ SupersessionChain'
  BY DEF IInv, HistType, OneCurrent, SupersessionChain, CurrentRows
<1>2. WorkerType'
  BY DEF IInv, WorkerType
<1>3. SeenValid'
  BY DEF IInv, WorkerType, SeenValid
<1>4. WroteValid' /\ OneWriter'
  BY DEF IInv, WroteValid, OneWriter, CurrentRows
<1> QED BY <1>1, <1>2, <1>3, <1>4 DEF IInv

LEMMA ReadDobsIInv ==
  ASSUME IInv, NEW w \in Workers, ReadDobs(w)
  PROVE  IInv'
<1> USE DEF ReadDobs, store
<1>1. HistType' /\ OneCurrent' /\ SupersessionChain'
  BY DEF IInv, HistType, OneCurrent, SupersessionChain, CurrentRows
<1>2. WorkerType'
  BY DEF IInv, WorkerType, world
<1>3. SeenValid'
  BY DEF IInv, WorkerType, SeenValid
<1>4. WroteValid' /\ OneWriter'
  BY DEF IInv, WroteValid, OneWriter, CurrentRows
<1> QED BY <1>1, <1>2, <1>3, <1>4 DEF IInv

LEMMA SelectCurrentIInv ==
  ASSUME IInv, NEW w \in Workers, SelectCurrent(w)
  PROVE  IInv'
<1> USE DEF SelectCurrent, store, world
<1>1. HistType' /\ OneCurrent' /\ SupersessionChain'
  BY ZenonT(30) DEF IInv, HistType, OneCurrent, SupersessionChain, CurrentRows
<1>2. PICK s \in todo[w] :
        /\ todo' = [todo EXCEPT ![w] = @ \ {s}]
        /\ \/ /\ Evaluated(w, s, "changed")
              /\ pc' = [pc EXCEPT ![w] = "flush"]
              /\ head' = [head EXCEPT ![w] = s]
              /\ seen' = [seen EXCEPT ![w] = CurrentRows(s)]
           \/ UNCHANGED <<pc, head, seen>>
  OBVIOUS
<1>3. s \in Students
  BY <1>2 DEF IInv, WorkerType
<1>4. WorkerType'
  <2>1. CASE UNCHANGED <<pc, head, seen>>
    BY <1>2, <2>1 DEF IInv, WorkerType
  <2>2. CASE /\ pc' = [pc EXCEPT ![w] = "flush"]
             /\ head' = [head EXCEPT ![w] = s]
             /\ seen' = [seen EXCEPT ![w] = CurrentRows(s)]
    <3>1. head'[w] = s /\ \A v \in Workers \ {w} : pc'[v] = pc[v] /\ head'[v] = head[v]
      BY <2>2 DEF IInv, WorkerType
    <3>2. /\ pc' \in [Workers -> {"idle", "reading", "loop", "flush"}]
          /\ head' \in [Workers -> Students \cup {Null}]
          /\ todo' \in [Workers -> SUBSET Students]
      BY <1>2, <1>3, <2>2 DEF IInv, WorkerType
    <3>3. seen' = [v \in Workers |-> seen'[v]]
      BY <2>2 DEF IInv, WorkerType
    <3> QED BY <1>3, <3>1, <3>2, <3>3 DEF IInv, WorkerType
  <2> QED BY <1>2, <2>1, <2>2
<1>5. SeenValid'
  <2>1. CASE UNCHANGED <<pc, head, seen>>
    BY <2>1 DEF IInv, SeenValid
  <2>2. CASE /\ Evaluated(w, s, "changed")
             /\ pc' = [pc EXCEPT ![w] = "flush"]
             /\ head' = [head EXCEPT ![w] = s]
             /\ seen' = [seen EXCEPT ![w] = CurrentRows(s)]
    <3>1. \A i \in CurrentRows(s) :
            Signature(hist[s][i]) # Evaluate(snap[w][s].signals, config[w].config)
      BY <2>2 DEF Evaluated
    <3>2. CurrentRows(s) \subseteq DOMAIN hist[s] /\ \A i, j \in CurrentRows(s) : i = j
      BY <1>3 DEF IInv, OneCurrent, CurrentRows
    <3>3. head'[w] = s /\ seen'[w] = CurrentRows(s)
      BY <2>2 DEF IInv, WorkerType
    <3>4. \A v \in Workers \ {w} : pc'[v] = pc[v] /\ head'[v] = head[v] /\ seen'[v] = seen[v]
      BY <2>2 DEF IInv, WorkerType
    <3> QED BY <3>1, <3>2, <3>3, <3>4 DEF IInv, SeenValid
  <2> QED BY <1>2, <2>1, <2>2
<1>6. WroteValid' /\ OneWriter'
  BY DEF IInv, WroteValid, OneWriter, CurrentRows
<1> QED BY <1>1, <1>4, <1>5, <1>6 DEF IInv

LEMMA FlushIInv ==
  ASSUME IInv, NEW w \in Workers, Flush(w)
  PROVE  IInv'
<1> USE DEF Flush, store, world
<1> DEFINE s == head[w]
<1>1. s \in Students
  BY DEF IInv, WorkerType
<1>2. HistType' /\ OneCurrent' /\ SupersessionChain'
  BY DEF IInv, HistType, OneCurrent, SupersessionChain, CurrentRows
<1>3. WorkerType'
  BY DEF IInv, WorkerType
<1>4. SeenValid'
  BY DEF IInv, WorkerType, SeenValid
<1>5. seen[w] = CurrentRows(s)
  <2>1. seen[w] \subseteq DOMAIN hist[s] /\ \A i, j \in seen[w] : i = j
    BY DEF IInv, SeenValid
  <2>2. CASE hist[s] = <<>>
    <3>1. DOMAIN hist[s] = {}
      BY <2>2
    <3> QED BY <1>1, <2>1, <2>2, <3>1 DEF IInv, OneCurrent
  <2>3. CASE hist[s] # <<>>
    BY <1>1, <2>1, <2>3 DEF IInv, OneCurrent
  <2> QED BY <2>2, <2>3
<1>6. /\ IsRow(NewRow(w, s)) /\ NewRow(w, s).is_current = TRUE
      /\ NewRow(w, s).supersedes = seen[w]
      /\ Signature(NewRow(w, s)) = Evaluate(snap[w][s].signals, config[w].config)
  BY EvaluateIsSignature DEF NewRow, IsRow, Signature
<1>7. \A v \in Workers, t \in Students :
        wrote'[v][t] = IF v = w /\ t = s THEN NewRow(w, s) ELSE wrote[v][t]
  BY <1>1 DEF IInv, WorkerType
<1>8. \A t \in Students : CurrentRows(t)' = CurrentRows(t)
  BY DEF CurrentRows
<1>9. WroteValid'
  <2> SUFFICES ASSUME NEW v \in Workers, NEW t \in Students, wrote'[v][t] # Null
               PROVE  /\ IsRow(wrote'[v][t]) /\ wrote'[v][t].is_current = TRUE
                      /\ wrote'[v][t].supersedes = CurrentRows(t)'
                      /\ \A i \in CurrentRows(t)' :
                           Signature(hist'[t][i]) # Signature(wrote'[v][t])
    BY DEF WroteValid
  <2> hist' = hist /\ CurrentRows(t)' = CurrentRows(t)
    BY <1>8
  <2>1. CASE v = w /\ t = s
    <3>1. wrote'[v][t] = NewRow(w, s)
      BY <1>7, <2>1
    <3>2. \A i \in seen[w] : Signature(hist[s][i]) # Signature(NewRow(w, s))
      BY <1>6 DEF IInv, SeenValid
    <3> HIDE DEF s
    <3> QED BY <1>5, <1>6, <2>1, <3>1, <3>2
  <2>2. CASE ~(v = w /\ t = s)
    BY <1>7, <2>2 DEF IInv, WroteValid
  <2> QED BY <2>1, <2>2
<1>10. OneWriter'
  <2>1. \A v \in Workers \ {w} : wrote[v][s] = Null
    BY DEF Blockers
  <2> QED BY <1>7, <2>1 DEF IInv, OneWriter
<1> QED BY <1>2, <1>3, <1>4, <1>9, <1>10 DEF IInv

LEMMA FlushFailsIInv ==
  ASSUME IInv, NEW w \in Workers, FlushFails(w)
  PROVE  IInv'
<1> USE DEF FlushFails, FlushFailure, store, world
<1>1. HistType' /\ OneCurrent' /\ SupersessionChain'
  BY DEF IInv, HistType, OneCurrent, SupersessionChain, CurrentRows
<1>2. WorkerType'
  BY DEF IInv, WorkerType
<1>3. SeenValid'
  BY DEF IInv, WorkerType, SeenValid
<1>4. WroteValid' /\ OneWriter'
  BY DEF IInv, WroteValid, OneWriter, CurrentRows
<1> QED BY <1>1, <1>2, <1>3, <1>4 DEF IInv

LEMMA CrashIInv ==
  ASSUME IInv, NEW w \in Workers, Crash(w)
  PROVE  IInv'
<1> USE DEF Crash, Reset, store, NothingWritten
<1>1. HistType' /\ OneCurrent' /\ SupersessionChain'
  BY DEF IInv, HistType, OneCurrent, SupersessionChain, CurrentRows
<1>2. WorkerType'
  BY DEF IInv, WorkerType
<1>3. SeenValid'
  BY DEF IInv, WorkerType, SeenValid
<1>4. \A v \in Workers, t \in Students :
        wrote'[v][t] = IF v = w THEN Null ELSE wrote[v][t]
  BY DEF IInv, WorkerType
<1>5. WroteValid' /\ OneWriter'
  BY <1>4 DEF IInv, WroteValid, OneWriter, CurrentRows
<1> QED BY <1>1, <1>2, <1>3, <1>5 DEF IInv

\* What a commit does to each history: the old rows keep their contents, the row
\* the transaction wrote is appended and the row it names is retired.
Committed(w, s) == wrote[w][s] # Null

LEMMA CommitRows ==
  ASSUME IInv, NEW w \in Workers, Commit(w)
  PROVE  /\ \A s \in Students : IsSequence(hist[s]) /\ Len(hist[s]) \in Nat
                                /\ DOMAIN hist[s] = 1..Len(hist[s])
         /\ \A s \in Students : ~Committed(w, s) => hist'[s] = hist[s]
         /\ \A s \in Students : \A i \in 1..Len(hist[s]) :
              /\ i \in DOMAIN hist'[s]
              /\ IsRow(hist'[s][i]) /\ Signature(hist'[s][i]) = Signature(hist[s][i])
              /\ hist'[s][i].tier = hist[s][i].tier /\ hist'[s][i].minor = hist[s][i].minor
              /\ hist'[s][i].supersedes = hist[s][i].supersedes
              /\ hist'[s][i].is_current =
                   IF Committed(w, s) /\ i \in wrote[w][s].supersedes
                   THEN FALSE ELSE hist[s][i].is_current
         /\ \A s \in Students : Committed(w, s) =>
              /\ IsSequence(hist'[s]) /\ Len(hist'[s]) = Len(hist[s]) + 1
              /\ DOMAIN hist'[s] = 1..(Len(hist[s]) + 1)
              /\ hist'[s][Len(hist[s]) + 1] = wrote[w][s]
<1> USE DEF Committed
<1> DEFINE n(s) == Len(hist[s])
<1>1. \A s \in Students : hist'[s] =
        IF Committed(w, s) THEN Superseded(hist[s], wrote[w][s]) ELSE hist[s]
  BY DEF Commit
<1>2. \A s \in Students : IsSequence(hist[s]) /\ n(s) \in Nat /\ DOMAIN hist[s] = 1..n(s)
  BY DEF IInv, HistType, IsSequence
<1>a. ASSUME NEW s \in Students, Committed(w, s)
      PROVE  /\ IsSequence(hist'[s]) /\ Len(hist'[s]) = n(s) + 1
             /\ DOMAIN hist'[s] = 1..(n(s) + 1)
             /\ hist'[s][n(s) + 1] = wrote[w][s]
             /\ \A i \in 1..n(s) : hist'[s][i] =
                  IF i \in wrote[w][s].supersedes THEN Retired(hist[s][i]) ELSE hist[s][i]
  <2> DEFINE q == hist[s]
             r == wrote[w][s]
  <2>1. hist'[s] = Superseded(q, r) /\ IsSequence(q)
    BY <1>1, <1>2, <1>a
  <2> HIDE DEF q, r
  <2>2. /\ IsSequence(Superseded(q, r)) /\ Len(Superseded(q, r)) = Len(q) + 1
        /\ DOMAIN Superseded(q, r) = 1..(Len(q) + 1)
        /\ Superseded(q, r)[Len(q) + 1] = r
        /\ \A i \in 1..Len(q) : Superseded(q, r)[i] =
             IF i \in r.supersedes THEN Retired(q[i]) ELSE q[i]
    BY <2>1, SupersededRows
  <2> QED BY <2>1, <2>2 DEF q, r
<1>3. \A s \in Students : \A i \in 1..n(s) :
        /\ i \in DOMAIN hist'[s]
        /\ IsRow(hist'[s][i]) /\ Signature(hist'[s][i]) = Signature(hist[s][i])
        /\ hist'[s][i].tier = hist[s][i].tier /\ hist'[s][i].minor = hist[s][i].minor
        /\ hist'[s][i].supersedes = hist[s][i].supersedes
        /\ hist'[s][i].is_current =
             IF Committed(w, s) /\ i \in wrote[w][s].supersedes THEN FALSE ELSE hist[s][i].is_current
  <2> SUFFICES ASSUME NEW s \in Students, NEW i \in 1..n(s)
               PROVE  /\ i \in DOMAIN hist'[s]
                      /\ IsRow(hist'[s][i]) /\ Signature(hist'[s][i]) = Signature(hist[s][i])
                      /\ hist'[s][i].tier = hist[s][i].tier
                      /\ hist'[s][i].minor = hist[s][i].minor
                      /\ hist'[s][i].supersedes = hist[s][i].supersedes
                      /\ hist'[s][i].is_current =
                           IF Committed(w, s) /\ i \in wrote[w][s].supersedes
                           THEN FALSE ELSE hist[s][i].is_current
    OBVIOUS
  <2>1. IsRow(hist[s][i])
    BY <1>2 DEF IInv, HistType
  <2>2. CASE Committed(w, s)
    <3>1. DOMAIN hist'[s] = 1..(n(s) + 1)
          /\ hist'[s][i] = IF i \in wrote[w][s].supersedes
                           THEN Retired(hist[s][i]) ELSE hist[s][i]
      BY <1>a, <2>2
    <3>2. i \in DOMAIN hist'[s]
      BY <1>2, <3>1
    <3> QED BY <2>1, <2>2, <3>1, <3>2, RetiredRow
  <2>3. CASE ~Committed(w, s)
    <3>1. hist'[s] = hist[s]
      BY <1>1, <2>3
    <3>2. hist[s][i].is_current \in BOOLEAN
      BY <2>1 DEF IsRow
    <3> QED BY <1>2, <2>1, <2>3, <3>1, <3>2
  <2> QED BY <2>2, <2>3
<1>4. \A s \in Students : Committed(w, s) =>
        /\ IsSequence(hist'[s]) /\ Len(hist'[s]) = n(s) + 1
        /\ DOMAIN hist'[s] = 1..(n(s) + 1)
        /\ hist'[s][n(s) + 1] = wrote[w][s]
  BY <1>a
<1> QED BY <1>1, <1>2, <1>3, <1>4

LEMMA CommittedRow ==
  ASSUME IInv, NEW w \in Workers, Commit(w), NEW s \in Students, NEW i \in 1..Len(hist[s])
  PROVE  hist'[s][i] = hist[s][i] \/ hist'[s][i] = Retired(hist[s][i])
<1>1. CASE Committed(w, s)
  <2> DEFINE q == hist[s]
             r == wrote[w][s]
  <2>1. /\ hist'[s] = Superseded(q, r)
        /\ IsSequence(q)
        /\ i \in 1..Len(q)
    <3>1. hist'[s] = Superseded(hist[s], wrote[w][s])
      BY <1>1 DEF Commit, Committed
    <3>2. IsSequence(hist[s])
      BY DEF IInv, HistType
    <3> QED BY <3>1, <3>2
  <2> HIDE DEF q, r
  <2>2. /\ IsSequence(Superseded(q, r)) /\ Len(Superseded(q, r)) = Len(q) + 1
        /\ DOMAIN Superseded(q, r) = 1..(Len(q) + 1)
        /\ Superseded(q, r)[Len(q) + 1] = r
        /\ \A j \in 1..Len(q) : Superseded(q, r)[j] =
             IF j \in r.supersedes THEN Retired(q[j]) ELSE q[j]
    BY <2>1, SupersededRows
  <2> QED BY <2>1, <2>2 DEF q
<1>2. CASE ~Committed(w, s)
  BY <1>2, CommitRows
<1> QED BY <1>1, <1>2

LEMMA RetiredTwice ==
  ASSUME NEW r, IsRow(r)
  PROVE  Retired(Retired(r)) = Retired(r)
BY DEF Retired

LEMMA CommitIInv ==
  ASSUME IInv, NEW w \in Workers, Commit(w)
  PROVE  IInv'
<1> DEFINE Wrote(s) == Committed(w, s)
           n(s) == Len(hist[s])
<1>1. \A s \in Students : ~Wrote(s) => hist'[s] = hist[s]
  BY CommitRows
<1>2. \A s \in Students : IsSequence(hist[s]) /\ n(s) \in Nat /\ DOMAIN hist[s] = 1..n(s)
  BY CommitRows
<1>3. \A s \in Students : \A i \in 1..n(s) :
        /\ i \in DOMAIN hist'[s]
        /\ IsRow(hist'[s][i]) /\ Signature(hist'[s][i]) = Signature(hist[s][i])
        /\ hist'[s][i].supersedes = hist[s][i].supersedes
        /\ hist'[s][i].is_current =
             IF Wrote(s) /\ i \in wrote[w][s].supersedes THEN FALSE ELSE hist[s][i].is_current
  BY CommitRows, ZenonT(30)
<1>4. \A s \in Students : Wrote(s) =>
        /\ IsSequence(hist'[s]) /\ Len(hist'[s]) = n(s) + 1
        /\ DOMAIN hist'[s] = 1..(n(s) + 1)
        /\ hist'[s][n(s) + 1] = wrote[w][s]
  BY CommitRows
<1>5. \A s \in Students : Wrote(s) =>
        /\ IsRow(wrote[w][s]) /\ wrote[w][s].is_current = TRUE
        /\ wrote[w][s].supersedes = CurrentRows(s)
        /\ \A i \in CurrentRows(s) : Signature(hist[s][i]) # Signature(wrote[w][s])
  BY DEF IInv, WroteValid, Committed
<1>6. HistType'
  <2>1. \A s \in Students : IsSequence(hist'[s])
    BY <1>1, <1>2, <1>4
  <2>2. \A s \in Students : \A i \in DOMAIN hist'[s] : IsRow(hist'[s][i])
    <3> SUFFICES ASSUME NEW s \in Students, NEW i \in DOMAIN hist'[s]
                 PROVE  IsRow(hist'[s][i])
      OBVIOUS
    <3>1. CASE Wrote(s)
      <4>1. i \in 1..n(s) \/ i = n(s) + 1
        BY <1>2, <1>4, <3>1
      <4>2. CASE i \in 1..n(s)
        BY <1>3, <4>2
      <4>3. CASE i = n(s) + 1
        BY <1>4, <1>5, <3>1, <4>3
      <4> QED BY <4>1, <4>2, <4>3
    <3>2. CASE ~Wrote(s)
      <4>1. i \in 1..n(s)
        BY <1>1, <1>2, <3>2
      <4> QED BY <1>3, <4>1
    <3> QED BY <3>1, <3>2
  <2>3. hist' = [s \in Students |-> hist'[s]]
    BY DEF Commit
  <2> QED BY <2>1, <2>2, <2>3 DEF HistType
<1> HIDE DEF Wrote, n
<1>7. OneCurrent'
  <2> SUFFICES ASSUME NEW s \in Students
               PROVE  {i \in DOMAIN hist'[s] : hist'[s][i].is_current} =
                        IF hist'[s] = <<>> THEN {} ELSE {Len(hist'[s])}
    BY DEF OneCurrent, CurrentRows
  <2>1. CASE Wrote(s)
    <3>1. \A i \in 1..n(s) : ~hist'[s][i].is_current
      <4> SUFFICES ASSUME NEW i \in 1..n(s), hist'[s][i].is_current
                   PROVE  FALSE
        OBVIOUS
      <4>1. hist[s][i].is_current /\ i \notin CurrentRows(s)
        BY <1>3, <1>5, <2>1
      <4>2. i \in DOMAIN hist[s]
        BY <1>2
      <4> QED BY <4>1, <4>2 DEF CurrentRows
    <3>2. hist'[s][n(s) + 1].is_current
      BY <1>4, <1>5, <2>1
    <3>3. hist'[s] # <<>>
      BY <1>2, <1>4, <2>1
    <3> QED BY <1>2, <1>4, <2>1, <3>1, <3>2, <3>3
  <2>2. CASE ~Wrote(s)
    <3>1. hist'[s] = hist[s]
      BY <1>1, <2>2
    <3> QED BY <3>1 DEF IInv, OneCurrent, CurrentRows
  <2> QED BY <2>1, <2>2
<1>8. SupersessionChain'
  <2> SUFFICES ASSUME NEW s \in Students, NEW i \in DOMAIN hist'[s]
               PROVE  /\ hist'[s][i].supersedes = IF i = 1 THEN {} ELSE {i - 1}
                      /\ i > 1 => Signature(hist'[s][i]) # Signature(hist'[s][i - 1])
    BY DEF SupersessionChain, Signature
  <2>1. CASE i \in 1..n(s)
    <3>1. i > 1 => i - 1 \in 1..n(s)
      BY <1>2, <2>1
    <3>2. i \in DOMAIN hist[s]
      BY <1>2, <2>1
    <3>3. /\ hist[s][i].supersedes = IF i = 1 THEN {} ELSE {i - 1}
          /\ i > 1 => Signature(hist[s][i]) # Signature(hist[s][i - 1])
      BY <3>2 DEF IInv, SupersessionChain
    <3>4. /\ hist'[s][i].supersedes = hist[s][i].supersedes
          /\ Signature(hist'[s][i]) = Signature(hist[s][i])
          /\ i > 1 => Signature(hist'[s][i - 1]) = Signature(hist[s][i - 1])
      BY <1>3, <2>1, <3>1
    <3> QED BY <3>3, <3>4
  <2>2. CASE i \notin 1..n(s)
    <3>1. Wrote(s) /\ i = n(s) + 1
      BY <1>1, <1>2, <1>4, <2>2
    <3>2. CurrentRows(s) = IF n(s) = 0 THEN {} ELSE {n(s)}
      <4>1. hist[s] = <<>> <=> n(s) = 0
        BY <1>2 DEF IsSequence, n
      <4> QED BY <4>1 DEF IInv, OneCurrent, n
    <3>3. hist'[s][i] = wrote[w][s] /\ wrote[w][s].supersedes = CurrentRows(s)
      BY <1>4, <1>5, <3>1
    <3>4. i > 1 => Signature(wrote[w][s]) # Signature(hist[s][i - 1])
      <4>1. i > 1 => i - 1 = n(s) /\ n(s) \in CurrentRows(s)
        BY <1>2, <3>1, <3>2
      <4> QED BY <1>5, <3>1, <4>1
    <3>5. i > 1 => Signature(hist'[s][i - 1]) = Signature(hist[s][i - 1])
      <4>1. i > 1 => i - 1 \in 1..n(s)
        BY <1>2, <3>1
      <4> QED BY <1>3, <4>1
    <3>6. n(s) \in Nat
      BY <1>2
    <3>7. i - 1 = n(s) /\ (i = 1 <=> n(s) = 0)
      BY <3>1, <3>6
    <3>8. hist'[s][i].supersedes = IF i = 1 THEN {} ELSE {i - 1}
      BY <3>2, <3>3, <3>7
    <3> QED BY <3>3, <3>4, <3>5, <3>8
  <2> QED BY <2>1, <2>2
<1>9. WorkerType'
  BY DEF IInv, WorkerType, NothingWritten, Commit, Reset, world
<1>10. SeenValid'
  <2> SUFFICES ASSUME NEW v \in Workers, pc'[v] = "flush"
               PROVE  /\ seen'[v] \subseteq DOMAIN hist'[head'[v]]
                      /\ \A i, j \in seen'[v] : i = j
                      /\ \A i \in seen'[v] : Signature(hist'[head'[v]][i]) #
                           Evaluate(snap'[v][head'[v]].signals, config'[v].config)
    BY DEF SeenValid, Signature
  <2>1. v # w /\ pc[v] = "flush" /\ head[v] \in Students
        /\ UNCHANGED <<head[v], seen[v], snap[v], config[v]>>
    BY DEF IInv, WorkerType, Commit, Reset
  <2>2. seen[v] \subseteq 1..n(head[v])
    BY <1>2, <2>1 DEF IInv, SeenValid
  <2>3. /\ seen[v] \subseteq DOMAIN hist[head[v]]
        /\ \A i, j \in seen[v] : i = j
        /\ \A i \in seen[v] : Signature(hist[head[v]][i]) #
             Evaluate(snap[v][head[v]].signals, config[v].config)
    BY <2>1 DEF IInv, SeenValid
  <2>4. \A i \in 1..n(head[v]) :
          /\ i \in DOMAIN hist'[head[v]]
          /\ Signature(hist'[head[v]][i]) = Signature(hist[head[v]][i])
    BY <1>3, <2>1
  <2> QED BY <2>1, <2>2, <2>3, <2>4
<1>11. \A v \in Workers, t \in Students :
         wrote'[v][t] = IF v = w THEN Null ELSE wrote[v][t]
  BY DEF IInv, WorkerType, NothingWritten, Commit, Reset, world
<1>12. OneWriter'
  BY <1>11 DEF IInv, OneWriter
<1>13. WroteValid'
  <2> SUFFICES ASSUME NEW v \in Workers, NEW t \in Students, wrote'[v][t] # Null
               PROVE  /\ IsRow(wrote'[v][t]) /\ wrote'[v][t].is_current = TRUE
                      /\ wrote'[v][t].supersedes = CurrentRows(t)'
                      /\ \A i \in CurrentRows(t)' :
                           Signature(hist'[t][i]) # Signature(wrote'[v][t])
    BY DEF WroteValid
  <2>1. v # w /\ wrote'[v][t] = wrote[v][t] /\ ~Wrote(t)
    BY <1>11 DEF IInv, OneWriter, Wrote, Committed
  <2>2. hist'[t] = hist[t] /\ CurrentRows(t)' = CurrentRows(t)
    BY <1>1, <2>1 DEF CurrentRows
  <2> QED BY <2>1, <2>2 DEF IInv, WroteValid
<1> QED BY <1>6, <1>7, <1>8, <1>9, <1>10, <1>12, <1>13 DEF IInv

-----------------------------------------------------------------------------
LEMMA NextIInv == IInv /\ [Next]_vars => IInv'
<1> SUFFICES ASSUME IInv, [Next]_vars PROVE IInv'
  OBVIOUS
<1>1. \A b \in due : b.students \in SUBSET Students
  BY DEF IInv, WorkerType
<1>2. ASSUME ImportLoad PROVE IInv'
  <2>1. \A b \in due' : b.students \in SUBSET Students
    BY <1>1, <1>2 DEF ImportLoad
  <2> QED BY <1>2, <2>1, Untouched DEF ImportLoad, store, worker
<1>3. ASSUME SetConfig \/ NextDay \/ CreateIntervention PROVE IInv'
  BY <1>1, <1>3, Untouched DEF SetConfig, NextDay, CreateIntervention, store, worker
<1>4. ASSUME NEW w \in Workers, BeginImport(w) \/ BeginManual(w) PROVE IInv'
  <2>1. PICK S \in SUBSET Students : Begin(w, S) /\ due' \subseteq due
    BY <1>1, <1>4 DEF BeginImport, BeginManual
  <2> QED BY <2>1, BeginIInv
<1>5. ASSUME NEW w \in Workers, Step(w) \/ Crash(w) PROVE IInv'
  BY <1>5, ReadDobsIInv, SelectCurrentIInv, FlushIInv, FlushFailsIInv, CommitIInv, CrashIInv
     DEF Step
<1>6. CASE UNCHANGED vars
  BY <1>1, <1>6, Untouched DEF vars, world, store, worker
<1> QED BY <1>2, <1>3, <1>4, <1>5, <1>6 DEF Next, Surroundings

\* The invariant that carries the theorems below.
LEMMA InductiveInvariant == Spec => []IInv
<1>1. Init => IInv
  BY InitIInv
<1>2. IInv /\ [Next]_vars => IInv'
  BY NextIInv
<1> QED BY <1>1, <1>2, PTL DEF Spec

-----------------------------------------------------------------------------
(* The theorems.                                                           *)

\* A student that was ever assessed has exactly one current assessment, and it
\* is the newest one, for any number of concurrent recomputes (the unique index
\* of models/risk.py and _persist_one together).
THEOREM AlwaysOneCurrent == Spec => []OneCurrent
<1>1. IInv => OneCurrent
  BY DEF IInv
<1> QED BY <1>1, InductiveInvariant, PTL

\* Each committed assessment superseded its immediate predecessor and differs
\* from it: no update is lost and no unchanged result is written again.
THEOREM AlwaysSupersessionChain == Spec => []SupersessionChain
<1>1. IInv => SupersessionChain
  BY DEF IInv
<1> QED BY <1>1, InductiveInvariant, PTL

\* No committed assessment is ever edited, dropped or made current again.
THEOREM AlwaysAppendOnly == Spec => HistoryIsAppendOnly
<1>1. IInv /\ [Next]_vars => [HistoryStep]_vars
  <2> SUFFICES ASSUME IInv, [Next]_vars PROVE HistoryStep \/ UNCHANGED vars
    OBVIOUS
  <2>1. ASSUME hist' = hist PROVE HistoryStep
    BY <2>1 DEF HistoryStep
  <2>2. ASSUME NEW w \in Workers, Commit(w) PROVE HistoryStep
    <3> SUFFICES ASSUME NEW s \in Students, NEW i \in DOMAIN hist[s]
                 PROVE  /\ i \in DOMAIN hist'[s]
                        /\ Retired(hist'[s][i]) = Retired(hist[s][i])
                        /\ hist'[s][i].is_current => hist[s][i].is_current
      BY DEF HistoryStep
    <3>1. i \in 1..Len(hist[s]) /\ IsRow(hist[s][i])
      BY <2>2, CommitRows DEF IInv, HistType
    <3>2. /\ i \in DOMAIN hist'[s]
          /\ hist'[s][i].is_current => hist[s][i].is_current
      BY <2>2, <3>1, CommitRows
    <3>3. hist'[s][i] = hist[s][i] \/ hist'[s][i] = Retired(hist[s][i])
      BY <2>2, <3>1, CommittedRow
    <3> QED BY <3>1, <3>2, <3>3, RetiredTwice
  <2>3. ASSUME hist' # hist PROVE \E w \in Workers : Commit(w)
    BY <2>3 DEF Next, vars, Surroundings, ImportLoad, SetConfig, NextDay, CreateIntervention,
                BeginImport, BeginManual, Begin, Step, ReadDobs, SelectCurrent, Flush,
                FlushFails, FlushFailure, Crash, store
  <2> QED BY <2>1, <2>2, <2>3
<1> QED BY <1>1, InductiveInvariant, PTL DEF Spec, HistoryIsAppendOnly

-----------------------------------------------------------------------------
(* Type correctness.                                                       *)

WroteTyped ==
  \A w \in Workers, s \in Students : wrote[w][s] # Null =>
    wrote[w][s].tier \in Tiers /\ wrote[w][s].minor \in {"minor", "adult", "unknown"}

LEMMA NewRowTyped ==
  ASSUME NEW w, NEW s
  PROVE  /\ NewRow(w, s).tier \in Tiers
         /\ NewRow(w, s).minor \in {"minor", "adult", "unknown"}
<1>1. Evaluate(snap[w][s].signals, config[w].config).tier \in Tiers
  BY DEF Evaluate, TierForScore, Tiers
<1>2. SubjectMinorStatus(snap[w][s].dob) \in {"minor", "adult", "unknown"}
  BY DEF SubjectMinorStatus
<1> QED BY <1>1, <1>2 DEF NewRow

LEMMA InitTypeOK == Init => TypeOK /\ WroteTyped
<1> SUFFICES ASSUME Init PROVE TypeOK /\ WroteTyped
  OBVIOUS
<1>1. NoData \in [Students -> StudentData]
  BY DEF NoData, StudentData
<1>2. configs \in Seq(ConfigRow) /\ configs # <<>> /\ configs[1] \in ConfigRow
  BY DEF Init, ConfigRow
<1> QED BY <1>1, <1>2 DEF Init, TypeOK, WroteTyped, NothingWritten, IsSequence

\* The parts of TypeOK: the surroundings, the histories, the workers.
WorldTyped ==
  /\ data \in [Students -> StudentData] /\ today \in Nat
  /\ configs \in Seq(ConfigRow) /\ configs # <<>>

RowsTyped ==
  /\ WroteTyped
  /\ \A s \in Students : \A i \in DOMAIN hist[s] :
       /\ hist[s][i].tier \in Tiers /\ hist[s][i].is_current \in BOOLEAN
       /\ hist[s][i].minor \in {"minor", "adult", "unknown"}

MemoryTyped ==
  /\ errs \in [Workers -> SUBSET Students]
  /\ snap \in [Workers -> [Students -> StudentData]]
  /\ config \in [Workers -> ConfigRow]
  /\ \A w \in Workers : pc[w] = "flush" <=> head[w] # Null

TInv == IInv /\ WorldTyped /\ RowsTyped /\ MemoryTyped

LEMMA TInvTypeOK == TInv => TypeOK
BY DEF TInv, IInv, HistType, WorkerType, WorldTyped, RowsTyped, MemoryTyped, TypeOK

LEMMA NextWorldTyped == TInv /\ [Next]_vars => WorldTyped'
<1> SUFFICES ASSUME TInv, [Next]_vars PROVE WorldTyped'
  OBVIOUS
<1> USE DEF TInv, WorldTyped
<1>1. CASE ImportLoad
  <2>1. data' \in [Students -> StudentData]
    BY <1>1 DEF ImportLoad, StudentData
  <2> QED BY <1>1, <2>1 DEF ImportLoad
<1>2. CASE SetConfig
  <2>1. ActiveConfig \in ConfigRow
    BY DEF ActiveConfig
  <2>2. PICK c \in ConfigChoices :
          configs' = Append(configs, [version |-> ActiveConfig.version + 1, config |-> c])
    BY <1>2 DEF SetConfig
  <2>3. [version |-> ActiveConfig.version + 1, config |-> c] \in ConfigRow
    BY <2>1 DEF ConfigRow
  <2>4. configs' \in Seq(ConfigRow) /\ configs' # <<>>
    BY <2>2, <2>3
  <2> QED BY <1>2, <2>4 DEF SetConfig
<1>3. CASE NextDay
  BY <1>3, BoundsAssumption DEF NextDay
<1>4. CASE UNCHANGED <<data, today, configs>>
  BY <1>4
<1>5. CASE CreateIntervention
  BY <1>4, <1>5 DEF CreateIntervention
<1>6. ASSUME NEW w \in Workers, BeginImport(w) \/ BeginManual(w) \/ Step(w) \/ Crash(w)
      PROVE  UNCHANGED <<data, today, configs>>
  BY <1>6 DEF BeginImport, BeginManual, Begin, Step, ReadDobs, SelectCurrent, Flush, FlushFails, FlushFailure,
              Commit, Crash, world
<1> QED BY <1>1, <1>2, <1>3, <1>4, <1>5, <1>6 DEF Next, Surroundings, vars, world

LEMMA NextRowsTyped == TInv /\ [Next]_vars => RowsTyped'
<1> SUFFICES ASSUME TInv, [Next]_vars PROVE RowsTyped'
  OBVIOUS
<1> USE DEF TInv, RowsTyped
<1>1. CASE UNCHANGED <<hist, wrote>>
  BY <1>1 DEF WroteTyped
<1>2. ASSUME NEW w \in Workers, Flush(w) PROVE RowsTyped'
  <2>1. \A v \in Workers, t \in Students :
          wrote'[v][t] = wrote[v][t] \/ wrote'[v][t] = NewRow(w, head[w])
    BY <1>2 DEF Flush, IInv, WorkerType
  <2> QED BY <1>2, <2>1, NewRowTyped DEF Flush, WroteTyped, store
<1>3. ASSUME NEW w \in Workers, Crash(w) PROVE RowsTyped'
  <2>1. \A v \in Workers, t \in Students :
          wrote'[v][t] = wrote[v][t] \/ wrote'[v][t] = Null
    BY <1>3 DEF Crash, Reset, NothingWritten, IInv, WorkerType
  <2> QED BY <1>3, <2>1 DEF Crash, WroteTyped, store
<1>4. ASSUME NEW w \in Workers, Commit(w) PROVE RowsTyped'
  <2>1. WroteTyped'
    <3>1. \A v \in Workers, t \in Students :
            wrote'[v][t] = wrote[v][t] \/ wrote'[v][t] = Null
      BY <1>4 DEF Commit, Reset, NothingWritten, IInv, WorkerType
    <3> QED BY <3>1 DEF WroteTyped
  <2>2. ASSUME NEW s \in Students, NEW i \in DOMAIN hist'[s]
        PROVE  /\ hist'[s][i].tier \in Tiers /\ hist'[s][i].is_current \in BOOLEAN
               /\ hist'[s][i].minor \in {"minor", "adult", "unknown"}
    <3>1. CASE i \in 1..Len(hist[s])
      <4>1. IsRow(hist'[s][i]) /\ hist'[s][i].tier = hist[s][i].tier
            /\ hist'[s][i].minor = hist[s][i].minor
        <5>1. IInv /\ Commit(w)
          BY <1>4
        <5> HIDE DEF TInv, RowsTyped
        <5> QED BY <5>1, <3>1, CommitRows
      <4>2. i \in DOMAIN hist[s]
        BY <3>1 DEF IInv, HistType, IsSequence
      <4> QED BY <4>1, <4>2 DEF IsRow
    <3>2. CASE i \notin 1..Len(hist[s])
      <4>0. IInv /\ Commit(w)
        BY <1>4
      <4>1. Committed(w, s) /\ i = Len(hist[s]) + 1 /\ hist'[s][i] = wrote[w][s]
        <5> HIDE DEF TInv, RowsTyped
        <5>1. DOMAIN hist[s] = 1..Len(hist[s]) /\ Len(hist[s]) \in Nat
          BY <4>0, CommitRows
        <5>2. Committed(w, s)
          <6>1. ~Committed(w, s) => hist'[s] = hist[s]
            BY <4>0, CommitRows
          <6> QED BY <5>1, <6>1, <3>2
        <5>3. /\ DOMAIN hist'[s] = 1..(Len(hist[s]) + 1)
              /\ hist'[s][Len(hist[s]) + 1] = wrote[w][s]
          BY <4>0, <5>2, CommitRows
        <5>4. i = Len(hist[s]) + 1
          <6> i \in DOMAIN hist'[s]
            OBVIOUS
          <6> QED BY <5>1, <5>3, <3>2
        <5> QED BY <5>2, <5>3, <5>4
      <4>2. wrote[w][s] # Null
        BY <4>1 DEF Committed
      <4>3. wrote[w][s].is_current \in BOOLEAN
        BY <4>0, <4>2 DEF IInv, WroteValid
      <4>4. WroteTyped
        OBVIOUS
      <4>5. wrote[w][s].tier \in Tiers /\ wrote[w][s].minor \in {"minor", "adult", "unknown"}
        BY <4>2, <4>4 DEF WroteTyped
      <4> QED BY <4>1, <4>3, <4>5
    <3> QED BY <3>1, <3>2
  <2> QED BY <2>1, <2>2
<1>5. ASSUME UNCHANGED <<hist, wrote>> \/ \E w \in Workers : Flush(w) \/ Crash(w) \/ Commit(w)
      PROVE  RowsTyped'
  BY <1>1, <1>2, <1>3, <1>4, <1>5
<1>6. UNCHANGED <<hist, wrote>> \/ \E w \in Workers : Flush(w) \/ Crash(w) \/ Commit(w)
  BY DEF Next, vars, Surroundings, ImportLoad, SetConfig, NextDay, CreateIntervention, BeginImport,
         BeginManual, Begin, Step, ReadDobs, SelectCurrent, FlushFails, FlushFailure, store, worker
<1> QED BY <1>5, <1>6

LEMMA NextMemoryTyped == TInv /\ [Next]_vars => MemoryTyped'
<1> SUFFICES ASSUME TInv, [Next]_vars PROVE MemoryTyped'
  OBVIOUS
<1> USE NullAssumption DEF TInv, MemoryTyped
<1>0. /\ NoData \in [Students -> StudentData]
      /\ configs[1] \in ConfigRow /\ ActiveConfig \in ConfigRow
  BY DEF WorldTyped, NoData, StudentData, ActiveConfig
<1>1. CASE UNCHANGED <<pc, head, errs, snap, config>>
  BY <1>1
<1>2. ASSUME NEW w \in Workers, NEW S, Begin(w, S) PROVE MemoryTyped'
  <2>1. snap' \in [Workers -> [Students -> StudentData]]
    BY <1>2 DEF Begin, WorldTyped
  <2>2. config' \in [Workers -> ConfigRow]
    BY <1>0, <1>2 DEF Begin
  <2> QED BY <1>2, <2>1, <2>2 DEF Begin, IInv, WorkerType
<1>3. ASSUME NEW w \in Workers, ReadDobs(w) PROVE MemoryTyped'
  <2> DEFINE seenData == [s \in Students |->
       [known |-> data[s].known, signals |-> snap[w][s].signals, dob |-> data[s].dob]]
  <2>1. seenData \in [Students -> StudentData]
    BY DEF WorldTyped, StudentData
  <2>2. snap' = [snap EXCEPT ![w] = seenData]
    BY <1>3 DEF ReadDobs
  <2> HIDE DEF seenData
  <2>3. snap' \in [Workers -> [Students -> StudentData]]
    BY <2>1, <2>2
  <2> QED BY <1>3, <2>3 DEF ReadDobs, IInv, WorkerType
<1>4. ASSUME NEW w \in Workers, SelectCurrent(w) PROVE MemoryTyped'
  <2>1. PICK s \in todo[w] :
          \/ /\ pc' = [pc EXCEPT ![w] = "flush"] /\ head' = [head EXCEPT ![w] = s]
             /\ UNCHANGED errs
          \/ UNCHANGED <<pc, head>> /\ errs' \in {errs, [errs EXCEPT ![w] = @ \cup {s}]}
    BY <1>4 DEF SelectCurrent
  <2>2. s \in Students
    BY DEF IInv, WorkerType
  <2>3. UNCHANGED <<snap, config>>
    BY <1>4 DEF SelectCurrent
  <2>4. errs' \in [Workers -> SUBSET Students]
    BY <2>1, <2>2
  <2>5. \A v \in Workers : pc'[v] = "flush" <=> head'[v] # Null
    BY <2>1, <2>2 DEF IInv, WorkerType
  <2> QED BY <2>3, <2>4, <2>5
<1>5. ASSUME NEW w \in Workers, Flush(w) \/ FlushFails(w) PROVE MemoryTyped'
  <2>1. /\ pc' = [pc EXCEPT ![w] = "loop"] /\ head' = [head EXCEPT ![w] = Null]
        /\ errs' = errs \/ errs' = [errs EXCEPT ![w] = @ \cup {head[w]}]
        /\ UNCHANGED <<snap, config>> /\ head[w] \in Students
    BY <1>5 DEF Flush, FlushFails, FlushFailure, IInv, WorkerType
  <2>2. errs' \in [Workers -> SUBSET Students]
    <3>1. CASE errs' = errs
      BY <3>1
    <3>2. CASE errs' = [errs EXCEPT ![w] = @ \cup {head[w]}]
      BY <2>1, <3>2
    <3> QED BY <2>1, <3>1, <3>2
  <2>3. \A v \in Workers : pc'[v] = "flush" <=> head'[v] # Null
    BY <2>1 DEF IInv, WorkerType
  <2> QED BY <2>1, <2>2, <2>3
<1>6. ASSUME NEW w \in Workers, Reset(w) PROVE MemoryTyped'
  <2>1. snap' \in [Workers -> [Students -> StudentData]]
    BY <1>0, <1>6 DEF Reset
  <2> DEFINE none == {}
  <2>a. errs' = [errs EXCEPT ![w] = none] /\ none \in SUBSET Students
    BY <1>6 DEF Reset
  <2> HIDE DEF none
  <2>2. config' \in [Workers -> ConfigRow] /\ errs' \in [Workers -> SUBSET Students]
    <3>1. config' = [config EXCEPT ![w] = configs[1]]
      BY <1>6 DEF Reset
    <3> QED BY <1>0, <2>a, <3>1
  <2>3. \A v \in Workers : pc'[v] = "flush" <=> head'[v] # Null
    BY <1>6 DEF Reset, IInv, WorkerType
  <2> QED BY <2>1, <2>2, <2>3
<1>7. ASSUME NEW w \in Workers, BeginImport(w) \/ BeginManual(w) \/ Step(w) \/ Crash(w)
      PROVE  MemoryTyped'
  BY <1>2, <1>3, <1>4, <1>5, <1>6, <1>7 DEF BeginImport, BeginManual, Step, Commit, Crash
<1>8. CASE Surroundings \/ UNCHANGED vars
  BY <1>1, <1>8 DEF Surroundings, ImportLoad, SetConfig, NextDay, CreateIntervention, worker, vars
<1> QED BY <1>7, <1>8 DEF Next

\* Every variable keeps its type, for every value of the constants.
THEOREM TypeCorrect == Spec => []TypeOK
<1>1. Init => TInv
  BY InitIInv, InitTypeOK DEF TInv, TypeOK, WorldTyped, RowsTyped, MemoryTyped
<1>2. TInv /\ [Next]_vars => TInv'
  BY NextIInv, NextWorldTyped, NextRowsTyped, NextMemoryTyped DEF TInv
<1> QED BY <1>1, <1>2, TInvTypeOK, PTL DEF Spec
-----------------------------------------------------------------------------
(* What a step can do to the histories, to the uncommitted rows and to the *)
(* configurations.                                                         *)

LEMMA OnlyCommits ==
  ASSUME [Next]_vars
  PROVE  UNCHANGED store \/ \E w \in Workers : Commit(w)
BY DEF Next, vars, Surroundings, ImportLoad, SetConfig, NextDay, CreateIntervention, BeginImport,
       BeginManual, Begin, Step, ReadDobs, SelectCurrent, Flush, FlushFails, FlushFailure, Crash,
       store

LEMMA RetiredKeeps ==
  ASSUME NEW r, IsRow(r)
  PROVE  Retired(r).signals = r.signals /\ Retired(r).config_version = r.config_version
BY DEF Retired, IsRow

\* a row of the history after a commit is an old one, with the same contents, or the one written
LEMMA CommitCases ==
  ASSUME IInv, NEW w \in Workers, Commit(w), NEW s \in Students, NEW i \in DOMAIN hist'[s]
  PROVE  \/ /\ i \in DOMAIN hist[s]
            /\ Signature(hist'[s][i]) = Signature(hist[s][i])
            /\ hist'[s][i].tier = hist[s][i].tier
            /\ hist'[s][i].minor = hist[s][i].minor
            /\ hist'[s][i].signals = hist[s][i].signals
            /\ hist'[s][i].config_version = hist[s][i].config_version
         \/ /\ Committed(w, s) /\ i = Len(hist[s]) + 1
            /\ hist'[s][i] = wrote[w][s]
<1>1. DOMAIN hist[s] = 1..Len(hist[s]) /\ Len(hist[s]) \in Nat
  BY CommitRows
<1>2. CASE i \in 1..Len(hist[s])
  <2>1. IsRow(hist[s][i])
    BY <1>1, <1>2 DEF IInv, HistType
  <2>2. hist'[s][i] = hist[s][i] \/ hist'[s][i] = Retired(hist[s][i])
    BY <1>2, CommittedRow
  <2> QED BY <1>1, <1>2, <2>1, <2>2, RetiredRow, RetiredKeeps
<1>3. CASE i \notin 1..Len(hist[s])
  <2>1. ~Committed(w, s) => hist'[s] = hist[s]
    BY CommitRows
  <2>2. Committed(w, s)
    BY <1>1, <1>3, <2>1
  <2>3. /\ DOMAIN hist'[s] = 1..(Len(hist[s]) + 1)
        /\ hist'[s][Len(hist[s]) + 1] = wrote[w][s]
    BY <2>2, CommitRows
  <2> QED BY <1>1, <1>3, <2>2, <2>3
<1> QED BY <1>2, <1>3

\* an uncommitted row was there before, or it is the one this step flushed
LEMMA WroteCases ==
  ASSUME IInv, [Next]_vars, NEW v \in Workers, NEW t \in Students, wrote'[v][t] # Null
  PROVE  \/ wrote'[v][t] = wrote[v][t]
         \/ Flush(v) /\ t = head[v] /\ wrote'[v][t] = NewRow(v, t)
<1>1. CASE UNCHANGED wrote
  BY <1>1
<1>2. ASSUME NEW w \in Workers, Flush(w)
      PROVE  wrote'[v][t] = wrote[v][t] \/ (v = w /\ t = head[w] /\ wrote'[v][t] = NewRow(w, t))
  BY <1>2 DEF Flush, IInv, WorkerType
<1>3. ASSUME NEW w \in Workers, Commit(w) \/ Crash(w)
      PROVE  wrote'[v][t] = wrote[v][t]
  <2>1. wrote' = [wrote EXCEPT ![w] = NothingWritten] /\ wrote = [u \in Workers |-> wrote[u]]
    BY <1>3 DEF Commit, Crash, Reset, IInv, WorkerType
  <2>2. wrote'[v] = IF v = w THEN NothingWritten ELSE wrote[v]
    BY <2>1
  <2> QED BY <2>2 DEF NothingWritten
<1>4. UNCHANGED wrote \/ \E w \in Workers : Flush(w) \/ Commit(w) \/ Crash(w)
  BY DEF Next, vars, Surroundings, ImportLoad, SetConfig, NextDay, CreateIntervention,
         BeginImport, BeginManual, Begin, Step, ReadDobs, SelectCurrent, FlushFails,
         FlushFailure, worker
<1> QED BY <1>1, <1>2, <1>3, <1>4

LEMMA ConfigsGrow ==
  ASSUME TInv, [Next]_vars
  PROVE  /\ DOMAIN configs \subseteq DOMAIN configs'
         /\ \A i \in DOMAIN configs : configs'[i] = configs[i]
         /\ Len(configs) \in DOMAIN configs /\ 1 \in DOMAIN configs
         /\ \/ UNCHANGED configs
            \/ \E c : /\ Len(configs') = Len(configs) + 1
                      /\ DOMAIN configs' = DOMAIN configs \cup {Len(configs) + 1}
                      /\ configs'[Len(configs) + 1] =
                           [version |-> ActiveConfig.version + 1, config |-> c]
<1>1. configs \in Seq(ConfigRow) /\ configs # <<>> /\ ActiveConfig \in ConfigRow
  BY DEF TInv, WorldTyped, ActiveConfig
<1>2. Len(configs) \in DOMAIN configs /\ 1 \in DOMAIN configs
  BY <1>1
<1>3. CASE UNCHANGED configs
  BY <1>2, <1>3
<1>4. CASE SetConfig
  <2>1. PICK c \in ConfigChoices :
          configs' = Append(configs, [version |-> ActiveConfig.version + 1, config |-> c])
    BY <1>4 DEF SetConfig
  <2> DEFINE e == [version |-> ActiveConfig.version + 1, config |-> c]
  <2>2. e \in ConfigRow /\ configs' = Append(configs, e)
    BY <1>1, <2>1 DEF ConfigRow
  <2>3. e = [version |-> ActiveConfig.version + 1, config |-> c]
    OBVIOUS
  <2> HIDE DEF e
  <2>4. /\ Len(configs') = Len(configs) + 1 /\ configs'[Len(configs) + 1] = e
        /\ DOMAIN configs' = DOMAIN configs \cup {Len(configs) + 1}
        /\ \A i \in DOMAIN configs : configs'[i] = configs[i]
    BY <1>1, <2>2
  <2> QED BY <1>2, <2>3, <2>4
<1>5. SetConfig \/ UNCHANGED configs
  BY DEF Next, vars, world, Surroundings, ImportLoad, NextDay, CreateIntervention, BeginImport,
         BeginManual, Begin, Step, ReadDobs, SelectCurrent, Flush, FlushFails, FlushFailure,
         Commit, Crash
<1> QED BY <1>3, <1>4, <1>5

-----------------------------------------------------------------------------
(* Every assessment can be recomputed.                                     *)

\* a configuration's version is its place in the order, and a worker runs under one of them
VersionsNumbered ==
  /\ \A i \in DOMAIN configs : configs[i].version = i
  /\ \A w \in Workers : \E i \in DOMAIN configs : config[w] = configs[i]

Reproducible(r) ==
  /\ r.config_version \in DOMAIN configs
  /\ Signature(r) = Evaluate(r.signals, configs[r.config_version].config)

RowsFollow ==
  /\ \A w \in Workers, s \in Students : wrote[w][s] # Null => Reproducible(wrote[w][s])
  /\ \A s \in Students : \A i \in DOMAIN hist[s] : Reproducible(hist[s][i])

RInv == TInv /\ VersionsNumbered /\ RowsFollow

LEMMA InitRInv == Init => VersionsNumbered /\ RowsFollow
<1> SUFFICES ASSUME Init PROVE VersionsNumbered /\ RowsFollow
  OBVIOUS
<1>1. DOMAIN configs = {1} /\ configs[1].version = 1
  BY DEF Init
<1>2. \A w \in Workers : config[w] = configs[1]
  BY DEF Init
<1>3. \A s \in Students : DOMAIN hist[s] = {}
  BY DEF Init
<1>4. \A w \in Workers, s \in Students : wrote[w][s] = Null
  BY DEF Init, NothingWritten
<1> QED BY <1>1, <1>2, <1>3, <1>4 DEF VersionsNumbered, RowsFollow

LEMMA NextVersionsNumbered == RInv /\ [Next]_vars => VersionsNumbered'
<1> SUFFICES ASSUME RInv, [Next]_vars PROVE VersionsNumbered'
  OBVIOUS
<1>1. /\ DOMAIN configs \subseteq DOMAIN configs'
      /\ \A i \in DOMAIN configs : configs'[i] = configs[i]
      /\ Len(configs) \in DOMAIN configs /\ 1 \in DOMAIN configs
      /\ \/ UNCHANGED configs
         \/ \E c : /\ Len(configs') = Len(configs) + 1
                   /\ DOMAIN configs' = DOMAIN configs \cup {Len(configs) + 1}
                   /\ configs'[Len(configs) + 1] =
                        [version |-> ActiveConfig.version + 1, config |-> c]
  BY ConfigsGrow DEF RInv
<1>2. ActiveConfig.version = Len(configs)
  BY <1>1 DEF RInv, VersionsNumbered, ActiveConfig
<1>3. \A i \in DOMAIN configs' : configs'[i].version = i
  <2>1. CASE UNCHANGED configs
    BY <2>1 DEF RInv, VersionsNumbered
  <2>2. ASSUME NEW c, DOMAIN configs' = DOMAIN configs \cup {Len(configs) + 1},
               configs'[Len(configs) + 1] = [version |-> ActiveConfig.version + 1, config |-> c]
        PROVE  \A i \in DOMAIN configs' : configs'[i].version = i
    <3>1. configs'[Len(configs) + 1].version = Len(configs) + 1
      BY <1>2, <2>2
    <3> QED BY <1>1, <2>2, <3>1 DEF RInv, VersionsNumbered
  <2> QED BY <1>1, <2>1, <2>2
<1>4. \A v \in Workers : config'[v] = config[v] \/ config'[v] \in {ActiveConfig, configs[1]}
  <2>1. ASSUME NEW w \in Workers, NEW S, Begin(w, S)
        PROVE  \A v \in Workers : config'[v] = config[v] \/ config'[v] \in {ActiveConfig, configs[1]}
    BY <2>1 DEF Begin, RInv, TInv, MemoryTyped
  <2>2. ASSUME NEW w \in Workers, Reset(w)
        PROVE  \A v \in Workers : config'[v] = config[v] \/ config'[v] \in {ActiveConfig, configs[1]}
    BY <2>2 DEF Reset, RInv, TInv, MemoryTyped
  <2>3. UNCHANGED config \/ \E w \in Workers : Reset(w) \/ \E S : Begin(w, S)
    BY DEF Next, vars, Surroundings, ImportLoad, SetConfig, NextDay, CreateIntervention,
           BeginImport, BeginManual, Step, ReadDobs, SelectCurrent, Flush, FlushFails,
           FlushFailure, worker, Commit, Crash
  <2> QED BY <2>1, <2>2, <2>3
<1>5. \A v \in Workers : \E i \in DOMAIN configs' : config'[v] = configs'[i]
  BY <1>1, <1>4 DEF RInv, VersionsNumbered, ActiveConfig
<1> QED BY <1>3, <1>5 DEF VersionsNumbered

LEMMA NextRowsFollow == RInv /\ [Next]_vars => RowsFollow'
<1> SUFFICES ASSUME RInv, [Next]_vars PROVE RowsFollow'
  OBVIOUS
<1>1. /\ DOMAIN configs \subseteq DOMAIN configs'
      /\ \A i \in DOMAIN configs : configs'[i] = configs[i]
  BY ConfigsGrow DEF RInv
<1>2. ASSUME NEW r, Reproducible(r)
      PROVE  /\ r.config_version \in DOMAIN configs'
             /\ Signature(r) = Evaluate(r.signals, configs'[r.config_version].config)
  BY <1>1, <1>2 DEF Reproducible
<1>3. ASSUME NEW w \in Workers, NEW s
      PROVE  Reproducible(NewRow(w, s))
  <2>1. PICK i \in DOMAIN configs : config[w] = configs[i]
    BY DEF RInv, VersionsNumbered
  <2>2. config[w].version = i
    BY <2>1 DEF RInv, VersionsNumbered
  <2> DEFINE r == NewRow(w, s)
             e == Evaluate(snap[w][s].signals, config[w].config)
  <2>3. r.config_version = i /\ r.signals = snap[w][s].signals
    BY <2>2 DEF NewRow
  <2>4. Signature(r) = e
    BY EvaluateIsSignature DEF NewRow, Signature
  <2> QED BY <2>1, <2>3, <2>4 DEF Reproducible
<1>4. ASSUME NEW w \in Workers, NEW s \in Students, wrote'[w][s] # Null
      PROVE  Reproducible(wrote'[w][s])
  <2>1. wrote'[w][s] = wrote[w][s] \/ wrote'[w][s] = NewRow(w, s)
    BY <1>4, WroteCases DEF RInv, TInv
  <2> QED BY <1>3, <1>4, <2>1 DEF RInv, RowsFollow
<1>5. ASSUME NEW s \in Students, NEW i \in DOMAIN hist'[s]
      PROVE  /\ hist'[s][i].config_version \in DOMAIN configs'
             /\ Signature(hist'[s][i]) =
                  Evaluate(hist'[s][i].signals, configs'[hist'[s][i].config_version].config)
  <2>1. CASE UNCHANGED store
    BY <1>2, <1>5, <2>1 DEF RInv, RowsFollow, store
  <2>2. ASSUME NEW w \in Workers, Commit(w)
        PROVE  /\ hist'[s][i].config_version \in DOMAIN configs'
               /\ Signature(hist'[s][i]) =
                    Evaluate(hist'[s][i].signals, configs'[hist'[s][i].config_version].config)
    <3>1. CASE Committed(w, s) /\ hist'[s][i] = wrote[w][s]
      <4>1. Reproducible(wrote[w][s])
        BY <3>1 DEF RInv, RowsFollow, Committed
      <4> QED BY <1>2, <3>1, <4>1
    <3>2. CASE /\ i \in DOMAIN hist[s]
               /\ Signature(hist'[s][i]) = Signature(hist[s][i])
               /\ hist'[s][i].signals = hist[s][i].signals
               /\ hist'[s][i].config_version = hist[s][i].config_version
      <4>1. Reproducible(hist[s][i])
        BY <3>2 DEF RInv, RowsFollow
      <4>2. /\ hist[s][i].config_version \in DOMAIN configs'
            /\ Signature(hist[s][i]) =
                 Evaluate(hist[s][i].signals, configs'[hist[s][i].config_version].config)
        BY <1>2, <4>1
      <4> QED BY <3>2, <4>2
    <3> QED BY <2>2, <3>1, <3>2, CommitCases DEF RInv, TInv
  <2> QED BY <2>1, <2>2, OnlyCommits
<1> QED BY <1>2, <1>4, <1>5 DEF RowsFollow, Reproducible, Signature

\* The invariant that also carries the types; TypeCorrect is read off it.
LEMMA AlwaysRInv == Spec => []RInv
<1>1. Init => RInv
  BY InitIInv, InitTypeOK, InitRInv DEF RInv, TInv, TypeOK, WorldTyped, RowsTyped, MemoryTyped
<1>2. RInv /\ [Next]_vars => RInv'
  BY NextIInv, NextWorldTyped, NextRowsTyped, NextMemoryTyped, NextVersionsNumbered,
     NextRowsFollow DEF RInv, TInv
<1> QED BY <1>1, <1>2, PTL DEF Spec

\* Every committed assessment follows from its own signals and the configuration its version
\* names, for any number of versions made while transactions ran.
THEOREM AlwaysReproducible == Spec => []RowsReproducible
<1>1. RInv => RowsReproducible
  BY DEF RInv, RowsFollow, Reproducible, RowsReproducible
<1> QED BY <1>1, AlwaysRInv, PTL

-----------------------------------------------------------------------------
(* Alerts.                                                                 *)

\* what preceded the i-th assessment of a student, and the alert that assessment is due
TierBefore(s, i) == IF i = 1 THEN Null ELSE hist[s][i - 1].tier

Due(s, i) ==
  [student |-> s, assessment |-> i, reason |-> AlertReason(TierBefore(s, i), hist[s][i].tier)]

\* an uncommitted row knows its alert, and the committed ones have raised theirs
WroteAlerts ==
  \A w \in Workers, s \in Students : wrote[w][s] # Null =>
    wrote[w][s].alert = AlertReason(TierBefore(s, Len(hist[s]) + 1), wrote[w][s].tier)

AlertsRaised ==
  \A a : a \in alerts <=>
    \E s \in Students : \E i \in DOMAIN hist[s] : a = Due(s, i) /\ Due(s, i).reason # Null

AInv == TInv /\ WroteAlerts /\ AlertsRaised

\* the row a transaction that is about to flush has seen is the last one
LEMMA SeenIsLast ==
  ASSUME IInv, NEW w \in Workers, Flush(w)
  PROVE  /\ head[w] \in Students /\ Len(hist[head[w]]) \in Nat
         /\ PreviousTier(head[w], seen[w]) = TierBefore(head[w], Len(hist[head[w]]) + 1)
<1> DEFINE s == head[w]
           n == Len(hist[s])
<1>1. s \in Students /\ seen[w] \subseteq DOMAIN hist[s] /\ CurrentRows(s) \subseteq seen[w]
      /\ \A i, j \in seen[w] : i = j
  BY DEF Flush, IInv, WorkerType, SeenValid
<1>2. n \in Nat /\ DOMAIN hist[s] = 1..n /\ (hist[s] = <<>> <=> n = 0)
  BY <1>1 DEF IInv, HistType, IsSequence
<1>3. CASE n = 0
  <2>1. seen[w] = {}
    BY <1>1, <1>2, <1>3
  <2> QED BY <1>1, <1>2, <1>3, <2>1 DEF PreviousTier, TierBefore
<1>4. CASE n # 0
  <2>1. CurrentRows(s) = {n}
    BY <1>1, <1>2, <1>4 DEF IInv, OneCurrent
  <2>2. seen[w] = {n}
    BY <1>1, <2>1
  <2>3. PreviousTier(s, seen[w]) = hist[s][n].tier
    BY <2>2 DEF PreviousTier
  <2> HIDE DEF n
  <2>4. TierBefore(s, n + 1) = hist[s][n].tier
    BY <1>2, <1>4 DEF TierBefore
  <2> QED BY <1>1, <1>2, <2>3, <2>4 DEF n
<1> QED BY <1>3, <1>4

LEMMA NextWroteAlerts == AInv /\ [Next]_vars => WroteAlerts'
<1> SUFFICES ASSUME AInv, [Next]_vars, NEW v \in Workers, NEW t \in Students, wrote'[v][t] # Null
             PROVE  (wrote[v][t].alert = AlertReason(TierBefore(t, Len(hist[t]) + 1), wrote[v][t].tier))'
  BY DEF WroteAlerts
<1>0. IInv
  BY DEF AInv, TInv
<1>1. CASE UNCHANGED store
  <2>1. TierBefore(t, Len(hist[t]) + 1)' = TierBefore(t, Len(hist[t]) + 1)
    BY <1>1 DEF TierBefore, store
  <2>2. CASE wrote'[v][t] = wrote[v][t]
    BY <2>1, <2>2 DEF AInv, WroteAlerts, AlertReason
  <2>3. CASE Flush(v) /\ t = head[v] /\ wrote'[v][t] = NewRow(v, t)
    <3>1. NewRow(v, t).alert = AlertReason(PreviousTier(t, seen[v]), NewRow(v, t).tier)
      BY DEF NewRow
    <3>2. PreviousTier(t, seen[v]) = TierBefore(t, Len(hist[t]) + 1)
      BY <1>0, <2>3, SeenIsLast
    <3> QED BY <2>1, <2>3, <3>1, <3>2 DEF AlertReason
  <2> QED BY <1>0, <2>2, <2>3, WroteCases
<1>2. ASSUME NEW w \in Workers, Commit(w)
      PROVE  (wrote[v][t].alert = AlertReason(TierBefore(t, Len(hist[t]) + 1), wrote[v][t].tier))'
  <2>1. v # w /\ wrote'[v][t] = wrote[v][t]
    <3>1. wrote' = [wrote EXCEPT ![w] = NothingWritten] /\ wrote = [u \in Workers |-> wrote[u]]
      BY <1>0, <1>2 DEF Commit, Reset, IInv, WorkerType
    <3>2. wrote'[v] = IF v = w THEN NothingWritten ELSE wrote[v]
      BY <3>1
    <3> QED BY <3>2 DEF NothingWritten
  <2>2. ~Committed(w, t)
    BY <1>0, <2>1 DEF IInv, OneWriter, Committed
  <2>3. hist'[t] = hist[t]
    BY <1>0, <1>2, <2>2, CommitRows
  <2>4. TierBefore(t, Len(hist[t]) + 1)' = TierBefore(t, Len(hist[t]) + 1)
    BY <2>3 DEF TierBefore
  <2> QED BY <2>1, <2>4 DEF AInv, WroteAlerts, AlertReason
<1> QED BY <1>1, <1>2, OnlyCommits

LEMMA NextAlertsRaised == AInv /\ [Next]_vars => AlertsRaised'
<1> SUFFICES ASSUME AInv, [Next]_vars PROVE AlertsRaised'
  OBVIOUS
<1>0. IInv
  BY DEF AInv, TInv
<1>1. CASE UNCHANGED store
  BY <1>1 DEF AInv, AlertsRaised, Due, TierBefore, AlertReason, store
<1>2. ASSUME NEW w \in Workers, Commit(w) PROVE AlertsRaised'
  <2>0. PICK n : n = [s \in Students |-> Len(hist[s])]
    OBVIOUS
  <2>1. \A s \in Students : n[s] \in Nat /\ DOMAIN hist[s] = 1..n[s]
    BY <1>0, <1>2, <2>0, CommitRows
  <2>2. ASSUME NEW s \in Students, NEW i \in 1..n[s]
        PROVE  i \in DOMAIN hist'[s] /\ Due(s, i)' = Due(s, i)
    <3>1. \A j \in 1..n[s] : j \in DOMAIN hist'[s] /\ hist'[s][j].tier = hist[s][j].tier
      BY <1>0, <1>2, <2>0, CommitRows
    <3>2. i # 1 => i - 1 \in 1..n[s]
      BY <2>1
    <3>3. TierBefore(s, i)' = TierBefore(s, i)
      BY <3>1, <3>2 DEF TierBefore
    <3> QED BY <3>1, <3>3 DEF Due, AlertReason
  <2>3. ASSUME NEW s \in Students, Committed(w, s)
        PROVE  /\ DOMAIN hist'[s] = 1..(n[s] + 1)
               /\ Due(s, n[s] + 1)' =
                    [student |-> s, assessment |-> n[s] + 1, reason |-> wrote[w][s].alert]
    <3>1. DOMAIN hist'[s] = 1..(n[s] + 1) /\ hist'[s][n[s] + 1] = wrote[w][s]
      BY <1>0, <1>2, <2>0, <2>3, CommitRows
    <3>2. \A j \in 1..n[s] : hist'[s][j].tier = hist[s][j].tier
      BY <1>0, <1>2, <2>0, CommitRows
    <3>3. n[s] \in Nat /\ (n[s] + 1 # 1 => (n[s] + 1) - 1 \in 1..n[s])
      BY <2>1
    <3>4. TierBefore(s, n[s] + 1)' = TierBefore(s, n[s] + 1)
      <4>1. CASE n[s] + 1 = 1
        BY <4>1 DEF TierBefore
      <4> QED BY <3>2, <3>3, <4>1 DEF TierBefore
    <3>5. wrote[w][s].alert = AlertReason(TierBefore(s, n[s] + 1), wrote[w][s].tier)
      BY <2>0, <2>3 DEF AInv, WroteAlerts, Committed
    <3> QED BY <3>1, <3>4, <3>5 DEF Due, AlertReason
  <2>4. \A s \in Students : ~Committed(w, s) => DOMAIN hist'[s] = 1..n[s]
    BY <1>0, <1>2, <2>0, <2>1, CommitRows
  <2>5. alerts' = alerts \cup
          {[student |-> s, assessment |-> n[s] + 1, reason |-> wrote[w][s].alert] :
             s \in {t \in Students : Committed(w, t) /\ wrote[w][t].alert # Null}}
    BY <1>2, <2>0 DEF Commit, Committed
  <2>6. ASSUME NEW a, a \in alerts'
        PROVE  \E s \in Students : \E i \in DOMAIN hist'[s] :
                 a = Due(s, i)' /\ Due(s, i)'.reason # Null
    <3>1. CASE a \in alerts
      <4>1. PICK s \in Students : \E i \in DOMAIN hist[s] : a = Due(s, i) /\ Due(s, i).reason # Null
        BY <3>1 DEF AInv, AlertsRaised
      <4>2. PICK i \in DOMAIN hist[s] : a = Due(s, i) /\ Due(s, i).reason # Null
        BY <4>1
      <4>3. i \in DOMAIN hist'[s] /\ Due(s, i)' = Due(s, i)
        BY <2>1, <2>2, <4>1, <4>2
      <4> QED BY <4>2, <4>3
    <3>2. ASSUME NEW s \in Students, Committed(w, s), wrote[w][s].alert # Null,
                 a = [student |-> s, assessment |-> n[s] + 1, reason |-> wrote[w][s].alert]
          PROVE  \E t \in Students : \E i \in DOMAIN hist'[t] :
                   a = Due(t, i)' /\ Due(t, i)'.reason # Null
      <4>1. a = Due(s, n[s] + 1)' /\ n[s] + 1 \in DOMAIN hist'[s]
        BY <2>1, <2>3, <3>2
      <4>2. a.reason # Null
        BY <3>2
      <4> QED BY <4>1, <4>2
    <3> QED BY <2>5, <2>6, <3>1, <3>2
  <2>7. ASSUME NEW s \in Students, NEW i \in DOMAIN hist'[s], Due(s, i)'.reason # Null
        PROVE  Due(s, i)' \in alerts'
    <3>1. CASE i \in 1..n[s]
      <4>1. Due(s, i)' = Due(s, i) /\ i \in DOMAIN hist[s]
        BY <2>1, <2>2, <3>1
      <4>2. Due(s, i) \in alerts
        BY <2>7, <4>1 DEF AInv, AlertsRaised
      <4> QED BY <2>5, <4>1, <4>2
    <3>2. CASE i \notin 1..n[s]
      <4>1. Committed(w, s) /\ i = n[s] + 1
        <5>1. Committed(w, s)
          BY <2>4, <3>2
        <5>2. DOMAIN hist'[s] = 1..(n[s] + 1) /\ n[s] \in Nat
          BY <2>1, <2>3, <5>1
        <5> QED BY <3>2, <5>1, <5>2
      <4>2. Due(s, i)' = [student |-> s, assessment |-> n[s] + 1, reason |-> wrote[w][s].alert]
        BY <2>3, <4>1
      <4>3. wrote[w][s].alert # Null
        BY <2>7, <4>2
      <4> QED BY <2>5, <4>1, <4>2, <4>3
    <3> QED BY <3>1, <3>2
  <2> QED BY <2>6, <2>7 DEF AlertsRaised
<1> QED BY <1>1, <1>2, OnlyCommits

LEMMA AlertsRaisedMatch == AInv => AlertsMatchEscalations
<1> SUFFICES ASSUME AInv PROVE AlertsMatchEscalations
  OBVIOUS
<1> DEFINE Entered(s, i) ==
             /\ hist[s][i].tier = "high"
             /\ i = 1 \/ hist[s][i - 1].tier # "high"
           Reason(s, i) == IF i > 1 /\ hist[s][i - 1].tier = "watch"
                           THEN "tier_escalated_to_high" ELSE "tier_entered_high"
           Entry(s, i) == [student |-> s, assessment |-> i, reason |-> Reason(s, i)]
           Entries == UNION {{Entry(s, i) : i \in {j \in DOMAIN hist[s] : Entered(s, j)}} :
                               s \in Students}
<1>1. ASSUME NEW s \in Students, NEW i \in DOMAIN hist[s]
      PROVE  /\ Due(s, i).reason # Null <=> Entered(s, i)
             /\ Entered(s, i) => Due(s, i) = Entry(s, i)
  <2>1. i \in Nat \ {0}
    BY DEF AInv, TInv, IInv, HistType, IsSequence
  <2>2. Null \notin {"low", "watch", "high", "tier_entered_high", "tier_escalated_to_high"}
    BY NullAssumption DEF Tiers, AlertReasons
  <2>3. AlertReason(TierBefore(s, i), hist[s][i].tier) =
          IF Entered(s, i) THEN Reason(s, i) ELSE Null
    <3> DEFINE p == TierBefore(s, i)
               q == hist[s][i].tier
    <3>1. AlertReason(p, q) = IF q = "high" /\ p # "high"
                              THEN IF p = "watch" THEN "tier_escalated_to_high"
                                   ELSE "tier_entered_high"
                              ELSE Null
      <4> HIDE DEF p, q
      <4>1. CASE q # "high" \/ p = "high"
        BY <4>1 DEF AlertReason
      <4>2. CASE q = "high" /\ p = "watch"
        BY <4>2 DEF AlertReason
      <4>3. CASE q = "high" /\ p # "high" /\ p # "watch"
        BY <4>3 DEF AlertReason
      <4> QED BY <4>1, <4>2, <4>3
    <3>2. CASE i = 1
      BY <2>2, <3>1, <3>2 DEF TierBefore
    <3>3. CASE i # 1
      BY <2>1, <3>1, <3>3 DEF TierBefore
    <3> QED BY <3>2, <3>3
  <2>4. Due(s, i).reason = AlertReason(TierBefore(s, i), hist[s][i].tier)
        /\ Due(s, i) = [student |-> s, assessment |-> i,
                        reason |-> AlertReason(TierBefore(s, i), hist[s][i].tier)]
    BY DEF Due
  <2>5. Reason(s, i) \in {"tier_entered_high", "tier_escalated_to_high"}
    OBVIOUS
  <2> HIDE DEF Reason, Entered
  <2>6. Due(s, i).reason # Null <=> Entered(s, i)
    BY <2>2, <2>3, <2>4, <2>5
  <2>7. Entered(s, i) => Due(s, i) = Entry(s, i)
    BY <2>3, <2>4
  <2> QED BY <2>6, <2>7
<1>2. AlertsMatchEscalations <=> alerts = Entries
  BY DEF AlertsMatchEscalations
<1> HIDE DEF Entered, Entry
<1>3. ASSUME NEW a
      PROVE  a \in Entries <=>
               \E s \in Students : \E i \in DOMAIN hist[s] : a = Due(s, i) /\ Due(s, i).reason # Null
  <2>1. a \in Entries <=>
          \E s \in Students : \E i \in DOMAIN hist[s] : Entered(s, i) /\ a = Entry(s, i)
    OBVIOUS
  <2> HIDE DEF Entries
  <2> QED BY <1>1, <2>1
<1>4. \A a : a \in alerts <=> a \in Entries
  BY <1>3 DEF AInv, AlertsRaised
<1> HIDE DEF Entries
<1> QED BY <1>2, <1>4

LEMMA AlwaysAInv == Spec => []AInv
<1>1. Init => WroteAlerts /\ AlertsRaised
  <2> SUFFICES ASSUME Init PROVE WroteAlerts /\ AlertsRaised
    OBVIOUS
  <2>1. /\ \A s \in Students : DOMAIN hist[s] = {}
        /\ \A w \in Workers, s \in Students : wrote[w][s] = Null
        /\ alerts = {}
    BY DEF Init, NothingWritten
  <2> QED BY <2>1 DEF WroteAlerts, AlertsRaised
<1>2. Init => AInv
  BY <1>1, InitIInv, InitTypeOK DEF AInv, TInv, TypeOK, WorldTyped, RowsTyped, MemoryTyped
<1>3. AInv /\ [Next]_vars => AInv'
  BY NextIInv, NextWorldTyped, NextRowsTyped, NextMemoryTyped, NextWroteAlerts,
     NextAlertsRaised DEF AInv, TInv
<1> QED BY <1>2, <1>3, PTL DEF Spec

\* Whatever overlaps, fails or rolls back, the alerts are exactly the entries into "high" of the
\* committed history, each once and with the reason the tier before it gives.
THEOREM AlwaysAlerted == Spec => []AlertsMatchEscalations
BY AlwaysAInv, AlertsRaisedMatch, PTL

-----------------------------------------------------------------------------
(* A recompute that nobody overlaps.                                       *)

\* a transaction works on its own students, and on none once it has ended
OwnWork ==
  /\ \A w \in Workers : todo[w] \subseteq ids[w]
  /\ \A w \in Workers : pc[w] = "flush" => head[w] \in ids[w]
  /\ \A w \in Workers : pc[w] = "idle" => ids[w] = {}
  /\ \A w \in Workers : pc[w] \in {"idle", "reading"} => errs[w] = {}
  /\ \A w \in Workers, s \in Students : wrote[w][s] # Null => s \in ids[w]

\* a student is lone in at most one transaction, and nobody else works on it
LoneAlone ==
  /\ DOMAIN lone = Workers
  /\ \A w \in Workers : \A s \in lone[w] :
       s \in ids[w] /\ \A v \in Workers \ {w} : s \notin ids[v]

\* what it saw of such a student is still current when it flushes
LoneSees ==
  \A w \in Workers : pc[w] = "flush" /\ head[w] \in lone[w] => CurrentRows(head[w]) \subseteq seen[w]

LInv == TInv /\ OwnWork /\ LoneAlone /\ LoneSees

LEMMA InitLInv == Init => LInv
<1> SUFFICES ASSUME Init PROVE LInv
  OBVIOUS
<1>1. TInv
  BY InitIInv, InitTypeOK DEF TInv, TypeOK, WorldTyped, RowsTyped, MemoryTyped
<1>2. OwnWork /\ LoneAlone /\ LoneSees
  BY DEF Init, OwnWork, LoneAlone, LoneSees, NothingWritten
<1> QED BY <1>1, <1>2 DEF LInv

\* Begin and Reset are all that changes whom a transaction works on
LEMMA NextOwnWork == LInv /\ [Next]_vars => OwnWork'
<1> SUFFICES ASSUME LInv, [Next]_vars PROVE OwnWork'
  OBVIOUS
<1> USE DEF LInv, TInv, MemoryTyped, IInv, WorkerType
<1>1. ASSUME UNCHANGED <<pc, ids, todo, head, wrote, errs>> PROVE OwnWork'
  BY <1>1 DEF OwnWork
<1>2. ASSUME NEW w \in Workers, NEW S, Begin(w, S) PROVE OwnWork'
  BY <1>2 DEF Begin, OwnWork
<1>3. ASSUME NEW w \in Workers, ReadDobs(w) PROVE OwnWork'
  BY <1>3 DEF ReadDobs, OwnWork
<1>4. ASSUME NEW w \in Workers, SelectCurrent(w) PROVE OwnWork'
  <2>1. PICK s \in todo[w] :
          /\ todo' = [todo EXCEPT ![w] = @ \ {s}]
          /\ \/ pc' = [pc EXCEPT ![w] = "flush"] /\ head' = [head EXCEPT ![w] = s]
             \/ UNCHANGED <<pc, head>>
    BY <1>4 DEF SelectCurrent
  <2>2. pc[w] = "loop" /\ UNCHANGED <<ids, wrote>>
    BY <1>4 DEF SelectCurrent
  <2>3. \A u \in Workers \ {w} : errs'[u] = errs[u] /\ pc'[u] = pc[u]
    BY <1>4, <2>1 DEF SelectCurrent
  <2>4. pc'[w] \in {"loop", "flush"}
    BY <2>1, <2>2
  <2>5. todo[w] \subseteq ids[w] /\ s \in ids[w]
    BY DEF OwnWork
  <2>6. todo'[w] \subseteq ids[w] /\ \A u \in Workers \ {w} : todo'[u] = todo[u]
    BY <2>1, <2>5
  <2>7. head'[w] \in ids[w] \/ pc'[w] # "flush"
    BY <2>1, <2>2, <2>5
  <2>8. \A u \in Workers \ {w} : head'[u] = head[u]
    BY <2>1
  <2> QED BY <2>2, <2>3, <2>4, <2>6, <2>7, <2>8, ZenonT(30) DEF OwnWork
<1>5. ASSUME NEW w \in Workers, Flush(w) \/ FlushFails(w) PROVE OwnWork'
  <2>1. /\ pc' = [pc EXCEPT ![w] = "loop"] /\ UNCHANGED <<ids, todo>>
        /\ head' = [head EXCEPT ![w] = Null] /\ head[w] \in ids[w]
    BY <1>5 DEF Flush, FlushFails, FlushFailure, OwnWork
  <2>2. \A v \in Workers, t \in Students :
          wrote'[v][t] = wrote[v][t] \/ (v = w /\ t = head[w])
    BY <1>5 DEF Flush, FlushFails
  <2>3. \A u \in Workers \ {w} : errs'[u] = errs[u]
    BY <1>5 DEF Flush, FlushFails
  <2> QED BY <2>1, <2>2, <2>3 DEF OwnWork
<1>6. ASSUME NEW w \in Workers, Reset(w) PROVE OwnWork'
  <2>1. \A v \in Workers : wrote'[v] = IF v = w THEN NothingWritten ELSE wrote[v]
    BY <1>6 DEF Reset
  <2>2. \A t \in Students : NothingWritten[t] = Null
    BY DEF NothingWritten
  <2>3. \A v \in Workers : /\ ids'[v] = IF v = w THEN {} ELSE ids[v]
                           /\ todo'[v] = IF v = w THEN {} ELSE todo[v]
                           /\ pc'[v] = IF v = w THEN "idle" ELSE pc[v]
                           /\ head'[v] = IF v = w THEN Null ELSE head[v]
                           /\ errs'[v] = IF v = w THEN {} ELSE errs[v]
    BY <1>6 DEF Reset
  <2> QED BY <2>1, <2>2, <2>3, ZenonT(30) DEF OwnWork
<1>7. \/ UNCHANGED <<pc, ids, todo, head, wrote, errs>>
      \/ \E w \in Workers : \/ \E S : Begin(w, S)
                            \/ ReadDobs(w) \/ SelectCurrent(w) \/ Flush(w) \/ FlushFails(w)
                            \/ Reset(w)
  BY DEF Next, vars, worker, Surroundings, ImportLoad, SetConfig, NextDay, CreateIntervention,
         BeginImport, BeginManual, Step, Commit, Crash
<1> QED BY <1>1, <1>2, <1>3, <1>4, <1>5, <1>6, <1>7

\* A student leaves lone when another transaction begins with it.
LEMMA NextLoneAlone == LInv /\ [Next]_vars => LoneAlone'
<1> SUFFICES ASSUME LInv, [Next]_vars PROVE LoneAlone'
  OBVIOUS
<1>0. /\ ids \in [Workers -> SUBSET Students] /\ DOMAIN lone = Workers
      /\ \A w \in Workers : \A s \in lone[w] :
           s \in ids[w] /\ \A v \in Workers \ {w} : s \notin ids[v]
  BY DEF LInv, TInv, IInv, WorkerType, LoneAlone
<1>1. ASSUME UNCHANGED <<ids, lone>> PROVE LoneAlone'
  BY <1>0, <1>1 DEF LoneAlone
<1>2. ASSUME SetConfig PROVE LoneAlone'
  BY <1>0, <1>2 DEF SetConfig, LoneAlone
<1>3. ASSUME NEW w \in Workers, NEW S, Begin(w, S) PROVE LoneAlone'
  <2> DEFINE rivals == {s \in S : Active(s) # {}}
  <2>1. /\ ids' = [ids EXCEPT ![w] = S]
        /\ lone' = [v \in Workers |-> IF v = w THEN S \ rivals ELSE lone[v] \ S]
    BY <1>3 DEF Begin
  <2>2. \A s \in S \ rivals : \A v \in Workers : s \notin ids[v]
    BY DEF Active
  <2> HIDE DEF rivals
  <2>3. \A v \in Workers : /\ ids'[v] = IF v = w THEN S ELSE ids[v]
                           /\ lone'[v] = IF v = w THEN S \ rivals ELSE lone[v] \ S
    BY <1>0, <2>1
  <2>4. ASSUME NEW v \in Workers, NEW s \in lone'[v], NEW u \in Workers \ {v}
        PROVE  s \in ids'[v] /\ s \notin ids'[u]
    <3>1. CASE v = w
      BY <2>2, <2>3, <3>1
    <3>2. CASE v # w
      <4>1. s \in lone[v] /\ s \notin S
        BY <2>3, <3>2
      <4>2. s \in ids[v] /\ s \notin ids[u]
        BY <1>0, <4>1
      <4> QED BY <2>3, <3>2, <4>1, <4>2
    <3> QED BY <3>1, <3>2
  <2>5. ASSUME NEW v \in Workers, NEW s \in lone'[v]
        PROVE  s \in ids'[v]
    <3>1. CASE v = w
      BY <2>3, <3>1
    <3>2. CASE v # w
      <4>1. s \in lone[v] /\ ids'[v] = ids[v]
        BY <2>3, <3>2
      <4> QED BY <1>0, <4>1
    <3> QED BY <3>1, <3>2
  <2>6. DOMAIN lone' = Workers
    BY <2>1
  <2> QED BY <2>4, <2>5, <2>6 DEF LoneAlone
<1>4. ASSUME NEW w \in Workers, Reset(w) PROVE LoneAlone'
  <2>1. \A v \in Workers :
          /\ ids'[v] = IF v = w THEN {} ELSE ids[v]
          /\ lone'[v] = IF v = w THEN {} ELSE lone[v]
    <3>1. lone' = [lone EXCEPT ![w] = {}] /\ ids' = [ids EXCEPT ![w] = {}]
      BY <1>4 DEF Reset
    <3> QED BY <1>0, <3>1
  <2>2. DOMAIN lone' = Workers
    BY <1>0, <1>4 DEF Reset
  <2> QED BY <1>0, <2>1, <2>2 DEF LoneAlone
<1>5. \/ UNCHANGED <<ids, lone>> \/ SetConfig
      \/ \E w \in Workers : Reset(w) \/ \E S : Begin(w, S)
  BY DEF Next, vars, worker, Surroundings, ImportLoad, NextDay, CreateIntervention, BeginImport,
         BeginManual, Step, ReadDobs, SelectCurrent, Flush, FlushFails, Commit, Crash
<1> QED BY <1>1, <1>2, <1>3, <1>4, <1>5

\* Without a Begin nobody's lone grows; with one only that of the transaction that begins.
LEMMA LoneShrinks ==
  ASSUME LInv, [Next]_vars, NEW v \in Workers
  PROVE  lone'[v] \subseteq lone[v] \/ pc'[v] = "reading"
<1>0. DOMAIN lone = Workers /\ DOMAIN pc = Workers
  BY DEF LInv, LoneAlone, TInv, IInv, WorkerType
<1>1. ASSUME UNCHANGED lone PROVE lone'[v] \subseteq lone[v]
  BY <1>1
<1>2. ASSUME SetConfig PROVE lone'[v] \subseteq lone[v]
  BY <1>2 DEF SetConfig
<1>3. ASSUME NEW w \in Workers, NEW S, Begin(w, S)
      PROVE  lone'[v] \subseteq lone[v] \/ pc'[v] = "reading"
  BY <1>0, <1>3 DEF Begin
<1>4. ASSUME NEW w \in Workers, Reset(w) PROVE lone'[v] \subseteq lone[v]
  BY <1>0, <1>4 DEF Reset
<1>5. UNCHANGED lone \/ SetConfig \/ \E w \in Workers : Reset(w) \/ \E S : Begin(w, S)
  BY DEF Next, vars, Surroundings, ImportLoad, NextDay, CreateIntervention, BeginImport,
         BeginManual, Step, ReadDobs, SelectCurrent, Flush, FlushFails, Commit, Crash
<1> QED BY <1>1, <1>2, <1>3, <1>4, <1>5

\* nobody else commits a row of a student that is lone
LEMMA LoneRowsStay ==
  ASSUME LInv, NEW w \in Workers, Commit(w), NEW v \in Workers \ {w}, NEW s \in lone[v]
  PROVE  s \in Students /\ hist'[s] = hist[s] /\ CurrentRows(s)' = CurrentRows(s)
<1>1. s \in Students /\ s \notin ids[w]
  BY DEF LInv, TInv, IInv, WorkerType, LoneAlone
<1>2. ~Committed(w, s)
  BY <1>1 DEF LInv, OwnWork, Committed
<1>3. hist'[s] = hist[s]
  BY <1>1, <1>2, CommitRows DEF LInv, TInv
<1> QED BY <1>1, <1>3 DEF CurrentRows

\* who is about to flush was so before, or has just selected the current row
LEMMA FlushCases ==
  ASSUME IInv, [Next]_vars, NEW v \in Workers, pc'[v] = "flush"
  PROVE  \/ /\ pc[v] = "flush" /\ UNCHANGED <<head[v], seen[v]>>
            /\ UNCHANGED store \/ \E w \in Workers \ {v} : Commit(w)
         \/ /\ UNCHANGED store /\ seen'[v] = CurrentRows(head'[v])
<1> USE DEF IInv, WorkerType
<1>1. CASE UNCHANGED <<pc, head, seen, store>>
  BY <1>1
<1>2. ASSUME NEW w \in Workers, NEW S, Begin(w, S)
      PROVE  pc[v] = "flush" /\ UNCHANGED <<head[v], seen[v], store>>
  BY <1>2 DEF Begin
<1>3. ASSUME NEW w \in Workers, ReadDobs(w)
      PROVE  pc[v] = "flush" /\ UNCHANGED <<head[v], seen[v], store>>
  BY <1>3 DEF ReadDobs
<1>4. ASSUME NEW w \in Workers, SelectCurrent(w)
      PROVE  \/ pc[v] = "flush" /\ UNCHANGED <<head[v], seen[v], store>>
             \/ UNCHANGED store /\ seen'[v] = CurrentRows(head'[v])
  <2>1. PICK s \in todo[w] :
          \/ /\ pc' = [pc EXCEPT ![w] = "flush"] /\ head' = [head EXCEPT ![w] = s]
             /\ seen' = [seen EXCEPT ![w] = CurrentRows(s)]
          \/ UNCHANGED <<pc, head, seen>>
    BY <1>4 DEF SelectCurrent
  <2>2. UNCHANGED store
    BY <1>4 DEF SelectCurrent
  <2> QED BY <2>1, <2>2
<1>5. ASSUME NEW w \in Workers, Flush(w) \/ FlushFails(w)
      PROVE  pc[v] = "flush" /\ UNCHANGED <<head[v], seen[v], store>>
  BY <1>5 DEF Flush, FlushFails, FlushFailure
<1>6. ASSUME NEW w \in Workers, Crash(w)
      PROVE  pc[v] = "flush" /\ UNCHANGED <<head[v], seen[v], store>>
  BY <1>6 DEF Crash, Reset
<1>7. ASSUME NEW w \in Workers, Commit(w)
      PROVE  pc[v] = "flush" /\ UNCHANGED <<head[v], seen[v]>> /\ v # w
  BY <1>7 DEF Commit, Reset
<1>8. \/ UNCHANGED <<pc, head, seen, store>>
      \/ \E w \in Workers : \/ \E S : Begin(w, S)
                            \/ ReadDobs(w) \/ SelectCurrent(w) \/ Flush(w) \/ FlushFails(w)
                            \/ Crash(w) \/ Commit(w)
  BY DEF Next, vars, worker, Surroundings, ImportLoad, SetConfig, NextDay, CreateIntervention,
         BeginImport, BeginManual, Step
<1> QED BY <1>1, <1>2, <1>3, <1>4, <1>5, <1>6, <1>7, <1>8

LEMMA NextLoneSees == LInv /\ [Next]_vars => LoneSees'
<1> SUFFICES ASSUME LInv, [Next]_vars, NEW v \in Workers, pc'[v] = "flush", head'[v] \in lone'[v]
             PROVE  CurrentRows(head[v])' \subseteq seen'[v]
  BY DEF LoneSees
<1>0. IInv
  BY DEF LInv, TInv
<1>1. head'[v] \in lone[v]
  BY LoneShrinks
<1>2. CASE UNCHANGED store /\ seen'[v] = CurrentRows(head'[v])
  BY <1>2 DEF CurrentRows, store
<1>3. CASE pc[v] = "flush" /\ UNCHANGED <<head[v], seen[v]>> /\ UNCHANGED store
  <2>1. CurrentRows(head[v]) \subseteq seen[v]
    BY <1>1, <1>3 DEF LInv, LoneSees
  <2>2. CurrentRows(head[v])' = CurrentRows(head[v])
    BY <1>3 DEF CurrentRows, store
  <2> QED BY <1>3, <2>1, <2>2
<1>4. ASSUME pc[v] = "flush", UNCHANGED <<head[v], seen[v]>>, NEW w \in Workers \ {v}, Commit(w)
      PROVE  CurrentRows(head[v])' \subseteq seen'[v]
  <2>1. CurrentRows(head[v]) \subseteq seen[v]
    BY <1>1, <1>4 DEF LInv, LoneSees
  <2>2. PICK s : s = head[v]
    OBVIOUS
  <2>3. CurrentRows(s)' = CurrentRows(s)
    BY <1>1, <1>4, <2>2, LoneRowsStay
  <2>4. CurrentRows(head[v])' = CurrentRows(s)'
    BY <1>4, <2>2 DEF CurrentRows
  <2> QED BY <1>4, <2>1, <2>2, <2>3, <2>4
<1> QED BY <1>0, <1>2, <1>3, <1>4, FlushCases

LEMMA AlwaysLInv == Spec => []LInv
<1>1. LInv /\ [Next]_vars => LInv'
  BY NextIInv, NextWorldTyped, NextRowsTyped, NextMemoryTyped, NextOwnWork, NextLoneAlone,
     NextLoneSees DEF LInv, TInv
<1> QED BY <1>1, InitLInv, PTL DEF Spec

\* The score of a student without findings is zero.
LEMMA NoFindingsNoScore ==
  ASSUME NEW weights
  PROVE  ScoreFindings({}, weights) = 0
<1>0. Full \in Nat
  BY GrainAssumption DEF Full
<1>1. \A S : S = {Full, 0} => (CHOOSE x \in S : \A y \in S : x =< y) = 0
  BY <1>0
<1>2. Min({Full, 0}) = 0
  BY <1>1 DEF Min
<1> QED BY <1>2 DEF ScoreFindings

\* The assertion fails only for a student without findings, under a watch cutoff of zero.
LEMMA AlmostExplainable ==
  ASSUME NEW sig, NEW c \in ConfigChoices \cup {DefaultConfig}, ~Explainable(Evaluate(sig, c))
  PROVE  c.tier_cutoffs.watch = 0 /\ FiredCodes(sig, c) = {}
<1> DEFINE fired == FiredCodes(sig, c)
           F == {[code |-> x, weight |-> c.weights[x]] : x \in fired}
           score == ScoreFindings(fired, c.weights)
<1>1. Evaluate(sig, c) = [tier |-> TierForScore(score, c), score |-> score, findings |-> F]
  BY DEF Evaluate
<1>2. F = {} => fired = {}
  OBVIOUS
<1> HIDE DEF F, fired
<1>3. fired = {} => score = 0
  BY NoFindingsNoScore
<1> HIDE DEF score
<1>4. TierForScore(score, c) # "low" /\ F = {}
  BY <1>1 DEF Explainable
<1>5. c.tier_cutoffs.watch \in Nat /\ c.tier_cutoffs.high \in Nat
      /\ c.tier_cutoffs.watch < c.tier_cutoffs.high
  <2>1. Full \in Nat
    BY GrainAssumption DEF Full
  <2>2. ValidConfig(c)
    BY ConfigsAssumption
  <2> QED BY <2>1, <2>2 DEF ValidConfig
<1>6. c.tier_cutoffs.watch = 0
  BY <1>2, <1>3, <1>4, <1>5 DEF TierForScore
<1> QED BY <1>2, <1>4, <1>6 DEF fired

\* While it has recorded an error, a transaction keeps what its bulk read saw.
LEMMA ReadOnce ==
  ASSUME LInv, [Next]_vars, NEW v \in Workers, errs'[v] # {}
  PROVE  UNCHANGED <<config[v], snap[v]>>
<1>0. errs \in [Workers -> SUBSET Students]
  BY DEF LInv, TInv, MemoryTyped
<1>1. pc'[v] \notin {"idle", "reading"}
  BY NextOwnWork DEF OwnWork
<1>2. pc[v] = "reading" => errs[v] = {}
  BY DEF LInv, OwnWork
<1>3. DOMAIN pc = Workers /\ DOMAIN config = Workers /\ DOMAIN snap = Workers
  BY DEF LInv, TInv, IInv, WorkerType, MemoryTyped
<1>4. ASSUME NEW w \in Workers, ReadDobs(w) PROVE UNCHANGED <<config[v], snap[v]>>
  BY <1>2, <1>3, <1>4 DEF ReadDobs
<1>5. ASSUME NEW w \in Workers, NEW S, Begin(w, S) PROVE UNCHANGED <<config[v], snap[v]>>
  BY <1>1, <1>3, <1>5 DEF Begin
<1>6. ASSUME NEW w \in Workers, Reset(w) PROVE UNCHANGED <<config[v], snap[v]>>
  BY <1>1, <1>3, <1>6 DEF Reset
<1>7. \/ UNCHANGED <<config, snap>>
      \/ \E w \in Workers : ReadDobs(w) \/ Reset(w) \/ \E S : Begin(w, S)
  BY DEF Next, vars, worker, Surroundings, ImportLoad, SetConfig, NextDay, CreateIntervention,
         BeginImport, BeginManual, Step, SelectCurrent, Flush, FlushFails, Commit, Crash
<1> QED BY <1>4, <1>5, <1>6, <1>7

\* Neither the index nor a deadlock can cost a lone student its assessment.
LEMMA NextLoneErrors ==
  LInv /\ LoneErrorsNeedZeroWatch /\ [Next]_vars => LoneErrorsNeedZeroWatch'
<1> DEFINE Zero(w, s) == /\ config[w].config.tier_cutoffs.watch = 0
                         /\ FiredCodes(snap[w][s].signals, config[w].config) = {}
<1> SUFFICES ASSUME LInv, LoneErrorsNeedZeroWatch, [Next]_vars,
                    NEW v \in Workers, NEW s \in lone'[v], s \in errs'[v]
             PROVE  Zero(v, s)'
  BY DEF LoneErrorsNeedZeroWatch
<1>0. IInv /\ errs \in [Workers -> SUBSET Students]
  BY DEF LInv, TInv, MemoryTyped
<1>u. config'[v] = config[v] /\ snap'[v] = snap[v]
  BY ReadOnce
<1>z. Zero(v, s) => Zero(v, s)'
  BY <1>u
<1>1. CASE errs'[v] \subseteq errs[v] /\ s \in lone[v]
  BY <1>1, <1>z DEF LoneErrorsNeedZeroWatch
<1>k. s \in errs[v] /\ s \in lone[v] => Zero(v, s)
  BY DEF LoneErrorsNeedZeroWatch
<1>2. ASSUME SelectCurrent(v), errs' # errs, s \in lone[v] PROVE Zero(v, s)'
  <2>1. PICK t \in todo[v] : Evaluated(v, t, "error") /\ errs' = [errs EXCEPT ![v] = @ \cup {t}]
    BY <1>2 DEF SelectCurrent
  <2>2. config[v].config \in ConfigChoices \cup {DefaultConfig}
    BY DEF LInv, TInv, MemoryTyped, ConfigRow
  <2>4. t \in Students
    BY DEF LInv, TInv, IInv, WorkerType
  <2>5. Cardinality(CurrentRows(t)) \in {0, 1}
    <3>1. CurrentRows(t) = {} \/ CurrentRows(t) = {Len(hist[t])}
      BY <1>0, <2>4 DEF IInv, OneCurrent
    <3> QED BY <3>1, FS_EmptySet, FS_Singleton
  <2>6. ~Explainable(Evaluate(snap[v][t].signals, config[v].config))
    BY <2>1, <2>5 DEF Evaluated
  <2>7. Zero(v, t)
    BY <2>2, <2>6, AlmostExplainable
  <2>8. s = t \/ s \in errs[v]
    BY <1>0, <2>1
  <2> HIDE DEF Zero
  <2> QED BY <1>2, <1>k, <1>z, <2>7, <2>8
<1>3. ASSUME FlushFails(v), s \in lone[v] PROVE Zero(v, s)'
  <2>1. errs'[v] = errs[v] \cup {head[v]} /\ pc[v] = "flush"
    BY <1>0, <1>3 DEF FlushFails, FlushFailure
  <2>2. SUFFICES ASSUME s = head[v] PROVE FALSE
    <3> HIDE DEF Zero
    <3> QED BY <1>3, <1>k, <1>z, <2>1
  <2>3. s \in Students /\ \A w \in Workers \ {v} : s \notin ids[w]
    BY <1>3 DEF LInv, LoneAlone, TInv, IInv, WorkerType
  <2>4. Blockers(v) = {}
    BY <2>2, <2>3 DEF Blockers, LInv, OwnWork
  <2>5. CurrentRows(head[v]) \subseteq seen[v]
    BY <1>3, <2>1, <2>2 DEF LInv, LoneSees
  <2>6. ~Deadlocked(v)
    BY <2>4 DEF Deadlocked
  <2> QED BY <1>3, <2>4, <2>5, <2>6 DEF FlushFails, FlushFailure
<1>4. pc'[v] # "reading" => s \in lone[v]
  BY LoneShrinks
<1>5. pc'[v] # "reading"
  BY NextOwnWork DEF OwnWork
<1>6. errs'[v] \subseteq errs[v] \/ FlushFails(v) \/ (SelectCurrent(v) /\ errs' # errs)
  <2>1. ASSUME NEW w \in Workers, FlushFails(w)
        PROVE  errs'[v] \subseteq errs[v] \/ FlushFails(v)
    BY <1>0, <2>1 DEF FlushFails
  <2>2. ASSUME NEW w \in Workers, SelectCurrent(w)
        PROVE  errs'[v] \subseteq errs[v] \/ (SelectCurrent(v) /\ errs' # errs)
    <3>1. PICK t : errs' = errs \/ errs' = [errs EXCEPT ![w] = @ \cup {t}]
      BY <2>2 DEF SelectCurrent
    <3> QED BY <1>0, <2>2, <3>1
  <2>3. ASSUME NEW w \in Workers, Reset(w) PROVE errs'[v] \subseteq errs[v]
    BY <1>0, <2>3 DEF Reset
  <2>4. UNCHANGED errs \/ \E w \in Workers : FlushFails(w) \/ SelectCurrent(w) \/ Reset(w)
    BY DEF Next, vars, worker, Surroundings, ImportLoad, SetConfig, NextDay, CreateIntervention,
           BeginImport, BeginManual, Begin, Step, ReadDobs, Flush, Commit, Crash
  <2> QED BY <2>1, <2>2, <2>3, <2>4
<1> QED BY <1>1, <1>2, <1>3, <1>4, <1>5, <1>6

\* A recompute records an error for a student only if another recompute of that student
\* overlapped it, or if the watch cutoff is zero and no rule fires.
THEOREM LoneNeverFails == Spec => []LoneErrorsNeedZeroWatch
<1>1. Init => LoneErrorsNeedZeroWatch
  BY DEF Init, LoneErrorsNeedZeroWatch
<1> QED BY <1>1, NextLoneErrors, AlwaysLInv, PTL DEF Spec

-----------------------------------------------------------------------------
(* A settled student is shown with the result of the present data.         *)

Pending(s) == \E b \in due : s \in b.students
Shows(s, result) == \E i \in CurrentRows(s) : Signature(hist[s][i]) = result
Expected(w, s) == Evaluate(snap[w][s].signals, config[w].config)

\* a student a transaction shares with another one counts as unsettled
OverlapNoted == \A w \in Workers : \A s \in ids[w] : s \in lone[w] \/ s \in unsettled

\* what it saw of a lone student is present data, or an import has made it due again
LoneUpToDate ==
  \A w \in Workers : \A s \in lone[w] :
    Pending(s) \/ (snap[w][s].signals = data[s].signals /\ config[w] = ActiveConfig)

\* an uncommitted row holds what the rules give for what its transaction saw
WroteExpected ==
  \A w \in Workers, s \in Students :
    wrote[w][s] # Null => Signature(wrote[w][s]) = Expected(w, s)

\* past its reads, a transaction has a lone student before it, or has dealt with it
Handled(w, s) ==
  \/ s \in todo[w] \/ (pc[w] = "flush" /\ s = head[w]) \/ s \in errs[w]
  \/ ~data[s].known \/ Pending(s)
  \/ wrote[w][s] # Null \/ Shows(s, Expected(w, s))

LoneHandled ==
  \A w \in Workers : pc[w] \in {"loop", "flush"} => \A s \in lone[w] : Handled(w, s)

Settling == OverlapNoted /\ LoneUpToDate /\ WroteExpected /\ LoneHandled /\ FreshWhenSettled
FInv == LInv /\ Settling

\* the types these proofs use, in one place
LEMMA LoneTypes ==
  ASSUME LInv
  PROVE  /\ ids \in [Workers -> SUBSET Students] /\ todo \in [Workers -> SUBSET Students]
         /\ errs \in [Workers -> SUBSET Students]
         /\ DOMAIN pc = Workers /\ DOMAIN head = Workers /\ DOMAIN lone = Workers
         /\ DOMAIN snap = Workers /\ DOMAIN config = Workers
         /\ wrote = [w \in Workers |-> [s \in Students |-> wrote[w][s]]]
         /\ \A w \in Workers : \A s \in lone[w] :
              s \in Students /\ s \in ids[w] /\ \A v \in Workers \ {w} : s \notin ids[v]
         /\ \A w \in Workers : pc[w] = "idle" => ids[w] = {}
         /\ \A w \in Workers, s \in Students : wrote[w][s] # Null => s \in ids[w]
BY DEF LInv, TInv, IInv, WorkerType, MemoryTyped, LoneAlone, OwnWork

\* Without a commit the histories show what they showed.
LEMMA ShowsStays ==
  ASSUME UNCHANGED hist
  PROVE  \A s, r : Shows(s, r)' = Shows(s, r)
BY DEF Shows, CurrentRows

LEMMA ImportSettling ==
  ASSUME FInv, ImportLoad
  PROVE  Settling'
<1>1. /\ UNCHANGED <<today, configs, interventions, store, worker, lone, unsettled>>
      /\ due \subseteq due'
  BY DEF ImportLoad
<1>2. \A s \in Students : data'[s] = data[s] \/ Pending(s)'
  <2>0. PICK B \in (SUBSET Students) \ {{}} :
          \E sig \in [B -> Signals], dob \in [B -> Dobs] :
            /\ \A s \in B : dob[s] # data[s].dob => <<data[s].dob, dob[s]>> \in DobChanges
            /\ data' = [s \in Students |->
                 IF s \in B THEN [known |-> TRUE, signals |-> sig[s], dob |-> dob[s]]
                 ELSE data[s]]
            /\ due' = due \cup {[batch |-> used.imports + 1, students |-> B]}
    BY DEF ImportLoad
  <2>1. PICK sig \in [B -> Signals], dob \in [B -> Dobs] :
          /\ data' = [s \in Students |->
               IF s \in B THEN [known |-> TRUE, signals |-> sig[s], dob |-> dob[s]]
               ELSE data[s]]
          /\ due' = due \cup {[batch |-> used.imports + 1, students |-> B]}
    BY <2>0
  <2> DEFINE e == [batch |-> used.imports + 1, students |-> B]
  <2>2. e \in due' /\ e.students = B
    BY <2>1
  <2>3. \A s \in Students : s \notin B => data'[s] = data[s]
    BY <2>1
  <2> HIDE DEF e
  <2> QED BY <2>2, <2>3 DEF Pending
<1>3. \A s : Pending(s) => Pending(s)'
  BY <1>1 DEF Pending
<1>4. \A s, r : Shows(s, r)' = Shows(s, r)
  BY <1>1, ShowsStays DEF store
<1>5. \A w, s : Expected(w, s)' = Expected(w, s)
  BY <1>1 DEF Expected, worker
<1>6. OverlapNoted' /\ WroteExpected'
  BY <1>1, <1>5 DEF FInv, Settling, OverlapNoted, WroteExpected, worker, Signature
<1>7. LoneUpToDate'
  BY <1>1, <1>2, <1>3, LoneTypes DEF FInv, Settling, LoneUpToDate, worker, ActiveConfig
<1>8. LoneHandled'
  <2> SUFFICES ASSUME NEW w \in Workers, pc'[w] \in {"loop", "flush"}, NEW s \in lone'[w]
               PROVE  Handled(w, s)'
    BY DEF LoneHandled
  <2>1. s \in Students /\ Handled(w, s)
    BY <1>1, LoneTypes DEF FInv, Settling, LoneHandled, worker
  <2>2. data'[s] = data[s] \/ Pending(s)'
    BY <1>2, <2>1
  <2> QED BY <1>1, <1>3, <1>4, <1>5, <2>1, <2>2 DEF Handled, worker
<1>9. FreshWhenSettled'
  <2> SUFFICES ASSUME NEW s \in Students, data'[s].known, s \notin unsettled',
                      Active(s)' = {}, ~Pending(s)'
               PROVE  Shows(s, Evaluate(data[s].signals, ActiveConfig.config))'
    BY DEF FreshWhenSettled, Pending, Shows, Signature
  <2>1. data'[s] = data[s] /\ ~Pending(s) /\ s \notin unsettled /\ Active(s) = {}
    BY <1>1, <1>2, <1>3 DEF Active, worker
  <2>2. Shows(s, Evaluate(data[s].signals, ActiveConfig.config))
    BY <2>1 DEF FInv, Settling, FreshWhenSettled, Pending, Shows
  <2>3. Evaluate(data[s].signals, ActiveConfig.config)' =
          Evaluate(data[s].signals, ActiveConfig.config)
    BY <1>1, <2>1 DEF ActiveConfig
  <2> QED BY <1>4, <2>2, <2>3 DEF Shows
<1> QED BY <1>6, <1>7, <1>8, <1>9 DEF Settling

\* A new configuration unsettles everybody.
LEMMA ConfigSettling ==
  ASSUME FInv, SetConfig
  PROVE  Settling'
<1>1. /\ unsettled' = Students /\ \A w \in Workers : lone'[w] = {}
      /\ UNCHANGED <<data, due, store, worker>>
  BY DEF SetConfig
<1>2. OverlapNoted'
  BY <1>1, LoneTypes DEF FInv, OverlapNoted, worker
<1>3. LoneUpToDate' /\ LoneHandled'
  BY <1>1 DEF LoneUpToDate, LoneHandled
<1>4. WroteExpected'
  BY <1>1 DEF FInv, Settling, WroteExpected, Expected, worker, Signature
<1>5. FreshWhenSettled'
  BY <1>1 DEF FreshWhenSettled
<1> QED BY <1>2, <1>3, <1>4, <1>5 DEF Settling

LEMMA IdleSettling ==
  ASSUME FInv, UNCHANGED <<data, configs, due, store, worker, lone, unsettled>>
  PROVE  Settling'
<1>1. /\ \A s, r : Shows(s, r)' = Shows(s, r)
      /\ \A s : Pending(s)' = Pending(s) /\ Active(s)' = Active(s)
      /\ \A w, s : Expected(w, s)' = Expected(w, s)
      /\ ActiveConfig' = ActiveConfig
  BY ShowsStays DEF store, worker, Pending, Active, Expected, ActiveConfig
<1>2. OverlapNoted' /\ LoneUpToDate' /\ WroteExpected' /\ LoneHandled'
  BY <1>1 DEF FInv, Settling, OverlapNoted, LoneUpToDate, WroteExpected, LoneHandled, Handled,
              worker, Signature
<1>3. FreshWhenSettled'
  BY <1>1 DEF FInv, Settling, FreshWhenSettled, store, ActiveConfig, CurrentRows, Signature, Pending
<1> QED BY <1>2, <1>3 DEF Settling

\* Whoever works on a student of the transaction that begins is a rival: its students are lone or
\* unsettled, and they are what leaves the due batch.
LEMMA BeginSettling ==
  ASSUME FInv, NEW w \in Workers, NEW S \in SUBSET Students, Begin(w, S),
         due' \subseteq due, \A b \in due : b \in due' \/ b.students = S
  PROVE  Settling'
<1> DEFINE rivals == {s \in S : Active(s) # {}}
<1>1. /\ pc[w] = "idle" /\ pc' = [pc EXCEPT ![w] = "reading"]
      /\ ids' = [ids EXCEPT ![w] = S] /\ config' = [config EXCEPT ![w] = ActiveConfig]
      /\ snap' = [snap EXCEPT ![w] = data]
      /\ lone' = [v \in Workers |-> IF v = w THEN S \ rivals ELSE lone[v] \ S]
      /\ unsettled' = unsettled \cup rivals
      /\ UNCHANGED <<data, today, configs, interventions, store, todo, head, seen, wrote, errs>>
  BY DEF Begin
<1>2. \A v \in Workers :
        IF v = w
        THEN /\ pc'[v] = "reading" /\ ids'[v] = S /\ config'[v] = ActiveConfig
             /\ snap'[v] = data /\ lone'[v] = S \ rivals
        ELSE /\ pc'[v] = pc[v] /\ ids'[v] = ids[v] /\ config'[v] = config[v]
             /\ snap'[v] = snap[v] /\ lone'[v] = lone[v] \ S
  BY <1>1, LoneTypes DEF FInv
<1>3. \A s \in S : \A v \in Workers : s \in ids[v] => s \in rivals
  BY DEF Active
<1> HIDE DEF rivals
<1>4. \A s : s \notin S => Pending(s)' = Pending(s)
  BY DEF Pending
<1>5. \A s, r : Shows(s, r)' = Shows(s, r)
  BY <1>1, ShowsStays DEF store
<1>6. \A v \in Workers \ {w} : \A s : Expected(v, s)' = Expected(v, s)
  BY <1>2 DEF Expected
<1>7. OverlapNoted'
  <2> SUFFICES ASSUME NEW v \in Workers, NEW s \in ids'[v], s \notin unsettled' PROVE s \in lone'[v]
    BY DEF OverlapNoted
  <2>1. CASE v = w
    BY <1>1, <1>2, <2>1
  <2>2. CASE v # w
    <3>1. s \in ids[v] /\ s \in lone[v]
      BY <1>1, <1>2, <2>2 DEF FInv, Settling, OverlapNoted
    <3>2. s \notin S
      BY <1>1, <1>3, <3>1
    <3> QED BY <1>2, <2>2, <3>1, <3>2
  <2> QED BY <2>1, <2>2
<1>8. ActiveConfig' = ActiveConfig
  BY <1>1 DEF ActiveConfig
<1>9. LoneUpToDate'
  <2> SUFFICES ASSUME NEW v \in Workers, NEW s \in lone'[v]
               PROVE  Pending(s)' \/ (snap'[v][s].signals = data'[s].signals
                                      /\ config'[v] = ActiveConfig')
    BY DEF LoneUpToDate
  <2>1. CASE v = w
    BY <1>1, <1>2, <1>8, <2>1
  <2>2. CASE v # w
    <3>1. s \in lone[v] /\ s \notin S
      BY <1>2, <2>2
    <3>2. Pending(s) \/ (snap[v][s].signals = data[s].signals /\ config[v] = ActiveConfig)
      BY <3>1 DEF FInv, Settling, LoneUpToDate
    <3> QED BY <1>1, <1>2, <1>4, <1>8, <2>2, <3>1, <3>2
  <2> QED BY <2>1, <2>2
<1>10. WroteExpected'
  <2> SUFFICES ASSUME NEW v \in Workers, NEW s \in Students, wrote'[v][s] # Null
               PROVE  Signature(wrote'[v][s]) = Expected(v, s)'
    BY DEF WroteExpected, Signature
  <2>1. wrote[v][s] # Null /\ v # w
    BY <1>1, LoneTypes DEF FInv
  <2> QED BY <1>1, <1>6, <2>1 DEF FInv, Settling, WroteExpected
<1>11. LoneHandled'
  <2> SUFFICES ASSUME NEW v \in Workers, pc'[v] \in {"loop", "flush"}, NEW s \in lone'[v]
               PROVE  Handled(v, s)'
    BY DEF LoneHandled
  <2>1. v # w /\ pc[v] = pc'[v] /\ s \in lone[v] /\ s \notin S
    BY <1>2
  <2>2. Handled(v, s)
    BY <2>1 DEF FInv, Settling, LoneHandled
  <2> QED BY <1>1, <1>4, <1>5, <1>6, <2>1, <2>2 DEF Handled
<1>12. FreshWhenSettled'
  <2> SUFFICES ASSUME NEW s \in Students, data'[s].known, s \notin unsettled',
                      Active(s)' = {}, ~Pending(s)'
               PROVE  Shows(s, Evaluate(data[s].signals, ActiveConfig.config))'
    BY DEF FreshWhenSettled, Pending, Shows, Signature
  <2>1. s \notin S /\ \A v \in Workers \ {w} : s \notin ids[v]
    BY <1>2 DEF Active
  <2>2. Active(s) = {}
    BY <1>1, <2>1, LoneTypes DEF Active, FInv
  <2>3. ~Pending(s) /\ s \notin unsettled /\ data[s].known
    BY <1>1, <1>4, <2>1
  <2>4. Shows(s, Evaluate(data[s].signals, ActiveConfig.config))
    BY <2>2, <2>3 DEF FInv, Settling, FreshWhenSettled, Pending, Shows
  <2> QED BY <1>1, <1>5, <1>8, <2>4 DEF Shows
<1> QED BY <1>7, <1>9, <1>10, <1>11, <1>12 DEF Settling

LEMMA ReadDobsSettling ==
  ASSUME FInv, NEW w \in Workers, ReadDobs(w)
  PROVE  Settling'
<1>1. /\ pc' = [pc EXCEPT ![w] = "loop"]
      /\ todo' = [todo EXCEPT ![w] = {s \in ids[w] : data[s].known}]
      /\ snap' = [snap EXCEPT ![w] = [s \in Students |->
           [known |-> data[s].known, signals |-> snap[w][s].signals, dob |-> data[s].dob]]]
      /\ UNCHANGED <<world, store, ids, config, head, seen, wrote, errs, lone, unsettled>>
  BY DEF ReadDobs
<1>2. \A v \in Workers : \A s \in Students : snap'[v][s].signals = snap[v][s].signals
  BY <1>1, LoneTypes DEF FInv
<1>3. \A s, r : Shows(s, r)' = Shows(s, r)
  BY <1>1, ShowsStays DEF store
<1>4. /\ \A v \in Workers : \A s \in Students : Expected(v, s)' = Expected(v, s)
      /\ \A s : Pending(s)' = Pending(s) /\ Active(s)' = Active(s)
      /\ ActiveConfig' = ActiveConfig
  BY <1>1, <1>2 DEF Expected, Pending, Active, ActiveConfig, world
<1>5. OverlapNoted' /\ WroteExpected'
  BY <1>1, <1>4 DEF FInv, Settling, OverlapNoted, WroteExpected, Signature
<1>6. LoneUpToDate'
  BY <1>1, <1>2, <1>4, LoneTypes DEF FInv, Settling, LoneUpToDate, world
<1>7. LoneHandled'
  <2> SUFFICES ASSUME NEW v \in Workers, pc'[v] \in {"loop", "flush"}, NEW s \in lone'[v]
               PROVE  Handled(v, s)'
    BY DEF LoneHandled
  <2>1. s \in Students /\ s \in lone[v] /\ s \in ids[v]
    BY <1>1, LoneTypes DEF FInv
  <2>2. CASE v = w
    <3>1. data'[s].known => s \in todo'[v]
      BY <1>1, <2>1, <2>2, LoneTypes DEF FInv, world
    <3> QED BY <3>1 DEF Handled
  <2>3. CASE v # w
    <3>1. pc'[v] = pc[v] /\ todo'[v] = todo[v]
      BY <1>1, <2>3, LoneTypes DEF FInv
    <3>2. Handled(v, s)
      BY <2>1, <3>1 DEF FInv, Settling, LoneHandled
    <3> QED BY <1>1, <1>3, <1>4, <2>1, <3>1, <3>2 DEF Handled, world
  <2> QED BY <2>2, <2>3
<1>8. FreshWhenSettled'
  BY <1>1, <1>4 DEF FInv, Settling, FreshWhenSettled, store, world, CurrentRows, Signature,
                    ActiveConfig
<1> QED BY <1>5, <1>6, <1>7, <1>8 DEF Settling

\* Steps in and around a savepoint: what they may change, and that whom the transaction has dealt
\* with they leave dealt with.
LEMMA SavepointSettling ==
  ASSUME FInv, NEW w \in Workers,
         UNCHANGED <<world, store, ids, snap, config, lone, unsettled>>,
         \A v \in Workers \ {w} : UNCHANGED <<pc[v], todo[v], head[v], errs[v], wrote[v]>>,
         pc[w] \in {"loop", "flush"},
         \A s \in Students : wrote'[w][s] # Null =>
           wrote'[w][s] = wrote[w][s] \/ Signature(wrote'[w][s]) = Expected(w, s),
         \A s \in Students : Handled(w, s) => Handled(w, s)'
  PROVE  Settling'
<1>1. \A s, r : Shows(s, r)' = Shows(s, r)
  BY ShowsStays DEF store
<1>2. /\ \A v, s : Expected(v, s)' = Expected(v, s)
      /\ \A s : Pending(s)' = Pending(s) /\ Active(s)' = Active(s)
      /\ ActiveConfig' = ActiveConfig
  BY DEF Expected, Pending, Active, ActiveConfig, world
<1>3. OverlapNoted' /\ LoneUpToDate'
  BY <1>2 DEF FInv, Settling, OverlapNoted, LoneUpToDate, world
<1>4. WroteExpected'
  <2> SUFFICES ASSUME NEW v \in Workers, NEW s \in Students, wrote'[v][s] # Null
               PROVE  Signature(wrote'[v][s]) = Expected(v, s)'
    BY DEF WroteExpected, Signature
  <2>1. wrote'[v][s] = wrote[v][s] \/ Signature(wrote'[v][s]) = Expected(v, s)
    BY DEF FInv
  <2> QED BY <1>2, <2>1 DEF FInv, Settling, WroteExpected
<1>5. LoneHandled'
  <2> SUFFICES ASSUME NEW v \in Workers, pc'[v] \in {"loop", "flush"}, NEW s \in lone'[v]
               PROVE  Handled(v, s)'
    BY DEF LoneHandled
  <2>1. s \in Students /\ s \in lone[v]
    BY LoneTypes DEF FInv
  <2>2. CASE v = w
    BY <2>1, <2>2 DEF FInv, Settling, LoneHandled
  <2>3. CASE v # w
    <3>1. Handled(v, s)
      BY <2>1, <2>3 DEF FInv, Settling, LoneHandled
    <3> QED BY <1>1, <1>2, <2>3, <3>1 DEF Handled, world
  <2> QED BY <2>2, <2>3
<1>6. FreshWhenSettled'
  BY <1>2 DEF FInv, Settling, FreshWhenSettled, store, world, CurrentRows, Signature, ActiveConfig
<1> QED BY <1>3, <1>4, <1>5, <1>6 DEF Settling

LEMMA SelectSettling ==
  ASSUME FInv, NEW w \in Workers, SelectCurrent(w)
  PROVE  Settling'
<1>0. /\ pc[w] = "loop" /\ DOMAIN pc = Workers /\ DOMAIN head = Workers
      /\ todo \in [Workers -> SUBSET Students] /\ errs \in [Workers -> SUBSET Students]
      /\ UNCHANGED <<world, store, ids, snap, config, wrote, lone, unsettled>>
  BY LoneTypes DEF SelectCurrent, FInv
<1>1. PICK t \in todo[w] :
        /\ todo' = [todo EXCEPT ![w] = @ \ {t}]
        /\ \/ /\ pc' = [pc EXCEPT ![w] = "flush"] /\ head' = [head EXCEPT ![w] = t]
              /\ UNCHANGED errs
           \/ Evaluated(w, t, "unchanged") /\ UNCHANGED <<pc, head, errs>>
           \/ errs' = [errs EXCEPT ![w] = @ \cup {t}] /\ UNCHANGED <<pc, head>>
  BY DEF SelectCurrent
<1>2. Evaluated(w, t, "unchanged") => Shows(t, Expected(w, t))
  BY DEF Evaluated, Shows, Expected
<1>3. \A v \in Workers \ {w} : UNCHANGED <<pc[v], todo[v], head[v], errs[v], wrote[v]>>
  BY <1>0, <1>1
<1>4. \A s, r : Shows(s, r)' = Shows(s, r)
  BY <1>0, ShowsStays DEF store
<1>5. ASSUME NEW s \in Students, Handled(w, s) PROVE Handled(w, s)'
  <2>1. /\ todo'[w] = todo[w] \ {t} /\ errs[w] \subseteq errs'[w] /\ pc[w] # "flush"
        /\ (pc'[w] = "flush" /\ head'[w] = t) \/ t \in errs'[w] \/ Shows(t, Expected(w, t))
    BY <1>0, <1>1, <1>2
  <2>2. /\ Expected(w, s)' = Expected(w, s) /\ Expected(w, t)' = Expected(w, t)
        /\ Pending(s)' = Pending(s) /\ data' = data
    BY <1>0 DEF Expected, Pending, world
  <2>3. CASE s = t
    BY <1>4, <2>1, <2>2, <2>3 DEF Handled
  <2>4. CASE s # t
    BY <1>0, <1>4, <1>5, <2>1, <2>2, <2>4 DEF Handled
  <2> QED BY <2>3, <2>4
<1> QED BY <1>0, <1>3, <1>5, SavepointSettling

\* A row that is flushed is a row of the table, and no Null.
LEMMA NewRowIsARow ==
  ASSUME LInv, NEW w \in Workers, pc[w] = "flush"
  PROVE  NewRow(w, head[w]) \in Rows /\ NewRow(w, head[w]) # Null
<1> DEFINE sig == snap[w][head[w]].signals
           r == Evaluate(sig, config[w].config)
           reason == AlertReason(PreviousTier(head[w], seen[w]), r.tier)
<1>1. head[w] \in Students
  BY DEF LInv, TInv, IInv, WorkerType
<1>2. /\ sig \in Signals \cup {NoSignals} /\ config[w].version \in Nat
      /\ config[w].config \in ConfigChoices \cup {DefaultConfig}
  BY <1>1 DEF LInv, TInv, MemoryTyped, StudentData, ConfigRow
<1>3. r \in Results /\ r.tier \in Tiers
  <2>1. r \in Results
    BY <1>2 DEF Results
  <2>2. r.tier \in Tiers
    BY DEF Evaluate, TierForScore, Tiers
  <2> QED BY <2>1, <2>2
<1>4. seen[w] \in SUBSET Nat
  <2>1. seen[w] \subseteq DOMAIN hist[head[w]]
    BY DEF LInv, TInv, IInv, SeenValid
  <2>2. DOMAIN hist[head[w]] = 1..Len(hist[head[w]]) /\ Len(hist[head[w]]) \in Nat
    <3>1. IsSequence(hist[head[w]])
      BY <1>1 DEF LInv, TInv, IInv, HistType
    <3> QED BY <3>1 DEF IsSequence
  <2> QED BY <2>1, <2>2
<1>5. SubjectMinorStatus(snap[w][head[w]].dob) \in {"minor", "adult", "unknown"}
  BY DEF SubjectMinorStatus
<1>6. reason \in AlertReasons \cup {Null}
  <2> DEFINE p == PreviousTier(head[w], seen[w])
             q == r.tier
  <2>1. reason = AlertReason(p, q)
    OBVIOUS
  <2> HIDE DEF p, q, reason
  <2> QED BY <2>1 DEF AlertReason, AlertReasons
<1>7. NewRow(w, head[w]) =
        [is_current |-> TRUE, tier |-> r.tier, score |-> r.score, findings |-> r.findings,
         signals |-> sig, minor |-> SubjectMinorStatus(snap[w][head[w]].dob),
         config_version |-> config[w].version, supersedes |-> seen[w], alert |-> reason]
  BY DEF NewRow
<1> HIDE DEF sig, r, reason
<1>8. r.score \in {x.score : x \in Results} /\ r.findings \in {x.findings : x \in Results}
  BY <1>3
<1>9. NewRow(w, head[w]) \in Rows
  BY <1>2, <1>3, <1>4, <1>5, <1>6, <1>7, <1>8 DEF Rows
<1> QED BY <1>9, NullAssumption

LEMMA FlushSettling ==
  ASSUME FInv, NEW w \in Workers, Flush(w)
  PROVE  Settling'
<1>0. /\ pc[w] = "flush" /\ DOMAIN pc = Workers /\ DOMAIN head = Workers
      /\ pc' = [pc EXCEPT ![w] = "loop"] /\ head' = [head EXCEPT ![w] = Null]
      /\ UNCHANGED <<world, store, ids, todo, snap, config, errs, lone, unsettled>>
  BY LoneTypes DEF Flush, FInv
<1>1. head[w] \in Students
  BY <1>0 DEF FInv, LInv, TInv, IInv, WorkerType
<1>2. \A v \in Workers : \A s \in Students :
        wrote'[v][s] = IF v = w /\ s = head[w] THEN NewRow(w, head[w]) ELSE wrote[v][s]
  BY <1>1, LoneTypes DEF Flush, FInv
<1>3. \A v \in Workers \ {w} : UNCHANGED <<pc[v], todo[v], head[v], errs[v], wrote[v]>>
  BY <1>0, LoneTypes DEF Flush, FInv
<1>4. Signature(NewRow(w, head[w])) = Expected(w, head[w])
  BY EvaluateIsSignature DEF NewRow, Signature, Expected
<1>5. NewRow(w, head[w]) # Null
  BY <1>0, NewRowIsARow DEF FInv
<1>6. \A s, r : Shows(s, r)' = Shows(s, r)
  BY <1>0, ShowsStays DEF store
<1>7. ASSUME NEW s \in Students, Handled(w, s) PROVE Handled(w, s)'
  <2>1. /\ Expected(w, s)' = Expected(w, s) /\ Pending(s)' = Pending(s) /\ data' = data
        /\ todo'[w] = todo[w] /\ errs'[w] = errs[w]
    BY <1>0 DEF Expected, Pending, world
  <2>2. s = head[w] => wrote'[w][s] # Null
    BY <1>2, <1>5
  <2>3. wrote[w][s] # Null => wrote'[w][s] # Null
    BY <1>2, <1>5
  <2> QED BY <1>6, <1>7, <2>1, <2>2, <2>3 DEF Handled
<1>8. ASSUME NEW s \in Students, wrote'[w][s] # Null
      PROVE  wrote'[w][s] = wrote[w][s] \/ Signature(wrote'[w][s]) = Expected(w, s)
  BY <1>2, <1>4
<1> QED BY <1>0, <1>3, <1>7, <1>8, SavepointSettling

LEMMA FlushFailsSettling ==
  ASSUME FInv, NEW w \in Workers, FlushFails(w)
  PROVE  Settling'
<1>1. /\ pc[w] = "flush" /\ pc' = [pc EXCEPT ![w] = "loop"] /\ head' = [head EXCEPT ![w] = Null]
      /\ errs' = [errs EXCEPT ![w] = @ \cup {head[w]}]
      /\ UNCHANGED <<world, store, ids, todo, snap, config, wrote, lone, unsettled>>
      /\ DOMAIN pc = Workers /\ DOMAIN head = Workers /\ DOMAIN errs = Workers
  BY LoneTypes DEF FlushFails, FlushFailure, FInv
<1>2. \A v \in Workers \ {w} : UNCHANGED <<pc[v], todo[v], head[v], errs[v], wrote[v]>>
  BY <1>1
<1>3. \A s, r : Shows(s, r)' = Shows(s, r)
  BY <1>1, ShowsStays DEF store
<1>4. ASSUME NEW s \in Students, Handled(w, s) PROVE Handled(w, s)'
  <2>1. /\ Expected(w, s)' = Expected(w, s) /\ Pending(s)' = Pending(s) /\ data' = data
        /\ todo' = todo /\ wrote' = wrote /\ errs'[w] = errs[w] \cup {head[w]}
    BY <1>1 DEF Expected, Pending, world
  <2> QED BY <1>3, <1>4, <2>1 DEF Handled
<1> QED BY <1>1, <1>2, <1>4, SavepointSettling

\* who ends works on nothing any more
LEMMA ResetFacts ==
  ASSUME LInv, NEW w \in Workers, Reset(w)
  PROVE  \A v \in Workers :
           /\ ids'[v] = IF v = w THEN {} ELSE ids[v]
           /\ lone'[v] = IF v = w THEN {} ELSE lone[v]
           /\ v = w => pc'[v] = "idle" /\ \A s \in Students : wrote'[v][s] = Null
           /\ v # w => UNCHANGED <<pc[v], todo[v], head[v], errs[v], wrote[v], snap[v], config[v]>>
<1> SUFFICES ASSUME NEW v \in Workers
             PROVE  /\ ids'[v] = IF v = w THEN {} ELSE ids[v]
                    /\ lone'[v] = IF v = w THEN {} ELSE lone[v]
                    /\ v = w => pc'[v] = "idle" /\ \A s \in Students : wrote'[v][s] = Null
                    /\ v # w => UNCHANGED <<pc[v], todo[v], head[v], errs[v], wrote[v], snap[v],
                                            config[v]>>
  OBVIOUS
<1> USE LoneTypes DEF Reset
<1>1. ids'[v] = IF v = w THEN {} ELSE ids[v]
  OBVIOUS
<1>2. lone'[v] = IF v = w THEN {} ELSE lone[v]
  OBVIOUS
<1>3. v = w => pc'[v] = "idle" /\ \A s \in Students : wrote'[v][s] = Null
  <2>1. v = w => wrote'[v] = NothingWritten
    OBVIOUS
  <2> QED BY <2>1 DEF NothingWritten
<1>4. v # w => UNCHANGED <<pc[v], todo[v], head[v], errs[v], wrote[v], snap[v], config[v]>>
  OBVIOUS
<1> QED BY <1>1, <1>2, <1>3, <1>4

\* What a transaction that ends leaves to the others, whether it commits or not.
LEMMA EndSettling ==
  ASSUME FInv, NEW w \in Workers, Reset(w), UNCHANGED <<data, configs, due>>,
         \A v \in Workers \ {w} : \A s \in lone[v] : \A r : Shows(s, r)' = Shows(s, r),
         \A v \in Workers \ {w} : \A s \in ids[v] : s \in unsettled => s \in unsettled'
  PROVE  OverlapNoted' /\ LoneUpToDate' /\ WroteExpected' /\ LoneHandled'
<1>1. \A v \in Workers :
        /\ ids'[v] = IF v = w THEN {} ELSE ids[v]
        /\ lone'[v] = IF v = w THEN {} ELSE lone[v]
        /\ v = w => pc'[v] = "idle" /\ \A s \in Students : wrote'[v][s] = Null
        /\ v # w => UNCHANGED <<pc[v], todo[v], head[v], errs[v], wrote[v], snap[v], config[v]>>
  BY ResetFacts DEF FInv
<1>2. \A v \in Workers \ {w} : \A s : Expected(v, s)' = Expected(v, s)
  BY <1>1 DEF Expected
<1>3. ActiveConfig' = ActiveConfig /\ \A s : Pending(s)' = Pending(s)
  BY DEF ActiveConfig, Pending
<1>4. OverlapNoted'
  BY <1>1 DEF FInv, Settling, OverlapNoted
<1>5. LoneUpToDate'
  BY <1>1, <1>3 DEF FInv, Settling, LoneUpToDate
<1>6. WroteExpected'
  BY <1>1, <1>2 DEF FInv, Settling, WroteExpected, Signature
<1>7. LoneHandled'
  <2> SUFFICES ASSUME NEW v \in Workers, pc'[v] \in {"loop", "flush"}, NEW s \in lone'[v]
               PROVE  Handled(v, s)'
    BY DEF LoneHandled
  <2>1. v # w /\ s \in lone[v]
    BY <1>1
  <2>2. Handled(v, s)
    BY <1>1, <2>1 DEF FInv, Settling, LoneHandled
  <2> QED BY <1>1, <1>2, <1>3, <2>1, <2>2 DEF Handled
<1> QED BY <1>4, <1>5, <1>6, <1>7

LEMMA CrashSettling ==
  ASSUME FInv, NEW w \in Workers, Crash(w)
  PROVE  Settling'
<1>1. Reset(w) /\ unsettled' = unsettled \cup ids[w] /\ UNCHANGED <<data, configs, due, store>>
  BY DEF Crash
<1>2. \A s, r : Shows(s, r)' = Shows(s, r)
  BY <1>1, ShowsStays DEF store
<1>3. OverlapNoted' /\ LoneUpToDate' /\ WroteExpected' /\ LoneHandled'
  BY <1>1, <1>2, EndSettling
<1>4. FreshWhenSettled'
  <2> SUFFICES ASSUME NEW s \in Students, data'[s].known, s \notin unsettled',
                      Active(s)' = {}, ~Pending(s)'
               PROVE  Shows(s, Evaluate(data[s].signals, ActiveConfig.config))'
    BY DEF FreshWhenSettled, Pending, Shows, Signature
  <2>1. \A v \in Workers : ids'[v] = IF v = w THEN {} ELSE ids[v]
    BY <1>1, ResetFacts DEF FInv
  <2>2. Active(s) = {} /\ ~Pending(s) /\ s \notin unsettled
    BY <1>1, <2>1 DEF Active, Pending
  <2>3. Shows(s, Evaluate(data[s].signals, ActiveConfig.config))
    BY <1>1, <2>2 DEF FInv, Settling, FreshWhenSettled, Pending, Shows
  <2> QED BY <1>1, <1>2, <2>3 DEF ActiveConfig, Shows
<1> QED BY <1>3, <1>4 DEF Settling

LEMMA CommitSettling ==
  ASSUME FInv, NEW w \in Workers, Commit(w)
  PROVE  Settling'
<1>0. LInv /\ IInv
  BY DEF FInv, LInv, TInv
<1>1. /\ Reset(w) /\ unsettled' = (unsettled \ lone[w]) \cup errs[w]
      /\ UNCHANGED <<data, configs, due>> /\ pc[w] = "loop" /\ todo[w] = {}
  BY DEF Commit, world
<1>2. \A v \in Workers \ {w} : \A s \in lone[v] : \A r : Shows(s, r)' = Shows(s, r)
  <2> SUFFICES ASSUME NEW v \in Workers \ {w}, NEW s \in lone[v], NEW r
               PROVE  Shows(s, r)' = Shows(s, r)
    OBVIOUS
  <2>1. hist'[s] = hist[s] /\ CurrentRows(s)' = CurrentRows(s)
    BY <1>0, LoneRowsStay
  <2> QED BY <2>1 DEF Shows, Signature
<1>3. \A v \in Workers \ {w} : \A s \in ids[v] : s \in unsettled => s \in unsettled'
  BY <1>0, <1>1, LoneTypes
<1>4. OverlapNoted' /\ LoneUpToDate' /\ WroteExpected' /\ LoneHandled'
  BY <1>1, <1>2, <1>3, EndSettling
<1>5. FreshWhenSettled'
  <2> SUFFICES ASSUME NEW s \in Students, data'[s].known, s \notin unsettled',
                      Active(s)' = {}, ~Pending(s)'
               PROVE  Shows(s, Evaluate(data[s].signals, ActiveConfig.config))'
    BY DEF FreshWhenSettled, Pending, Shows, Signature
  <2> DEFINE result == Evaluate(data[s].signals, ActiveConfig.config)
  <2>1. \A v \in Workers : ids'[v] = IF v = w THEN {} ELSE ids[v]
    BY <1>0, <1>1, ResetFacts
  <2>2. \A v \in Workers \ {w} : s \notin ids[v]
    BY <2>1 DEF Active
  <2>3. /\ ~Pending(s) /\ data[s].known /\ result' = result
    BY <1>1 DEF Pending, ActiveConfig
  <2>4. PICK r : r = result
    OBVIOUS
  <2> HIDE DEF result
  <2>5. CASE Committed(w, s)
    <3>1. s \in ids[w]
      BY <1>0, <2>5, LoneTypes DEF Committed
    <3>2. s \in lone[w]
      BY <1>1, <3>1 DEF FInv, Settling, OverlapNoted
    <3>3. Expected(w, s) = result
      BY <2>3, <3>2 DEF FInv, Settling, LoneUpToDate, Expected, result
    <3>4. /\ DOMAIN hist'[s] = 1..(Len(hist[s]) + 1) /\ Len(hist[s]) \in Nat
          /\ hist'[s][Len(hist[s]) + 1] = wrote[w][s]
      BY <1>0, <2>5, CommitRows
    <3>5. wrote[w][s].is_current = TRUE /\ Signature(wrote[w][s]) = r
      BY <1>0, <2>4, <2>5, <3>3 DEF FInv, Settling, WroteExpected, Committed, IInv, WroteValid
    <3>6. PICK i : i = Len(hist[s]) + 1
      OBVIOUS
    <3>7. i \in DOMAIN hist'[s] /\ hist'[s][i] = wrote[w][s]
      BY <3>4, <3>6
    <3>8. i \in CurrentRows(s)' /\ Signature(hist'[s][i]) = r
      BY <3>5, <3>7 DEF CurrentRows
    <3>9. Shows(s, r)'
      BY <3>8 DEF Shows, Signature
    <3> QED BY <2>3, <2>4, <3>9 DEF result, Shows
  <2>6. CASE ~Committed(w, s)
    <3>1. hist'[s] = hist[s]
      BY <1>0, <2>6, CommitRows
    <3>2. Shows(s, r)' = Shows(s, r)
      BY <3>1 DEF Shows, CurrentRows, Signature
    <3>3. Shows(s, r)
      <4>1. CASE s \in ids[w]
        <5>1. s \in lone[w] /\ s \notin errs[w]
          BY <1>1, <4>1 DEF FInv, Settling, OverlapNoted
        <5>2. Expected(w, s) = result
          BY <2>3, <5>1 DEF FInv, Settling, LoneUpToDate, Expected, result
        <5>3. Handled(w, s)
          BY <1>1, <5>1 DEF FInv, Settling, LoneHandled
        <5> QED BY <1>1, <2>3, <2>4, <2>6, <5>1, <5>2, <5>3 DEF Handled, Committed
      <4>2. CASE s \notin ids[w]
        <5>1. Active(s) = {}
          BY <2>2, <4>2 DEF Active
        <5>2. s \notin unsettled
          BY <1>0, <1>1, <4>2, LoneTypes
        <5> QED BY <2>3, <2>4, <5>1, <5>2
                DEF FInv, Settling, FreshWhenSettled, Pending, Shows, result
      <4> QED BY <4>1, <4>2
    <3> QED BY <2>3, <2>4, <3>2, <3>3 DEF result, Shows
  <2> QED BY <2>5, <2>6
<1> QED BY <1>4, <1>5 DEF Settling

LEMMA NextSettling == FInv /\ [Next]_vars => Settling'
<1> SUFFICES ASSUME FInv, [Next]_vars PROVE Settling'
  OBVIOUS
<1>1. ASSUME ImportLoad \/ SetConfig PROVE Settling'
  BY <1>1, ImportSettling, ConfigSettling
<1>2. ASSUME NextDay \/ CreateIntervention \/ UNCHANGED vars PROVE Settling'
  <2>1. UNCHANGED <<data, configs, due, store, worker, lone, unsettled>>
    BY <1>2 DEF NextDay, CreateIntervention, vars, world
  <2> QED BY <2>1, IdleSettling
<1>3. ASSUME NEW w \in Workers, BeginImport(w) \/ BeginManual(w) PROVE Settling'
  <2>1. PICK S \in SUBSET Students :
          Begin(w, S) /\ due' \subseteq due /\ \A b \in due : b \in due' \/ b.students = S
    <3>1. CASE BeginManual(w)
      BY <3>1 DEF BeginManual
    <3>2. CASE BeginImport(w)
      <4>1. PICK b \in due : Begin(w, b.students) /\ due' = due \ {b}
        BY <3>2 DEF BeginImport
      <4>2. b.students \in SUBSET Students
        BY DEF FInv, LInv, TInv, IInv, WorkerType
      <4> QED BY <4>1, <4>2
    <3> QED BY <1>3, <3>1, <3>2
  <2> QED BY <2>1, BeginSettling
<1>4. ASSUME NEW w \in Workers, Step(w) \/ Crash(w) PROVE Settling'
  BY <1>4, ReadDobsSettling, SelectSettling, FlushSettling, FlushFailsSettling, CommitSettling,
     CrashSettling DEF Step
<1> QED BY <1>1, <1>2, <1>3, <1>4 DEF Next, Surroundings

\* Whatever is imported, configured, recomputed and lost: a student whose last change was
\* recomputed to the end by a transaction nobody overlapped, without an error and under the active
\* configuration, is shown with the result of the present data.
THEOREM AlwaysFresh == Spec => []FreshWhenSettled
<1>1. Init => FInv
  <2> SUFFICES ASSUME Init PROVE FInv
    OBVIOUS
  <2>1. LInv
    BY InitLInv
  <2>2. OverlapNoted /\ LoneUpToDate /\ LoneHandled
    BY DEF Init, OverlapNoted, LoneUpToDate, LoneHandled
  <2>3. WroteExpected
    BY DEF Init, WroteExpected, NothingWritten
  <2>4. FreshWhenSettled
    BY DEF Init, FreshWhenSettled, NoData
  <2> QED BY <2>1, <2>2, <2>3, <2>4 DEF FInv, Settling
<1>2. FInv /\ [Next]_vars => FInv'
  BY NextIInv, NextWorldTyped, NextRowsTyped, NextMemoryTyped, NextOwnWork, NextLoneAlone,
     NextLoneSees, NextSettling DEF FInv, LInv, TInv
<1>3. FInv => FreshWhenSettled
  BY DEF FInv, Settling
<1> QED BY <1>1, <1>2, <1>3, PTL DEF Spec
-----------------------------------------------------------------------------
(* Parental contact.                                                       *)

IsAdult(s) == data[s].dob # Null /\ ~(today < data[s].dob)

\* Imports record dates of birth, and correct none to a later day.
NeverYounger ==
  \A c \in DobChanges : c[1] = Null \/ (c[2] # Null /\ c[2] <= c[1])

\* the student is no younger than a transaction read him to be; an adult on record is an adult
NoYounger(dob, s) == dob # Null => data[s].dob # Null /\ data[s].dob <= dob
SnapDobs == \A w \in Workers, s \in Students : NoYounger(snap[w][s].dob, s)

AdultRows ==
  /\ \A w \in Workers, s \in Students :
       wrote[w][s] # Null /\ wrote[w][s].minor = "adult" => IsAdult(s)
  /\ \A s \in Students : \A i \in DOMAIN hist[s] : hist[s][i].minor = "adult" => IsAdult(s)

GInv == TInv /\ SnapDobs /\ AdultRows

\* Time and imports only ever make adults.
LEMMA DobMoves ==
  ASSUME NeverYounger, GInv, [Next]_vars, NEW s \in Students
  PROVE  /\ {data[s].dob, data'[s].dob} \subseteq Nat \cup {Null}
         /\ today \in Nat /\ today' \in {today, today + 1}
         /\ data[s].dob # Null => data'[s].dob # Null /\ data'[s].dob <= data[s].dob
<1>1. data[s].dob \in Nat \cup {Null} /\ today \in Nat
  BY DobsAssumption DEF GInv, TInv, WorldTyped, StudentData
<1>a. data'[s].dob \in Nat \cup {Null}
  BY NextWorldTyped, DobsAssumption DEF GInv, WorldTyped, StudentData
<1>2. data[s].dob # Null => data'[s].dob # Null /\ data'[s].dob <= data[s].dob
  <2>1. CASE ImportLoad
    <3>1. PICK B \in (SUBSET Students) \ {{}} :
            \E sig \in [B -> Signals], dob \in [B -> Dobs] :
              /\ \A t \in B : dob[t] # data[t].dob => <<data[t].dob, dob[t]>> \in DobChanges
              /\ data' = [t \in Students |->
                   IF t \in B THEN [known |-> TRUE, signals |-> sig[t], dob |-> dob[t]]
                   ELSE data[t]]
              /\ due' = due \cup {[batch |-> used.imports + 1, students |-> B]}
      BY <2>1 DEF ImportLoad
    <3>2. PICK sig \in [B -> Signals], dob \in [B -> Dobs] :
            /\ \A t \in B : dob[t] # data[t].dob => <<data[t].dob, dob[t]>> \in DobChanges
            /\ data' = [t \in Students |->
                 IF t \in B THEN [known |-> TRUE, signals |-> sig[t], dob |-> dob[t]]
                 ELSE data[t]]
      BY <3>1
    <3>3. s \notin B => data'[s] = data[s]
      BY <3>2
    <3>4. s \in B => data'[s].dob = dob[s]
      BY <3>2
    <3>5. ASSUME s \in B, dob[s] # data[s].dob, data[s].dob # Null
          PROVE  dob[s] # Null /\ dob[s] <= data[s].dob
      <4>1. PICK c : c = <<data[s].dob, dob[s]>>
        OBVIOUS
      <4>2. c \in DobChanges /\ c[1] = data[s].dob /\ c[2] = dob[s]
        BY <3>2, <3>5, <4>1
      <4> QED BY <3>5, <4>2 DEF NeverYounger
    <3> QED BY <1>1, <3>3, <3>4, <3>5
  <2>2. ImportLoad \/ UNCHANGED data
    BY DEF Next, vars, world, Surroundings, SetConfig, NextDay, CreateIntervention, BeginImport,
           BeginManual, Begin, Step, ReadDobs, SelectCurrent, Flush, FlushFails, Commit, Crash
  <2> QED BY <1>1, <2>1, <2>2
<1>3. today' \in {today, today + 1}
  BY DEF Next, vars, world, Surroundings, ImportLoad, SetConfig, NextDay, CreateIntervention,
         BeginImport, BeginManual, Begin, Step, ReadDobs, SelectCurrent, Flush, FlushFails,
         Commit, Crash
<1> QED BY <1>1, <1>a, <1>2, <1>3

LEMMA DobsStay ==
  ASSUME NeverYounger, GInv, [Next]_vars, NEW s \in Students, NEW dob \in Nat \cup {Null},
         NoYounger(dob, s)
  PROVE  NoYounger(dob, s)'
BY DobMoves DEF NoYounger

LEMMA AdultsStay ==
  ASSUME NeverYounger, GInv, [Next]_vars, NEW s \in Students, IsAdult(s)
  PROVE  IsAdult(s)'
BY DobMoves DEF IsAdult

LEMMA NextSnapDobs == NeverYounger /\ GInv /\ [Next]_vars => SnapDobs'
<1> SUFFICES ASSUME NeverYounger, GInv, [Next]_vars, NEW v \in Workers, NEW s \in Students
             PROVE  NoYounger(snap[v][s].dob, s)'
  BY DEF SnapDobs
<1>0. DOMAIN snap = Workers
  BY DEF GInv, TInv, MemoryTyped
<1>1. snap[v][s].dob \in Nat \cup {Null}
  BY DobsAssumption DEF GInv, TInv, MemoryTyped, StudentData
<1>2. CASE snap'[v][s].dob = snap[v][s].dob
  <2>1. PICK dob \in Nat \cup {Null} : dob = snap[v][s].dob
    BY <1>1
  <2>2. NoYounger(dob, s)
    BY <2>1 DEF GInv, SnapDobs
  <2>3. NoYounger(dob, s)'
    BY <2>2, DobsStay
  <2> QED BY <1>2, <2>1, <2>3 DEF NoYounger
<1>3. CASE snap'[v][s].dob = data[s].dob
  <2>1. PICK dob : dob = data[s].dob
    OBVIOUS
  <2>2. data[s].dob \in Nat \cup {Null}
    BY DobsAssumption DEF GInv, TInv, WorldTyped, StudentData
  <2>3. NoYounger(dob, s)'
    <3>1. NoYounger(dob, s)
      BY <2>1, <2>2 DEF NoYounger
    <3> QED BY <2>1, <2>2, <3>1, DobsStay
  <2> QED BY <1>3, <2>1, <2>3 DEF NoYounger
<1>4. CASE snap'[v][s].dob = Null
  BY <1>4 DEF NoYounger
<1>5. ASSUME NEW w \in Workers, NEW S, Begin(w, S)
      PROVE  snap'[v][s].dob = snap[v][s].dob \/ snap'[v][s].dob = data[s].dob
  BY <1>0, <1>5 DEF Begin
<1>6. ASSUME NEW w \in Workers, ReadDobs(w)
      PROVE  snap'[v][s].dob = snap[v][s].dob \/ snap'[v][s].dob = data[s].dob
  BY <1>0, <1>6 DEF ReadDobs
<1>7. ASSUME NEW w \in Workers, Reset(w)
      PROVE  snap'[v][s].dob = snap[v][s].dob \/ snap'[v][s].dob = Null
  <2>1. snap'[v] = snap[v] \/ snap'[v] = NoData
    BY <1>0, <1>7 DEF Reset
  <2>2. NoData[s].dob = Null
    BY DEF NoData
  <2> QED BY <2>1, <2>2
<1>8. UNCHANGED snap \/ \E w \in Workers : ReadDobs(w) \/ Reset(w) \/ \E S : Begin(w, S)
  BY DEF Next, vars, worker, Surroundings, ImportLoad, SetConfig, NextDay, CreateIntervention,
         BeginImport, BeginManual, Step, SelectCurrent, Flush, FlushFails, Commit, Crash
<1> QED BY <1>2, <1>3, <1>4, <1>5, <1>6, <1>7, <1>8

LEMMA NextAdultRows == NeverYounger /\ GInv /\ [Next]_vars => AdultRows'
<1> SUFFICES ASSUME NeverYounger, GInv, [Next]_vars PROVE AdultRows'
  OBVIOUS
<1>0. IInv
  BY DEF GInv, TInv
<1>1. ASSUME NEW s \in Students, IsAdult(s) PROVE IsAdult(s)'
  BY <1>1, AdultsStay
<1>2. ASSUME NEW v \in Workers, NEW s \in Students, wrote'[v][s] # Null,
             wrote'[v][s].minor = "adult"
      PROVE  IsAdult(s)'
  <2>1. CASE wrote'[v][s] = wrote[v][s]
    BY <1>1, <1>2, <2>1 DEF GInv, AdultRows
  <2>2. CASE wrote'[v][s] = NewRow(v, s)
    <3>1. NewRow(v, s).minor = SubjectMinorStatus(snap[v][s].dob)
      BY DEF NewRow
    <3>2. snap[v][s].dob # Null /\ ~(today < snap[v][s].dob)
      BY <1>2, <2>2, <3>1 DEF SubjectMinorStatus
    <3>3. NoYounger(snap[v][s].dob, s)
      BY DEF GInv, SnapDobs
    <3>4. {today, data[s].dob, snap[v][s].dob} \subseteq Nat \cup {Null} /\ today \in Nat
      <4>1. data[s] \in StudentData /\ snap[v][s] \in StudentData /\ today \in Nat
        BY DEF GInv, TInv, WorldTyped, MemoryTyped
      <4> QED BY <4>1, DobsAssumption DEF StudentData
    <3> QED BY <1>1, <3>2, <3>3, <3>4 DEF NoYounger, IsAdult
  <2> QED BY <1>0, <1>2, <2>1, <2>2, WroteCases
<1>3. ASSUME NEW s \in Students, NEW i \in DOMAIN hist'[s], hist'[s][i].minor = "adult"
      PROVE  IsAdult(s)'
  <2>1. CASE UNCHANGED store
    BY <1>1, <1>3, <2>1 DEF GInv, AdultRows, store
  <2>2. ASSUME NEW w \in Workers, Commit(w) PROVE IsAdult(s)'
    BY <1>0, <1>1, <1>3, <2>2, CommitCases DEF GInv, AdultRows, Committed
  <2> QED BY <2>1, <2>2, OnlyCommits
<1> QED BY <1>2, <1>3 DEF AdultRows, IsAdult

\* Where no import moves a recorded date of birth to a later day, no parent is contacted without
\* recorded consent about a student who is not of age on that day.  RiskEngineGateBroken shows what
\* such a correction does: the gate trusts the status of the last assessment.
THEOREM GateHolds == NeverYounger => (Spec => ConsentGate)
<1> SUFFICES ASSUME NeverYounger PROVE Spec => ConsentGate
  OBVIOUS
<1> DEFINE GateStep ==
             \A i \in interventions' \ interventions :
               \/ i.type # ParentContact \/ i.consent \/ i.student \in unsettled
               \/ Active(i.student) # {} \/ \E b \in due : i.student \in b.students
               \/ SubjectMinorStatus(data[i.student].dob) = "adult"
<1>1. Init => GInv
  <2> SUFFICES ASSUME Init PROVE GInv
    OBVIOUS
  <2>1. TInv
    BY InitLInv DEF LInv
  <2>2. SnapDobs /\ AdultRows
    BY DEF Init, SnapDobs, NoYounger, AdultRows, NoData, NothingWritten
  <2> QED BY <2>1, <2>2 DEF GInv
<1>2. GInv /\ [Next]_vars => GInv'
  BY NextIInv, NextWorldTyped, NextRowsTyped, NextMemoryTyped, NextSnapDobs, NextAdultRows
     DEF GInv, TInv
<1>3. GInv /\ [Next]_vars => [GateStep]_vars
  <2> SUFFICES ASSUME GInv, [Next]_vars, NEW i \in interventions' \ interventions,
                      i.type = ParentContact, ~i.consent
               PROVE  SubjectMinorStatus(data[i.student].dob) = "adult"
    OBVIOUS
  <2>1. CreateIntervention
    BY DEF Next, vars, world, Surroundings, ImportLoad, SetConfig, NextDay, BeginImport,
           BeginManual, Begin, Step, ReadDobs, SelectCurrent, Flush, FlushFails, Commit, Crash
  <2>2. PICK s \in Students, type \in InterventionTypes :
          i = [student |-> s, type |-> type, consent |-> NeedsConsent(s, type)]
    BY <2>1 DEF CreateIntervention
  <2>3. i.student = s /\ i.type = type /\ i.consent = NeedsConsent(s, type)
    BY <2>2
  <2>4. CurrentMinorStatus(s) \notin {"minor", "unknown"}
    BY <2>3 DEF NeedsConsent
  <2>5. PICK j \in CurrentRows(s) : CurrentMinorStatus(s) = hist[s][j].minor
    BY <2>4 DEF CurrentMinorStatus
  <2>6. j \in DOMAIN hist[s] /\ hist[s][j].minor = "adult"
    BY <2>4, <2>5 DEF CurrentRows, GInv, TInv, RowsTyped
  <2>7. IsAdult(s)
    BY <2>6 DEF GInv, AdultRows
  <2> QED BY <2>3, <2>7 DEF IsAdult, SubjectMinorStatus
<1> QED BY <1>1, <1>2, <1>3, PTL DEF Spec, ConsentGate
=============================================================================
