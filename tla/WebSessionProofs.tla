-------------------------- MODULE WebSessionProofs --------------------------
(* Proofs about WebSession, for any number of tabs, requests and refreshes:  *)
(* a session nothing has ended is kept (SessionKept), one that was signed    *)
(* out has ended (SignOutEnds), and the limit admits and refuses as promised *)
(* (RefreshesLimited).                                                       *)
EXTENDS WebSession, SequenceTheorems, FiniteSetTheorems, TLAPS

-----------------------------------------------------------------------------
(* The inductive invariant of the sessions.                                  *)

Minted == DOMAIN family

\* The types of the variables, and of what a request is at its step.
Typed ==
  /\ family \in Seq(Tokens) /\ Len(family) <= MaxTokens
  /\ \A j \in Minted : family[j] \in Minted
  /\ storage \in reached \cup {Null} /\ reached \subseteq Minted
  /\ shown \in [Tabs -> Minted \cup {Null}]
  /\ leaving \in [Tabs -> SigningOut \cup {Null}]
  /\ \A t \in Tabs : leaving[t] # Null => leaving[t].token \in Minted
  /\ req \in [Requests -> Pending \cup {Null}]
  /\ active \in [Tokens -> Tokens \cup {Null}]
  /\ excused \subseteq Minted /\ left \subseteq Minted

\* What a request holds.
Holds(r) ==
  /\ r.at \in {"sent", "waiting"} => r.answer = Null
  /\ r.at = "refreshing" => r.presented \in reached
  /\ r.answer # Null /\ r.answer # Refused =>
       r.answer \in Minted /\ r.presented \in reached /\ family[r.answer] = family[r.presented]
  /\ r.token \in Minted \cup {Null}

\* The active token of a family belongs to it.
ActiveIsOfFamily ==
  \A f \in Tokens : active[f] # Null => active[f] \in Minted /\ family[active[f]] = f

\* A session nothing has ended is in the storage, its token is the active one or is just being
\* replaced by it, and at most one request renews it.
Kept(f) ==
  /\ storage # Null /\ family[storage] = f
  /\ active[f] = storage
       \/ \E p \in Refreshing : req[p].presented = storage /\ req[p].answer = active[f]
  /\ active[f] # Null
  /\ \A p \in Refreshing : family[req[p].presented] = f =>
       /\ req[p].presented = storage
       /\ IF req[p].answer = Null THEN active[f] = storage ELSE req[p].answer = active[f]
  /\ \A p, q \in Refreshing :
       family[req[p].presented] = f /\ family[req[q].presented] = f => p = q

\* A sign-out ends a session as far as this browser is concerned.
Leaving == \A t \in Tabs : leaving[t] # Null => family[leaving[t].token] \in excused

KInv ==
  /\ Typed /\ ActiveIsOfFamily /\ Leaving
  /\ \A p \in Requests : req[p] # Null => Holds(req[p])
  /\ \A f \in {family[j] : j \in Minted} \ excused : Kept(f)

-----------------------------------------------------------------------------
(* What a sign-out needs.                                                    *)

\* the answers not stored yet
Pend(p) == p \in Refreshing /\ req[p].answer # Null /\ req[p].answer # Refused

\* An answer that is not stored yet was never in the storage, and is the active token of its
\* family unless that has ended; no two requests have one answer.
AnswersFresh ==
  /\ \A p \in Requests : Pend(p) =>
       /\ req[p].answer \notin reached
       /\ active[family[req[p].answer]] \in {req[p].answer, Null}
  /\ \A p, q \in Requests : Pend(p) /\ Pend(q) /\ req[p].answer = req[q].answer => p = q
\* Of the tokens of its family that were ever stored, only the one in the storage can be active.
StoredIsLast ==
  storage # Null /\ active[family[storage]] \in reached => active[family[storage]] = storage
\* A sign-out that no refresh overlaps takes the token that counts.
AloneTakesLast ==
  \A t \in Tabs : leaving[t] # Null /\ leaving[t].alone =>
      /\ Refreshing = {}
      /\ active[family[leaving[t].token]] \in reached =>
           active[family[leaving[t].token]] = leaving[t].token /\ ~leaving[t].served
\* A family that was left is neither stored nor renewed.
LeftIsGone ==
  \A f \in left :
    /\ active[f] \notin reached
    /\ storage # Null => family[storage] # f
    /\ \A p \in Refreshing : family[req[p].presented] # f

LInv == AnswersFresh /\ StoredIsLast /\ AloneTakesLast /\ LeftIsGone

-----------------------------------------------------------------------------
(* The counter.                                                              *)

\* The admitted calls of a log that are not older than an instant.
Recent(log, from) == {i \in Admitted(log) : from <= log[i].at}

\* The log is in the past of the clock.
Timed(log, t) ==
  /\ log \in Seq([at : Nat, admitted : BOOLEAN]) /\ t \in Nat
  /\ \A i \in DOMAIN log : log[i].at \in 0 .. t
\* The counter has counted the calls since its first one; that one was admitted, and the calls
\* admitted within less than a window before it are less than a full count.
Counted(k, log, t) ==
  \/ k = NoKey /\ log = <<>>
  \/ /\ k \in [count : Nat \ {0}, expires : Nat]
     /\ k.expires - Window \in Nat /\ k.expires - Window <= t
     /\ \A i \in DOMAIN log : log[i].at < k.expires
     /\ Limit > 0 =>
          /\ Cardinality(Recent(log, k.expires - Window)) =
               IF k.count <= Limit THEN k.count ELSE Limit
          /\ \E i \in Recent(log, k.expires - Window) : log[i].at = k.expires - Window
          /\ Cardinality(Recent(log, k.expires - Window - Window + 1)
                           \ Recent(log, k.expires - Window)) < Limit
RInv ==
  /\ Timed(calls, now)
  /\ ~torn => Counted(key, calls, now) /\ LessThanTwice(calls) /\ RefusedForCause(calls)


-----------------------------------------------------------------------------
(* Facts the steps share.                                                    *)

LEMMA TypeFacts ==
  ASSUME Typed
  PROVE  /\ Minted \subseteq Tokens /\ Null \notin Tokens /\ Null # Refused /\ Refused \notin Tokens
         /\ Len(family) \in Nat /\ Minted = 1 .. Len(family)
         /\ Null \notin Pending /\ Null \notin SigningOut
<1>1. family \in Seq(Tokens) /\ Len(family) \in Nat /\ MaxTokens \in Nat /\ Len(family) <= MaxTokens
  BY BoundsAssumption, LenProperties DEF Typed
<1>2. Minted = 1 .. Len(family)
  BY <1>1, LenProperties DEF Minted
<1> QED
  BY <1>1, <1>2, NullAssumption DEF Tokens, Refused

\* What a new token adds.
LEMMA Issues ==
  ASSUME Typed, NEW f, f \in Minted \/ f = Len(family) + 1,
         Len(family) + 1 <= MaxTokens, family' = Append(family, f)
  PROVE  LET j == Len(family) + 1
         IN  /\ j \in Tokens /\ j \notin Minted /\ Minted' = Minted \cup {j} /\ f \in Minted'
             /\ family' \in Seq(Tokens) /\ Len(family') <= MaxTokens
             /\ \A i \in Minted : family'[i] = family[i]
             /\ family'[j] = f
             /\ \A i \in Minted' : family'[i] \in Minted'
<1> DEFINE j == Len(family) + 1
<1>1. /\ family \in Seq(Tokens) /\ Len(family) \in Nat /\ MaxTokens \in Nat
      /\ Minted = 1 .. Len(family) /\ Minted \subseteq Tokens
  BY TypeFacts, BoundsAssumption DEF Typed
<1>2. j \in Tokens /\ j \notin Minted /\ f \in Tokens /\ f \in Minted \cup {j}
  BY <1>1 DEF Tokens
<1>3. /\ family' \in Seq(Tokens) /\ Len(family') = j
      /\ \A i \in 1 .. Len(family) : family'[i] = family[i]
      /\ family'[j] = f
  BY <1>1, <1>2, AppendProperties
<1>4. Minted' = 1 .. j
  BY <1>3, LenProperties DEF Minted
<1>5. Minted' = Minted \cup {j}
  BY <1>1, <1>4
<1> QED
  BY <1>1, <1>2, <1>3, <1>5 DEF Typed

LEMMA RequestFacts ==
  ASSUME Typed
  PROVE  /\ Refreshing \subseteq Requests
         /\ \A p \in Refreshing : req[p] \in Pending /\ req[p] # Null /\ req[p].at = "refreshing"
         /\ \A p \in Requests : \A at : At(p, at) => req[p] \in Pending /\ req[p].at = at
         /\ \A p \in Requests : req[p] # Null => req[p] \in Pending
         /\ \A p \in Requests : req[p] = Null \/ req[p].at # "refreshing" => p \notin Refreshing
BY DEF Typed, Refreshing, At

\* A step that leaves tokens, families and refreshes alone.
LEMMA Quiet ==
  ASSUME KInv, LInv, UNCHANGED <<storage, reached, family, active, excused, left, leaving>>,
         shown' \in [Tabs -> Minted \cup {Null}],
         req' \in [Requests -> Pending \cup {Null}],
         \A p \in Requests : req'[p] # Null => Holds(req[p])',
         Refreshing' = Refreshing, \A p \in Refreshing : req'[p] = req[p]
  PROVE  KInv' /\ LInv'
<1>0. Minted' = Minted
  BY DEF Minted
<1>1. Typed' /\ ActiveIsOfFamily' /\ Leaving'
  BY <1>0 DEF KInv, Typed, ActiveIsOfFamily, Leaving
<1>2. (\A f \in {family[j] : j \in Minted} \ excused : Kept(f))'
  BY <1>0 DEF KInv, Kept
<1>3. \A p : Pend(p)' <=> Pend(p)
  BY DEF Pend
<1>4. AnswersFresh'
  BY <1>3 DEF LInv, AnswersFresh, Pend
<1>5. StoredIsLast' /\ AloneTakesLast' /\ LeftIsGone'
  BY DEF LInv, StoredIsLast, AloneTakesLast, LeftIsGone
<1> QED
  BY <1>1, <1>2, <1>4, <1>5 DEF KInv, LInv

\* What a request holds stays true of it as tokens are issued and stored.
LEMMA HoldsStays ==
  ASSUME NEW r, Holds(r), \A j \in Minted : family'[j] = family[j], Minted \subseteq Minted',
         reached \subseteq reached', reached \subseteq Minted
  PROVE  Holds(r)'
BY DEF Holds

\* The steps of a request that touch no token.
LEMMA QuietSteps ==
  ASSUME KInv, LInv, NEW p \in Requests,
         Succeed(p) \/ FailAgain(p) \/ Join(p) \/ NothingToRefresh(p) \/ \E t \in Tabs : Send(p, t)
  PROVE  KInv' /\ LInv'
<1>0. Typed /\ req \in [Requests -> Pending \cup {Null}] /\ shown \in [Tabs -> Minted \cup {Null}]
  BY DEF KInv, Typed
<1>1. UNCHANGED <<storage, reached, family, active, excused, left, leaving>>
  BY DEF Succeed, FailAgain, Join, NothingToRefresh, Send, server
<1>m. Minted' = Minted
  BY <1>1 DEF Minted
<1>2. shown' \in [Tabs -> Minted \cup {Null}]
  <2>1. UNCHANGED shown \/ shown' = [shown EXCEPT ![req[p].tab] = Null]
    BY DEF Succeed, FailAgain, Join, NothingToRefresh, Send
  <2> QED
    BY <1>0, <2>1
<1>3. p \notin Refreshing
  BY <1>0, RequestFacts DEF Succeed, FailAgain, Join, NothingToRefresh, MayStart, Send
<1>4. ASSUME NEW n \in Pending \cup {Null}, req' = [req EXCEPT ![p] = n],
             n # Null => Holds(n) /\ n.at # "refreshing"
      PROVE  KInv' /\ LInv'
  <2>1. /\ req'[p] = n /\ \A q \in Requests \ {p} : req'[q] = req[q]
        /\ req' \in [Requests -> Pending \cup {Null}]
    BY <1>0, <1>4
  <2>2. Refreshing' = Refreshing /\ \A q \in Refreshing : req'[q] = req[q]
    BY <1>3, <1>4, <2>1 DEF Refreshing, At
  <2>3. ASSUME NEW q \in Requests, req'[q] # Null
        PROVE  Holds(req[q])'
    <3> PICK r : r = req'[q]
      OBVIOUS
    <3>1. Holds(r)
      BY <1>4, <2>1, <2>3 DEF KInv
    <3>2. Holds(r)'
      BY <1>0, <1>1, <1>m, <3>1, HoldsStays DEF Typed
    <3> QED
      BY <3>2 DEF Holds
  <2> QED
    BY <1>1, <1>2, <2>1, <2>2, <2>3, Quiet
<1>5. CASE Succeed(p) \/ FailAgain(p) \/ NothingToRefresh(p)
  BY <1>4, <1>5 DEF Succeed, FailAgain, NothingToRefresh
<1>6. CASE Join(p)
  <2>1. req[p] \in Pending /\ req[p].at = "sent" /\ Holds(req[p])
    BY <1>0, <1>6, RequestFacts DEF Join, KInv, At
  <2>2. [req[p] EXCEPT !.at = "waiting"] \in Pending
    BY <2>1 DEF Pending
  <2>3. Holds([req[p] EXCEPT !.at = "waiting"])
    BY <2>1 DEF Holds, Pending
  <2>4. [req[p] EXCEPT !.at = "waiting"].at # "refreshing"
    BY <2>1 DEF Pending
  <2> QED
    BY <1>0, <1>4, <1>6, <2>2, <2>3, <2>4 DEF Join
<1>7. ASSUME NEW t \in Tabs, Send(p, t)
      PROVE  KInv' /\ LInv'
  <2> DEFINE n == [tab |-> t, at |-> "sent", token |-> storage, presented |-> Null, answer |-> Null]
  <2>1. n \in Pending
    BY <1>0, TypeFacts DEF Pending, Typed
  <2>2. Holds(n)
    BY <1>0 DEF Holds, Typed
  <2>3. req' = [req EXCEPT ![p] = n]
    BY <1>7 DEF Send
  <2> QED
    BY <1>4, <2>1, <2>2, <2>3
<1> QED
  BY <1>5, <1>6, <1>7

LEMMA QuietServer ==
  ASSUME KInv, LInv, Tick \/ \E j \in InUse : Expire(j)
  PROVE  KInv' /\ LInv'
<1>1. UNCHANGED <<storage, reached, family, active, excused, left, leaving, req, shown>>
  BY DEF Tick, Expire, server
<1>2. Refreshing' = Refreshing
  BY <1>1 DEF Refreshing, At
<1>3. ASSUME NEW p \in Requests, req'[p] # Null
      PROVE  Holds(req[p])'
  BY <1>1, <1>3 DEF KInv, Holds, Minted
<1> QED
  BY <1>1, <1>2, <1>3, Quiet DEF KInv, Typed

-----------------------------------------------------------------------------
(* Signing in and out, reloading, revocation.                                *)

\* A request that does not move keeps what it holds.
LEMMA AllHold ==
  ASSUME KInv, \A p \in Requests : req'[p] # Null => req'[p] = req[p],
         \A j \in Minted : family'[j] = family[j], Minted \subseteq Minted',
         reached \subseteq reached'
  PROVE  (\A p \in Requests : req[p] # Null => Holds(req[p]))'
<1> SUFFICES ASSUME NEW p \in Requests, req'[p] # Null
             PROVE  Holds(req[p])'
  OBVIOUS
<1> PICK r : r = req'[p]
  OBVIOUS
<1>1. Holds(r)
  BY DEF KInv
<1>2. Holds(r)'
  BY <1>1, HoldsStays DEF KInv, Typed
<1> QED
  BY <1>2 DEF Holds

LEMMA SignInKeeps ==
  ASSUME KInv, LInv, NEW t \in Tabs, SignIn(t)
  PROVE  KInv' /\ LInv'
<1> PICK j : j = Len(family) + 1
  OBVIOUS
<1>1. /\ j \in Tokens /\ j \notin Minted /\ Minted' = Minted \cup {j}
      /\ family' \in Seq(Tokens) /\ Len(family') <= MaxTokens
      /\ \A i \in Minted : family'[i] = family[i]
      /\ family'[j] = j
      /\ \A i \in Minted' : family'[i] \in Minted'
  BY Issues DEF SignIn, KInv
<1>2. /\ active' = [active EXCEPT ![j] = j] /\ storage' = j /\ reached' = reached \cup {j}
      /\ shown' = [shown EXCEPT ![t] = j] /\ excused' = excused \cup FamilyOf(storage)
      /\ UNCHANGED <<leaving, req, left>>
  BY DEF SignIn, SetTokens
<1>3. /\ Typed /\ Refreshing' = Refreshing /\ Minted \subseteq Tokens /\ Null \notin Tokens
      /\ FamilyOf(storage) \subseteq Minted
      /\ \A i \in Minted : family[i] \in Minted
      /\ reached \subseteq Minted /\ storage \in Minted \cup {Null}
      /\ excused \subseteq Minted /\ left \subseteq Minted
      /\ active \in [Tokens -> Tokens \cup {Null}]
  BY <1>2, TypeFacts DEF KInv, Refreshing, At, Typed, FamilyOf
<1>4. Typed'
  BY <1>1, <1>2, <1>3 DEF Typed
<1>5. ActiveIsOfFamily'
  BY <1>1, <1>2, <1>3 DEF ActiveIsOfFamily, KInv
<1>6. Leaving'
  BY <1>1, <1>2, <1>3 DEF Leaving, KInv, Typed
<1>7. (\A p \in Requests : req[p] # Null => Holds(req[p]))'
  BY <1>1, <1>2, AllHold
<1>8. \A p \in Refreshing : req[p].presented \in Minted
  BY <1>3, RequestFacts DEF KInv, Holds
<1>9. (\A f \in {family[i] : i \in Minted} \ excused : Kept(f))'
  <2> SUFFICES ASSUME NEW i \in Minted', family'[i] \notin excused'
               PROVE  Kept(family[i])'
    OBVIOUS
  <2>1. i = j
    <3> SUFFICES ASSUME i # j PROVE FALSE
      OBVIOUS
    <3>1. i \in Minted /\ family'[i] = family[i] /\ family[i] \notin excused
      BY <1>1, <1>2
    <3>2. storage # Null /\ family[storage] = family[i]
      BY <3>1 DEF KInv, Kept
    <3> QED
      BY <1>2, <3>1, <3>2 DEF FamilyOf
  <2>2. \A p \in Refreshing : family'[req[p].presented] # j
    BY <1>1, <1>3, <1>8
  <2> QED
    BY <1>1, <1>2, <1>3, <2>1, <2>2 DEF Kept
<1>10. \A p \in Requests : Pend(p)' <=> Pend(p)
  BY <1>2, <1>3 DEF Pend
<1>11. \A p \in Requests : Pend(p) => req[p].answer \in Minted
  BY <1>3, RequestFacts DEF Pend, KInv, Holds
<1>12. AnswersFresh'
  <2>1. ASSUME NEW p \in Requests, Pend(p)
        PROVE  /\ req[p].answer \notin reached'
               /\ active'[family'[req[p].answer]] \in {req[p].answer, Null}
    <3>1. /\ req[p].answer \notin reached
          /\ active[family[req[p].answer]] \in {req[p].answer, Null}
      BY <2>1 DEF LInv, AnswersFresh
    <3>2. req[p].answer \in Minted /\ family[req[p].answer] \in Minted
      BY <1>3, <1>11, <2>1
    <3> QED
      BY <1>1, <1>2, <1>3, <3>1, <3>2
  <2>2. \A p, q \in Requests : Pend(p) /\ Pend(q) /\ req[p].answer = req[q].answer => p = q
    BY DEF LInv, AnswersFresh
  <2> QED
    BY <1>2, <1>10, <2>1, <2>2 DEF AnswersFresh
<1>13. StoredIsLast'
  BY <1>1, <1>2, <1>3 DEF StoredIsLast
<1>14. AloneTakesLast'
  BY <1>1, <1>2, <1>3 DEF AloneTakesLast, LInv, Typed, KInv, ActiveIsOfFamily
<1>15. LeftIsGone'
  BY <1>1, <1>2, <1>3, <1>8 DEF LeftIsGone, LInv, KInv, ActiveIsOfFamily
<1> QED
  BY <1>4, <1>5, <1>6, <1>7, <1>9, <1>12, <1>13, <1>14, <1>15 DEF KInv, LInv

LEMMA SignOutKeeps ==
  ASSUME KInv, LInv, NEW t \in Tabs, SignOut(t)
  PROVE  KInv' /\ LInv'
<1>2. /\ UNCHANGED <<storage, reached, family, active, req, left>>
      /\ excused' = excused \cup FamilyOf(storage)
      /\ leaving' = IF storage = Null THEN leaving
           ELSE [leaving EXCEPT ![t] = [token |-> storage, served |-> FALSE, alone |-> Refreshing = {}]]
      /\ shown' = IF storage = Null THEN [shown EXCEPT ![t] = Null] ELSE shown
  BY DEF SignOut, server
<1>3. /\ Typed /\ Refreshing' = Refreshing /\ Minted' = Minted
      /\ FamilyOf(storage) \subseteq Minted /\ Minted \subseteq Tokens
      /\ storage \in Minted \cup {Null} /\ leaving \in [Tabs -> SigningOut \cup {Null}]
      /\ shown \in [Tabs -> Minted \cup {Null}]
  BY <1>2, TypeFacts DEF KInv, Refreshing, At, Typed, FamilyOf, Minted
<1>4. storage # Null =>
        [token |-> storage, served |-> FALSE, alone |-> Refreshing = {}] \in SigningOut
  BY <1>3 DEF SigningOut
<1>5. Typed'
  <2>1. leaving' \in [Tabs -> SigningOut \cup {Null}] /\ shown' \in [Tabs -> Minted \cup {Null}]
    BY <1>2, <1>3, <1>4
  <2>2. \A s \in Tabs : leaving'[s] # Null => leaving'[s].token \in Minted
    BY <1>2, <1>3 DEF Typed
  <2>3. excused' \subseteq Minted
    BY <1>2, <1>3 DEF Typed
  <2> QED
    BY <1>2, <1>3, <2>1, <2>2, <2>3 DEF Typed
<1>6. ActiveIsOfFamily'
  BY <1>2, <1>3 DEF ActiveIsOfFamily, KInv
<1>7. Leaving'
  BY <1>2, <1>3 DEF Leaving, KInv, FamilyOf
<1>8. (\A p \in Requests : req[p] # Null => Holds(req[p]))'
  BY <1>2, <1>3, AllHold
<1>9. (\A f \in {family[i] : i \in Minted} \ excused : Kept(f))'
  BY <1>2, <1>3 DEF KInv, Kept
<1>10. AnswersFresh' /\ StoredIsLast' /\ LeftIsGone'
  BY <1>2, <1>3 DEF LInv, AnswersFresh, StoredIsLast, LeftIsGone, Pend
<1>11. AloneTakesLast'
  BY <1>2, <1>3 DEF LInv, AloneTakesLast, StoredIsLast
<1> QED
  BY <1>5, <1>6, <1>7, <1>8, <1>9, <1>10, <1>11 DEF KInv, LInv

\* Families end: the active keys of some excused families are removed.
LEMMA EndingKeeps ==
  ASSUME KInv, LInv, UNCHANGED <<storage, reached, family, shown, req, left>>,
         active' \in [Tokens -> Tokens \cup {Null}],
         \A f \in Tokens : active'[f] = active[f] \/ (active'[f] = Null /\ f \in excused'),
         excused \subseteq excused', excused' \subseteq Minted,
         leaving' \in [Tabs -> SigningOut \cup {Null}],
         \A t \in Tabs : leaving'[t] # Null =>
           /\ leaving[t] # Null /\ leaving'[t].token = leaving[t].token
           /\ leaving'[t].alone = leaving[t].alone
           /\ \/ leaving'[t].served = leaving[t].served
              \/ active'[family[leaving[t].token]] # leaving[t].token
  PROVE  KInv' /\ LInv'
<1>3. /\ Typed /\ Refreshing' = Refreshing /\ Minted' = Minted
      /\ Minted \subseteq Tokens /\ Null \notin Tokens
      /\ \A i \in Minted : family[i] \in Tokens
      /\ reached \subseteq Minted /\ storage \in Minted \cup {Null} /\ left \subseteq Minted
  BY TypeFacts DEF KInv, Refreshing, At, Typed, Minted
<1>5. Typed'
  BY <1>3 DEF Typed
<1>6. ActiveIsOfFamily'
  BY <1>3 DEF ActiveIsOfFamily, KInv
<1>7. Leaving'
  BY <1>3 DEF Leaving, KInv
<1>8. (\A p \in Requests : req[p] # Null => Holds(req[p]))'
  BY <1>3, AllHold
<1>9. (\A f \in {family[i] : i \in Minted} \ excused : Kept(f))'
  <2> SUFFICES ASSUME NEW i \in Minted, family[i] \notin excused'
               PROVE  Kept(family[i])'
    BY <1>3
  <2>1. Kept(family[i]) /\ active'[family[i]] = active[family[i]]
    BY <1>3 DEF KInv
  <2> QED
    BY <1>3, <2>1 DEF Kept
<1>10. \A p \in Requests : Pend(p)' <=> Pend(p)
  BY <1>3 DEF Pend
<1>11. \A p \in Requests : Pend(p) => req[p].answer \in Minted
  BY <1>3, RequestFacts DEF Pend, KInv, Holds
<1>12. AnswersFresh'
  <2>1. ASSUME NEW p \in Requests, Pend(p)
        PROVE  /\ req[p].answer \notin reached
               /\ active'[family[req[p].answer]] \in {req[p].answer, Null}
    <3>1. /\ req[p].answer \notin reached
          /\ active[family[req[p].answer]] \in {req[p].answer, Null}
      BY <2>1 DEF LInv, AnswersFresh
    <3>2. family[req[p].answer] \in Tokens
      BY <1>3, <1>11, <2>1
    <3> QED
      BY <3>1, <3>2
  <2>2. \A p, q \in Requests : Pend(p) /\ Pend(q) /\ req[p].answer = req[q].answer => p = q
    BY DEF LInv, AnswersFresh
  <2> QED
    BY <1>10, <2>1, <2>2 DEF AnswersFresh
<1>13. StoredIsLast' /\ LeftIsGone'
  BY <1>3 DEF LInv, StoredIsLast, LeftIsGone
<1>14. AloneTakesLast'
  BY <1>3 DEF LInv, AloneTakesLast, Typed
<1> QED
  BY <1>5, <1>6, <1>7, <1>8, <1>9, <1>12, <1>13, <1>14 DEF KInv, LInv

LEMMA ServeSignOutKeeps ==
  ASSUME KInv, LInv, NEW t \in Tabs, ServeSignOut(t)
  PROVE  KInv' /\ LInv'
<1> PICK j : j = leaving[t].token
  OBVIOUS
<1>1. /\ j \in Minted /\ family[j] \in excused /\ family[j] \in Tokens /\ leaving[t] \in SigningOut
      /\ active \in [Tokens -> Tokens \cup {Null}] /\ leaving \in [Tabs -> SigningOut \cup {Null}]
      /\ excused \subseteq Minted /\ j # Null
  BY TypeFacts DEF ServeSignOut, KInv, Typed, Leaving
<1>2. /\ active' = IF active[family[j]] = j THEN [active EXCEPT ![family[j]] = Null] ELSE active
      /\ leaving' = [leaving EXCEPT ![t].served = TRUE]
      /\ UNCHANGED <<storage, reached, family, shown, req, left, excused>>
  BY DEF ServeSignOut
<1>3. /\ active' \in [Tokens -> Tokens \cup {Null}] /\ active'[family[j]] # j
      /\ \A f \in Tokens : active'[f] = active[f] \/ (active'[f] = Null /\ f \in excused)
  BY <1>1, <1>2
<1>4. [leaving[t] EXCEPT !.served = TRUE] \in SigningOut
  BY <1>1 DEF SigningOut
<1>5. leaving' \in [Tabs -> SigningOut \cup {Null}]
  BY <1>1, <1>2, <1>4
<1>6. \A s \in Tabs : leaving'[s] # Null =>
           /\ leaving[s] # Null /\ leaving'[s].token = leaving[s].token
           /\ leaving'[s].alone = leaving[s].alone
           /\ \/ leaving'[s].served = leaving[s].served
              \/ active'[family[leaving[s].token]] # leaving[s].token
  <2>1. leaving'[t] = [leaving[t] EXCEPT !.served = TRUE] /\ leaving[t] # Null
    BY <1>1, <1>2 DEF ServeSignOut
  <2>2. leaving'[t].token = j /\ leaving'[t].alone = leaving[t].alone
    BY <1>1, <2>1 DEF SigningOut
  <2>3. \A s \in Tabs \ {t} : leaving'[s] = leaving[s]
    BY <1>1, <1>2
  <2> QED
    BY <1>3, <2>1, <2>2, <2>3
<1> QED
  BY <1>1, <1>2, <1>3, <1>5, <1>6, EndingKeeps

LEMMA RevokeKeeps ==
  ASSUME KInv, LInv, Revoke
  PROVE  KInv' /\ LInv'
<1>1. /\ active' = [f \in Tokens |-> Null]
      /\ excused' = excused \cup {family[j] : j \in Minted}
      /\ UNCHANGED <<storage, reached, family, shown, req, left, leaving>>
  BY DEF Revoke, KInv, Typed, Minted
<1>2. \A f \in Tokens : active[f] # Null => f \in excused'
  BY <1>1 DEF KInv, ActiveIsOfFamily
<1>3. /\ active' \in [Tokens -> Tokens \cup {Null}]
      /\ \A f \in Tokens : active'[f] = active[f] \/ (active'[f] = Null /\ f \in excused')
      /\ leaving' \in [Tabs -> SigningOut \cup {Null}] /\ excused' \subseteq Minted
  BY <1>1, <1>2 DEF KInv, Typed
<1> QED
  BY <1>1, <1>3, EndingKeeps

LEMMA SignedOutKeeps ==
  ASSUME KInv, LInv, NEW t \in Tabs, SignedOut(t)
  PROVE  KInv' /\ LInv'
<1> PICK k : k = leaving[t].token
  OBVIOUS
<1>2. /\ UNCHANGED <<reached, family, active, req>> /\ storage' = Null
      /\ excused' = excused \cup FamilyOf(storage)
      /\ leaving' = [leaving EXCEPT ![t] = Null] /\ shown' = [shown EXCEPT ![t] = Null]
      /\ leaving[t] # Null
      /\ left' = IF leaving[t].served /\ leaving[t].alone THEN left \cup FamilyOf(k) ELSE left
  BY DEF SignedOut, server, ClearTokens
<1>3. /\ Typed /\ Refreshing' = Refreshing /\ Minted' = Minted
      /\ FamilyOf(storage) \subseteq Minted
      /\ leaving \in [Tabs -> SigningOut \cup {Null}] /\ shown \in [Tabs -> Minted \cup {Null}]
      /\ k \in Minted /\ FamilyOf(k) = {family[k]} /\ family[k] \in Minted
      /\ excused \subseteq Minted /\ left \subseteq Minted
      /\ active \in [Tokens -> Tokens \cup {Null}] /\ reached \subseteq Minted
  BY <1>2, TypeFacts DEF KInv, Refreshing, At, Typed, FamilyOf, Minted
<1>5. Typed'
  BY <1>2, <1>3 DEF Typed
<1>6. ActiveIsOfFamily' /\ Leaving'
  BY <1>2, <1>3 DEF ActiveIsOfFamily, Leaving, KInv
<1>7. (\A p \in Requests : req[p] # Null => Holds(req[p]))'
  BY <1>2, <1>3, AllHold
<1>8. (\A f \in {family[i] : i \in Minted} \ excused : Kept(f))'
  <2> SUFFICES ASSUME NEW i \in Minted, family[i] \notin excused'
               PROVE  FALSE
    BY <1>2, <1>3
  <2>1. Kept(family[i])
    BY <1>2 DEF KInv
  <2> QED
    BY <1>2, <2>1 DEF Kept, FamilyOf
<1>9. AnswersFresh' /\ StoredIsLast' /\ AloneTakesLast'
  BY <1>2, <1>3 DEF LInv, AnswersFresh, StoredIsLast, AloneTakesLast, Pend
<1>10. LeftIsGone'
  <2>1. leaving[t].served /\ leaving[t].alone => active[family[k]] \notin reached /\ Refreshing = {}
    BY <1>2 DEF LInv, AloneTakesLast
  <2> QED
    BY <1>2, <1>3, <2>1 DEF LInv, LeftIsGone
<1> QED
  BY <1>5, <1>6, <1>7, <1>8, <1>9, <1>10 DEF KInv, LInv

LEMMA ReloadKeeps ==
  ASSUME KInv, LInv, NEW t \in Tabs, Reload(t)
  PROVE  KInv' /\ LInv'
<1>2. /\ UNCHANGED <<storage, reached, family, active, left>>
      /\ excused' = excused \cup {family[req[p].presented] : p \in Refreshing \cap Of(t)}
      /\ leaving' = [leaving EXCEPT ![t] = Null]
      /\ shown' = [shown EXCEPT ![t] = IF storage = Null THEN Null ELSE family[storage]]
      /\ req' = [p \in Requests |-> IF p \in Of(t) THEN Null ELSE req[p]]
  BY DEF Reload, server
<1>3. /\ Typed /\ Minted' = Minted /\ Refreshing' = Refreshing \ Of(t)
      /\ leaving \in [Tabs -> SigningOut \cup {Null}] /\ shown \in [Tabs -> Minted \cup {Null}]
      /\ excused \subseteq Minted
      /\ \A p \in Requests : req'[p] # Null => req'[p] = req[p]
      /\ \A p \in Refreshing' : req'[p] = req[p]
  BY <1>2, TypeFacts DEF KInv, Refreshing, At, Typed, Minted, Of
<1>4. \A p \in Refreshing : family[req[p].presented] \in Minted
  BY <1>3, RequestFacts DEF KInv, Holds, Typed
<1>5. Typed'
  <2>1. req' \in [Requests -> Pending \cup {Null}]
    BY <1>2, <1>3 DEF Typed
  <2>2. shown' \in [Tabs -> Minted \cup {Null}] /\ leaving' \in [Tabs -> SigningOut \cup {Null}]
    BY <1>2, <1>3 DEF Typed
  <2> QED
    BY <1>2, <1>3, <1>4, <2>1, <2>2 DEF Typed
<1>6. ActiveIsOfFamily' /\ Leaving'
  BY <1>2, <1>3 DEF ActiveIsOfFamily, Leaving, KInv
<1>7. (\A p \in Requests : req[p] # Null => Holds(req[p]))'
  BY <1>2, <1>3, AllHold
<1>8. (\A f \in {family[i] : i \in Minted} \ excused : Kept(f))'
  <2> SUFFICES ASSUME NEW i \in Minted, family[i] \notin excused'
               PROVE  Kept(family[i])'
    BY <1>2, <1>3
  <2>1. Kept(family[i]) /\ \A p \in Refreshing \cap Of(t) : family[req[p].presented] # family[i]
    BY <1>2 DEF KInv
  <2>2. \/ active[family[i]] = storage
        \/ \E p \in Refreshing' : req'[p].presented = storage /\ req'[p].answer = active[family[i]]
    BY <1>3, <2>1 DEF Kept
  <2>3. \A p \in Refreshing' : p \in Refreshing /\ req'[p] = req[p]
    BY <1>3
  <2> QED
    BY <1>2, <2>1, <2>2, <2>3 DEF Kept
<1>9. \A p \in Requests : Pend(p)' => Pend(p) /\ req'[p] = req[p]
  BY <1>3 DEF Pend
<1>10. AnswersFresh'
  BY <1>2, <1>9 DEF LInv, AnswersFresh
<1>11. StoredIsLast' /\ AloneTakesLast' /\ LeftIsGone'
  BY <1>2, <1>3 DEF LInv, StoredIsLast, AloneTakesLast, LeftIsGone, Typed
<1> QED
  BY <1>5, <1>6, <1>7, <1>8, <1>10, <1>11 DEF KInv, LInv

-----------------------------------------------------------------------------
(* The refresh.                                                              *)

LEMMA StartRefreshKeeps ==
  ASSUME KInv, LInv, NEW p \in Requests, StartRefresh(p)
  PROVE  KInv' /\ LInv'
<1> PICK r \in Pending : r = req[p]
  BY RequestFacts DEF StartRefresh, MayStart, KInv
<1> PICK n : n = [r EXCEPT !.at = "refreshing", !.presented = storage]
  OBVIOUS
<1>2. /\ UNCHANGED <<storage, reached, family, active, left, shown>>
      /\ leaving' = [t \in Tabs |-> IF leaving[t] = Null THEN Null
                                   ELSE [leaving[t] EXCEPT !.alone = FALSE]]
      /\ excused' = IF \E q \in Refreshing : req[q].tab # r.tab /\ req[q].presented = storage
                    THEN excused \cup FamilyOf(storage) ELSE excused
      /\ storage # Null /\ Refreshing \cap Of(r.tab) = {} /\ r.at = "sent" /\ r.answer = Null
  BY DEF StartRefresh, server, MayStart, At, KInv, Holds
<1>3. /\ Typed /\ Minted' = Minted /\ Minted \subseteq Tokens /\ storage \in Minted
      /\ FamilyOf(storage) = {family[storage]} /\ family[storage] \in Minted
      /\ leaving \in [Tabs -> SigningOut \cup {Null}] /\ excused \subseteq Minted
      /\ req \in [Requests -> Pending \cup {Null}] /\ Null \notin Pending /\ Null \notin SigningOut
  BY <1>2, TypeFacts DEF KInv, Typed, FamilyOf, Minted
<1>4. /\ n \in Pending /\ n.at = "refreshing" /\ n.presented = storage /\ n.answer = Null
      /\ n.tab = r.tab /\ n.token = r.token
  BY <1>2, <1>3 DEF Pending
<1>5. /\ req' = [req EXCEPT ![p] = n] /\ req'[p] = n /\ \A q \in Requests \ {p} : req'[q] = req[q]
  BY <1>3 DEF StartRefresh
<1>6. p \notin Refreshing /\ Refreshing' = Refreshing \cup {p}
  BY <1>2, <1>3, <1>4, <1>5 DEF Refreshing, At
<1>7. Typed'
  <2>1. \A t \in Tabs : leaving[t] # Null => [leaving[t] EXCEPT !.alone = FALSE] \in SigningOut
    BY <1>3 DEF SigningOut
  <2>2. leaving' \in [Tabs -> SigningOut \cup {Null}]
    BY <1>2, <2>1
  <2>3. \A t \in Tabs : leaving'[t] # Null => leaving'[t].token \in Minted
    BY <1>2, <1>3 DEF Typed, SigningOut
  <2>4. req' \in [Requests -> Pending \cup {Null}] /\ excused' \subseteq Minted
    BY <1>2, <1>3, <1>4, <1>5
  <2> QED
    BY <1>2, <1>3, <2>2, <2>3, <2>4 DEF Typed
<1>8. ActiveIsOfFamily' /\ Leaving'
  BY <1>2, <1>3 DEF ActiveIsOfFamily, Leaving, KInv, SigningOut
<1>9. (\A q \in Requests : req[q] # Null => Holds(req[q]))'
  <2>1. \A q \in Requests \ {p} : req'[q] # Null => Holds(req[q])'
    BY <1>2, <1>3, <1>5 DEF KInv, Holds
  <2>2. storage \in reached
    BY <1>2 DEF KInv, Typed
  <2>3. Holds(req[p])'
    BY <1>2, <1>3, <1>4, <1>5, <2>2 DEF KInv, Holds, Refused
  <2> QED
    BY <2>1, <2>3
<1>10. (\A f \in {family[i] : i \in Minted} \ excused : Kept(f))'
  <2> SUFFICES ASSUME NEW i \in Minted, family[i] \notin excused'
               PROVE  Kept(family[i])'
    BY <1>2, <1>3
  <2>1. Kept(family[i]) /\ family[storage] = family[i]
    BY <1>2 DEF KInv, Kept
  <2>2. \A q \in Refreshing : req[q].tab # r.tab
    BY <1>2, RequestFacts, <1>3 DEF Of
  <2>3. \A q \in Refreshing : req[q].presented # storage
    BY <1>2, <1>3, <2>1, <2>2
  <2>4. \A q \in Refreshing : family[req[q].presented] # family[i]
    BY <2>1, <2>3 DEF Kept
  <2>5. active[family[i]] = storage
    BY <2>1, <2>3 DEF Kept
  <2>6. \A q \in Refreshing' : q = p \/ (q \in Refreshing /\ q # p /\ req'[q] = req[q])
    BY <1>5, <1>6, <1>3, RequestFacts
  <2>7. \A q \in Refreshing' : family'[req'[q].presented] = family[i] => q = p
    BY <1>2, <2>4, <2>6
  <2>8. req'[p].presented = storage /\ req'[p].answer = Null
    BY <1>4, <1>5
  <2>9. active[family[i]] # Null /\ storage # Null
    BY <2>1 DEF Kept
  <2> QED
    BY <1>2, <2>1, <2>5, <2>7, <2>8, <2>9 DEF Kept
<1>11. \A q \in Requests : Pend(q)' => Pend(q) /\ req'[q] = req[q]
  BY <1>4, <1>5, <1>6 DEF Pend
<1>12. AnswersFresh'
  BY <1>2, <1>11 DEF LInv, AnswersFresh
<1>13. StoredIsLast' /\ AloneTakesLast'
  BY <1>2, <1>3 DEF LInv, StoredIsLast, AloneTakesLast, SigningOut
<1>14. LeftIsGone'
  <2>1. \A q \in Refreshing' : q = p \/ (q \in Refreshing /\ req'[q] = req[q])
    BY <1>5, <1>6, <1>3, RequestFacts
  <2>2. req'[p].presented = storage
    BY <1>4, <1>5
  <2>3. \A f \in left : /\ active[f] \notin reached /\ family[storage] # f
                        /\ \A q \in Refreshing : family[req[q].presented] # f
    BY <1>2 DEF LInv, LeftIsGone
  <2>4. \A f \in left : \A q \in Refreshing' : family[req'[q].presented] # f
    BY <2>1, <2>2, <2>3
  <2> QED
    BY <1>2, <2>3, <2>4 DEF LeftIsGone
<1> QED
  BY <1>7, <1>8, <1>9, <1>10, <1>12, <1>13, <1>14 DEF KInv, LInv

\* A refresh is refused: over the limit, by a failing store, or for a token that was replaced.
LEMMA RefusedKeeps ==
  ASSUME KInv, LInv, NEW p \in Requests, Unanswered(p), Answer(p, Refused),
         UNCHANGED <<storage, reached, family, shown, leaving, left>>,
         excused' \in {excused, excused \cup FamilyOf(req[p].presented)},
         \/ active' = active
         \/ active' = [active EXCEPT ![family[req[p].presented]] = Null],
         family[req[p].presented] \in excused'
  PROVE  KInv' /\ LInv'
<1> PICK r \in Pending : r = req[p]
  BY RequestFacts DEF Unanswered, KInv
<1> PICK n : n = [r EXCEPT !.answer = Refused]
  OBVIOUS
<1> PICK F : F = family[r.presented]
  OBVIOUS
<1>1. /\ Typed /\ Minted' = Minted /\ Minted \subseteq Tokens /\ Null \notin Tokens
      /\ Null # Refused /\ Refused \notin Tokens
      /\ req \in [Requests -> Pending \cup {Null}] /\ Null \notin Pending
      /\ reached \subseteq Minted /\ r.presented \in reached /\ r.presented # Null
      /\ F \in Minted /\ FamilyOf(r.presented) = {F} /\ excused \subseteq Minted
      /\ active \in [Tokens -> Tokens \cup {Null}] /\ r.at = "refreshing" /\ p \in Refreshing
      /\ storage \in Minted \cup {Null} /\ left \subseteq Minted
  BY TypeFacts DEF KInv, Typed, FamilyOf, Minted, Unanswered, At, Holds, Refreshing
<1>2. /\ n \in Pending /\ n.at = "refreshing" /\ n.presented = r.presented /\ n.answer = Refused
      /\ n.tab = r.tab /\ n.token = r.token
  BY <1>1 DEF Pending
<1>3. /\ req' = [req EXCEPT ![p] = n] /\ req'[p] = n /\ \A q \in Requests \ {p} : req'[q] = req[q]
  BY <1>1 DEF Answer
<1>4. Refreshing' = Refreshing
  BY <1>1, <1>2, <1>3 DEF Refreshing, At
<1>5. \A q \in Refreshing : req'[q].presented = req[q].presented /\ (q # p => req'[q] = req[q])
  BY <1>1, <1>2, <1>3, RequestFacts
<1>6. /\ active' \in [Tokens -> Tokens \cup {Null}] /\ excused' \subseteq Minted
      /\ F \in excused' /\ excused \subseteq excused'
      /\ \A f \in Tokens : active'[f] = active[f] \/ (active'[f] = Null /\ f = F)
  BY <1>1
<1>7. Typed'
  <2>1. req' \in [Requests -> Pending \cup {Null}]
    BY <1>1, <1>2, <1>3
  <2> QED
    BY <1>1, <1>6, <2>1 DEF Typed
<1>8. ActiveIsOfFamily' /\ Leaving'
  BY <1>1, <1>6 DEF ActiveIsOfFamily, Leaving, KInv
<1>9. (\A q \in Requests : req[q] # Null => Holds(req[q]))'
  <2>1. \A q \in Requests \ {p} : req'[q] # Null => Holds(req[q])'
    BY <1>1, <1>3 DEF KInv, Holds
  <2>2. Holds(req[p])'
    BY <1>1, <1>2, <1>3 DEF KInv, Holds
  <2> QED
    BY <2>1, <2>2
<1>10. (\A f \in {family[i] : i \in Minted} \ excused : Kept(f))'
  <2> SUFFICES ASSUME NEW i \in Minted, family[i] \notin excused'
               PROVE  Kept(family[i])'
    BY <1>1
  <2>1. Kept(family[i]) /\ family[i] # F /\ active'[family[i]] = active[family[i]]
    BY <1>1, <1>6 DEF KInv, Typed
  <2>2. \A q \in Refreshing : family[req[q].presented] = family[i] => req'[q] = req[q]
    BY <1>5, <2>1
  <2>3. family[storage] = family[i] /\ storage # Null
    BY <2>1 DEF Kept
  <2>4. \A q \in Refreshing : req[q].presented = storage => req'[q] = req[q]
    BY <2>2, <2>3
  <2>5. \/ active[family[i]] = storage
        \/ \E q \in Refreshing : req'[q].presented = storage /\ req'[q].answer = active[family[i]]
    BY <2>1, <2>4 DEF Kept
  <2> QED
    BY <1>4, <1>5, <2>1, <2>2, <2>3, <2>5 DEF Kept
<1>11. \A q \in Requests : Pend(q)' => Pend(q) /\ req'[q] = req[q]
  BY <1>2, <1>3, <1>4 DEF Pend
<1>12. \A q \in Requests : Pend(q) => req[q].answer \in Minted
  BY <1>1, RequestFacts DEF Pend, KInv, Holds
<1>13. AnswersFresh'
  <2>1. ASSUME NEW q \in Requests, Pend(q)
        PROVE  /\ req[q].answer \notin reached
               /\ active'[family[req[q].answer]] \in {req[q].answer, Null}
    <3>1. /\ req[q].answer \notin reached
          /\ active[family[req[q].answer]] \in {req[q].answer, Null}
      BY <2>1 DEF LInv, AnswersFresh
    <3>2. family[req[q].answer] \in Tokens
      BY <1>1, <1>12, <2>1 DEF Typed
    <3> QED
      BY <1>6, <3>1, <3>2
  <2>2. \A q, s \in Requests : Pend(q) /\ Pend(s) /\ req[q].answer = req[s].answer => q = s
    BY DEF LInv, AnswersFresh
  <2> QED
    BY <1>11, <2>1, <2>2 DEF AnswersFresh
<1>14. StoredIsLast' /\ AloneTakesLast'
  <2>1. storage # Null => storage \in Minted /\ family[storage] \in Tokens
    BY <1>1 DEF Typed
  <2>2. \A f \in Tokens : active'[f] \in reached => active'[f] = active[f]
    BY <1>1, <1>6
  <2>3. StoredIsLast'
    BY <2>1, <2>2 DEF LInv, StoredIsLast
  <2>4. \A t \in Tabs : leaving[t] # Null => ~leaving[t].alone
    BY <1>1 DEF LInv, AloneTakesLast
  <2> QED
    BY <2>3, <2>4 DEF AloneTakesLast
<1>15. LeftIsGone'
  BY <1>1, <1>4, <1>5, <1>6 DEF LInv, LeftIsGone
<1> QED
  BY <1>7, <1>8, <1>9, <1>10, <1>13, <1>14, <1>15 DEF KInv, LInv

\* The server refuses; a token that was replaced belongs to a session that has ended already.
LEMMA RefusalsKeep ==
  ASSUME KInv, LInv, NEW p \in Requests, ServeLimited(p) \/ ServeReused(p) \/ ServeTorn(p)
  PROVE  KInv' /\ LInv'
<1>1. /\ Unanswered(p) /\ Answer(p, Refused)
      /\ UNCHANGED <<storage, reached, family, shown, leaving, left>>
  BY DEF ServeLimited, ServeReused, ServeTorn, Untouched
<1>2. /\ p \in Refreshing /\ req[p].presented \in Minted /\ req[p].answer = Null
      /\ FamilyOf(req[p].presented) = {family[req[p].presented]}
  BY <1>1, TypeFacts, RequestFacts DEF KInv, Typed, Unanswered, At, Refreshing, Holds, FamilyOf
<1>3. CASE ServeLimited(p) \/ ServeTorn(p)
  <2>1. active' = active /\ excused' = excused \cup FamilyOf(req[p].presented)
    BY <1>3 DEF ServeLimited, ServeTorn
  <2> QED
    BY <1>1, <1>2, <2>1, RefusedKeeps
<1>4. CASE ServeReused(p)
  <2>1. /\ active' = [active EXCEPT ![family[req[p].presented]] = Null] /\ excused' = excused
        /\ active[family[req[p].presented]] # req[p].presented
    BY <1>4 DEF ServeReused
  <2>2. family[req[p].presented] \in excused
    BY <1>2, <2>1 DEF KInv, Kept
  <2> QED
    BY <1>1, <1>2, <2>1, <2>2, RefusedKeeps
<1> QED
  BY <1>3, <1>4

LEMMA RotatedKeeps ==
  ASSUME KInv, LInv, NEW p \in Requests, ServeRotated(p)
  PROVE  KInv' /\ LInv'
<1> PICK r \in Pending : r = req[p]
  BY RequestFacts DEF ServeRotated, Unanswered, KInv
<1> PICK F : F = family[r.presented]
  OBVIOUS
<1> PICK j : j = Len(family) + 1
  OBVIOUS
<1> PICK n : n = [r EXCEPT !.answer = j]
  OBVIOUS
<1>1. /\ family' = Append(family, F) /\ active' = [active EXCEPT ![F] = j] /\ Answer(p, j)
      /\ UNCHANGED <<storage, reached, shown, leaving, left, excused>>
      /\ active[F] = r.presented /\ r.answer = Null /\ r.at = "refreshing" /\ j <= MaxTokens
  BY DEF ServeRotated, Untouched, Unanswered, At
<1>2. /\ Typed /\ Minted \subseteq Tokens /\ Null \notin Tokens
      /\ Null # Refused /\ Refused \notin Tokens
      /\ req \in [Requests -> Pending \cup {Null}] /\ Null \notin Pending
      /\ reached \subseteq Minted /\ r.presented \in reached /\ r.presented # Null
      /\ F \in Minted /\ excused \subseteq Minted /\ left \subseteq Minted
      /\ active \in [Tokens -> Tokens \cup {Null}] /\ p \in Refreshing
      /\ storage \in Minted \cup {Null}
  BY <1>1, TypeFacts DEF KInv, Typed, Unanswered, At, Holds, Refreshing
<1>3. /\ j \in Tokens /\ j \notin Minted /\ Minted' = Minted \cup {j}
      /\ family' \in Seq(Tokens) /\ Len(family') <= MaxTokens
      /\ \A i \in Minted : family'[i] = family[i]
      /\ family'[j] = F
      /\ \A i \in Minted' : family'[i] \in Minted'
  BY <1>1, <1>2, Issues
<1>4. /\ n \in Pending /\ n.at = "refreshing" /\ n.presented = r.presented /\ n.answer = j
      /\ n.tab = r.tab /\ n.token = r.token
  BY <1>1, <1>3 DEF Pending
<1>5. /\ req' = [req EXCEPT ![p] = n] /\ req'[p] = n /\ \A q \in Requests \ {p} : req'[q] = req[q]
  BY <1>1, <1>2 DEF Answer
<1>6. Refreshing' = Refreshing
  BY <1>1, <1>2, <1>4, <1>5 DEF Refreshing, At
<1>7. \A q \in Refreshing : req'[q].presented = req[q].presented /\ (q # p => req'[q] = req[q])
  BY <1>2, <1>4, <1>5, RequestFacts
<1>8. \A q \in Refreshing : req[q].presented \in Minted
  BY <1>2, RequestFacts DEF KInv, Holds
<1>9. active'[F] = j /\ \A f \in Tokens \ {F} : active'[f] = active[f]
  BY <1>1, <1>2, <1>3
<1>10. Typed'
  <2>1. req' \in [Requests -> Pending \cup {Null}]
    BY <1>2, <1>4, <1>5
  <2>2. active' \in [Tokens -> Tokens \cup {Null}]
    BY <1>1, <1>2, <1>3
  <2>3. shown' \in [Tabs -> Minted' \cup {Null}]
    BY <1>1, <1>2, <1>3 DEF Typed
  <2> QED
    BY <1>1, <1>2, <1>3, <2>1, <2>2, <2>3 DEF Typed
<1>11. ActiveIsOfFamily'
  BY <1>2, <1>3, <1>9 DEF ActiveIsOfFamily, KInv
<1>12. Leaving'
  BY <1>1, <1>2, <1>3 DEF Leaving, KInv, Typed
<1>13. (\A q \in Requests : req[q] # Null => Holds(req[q]))'
  <2>1. ASSUME NEW q \in Requests \ {p}, req'[q] # Null
        PROVE  Holds(req[q])'
    <3> PICK s : s = req'[q]
      OBVIOUS
    <3>1. Holds(s)
      BY <1>5, <2>1 DEF KInv
    <3>2. Holds(s)'
      BY <1>1, <1>2, <1>3, <3>1, HoldsStays
    <3> QED
      BY <3>2 DEF Holds
  <2>2. r.token \in Minted \cup {Null}
    BY <1>2 DEF KInv, Holds
  <2>a. reached' = reached
    BY <1>1
  <2>b. family'[r.presented] = F
    BY <1>2, <1>3
  <2>3. n.presented \in reached' /\ n.answer \in Minted' /\ family'[n.answer] = family'[n.presented]
    BY ONLY <1>2, <1>3, <1>4, <2>a, <2>b
  <2>4. n.token \in Minted' \cup {Null}
    BY <1>3, <1>4, <2>2
  <2>5. Holds(req[p])'
    BY <1>4, <1>5, <2>3, <2>4 DEF Holds
  <2> QED
    BY <2>1, <2>5
<1>14. (\A f \in {family[i] : i \in Minted} \ excused : Kept(f))'
  <2> SUFFICES ASSUME NEW f \in Minted, Kept(f)
               PROVE  Kept(f)'
    <3>1. \A i \in Minted' : \E k \in Minted : family'[i] = family[k]
      BY <1>2, <1>3
    <3>2. \A i \in Minted : family[i] \in Minted
      BY <1>2 DEF Typed
    <3> QED
      BY <1>1, <3>1, <3>2 DEF KInv
  <2>1. storage # Null /\ family'[storage] = f /\ storage \in Minted
    BY <1>2, <1>3 DEF Kept
  <2>2. \A q \in Refreshing : family'[req'[q].presented] = family[req[q].presented]
    BY <1>3, <1>7, <1>8
  <2>3. \A q, s \in Refreshing :
          family'[req'[q].presented] = f /\ family'[req'[s].presented] = f => q = s
    BY <2>2 DEF Kept
  <2>4. CASE f = F
    <3>1. r.presented = storage /\ \A q \in Refreshing : family[req[q].presented] = f => q = p
      BY <1>2, <2>4 DEF Kept
    <3>2. req'[p].presented = storage /\ req'[p].answer = active'[f] /\ active'[f] = j
      BY <1>4, <1>5, <1>9, <2>4, <3>1
    <3>3. \A q \in Refreshing : family'[req'[q].presented] = f => q = p
      BY <2>2, <3>1
    <3>4. j # Null /\ storage' = storage
      BY <1>1, <1>2, <1>3
    <3>5. \A q \in Refreshing : family'[req'[q].presented] = f =>
            /\ req'[q].presented = storage
            /\ IF req'[q].answer = Null THEN active'[f] = storage ELSE req'[q].answer = active'[f]
      BY <3>2, <3>3, <3>4
    <3> QED
      BY ONLY <1>2, <1>6, <2>1, <2>3, <3>2, <3>4, <3>5 DEF Kept
  <2>5. CASE f # F
    <3>1. active'[f] = active[f]
      BY <1>2, <1>9, <2>5
    <3>2. \A q \in Refreshing : family[req[q].presented] = f => req'[q] = req[q]
      BY <1>7, <2>5
    <3>3. \A q \in Refreshing : req[q].presented = storage => req'[q] = req[q]
      BY <3>2 DEF Kept
    <3>4. \/ active[f] = storage
          \/ \E q \in Refreshing : req'[q].presented = storage /\ req'[q].answer = active[f]
      BY <3>3 DEF Kept
    <3>5. \A q \in Refreshing : family'[req'[q].presented] = f =>
            /\ req'[q].presented = storage
            /\ IF req'[q].answer = Null THEN active[f] = storage ELSE req'[q].answer = active[f]
      BY <2>2, <3>2 DEF Kept
    <3>6. active[f] # Null
      BY DEF Kept
    <3> QED
      BY <1>1, <1>6, <2>1, <2>3, <3>1, <3>4, <3>5, <3>6 DEF Kept
  <2> QED
    BY <2>4, <2>5
<1>15. \A q \in Requests : Pend(q)' => q = p \/ (Pend(q) /\ req'[q] = req[q])
  BY <1>5, <1>6 DEF Pend
<1>16. \A q \in Requests : Pend(q) => req[q].answer \in Minted
  BY <1>2, RequestFacts DEF Pend, KInv, Holds
<1>17. AnswersFresh'
  <2>1. ASSUME NEW q \in Requests, Pend(q)
        PROVE  /\ req[q].answer \notin reached /\ req[q].answer # j
               /\ active'[family'[req[q].answer]] \in {req[q].answer, Null}
    <3>1. /\ req[q].answer \notin reached
          /\ active[family[req[q].answer]] \in {req[q].answer, Null}
      BY <2>1 DEF LInv, AnswersFresh
    <3>2. /\ req[q].answer \in Minted /\ family'[req[q].answer] = family[req[q].answer]
          /\ family[req[q].answer] \in Tokens
      BY <1>2, <1>3, <1>16, <2>1 DEF Typed
    <3>3. family[req[q].answer] # F
      BY <1>1, <1>2, <3>1
    <3> QED
      BY <1>3, <1>9, <3>1, <3>2, <3>3
  <2>2. \A q, s \in Requests : Pend(q) /\ Pend(s) /\ req[q].answer = req[s].answer => q = s
    BY DEF LInv, AnswersFresh
  <2>3. req'[p].answer = j /\ j \notin reached' /\ active'[family'[j]] = j
    BY <1>1, <1>2, <1>3, <1>4, <1>5, <1>9
  <2>4. \A q \in Requests : Pend(q)' =>
          /\ req'[q].answer \notin reached'
          /\ active'[family'[req'[q].answer]] \in {req'[q].answer, Null}
    BY <1>1, <1>15, <2>1, <2>3
  <2>5. \A q, s \in Requests : Pend(q)' /\ Pend(s)' /\ req'[q].answer = req'[s].answer => q = s
    BY <1>15, <2>1, <2>2, <2>3
  <2> QED
    BY <2>4, <2>5 DEF AnswersFresh
<1>18. StoredIsLast'
  <2> SUFFICES (storage # Null /\ active'[family'[storage]] \in reached
                  => active'[family'[storage]] = storage)
    <3>1. storage' = storage /\ reached' = reached
      BY <1>1
    <3> QED
      BY <3>1 DEF StoredIsLast
  <2> HAVE storage # Null /\ active'[family'[storage]] \in reached
  <2>1. storage \in Minted /\ family'[storage] = family[storage] /\ family[storage] \in Tokens
    BY <1>2, <1>3 DEF Typed
  <2>2. family[storage] # F
    BY <1>2, <1>3, <1>9, <2>1
  <2> QED
    BY <1>9, <2>1, <2>2 DEF LInv, StoredIsLast
<1>19. AloneTakesLast'
  BY <1>1, <1>2 DEF LInv, AloneTakesLast
<1>20. LeftIsGone'
  <2> SUFFICES ASSUME NEW f \in left
               PROVE  /\ active'[f] \notin reached
                      /\ storage # Null => family'[storage] # f
                      /\ \A q \in Refreshing : family'[req'[q].presented] # f
    BY <1>1, <1>6 DEF LeftIsGone
  <2>1. /\ active[f] \notin reached
        /\ storage # Null => family[storage] # f
        /\ \A q \in Refreshing : family[req[q].presented] # f
    BY DEF LInv, LeftIsGone
  <2>2. active'[f] \notin reached
    BY <1>2, <1>3, <1>9, <2>1
  <2>3. \A q \in Refreshing : family'[req'[q].presented] # f
    BY <1>3, <1>7, <1>8, <2>1
  <2> QED
    BY <1>2, <1>3, <2>1, <2>2, <2>3
<1> QED
  BY <1>10, <1>11, <1>12, <1>13, <1>14, <1>17, <1>18, <1>19, <1>20 DEF KInv, LInv

\* What the answer that is stored, or the failure, does to the requests that waited for it.
LEMMA TogetherFacts ==
  ASSUME KInv, NEW p \in Refreshing,
         \/ req' = [q \in Requests |-> IF q \in Together(p) THEN Null ELSE req[q]]
         \/ \E a \in Minted :
              req' = [q \in Requests |-> IF q \in Together(p)
                        THEN [req[q] EXCEPT !.at = "resent", !.token = a] ELSE req[q]],
         UNCHANGED family, reached \subseteq reached'
  PROVE  /\ Refreshing' = Refreshing \ {p} /\ \A q \in Refreshing' : req'[q] = req[q]
         /\ req' \in [Requests -> Pending \cup {Null}]
         /\ (\A q \in Requests : req[q] # Null => Holds(req[q]))'
         /\ \A q \in Requests : Pend(q)' => Pend(q) /\ q # p /\ req'[q] = req[q]
<1>1. /\ Typed /\ Minted' = Minted /\ Minted \subseteq Tokens /\ Null \notin Pending
      /\ req \in [Requests -> Pending \cup {Null}] /\ p \in Requests
      /\ p \in Together(p) /\ Together(p) \subseteq Requests
      /\ \A q \in Together(p) : req[q] \in Pending /\ Holds(req[q])
      /\ \A q \in Refreshing : q \in Together(p) => q = p
  BY TypeFacts, RequestFacts DEF KInv, Typed, Minted, Together, Of, At, Refreshing
<1>0. family' = family /\ reached \subseteq reached' /\ Minted' = Minted
  BY DEF Minted
<1>2. ASSUME NEW q \in Together(p), NEW a \in Minted,
             req'[q] = [req[q] EXCEPT !.at = "resent", !.token = a]
      PROVE  /\ req'[q] \in Pending /\ req'[q].at = "resent" /\ Holds(req[q])'
  <2> PICK r \in Pending : r = req[q]
    BY <1>1
  <2> PICK n : n = [r EXCEPT !.at = "resent", !.token = a]
    OBVIOUS
  <2>1. /\ n \in Pending /\ n.at = "resent" /\ n.token = a
        /\ n.presented = r.presented /\ n.answer = r.answer
    BY <1>1, <1>2 DEF Pending
  <2>2. req'[q] = n
    BY <1>1, <1>2
  <2>3. Holds(r)
    BY <1>1
  <2>a. n.answer # Null /\ n.answer # Refused =>
          n.answer \in Minted' /\ n.presented \in reached' /\ family'[n.answer] = family'[n.presented]
    BY ONLY <1>0, <2>1, <2>3 DEF Holds
  <2>b. n.token \in Minted' \cup {Null}
    BY ONLY <1>0, <2>1, a \in Minted
  <2>c. Holds(n)'
    BY ONLY <2>1, <2>a, <2>b DEF Holds
  <2>4. Holds(req[q])'
    BY ONLY <2>2, <2>c DEF Holds
  <2> QED
    BY <2>1, <2>2, <2>4
<1>3. \A q \in Requests \ Together(p) : req'[q] = req[q]
  OBVIOUS
<1>4. \A q \in Together(p) :
        \/ req'[q] = Null
        \/ req'[q] \in Pending /\ req'[q].at = "resent" /\ Holds(req[q])'
  BY <1>1, <1>2
<1>5. req' \in [Requests -> Pending \cup {Null}]
  BY <1>1, <1>3, <1>4
<1>6. Refreshing' = Refreshing \ {p}
  BY <1>1, <1>3, <1>4 DEF Refreshing, At
<1>7. \A q \in Refreshing' : req'[q] = req[q]
  BY <1>1, <1>3, <1>6, RequestFacts
<1>8. ASSUME NEW q \in Requests, req'[q] # Null
      PROVE  Holds(req[q])'
  <2>1. CASE q \in Together(p)
    BY <1>4, <1>8, <2>1
  <2>2. CASE q \notin Together(p)
    BY <1>1, <1>3, <1>8, <2>2 DEF KInv, Holds
  <2> QED
    BY <2>1, <2>2
<1>9. \A q \in Requests : Pend(q)' => Pend(q) /\ q # p /\ req'[q] = req[q]
  BY <1>6, <1>7 DEF Pend
<1> QED
  BY <1>5, <1>6, <1>7, <1>8, <1>9

\* The answers that are left are as fresh as they were, with one more token stored.
LEMMA FreshStays ==
  ASSUME LInv, UNCHANGED <<active, family>>, NEW p \in Requests,
         \A q \in Requests : Pend(q)' => Pend(q) /\ q # p /\ req'[q] = req[q],
         reached' = reached \/ (Pend(p) /\ reached' = reached \cup {req[p].answer})
  PROVE  AnswersFresh'
BY DEF LInv, AnswersFresh

LEMMA RefreshedKeeps ==
  ASSUME KInv, LInv, NEW p \in Requests, Refreshed(p)
  PROVE  KInv' /\ LInv'
<1> PICK a : a = req[p].answer
  OBVIOUS
<1> PICK F : F = family[req[p].presented]
  OBVIOUS
<1>1. /\ Typed /\ Minted' = Minted /\ Minted \subseteq Tokens /\ Null \notin Tokens
      /\ p \in Refreshing /\ a \in Minted /\ Pend(p)
      /\ reached \subseteq Minted /\ req[p].presented \in reached /\ FamilyOf(req[p].presented) = {F}
      /\ family[a] = F /\ F \in Minted /\ excused \subseteq Minted /\ left \subseteq Minted
      /\ storage \in Minted \cup {Null} /\ FamilyOf(storage) \subseteq Minted
      /\ active \in [Tokens -> Tokens \cup {Null}] /\ a # Null
  BY TypeFacts, RequestFacts
     DEF Refreshed, At, Refreshing, KInv, Holds, Typed, FamilyOf, Minted, server, Pend
<1>2. /\ UNCHANGED <<family, active, shown, leaving, left>>
      /\ storage' = a /\ reached' = reached \cup {a}
      /\ excused' = excused \cup (FamilyOf(storage) \ {F})
      /\ req' = [q \in Requests |-> IF q \in Together(p)
                   THEN [req[q] EXCEPT !.at = "resent", !.token = a] ELSE req[q]]
  BY <1>1 DEF Refreshed, server, SetTokens
<1>3. /\ Refreshing' = Refreshing \ {p} /\ \A q \in Refreshing' : req'[q] = req[q]
      /\ req' \in [Requests -> Pending \cup {Null}]
      /\ (\A q \in Requests : req[q] # Null => Holds(req[q]))'
      /\ \A q \in Requests : Pend(q)' => Pend(q) /\ q # p /\ req'[q] = req[q]
  BY <1>1, <1>2, TogetherFacts, ZenonT(30)
<1>4. Typed'
  BY <1>1, <1>2, <1>3 DEF Typed
<1>5. ActiveIsOfFamily' /\ Leaving'
  BY <1>1, <1>2 DEF ActiveIsOfFamily, Leaving, KInv
<1>6. (\A f \in {family[i] : i \in Minted} \ excused : Kept(f))'
  <2>0. excused \subseteq excused' /\ family' = family
    BY <1>2
  <2> SUFFICES ASSUME NEW i \in Minted, family[i] \notin excused'
               PROVE  Kept(family[i])'
    BY <1>1, <2>0
  <2> PICK f : f = family[i]
    OBVIOUS
  <2>a. f \in Minted /\ f \notin excused' /\ Kept(f)
    BY <1>1, <2>0 DEF KInv, Typed
  <2>1. f = F
    BY <1>2, <2>a DEF Kept, FamilyOf
  <2>2. active[f] = a
    BY <1>1, <2>1, <2>a DEF Kept
  <2>3. \A q \in Refreshing' : family[req'[q].presented] # f
    BY <1>1, <1>3, <2>1, <2>a DEF Kept
  <2> QED
    BY <1>1, <1>2, <2>1, <2>2, <2>3 DEF Kept
<1>7. AnswersFresh'
  BY <1>1, <1>2, <1>3, FreshStays
<1>8. active[F] \in {a, Null}
  BY <1>1 DEF LInv, AnswersFresh
<1>9. StoredIsLast'
  BY <1>1, <1>2, <1>8 DEF StoredIsLast
<1>10. AloneTakesLast'
  BY <1>1, <1>2 DEF LInv, AloneTakesLast
<1>11. LeftIsGone'
  <2> SUFFICES ASSUME NEW f \in left
               PROVE  /\ active[f] \notin reached'
                      /\ F # f
                      /\ \A q \in Refreshing' : family[req'[q].presented] # f
    BY <1>1, <1>2 DEF LeftIsGone
  <2>1. /\ active[f] \notin reached /\ \A q \in Refreshing : family[req[q].presented] # f
    BY DEF LInv, LeftIsGone
  <2>2. F # f
    BY <1>1, <2>1
  <2>3. active[f] # a
    BY <1>1, <2>2 DEF KInv, ActiveIsOfFamily
  <2> QED
    BY <1>2, <1>3, <2>1, <2>2, <2>3, ZenonT(30)
<1> QED
  BY <1>3, <1>4, <1>5, <1>6, <1>7, <1>9, <1>10, <1>11 DEF KInv, LInv

LEMMA RefreshFailedKeeps ==
  ASSUME KInv, LInv, NEW p \in Requests, RefreshFailed(p)
  PROVE  KInv' /\ LInv'
<1> PICK F : F = family[req[p].presented]
  OBVIOUS
<1>1. /\ Typed /\ Minted' = Minted /\ Minted \subseteq Tokens /\ Null \notin Tokens
      /\ Refused \notin Tokens /\ Null # Refused
      /\ p \in Refreshing /\ req[p].presented \in reached
      /\ reached \subseteq Minted /\ FamilyOf(req[p].presented) = {F}
      /\ F \in Minted /\ excused \subseteq Minted /\ left \subseteq Minted
      /\ storage \in Minted \cup {Null} /\ FamilyOf(storage) \subseteq Minted
      /\ active \in [Tokens -> Tokens \cup {Null}] /\ shown \in [Tabs -> Minted \cup {Null}]
  BY TypeFacts, RequestFacts
     DEF RefreshFailed, At, Refreshing, KInv, Holds, Typed, FamilyOf, Minted, server
<1>2. /\ UNCHANGED <<family, active, leaving, left, reached>>
      /\ storage' = Null /\ shown' = [shown EXCEPT ![req[p].tab] = Null]
      /\ excused' = excused \cup (FamilyOf(storage) \ {F})
                      \cup (IF req[p].answer = Refused THEN {} ELSE {F})
      /\ req' = [q \in Requests |-> IF q \in Together(p) THEN Null ELSE req[q]]
  BY <1>1 DEF RefreshFailed, server, ClearTokens
<1>3. /\ Refreshing' = Refreshing \ {p} /\ \A q \in Refreshing' : req'[q] = req[q]
      /\ req' \in [Requests -> Pending \cup {Null}]
      /\ (\A q \in Requests : req[q] # Null => Holds(req[q]))'
      /\ \A q \in Requests : Pend(q)' => Pend(q) /\ q # p /\ req'[q] = req[q]
  BY <1>1, <1>2, TogetherFacts
<1>4. Typed'
  <2>1. excused' \subseteq Minted
    BY <1>1, <1>2
  <2>2. shown' \in [Tabs -> Minted \cup {Null}]
    BY <1>1, <1>2
  <2> QED
    BY <1>1, <1>2, <1>3, <2>1, <2>2 DEF Typed
<1>5. ActiveIsOfFamily' /\ Leaving'
  BY <1>1, <1>2 DEF ActiveIsOfFamily, Leaving, KInv
<1>6. (\A f \in {family[i] : i \in Minted} \ excused : Kept(f))'
  <2>1. excused \subseteq excused' /\ family' = family
    BY <1>2
  <2> SUFFICES ASSUME NEW i \in Minted, family[i] \notin excused'
               PROVE  FALSE
    BY <1>1, <2>1
  <2>2. Kept(family[i]) /\ family[i] \in Minted
    BY <1>1, <2>1 DEF KInv, Typed
  <2>3. family[i] = F
    BY <1>2, <2>2 DEF Kept, FamilyOf
  <2>4. req[p].answer = Refused
    BY <1>2, <2>3
  <2>5. active[family[i]] = Refused
    BY <1>1, <2>2, <2>3, <2>4 DEF Kept
  <2> QED
    BY <1>1, <2>2, <2>5
<1>7. AnswersFresh'
  BY <1>1, <1>2, <1>3, FreshStays
<1>8. StoredIsLast' /\ AloneTakesLast'
  BY <1>1, <1>2 DEF LInv, StoredIsLast, AloneTakesLast
<1>9. LeftIsGone'
  BY <1>1, <1>2, <1>3 DEF LInv, LeftIsGone
<1> QED
  BY <1>3, <1>4, <1>5, <1>6, <1>7, <1>8, <1>9 DEF KInv, LInv

-----------------------------------------------------------------------------
(* The theorems of the session.                                              *)

LEMMA InitKeeps == Init => KInv /\ LInv
<1> SUFFICES ASSUME Init PROVE KInv /\ LInv
  OBVIOUS
<1>1. family = <<>> /\ Minted = {} /\ Len(family) = 0 /\ family \in Seq(Tokens)
  BY EmptySeq DEF Init, Minted
<1>2. Typed
  BY <1>1, BoundsAssumption DEF Init, Typed
<1>3. Refreshing = {} /\ \A p \in Requests : ~Pend(p)
  BY DEF Init, Refreshing, At, Pend
<1> QED
  BY <1>1, <1>2, <1>3, NullAssumption
     DEF Init, KInv, LInv, ActiveIsOfFamily, Leaving, AnswersFresh, StoredIsLast, AloneTakesLast, LeftIsGone

LEMMA StepKeeps ==
  ASSUME KInv, LInv, [Next]_vars
  PROVE  KInv' /\ LInv'
<1>1. ASSUME NEW t \in Tabs, SignIn(t) \/ SignOut(t) \/ ServeSignOut(t) \/ SignedOut(t) \/ Reload(t)
      PROVE  KInv' /\ LInv'
  BY <1>1, SignInKeeps, SignOutKeeps, ServeSignOutKeeps, SignedOutKeeps, ReloadKeeps
<1>2. ASSUME NEW p \in Requests,
             \/ (\E t \in Tabs : Send(p, t)) \/ Succeed(p) \/ FailAgain(p)
             \/ Join(p) \/ StartRefresh(p) \/ NothingToRefresh(p)
             \/ ServeLimited(p) \/ ServeRotated(p) \/ ServeReused(p) \/ ServeTorn(p)
             \/ Refreshed(p) \/ RefreshFailed(p)
      PROVE  KInv' /\ LInv'
  BY <1>2, QuietSteps, StartRefreshKeeps, RefusalsKeep, RotatedKeeps, RefreshedKeeps, RefreshFailedKeeps
<1>3. CASE UNCHANGED vars
  <2>1. /\ UNCHANGED <<storage, reached, family, active, excused, left, leaving, shown, req>>
        /\ Refreshing' = Refreshing /\ Minted' = Minted
    BY <1>3 DEF vars, server, Refreshing, At, Minted
  <2>2. (\A q \in Requests : req[q] # Null => Holds(req[q]))'
    BY <2>1, AllHold
  <2> QED
    BY <2>1, <2>2, Quiet DEF KInv, Typed
<1> QED
  BY <1>1, <1>2, <1>3, RevokeKeeps, QuietServer DEF Next

\* A session nothing has ended is the one in the storage, with the token the server will
\* exchange: for any number of tabs, requests and renewals.
THEOREM AlwaysKept == Spec => []SessionKept
<1>1. KInv => SessionKept
  BY DEF KInv, SessionKept, Kept, Minted
<1> QED
  BY <1>1, InitKeeps, StepKeeps, PTL DEF Spec

\* A sign-out the server answered and no refresh overlapped ends its session for good.
THEOREM AlwaysSignedOut == Spec => []SignOutEnds
<1>1. LInv => SignOutEnds
  BY DEF LInv, LeftIsGone, SignOutEnds, FamilyOf
<1> QED
  BY <1>1, InitKeeps, StepKeeps, PTL DEF Spec

-----------------------------------------------------------------------------
(* The limit.                                                                *)

\* What one more call does to a log.
LEMMA LogGrows ==
  ASSUME NEW c, NEW t, Timed(c, t), NEW x \in [at : Nat, admitted : BOOLEAN], x.at = t
  PROVE  LET n == Len(c) + 1
             d == Append(c, x)
         IN  /\ Timed(d, t) /\ n \in Nat /\ t \in Nat /\ DOMAIN c = 1 .. (n - 1) /\ DOMAIN d = 1 .. n
             /\ DOMAIN d = DOMAIN c \cup {n} /\ n \notin DOMAIN c
             /\ \A i \in DOMAIN c : d[i] = c[i] /\ c[i].at \in Nat /\ c[i].at <= t
             /\ d[n] = x
             /\ Admitted(d) = Admitted(c) \cup (IF x.admitted THEN {n} ELSE {})
             /\ Admitted(c) \subseteq DOMAIN c
             /\ IsFiniteSet(DOMAIN d) /\ IsFiniteSet(DOMAIN c)
<1> PICK n : n = Len(c) + 1
  OBVIOUS
<1> PICK d : d = Append(c, x)
  OBVIOUS
<1> DEFINE C == [at : Nat, admitted : BOOLEAN]
<1>1. c \in Seq(C) /\ t \in Nat /\ Len(c) \in Nat /\ DOMAIN c = 1 .. Len(c)
  BY LenProperties DEF Timed
<1>3. /\ d \in Seq(C) /\ Len(d) = n /\ d[n] = x
      /\ \A i \in 1 .. Len(c) : d[i] = c[i]
  BY <1>1, AppendProperties
<1>4. DOMAIN d = 1 .. n
  BY <1>1, <1>3, LenProperties
<1>5. DOMAIN d = DOMAIN c \cup {n} /\ n \notin DOMAIN c /\ n \in Nat /\ DOMAIN c = 1 .. (n - 1)
  BY <1>1, <1>4
<1>6. \A i \in DOMAIN c : d[i] = c[i] /\ c[i].at \in Nat /\ c[i].at <= t
  BY <1>1, <1>3 DEF Timed
<1>8. Timed(d, t)
  BY <1>1, <1>3, <1>5, <1>6 DEF Timed
<1>9. Admitted(d) = Admitted(c) \cup (IF x.admitted THEN {n} ELSE {}) /\ Admitted(c) \subseteq DOMAIN c
  BY <1>3, <1>5, <1>6 DEF Admitted
<1>10. IsFiniteSet(DOMAIN d) /\ IsFiniteSet(DOMAIN c)
  BY <1>1, <1>4, <1>5, FS_Interval
<1> QED
  BY <1>3, <1>4, <1>5, <1>6, <1>8, <1>9, <1>10

\* The counter goes on counting what it admits.
LEMMA CountGrows ==
  ASSUME NEW c, NEW t, Timed(c, t), NEW x \in [at : Nat, admitted : BOOLEAN], x.at = t,
         NEW d, d = Append(c, x),
         NEW k, Counted(k, c, t), NEW m, m = Incr(k, t), x.admitted <=> ~Exceeded(m)
  PROVE  /\ Counted(m, d, t) /\ t < m.expires
         /\ m \in [count : Nat \ {0}, expires : Nat]
<1> PICK n : n = Len(c) + 1
  OBVIOUS
<1>1. /\ Timed(d, t) /\ n \in Nat /\ t \in Nat
      /\ DOMAIN d = DOMAIN c \cup {n} /\ n \notin DOMAIN c
      /\ \A i \in DOMAIN c : d[i] = c[i] /\ c[i].at \in Nat /\ c[i].at <= t
      /\ d[n] = x
      /\ Admitted(d) = Admitted(c) \cup (IF x.admitted THEN {n} ELSE {})
      /\ Admitted(c) \subseteq DOMAIN c
      /\ IsFiniteSet(DOMAIN c)
  <2>1. /\ Timed(d, t) /\ n \in Nat /\ t \in Nat /\ DOMAIN c = 1 .. (n - 1) /\ DOMAIN d = 1 .. n
        /\ DOMAIN d = DOMAIN c \cup {n} /\ n \notin DOMAIN c /\ d[n] = x
    BY LogGrows
  <2>2. \A i \in DOMAIN c : d[i] = c[i] /\ c[i].at \in Nat /\ c[i].at <= t
    BY LogGrows
  <2>3. Admitted(d) = Admitted(c) \cup (IF x.admitted THEN {n} ELSE {})
    BY LogGrows
  <2>4. Admitted(c) \subseteq DOMAIN c /\ IsFiniteSet(DOMAIN c)
    BY LogGrows
  <2> QED
    BY <2>1, <2>2, <2>3, <2>4
<1>2. Limit \in Int /\ Window \in Nat \ {0} /\ Never \notin Int
  BY LimitAssumption
<1>3. \A from :
        /\ Recent(d, from) = Recent(c, from) \cup (IF x.admitted /\ from <= t THEN {n} ELSE {})
        /\ Recent(c, from) \subseteq Admitted(c)
  BY <1>1 DEF Recent
<1>4. \A S : S \subseteq DOMAIN c =>
        /\ IsFiniteSet(S) /\ Cardinality(S) \in Nat
        /\ Cardinality(S \cup {n}) = Cardinality(S) + 1
  BY <1>1, FS_Subset, FS_CardinalityType, FS_AddElement
<1>5. CASE k = NoKey \/ k.expires <= t
  <2>1. m = [count |-> 1, expires |-> t + Window]
    <3>1. CASE k = NoKey
      BY <3>1 DEF Incr, Purged, NoKey
    <3>2. CASE k # NoKey
      BY <1>2, <1>5, <3>2 DEF Incr, Purged, NoKey, Counted
    <3> QED
      BY <3>1, <3>2
  <2>2. m.count = 1 /\ m.expires = t + Window /\ m.expires - Window = t
        /\ m \in [count : Nat \ {0}, expires : Nat]
    BY <1>1, <1>2, <2>1
  <2>3. \A i \in DOMAIN c : c[i].at < t
    <3>1. CASE k = NoKey
      BY <1>2, <3>1 DEF Counted, NoKey
    <3>2. CASE k # NoKey
      BY <1>1, <1>2, <1>5, <3>2 DEF Counted
    <3> QED
      BY <3>1, <3>2
  <2>4. \A i \in DOMAIN d : d[i].at < m.expires
    BY <1>1, <1>2, <2>2, <2>3
  <2>5. ASSUME Limit > 0
        PROVE  /\ Cardinality(Recent(d, t)) = 1
               /\ \E i \in Recent(d, t) : d[i].at = t
               /\ Cardinality(Recent(d, t - Window + 1) \ Recent(d, t)) < Limit
    <3>1. x.admitted
      BY <1>2, <2>2, <2>5 DEF Exceeded
    <3>2. Recent(c, t) = {}
      BY <1>1, <2>3 DEF Recent
    <3>3. Recent(d, t) = {n}
      BY <1>1, <1>3, <3>1, <3>2
    <3>a. \E i \in Recent(d, t) : d[i].at = t
      BY <1>1, <3>3
    <3>4. Recent(d, t - Window + 1) \ Recent(d, t) = Recent(c, t - Window + 1)
      BY <1>1, <1>2, <1>3, <3>1, <3>3
    <3>5. Cardinality(Recent(c, t - Window + 1)) < Limit
      <4>1. CASE k = NoKey
        <5>1. c = <<>>
          BY <1>2, <4>1 DEF Counted, NoKey
        <5>2. Recent(c, t - Window + 1) = {}
          BY <5>1 DEF Recent, Admitted
        <5> QED
          BY <2>5, <1>2, <5>2, FS_EmptySet
      <4>2. CASE k # NoKey
        <5> PICK s : s = k.expires - Window
          OBVIOUS
        <5>1. /\ k.expires \in Nat /\ k.count \in Nat /\ s \in Nat /\ s + Window <= t
              /\ Cardinality(Recent(c, s)) = IF k.count <= Limit THEN k.count ELSE Limit
              /\ \E i \in Recent(c, s) : c[i].at = s
          BY <1>2, <1>5, <2>5, <4>2 DEF Counted
        <5> PICK i \in Recent(c, s) : c[i].at = s
          BY <5>1
        <5>2. Recent(c, t - Window + 1) \subseteq Recent(c, s) \ {i}
          BY ONLY <1>1, <1>2, <5>1, c[i].at = s DEF Recent
        <5>3. IsFiniteSet(Recent(c, s)) /\ Recent(c, s) \subseteq DOMAIN c
          BY <1>1, <1>3, <1>4, <5>1
        <5>4. /\ IsFiniteSet(Recent(c, s) \ {i})
              /\ Cardinality(Recent(c, s) \ {i}) = Cardinality(Recent(c, s)) - 1
          BY <5>3, FS_RemoveElement
        <5>5. Cardinality(Recent(c, t - Window + 1)) <= Cardinality(Recent(c, s) \ {i})
          BY <5>2, <5>4, FS_Subset
        <5>6. Recent(c, t - Window + 1) \subseteq DOMAIN c
          BY <5>2, <5>3
        <5>7. Cardinality(Recent(c, t - Window + 1)) \in Nat /\ Cardinality(Recent(c, s)) \in Nat
          BY <1>4, <5>3, <5>6
        <5> QED
          BY <1>2, <5>1, <5>4, <5>5, <5>7, SMTT(30)
      <4> QED
        BY <4>1, <4>2
    <3> QED
      BY <3>3, <3>a, <3>4, <3>5, FS_Singleton
  <2>6. Counted(m, d, t)
    <3>1. t - Window + 1 = m.expires - Window - Window + 1
      BY <1>1, <1>2, <2>2
    <3>2. Limit > 0 => 1 <= Limit
      BY <1>2
    <3>3. Limit > 0 => 1 = IF m.count <= Limit THEN m.count ELSE Limit
      BY <2>2, <3>2
    <3>4. m.expires - Window \in Nat /\ m.expires - Window <= t
      BY <1>1, <2>2
    <3>5. Limit > 0 =>
          /\ Cardinality(Recent(d, m.expires - Window)) = IF m.count <= Limit THEN m.count ELSE Limit
          /\ \E i \in Recent(d, m.expires - Window) : d[i].at = m.expires - Window
          /\ Cardinality(Recent(d, m.expires - Window - Window + 1)
                           \ Recent(d, m.expires - Window)) < Limit
      BY ONLY <2>2, <2>5, <3>1, <3>3
    <3> QED
      BY ONLY <2>2, <2>4, <3>4, <3>5 DEF Counted
  <2> QED
    BY <1>1, <1>2, <2>2, <2>6
<1>6. CASE k # NoKey /\ ~(k.expires <= t)
  <2> PICK s : s = k.expires - Window
    OBVIOUS
  <2>1. /\ k \in [count : Nat \ {0}, expires : Nat] /\ s \in Nat /\ s <= t /\ t < k.expires
        /\ \A i \in DOMAIN c : c[i].at < k.expires
        /\ Limit > 0 =>
          /\ Cardinality(Recent(c, s)) = IF k.count <= Limit THEN k.count ELSE Limit
          /\ \E i \in Recent(c, s) : c[i].at = s
          /\ Cardinality(Recent(c, s - Window + 1) \ Recent(c, s)) < Limit
    BY <1>1, <1>6 DEF Counted
  <2>2. m = [count |-> k.count + 1, expires |-> k.expires]
    BY <1>1, <1>2, <2>1 DEF Incr, Purged
  <2>3. /\ m.count = k.count + 1 /\ m.expires = k.expires
        /\ m \in [count : Nat \ {0}, expires : Nat]
    BY <2>1, <2>2
  <2>4. \A i \in DOMAIN d : d[i].at < m.expires
    BY <1>1, <2>1, <2>3
  <2>5. ASSUME Limit > 0
        PROVE  /\ Cardinality(Recent(d, s)) = IF m.count <= Limit THEN m.count ELSE Limit
               /\ \E i \in Recent(d, s) : d[i].at = s
               /\ Cardinality(Recent(d, s - Window + 1) \ Recent(d, s)) < Limit
    <3>1. /\ Recent(d, s) = Recent(c, s) \cup (IF x.admitted THEN {n} ELSE {})
          /\ Recent(d, s - Window + 1) = Recent(c, s - Window + 1) \cup (IF x.admitted THEN {n} ELSE {})
          /\ Recent(c, s) \subseteq DOMAIN c /\ Recent(c, s - Window + 1) \subseteq DOMAIN c
      BY <1>1, <1>2, <1>3, <2>1
    <3>2. Recent(d, s - Window + 1) \ Recent(d, s) = Recent(c, s - Window + 1) \ Recent(c, s)
      BY <1>1, <3>1
    <3>3. x.admitted <=> m.count <= Limit
      BY <1>2, <2>1, <2>3, <2>5 DEF Exceeded
    <3>4. Cardinality(Recent(d, s)) = Cardinality(Recent(c, s)) + (IF x.admitted THEN 1 ELSE 0)
      <4>1. CASE x.admitted
        BY <1>4, <3>1, <4>1
      <4>2. CASE ~x.admitted
        <5>1. Recent(d, s) = Recent(c, s)
          BY <3>1, <4>2
        <5>2. Cardinality(Recent(c, s)) \in Nat
          BY <1>4, <3>1
        <5> QED
          BY <4>2, <5>1, <5>2
      <4> QED
        BY <4>1, <4>2
    <3>5. Cardinality(Recent(d, s)) = IF m.count <= Limit THEN m.count ELSE Limit
      <4>1. /\ k.count \in Nat
            /\ Cardinality(Recent(c, s)) = IF k.count <= Limit THEN k.count ELSE Limit
        BY <2>1, <2>5
      <4> QED
        BY ONLY <1>2, <2>3, <3>3, <3>4, <4>1
    <3>6. \E i \in Recent(d, s) : d[i].at = s
      BY <1>1, <2>1, <2>5, <3>1
    <3> QED
      BY <2>1, <2>5, <3>2, <3>5, <3>6
  <2>6. Counted(m, d, t)
    BY <1>1, <2>1, <2>3, <2>4, <2>5 DEF Counted
  <2> QED
    BY <2>1, <2>3, <2>6
<1> QED
  BY <1>5, <1>6

\* A window that reaches the present holds less than a count before the counter's first call and
\* at most a count since; any other window had its calls before.
LEMMA LimitGrows ==
  ASSUME NEW c, NEW t, Timed(c, t), NEW x \in [at : Nat, admitted : BOOLEAN], x.at = t,
         NEW d, d = Append(c, x),
         NEW m \in [count : Nat \ {0}, expires : Nat], Counted(m, d, t), t < m.expires,
         x.admitted <=> ~Exceeded(m), LessThanTwice(c), RefusedForCause(c)
  PROVE  LessThanTwice(d) /\ RefusedForCause(d)
<1> PICK n : n = Len(c) + 1
  OBVIOUS
<1> PICK s : s = m.expires - Window
  OBVIOUS
<1>1. /\ Timed(d, t) /\ n \in Nat /\ t \in Nat /\ DOMAIN c = 1 .. (n - 1) /\ DOMAIN d = 1 .. n
      /\ DOMAIN d = DOMAIN c \cup {n} /\ n \notin DOMAIN c
      /\ \A i \in DOMAIN c : d[i] = c[i] /\ c[i].at \in Nat /\ c[i].at <= t
      /\ d[n] = x
      /\ Admitted(d) = Admitted(c) \cup (IF x.admitted THEN {n} ELSE {})
      /\ Admitted(c) \subseteq DOMAIN c
      /\ IsFiniteSet(DOMAIN d)
  <2>1. /\ Timed(d, t) /\ n \in Nat /\ t \in Nat /\ DOMAIN c = 1 .. (n - 1) /\ DOMAIN d = 1 .. n
        /\ DOMAIN d = DOMAIN c \cup {n} /\ n \notin DOMAIN c /\ d[n] = x
    BY LogGrows, SMTT(30)
  <2>2. \A i \in DOMAIN c : d[i] = c[i] /\ c[i].at \in Nat /\ c[i].at <= t
    BY LogGrows, SMTT(30)
  <2>3. Admitted(d) = Admitted(c) \cup (IF x.admitted THEN {n} ELSE {})
    BY LogGrows
  <2>4. Admitted(c) \subseteq DOMAIN c /\ IsFiniteSet(DOMAIN d)
    BY LogGrows
  <2> QED
    BY <2>1, <2>2, <2>3, <2>4
<1>2. Limit \in Int /\ Window \in Nat \ {0} /\ Never \notin Int
  BY LimitAssumption
<1>a. \A i \in DOMAIN d : d[i].at \in Nat /\ d[i].at <= t
  BY <1>1
<1>3. /\ s \in Nat /\ s <= t /\ t < s + Window
      /\ Limit > 0 =>
          /\ Cardinality(Recent(d, s)) = IF m.count <= Limit THEN m.count ELSE Limit
          /\ Cardinality(Recent(d, s - Window + 1) \ Recent(d, s)) < Limit
  BY <1>1, <1>2 DEF Counted, NoKey
<1>4. \A S : S \subseteq DOMAIN d => IsFiniteSet(S) /\ Cardinality(S) \in Nat
  BY <1>1, FS_Subset, FS_CardinalityType
<1>5. \A from : Recent(d, from) \subseteq DOMAIN d
  BY <1>1 DEF Recent
<1>6. Limit > 0 => /\ Cardinality(Recent(d, s)) <= Limit
                   /\ m.count > Limit => Cardinality(Recent(d, s)) = Limit
  BY <1>2, <1>3
<1>7. ASSUME Limit > 0, NEW i \in DOMAIN d
      PROVE  Cardinality(Admitted(d) \cap Within(d, d[i].at, d[i].at + Window)) < 2 * Limit
  <2> PICK W : W = Admitted(d) \cap Within(d, d[i].at, d[i].at + Window)
    OBVIOUS
  <2>1. W \subseteq DOMAIN d /\ Cardinality(W) \in Nat
    BY <1>1, <1>4
  <2>2. CASE d[i].at >= s
    <3>1. W \subseteq Recent(d, s)
      BY <1>a, <1>2, <1>3, <2>2, SMTT(30) DEF Recent, Within
    <3>2. Cardinality(W) <= Cardinality(Recent(d, s))
      BY <1>4, <1>5, <3>1, FS_Subset
    <3>3. Cardinality(Recent(d, s)) \in Nat
      BY <1>4, <1>5
    <3> QED
      BY ONLY <1>2, <1>6, <1>7, <2>1, <3>2, <3>3,
              W = Admitted(d) \cap Within(d, d[i].at, d[i].at + Window)
  <2>3. CASE d[i].at < s /\ t < d[i].at + Window
    <3> PICK A : A = Recent(d, s)
      OBVIOUS
    <3> PICK B : B = Recent(d, s - Window + 1) \ Recent(d, s)
      OBVIOUS
    <3>1. W \subseteq A \cup B
      <4> SUFFICES ASSUME NEW e \in W
                   PROVE  e \in A \cup B
        OBVIOUS
      <4>1. /\ e \in Admitted(d) /\ e \in DOMAIN d
            /\ d[i].at <= d[e].at /\ d[e].at \in Nat /\ d[i].at \in Nat
        BY <1>a DEF Within
      <4>2. s - Window + 1 <= d[e].at
        BY ONLY <1>1, <1>2, <1>3, <2>3, <4>1, SMTT(30)
      <4> QED
        BY <4>1, <4>2 DEF Recent
    <3>2. A \subseteq DOMAIN d /\ B \subseteq DOMAIN d /\ A \cup B \subseteq DOMAIN d
      BY <1>5
    <3>3. /\ IsFiniteSet(A) /\ IsFiniteSet(B) /\ IsFiniteSet(A \cup B)
          /\ Cardinality(A) \in Nat /\ Cardinality(B) \in Nat /\ Cardinality(A \cup B) \in Nat
          /\ Cardinality(A \cap B) \in Nat
      BY <1>4, <3>2
    <3>4. Cardinality(W) <= Cardinality(A \cup B)
      BY <3>1, <3>3, FS_Subset
    <3>5. Cardinality(A \cup B) = Cardinality(A) + Cardinality(B) - Cardinality(A \cap B)
      BY <3>3, FS_Union, SMTT(30)
    <3>6. Cardinality(A) <= Limit /\ Cardinality(B) < Limit
      BY <1>3, <1>6, <1>7
    <3> QED
      BY ONLY <1>2, <2>1, <3>3, <3>4, <3>5, <3>6, W = Admitted(d) \cap Within(d, d[i].at, d[i].at + Window)
  <2>4. CASE d[i].at + Window <= t
    <3>1. i \in DOMAIN c
      BY <1>1, <1>2, <2>4
    <3>2. W = Admitted(c) \cap Within(c, c[i].at, c[i].at + Window)
      BY <1>1, <1>2, <2>4, <3>1, SMTT(30) DEF Within
    <3> QED
      BY <1>7, <3>1, <3>2 DEF LessThanTwice
  <2>5. d[i].at \in Nat
    BY <1>a
  <2>6. d[i].at >= s \/ (d[i].at < s /\ t < d[i].at + Window) \/ d[i].at + Window <= t
    BY <1>1, <1>2, <1>3, <2>5, SMTT(30)
  <2> QED
    BY <2>2, <2>3, <2>4, <2>6
<1>8. ASSUME NEW i \in DOMAIN d \ Admitted(d)
      PROVE  Cardinality(Admitted(d) \cap Within(d, d[i].at - Window + 1, d[i].at + 1)
                           \cap 1 .. i) >= Limit
  <2> PICK W : W = Admitted(d) \cap Within(d, d[i].at - Window + 1, d[i].at + 1) \cap 1 .. i
    OBVIOUS
  <2>1. CASE i \in DOMAIN c
    <3>1. W = Admitted(c) \cap Within(c, c[i].at - Window + 1, c[i].at + 1) \cap 1 .. i
      <4>1. \A e \in 1 .. i : e \in DOMAIN c /\ e # n /\ e \in DOMAIN d
        BY <1>1, <2>1
      <4> QED
        BY <1>1, <2>1, <4>1 DEF Within
    <3>2. i \in DOMAIN c \ Admitted(c)
      BY <1>1, <2>1
    <3> QED
      BY <3>1, <3>2 DEF RefusedForCause
  <2>2. CASE i = n
    <3>1. ~x.admitted
      BY <1>1, <2>2, <1>8
    <3>2. Limit > 0 /\ m.count > Limit
      BY <3>1 DEF Exceeded
    <3>3. Recent(d, s) \subseteq W
      BY <1>1, <1>2, <1>3, <2>2 DEF Recent, Within, Admitted
    <3>4. W \subseteq DOMAIN d
      BY <1>1, <2>2
    <3>5. Cardinality(Recent(d, s)) <= Cardinality(W)
      BY <1>4, <3>3, <3>4, FS_Subset
    <3>6. Cardinality(W) \in Nat
      BY <1>4, <3>4
    <3> QED
      BY <1>2, <1>6, <3>2, <3>5, <3>6
  <2> QED
    BY <1>1, <2>1, <2>2
<1> QED
  BY <1>7, <1>8 DEF LessThanTwice, RefusedForCause

\* What a served refresh does to the counter and its log.
LEMMA ServedCalls ==
  ASSUME NEW p \in Requests, RInv,
         ServeLimited(p) \/ ServeRotated(p) \/ ServeReused(p)
  PROVE  RInv'
<1>2. Timed(calls, now) /\ now \in Nat
  BY DEF RInv, Timed
<1>1. PICK x \in [at : Nat, admitted : BOOLEAN] :
        /\ x.at = now /\ (x.admitted <=> ~Exceeded(key')) /\ key' = Incr(key, now)
        /\ calls' = Append(calls, x) /\ now' = now /\ torn' = torn
  <2>1. CASE ServeLimited(p)
    BY <1>2, <2>1 DEF ServeLimited, Count, Untouched
  <2>2. CASE ServeRotated(p) \/ ServeReused(p)
    BY <1>2, <2>2 DEF ServeRotated, ServeReused, Count, Untouched
  <2> QED
    BY <2>1, <2>2
<1>3. Timed(calls', now)
  BY <1>1, <1>2, LogGrows
<1>4. ASSUME ~torn
      PROVE  Counted(key', calls', now) /\ LessThanTwice(calls') /\ RefusedForCause(calls')
  <2>1. Counted(key, calls, now) /\ LessThanTwice(calls) /\ RefusedForCause(calls)
    BY <1>4 DEF RInv
  <2>2. /\ Counted(key', calls', now) /\ now < key'.expires
        /\ key' \in [count : Nat \ {0}, expires : Nat]
    BY <1>1, <1>2, <2>1, CountGrows
  <2> QED
    BY <1>1, <1>2, <2>1, <2>2, LimitGrows
<1>5. Timed(calls, now)'
  BY <1>1, <1>3 DEF Timed
<1>6. ASSUME ~torn'
      PROVE  (Counted(key, calls, now) /\ LessThanTwice(calls) /\ RefusedForCause(calls))'
  BY <1>1, <1>4, <1>6
     DEF Counted, LessThanTwice, RefusedForCause, Recent, Admitted, Within, NoKey
<1> QED
  BY <1>5, <1>6 DEF RInv

\* Nothing else counts, and time only makes the calls older.
LEMMA OtherCalls ==
  ASSUME RInv, Timed(calls, now)', UNCHANGED <<key, calls, torn>>, now <= now', now' \in Nat
  PROVE  RInv'
<1>1. ~torn => Counted(key, calls, now)'
  BY DEF RInv, Counted, Recent, Admitted, Timed, NoKey
<1>2. ~torn => (LessThanTwice(calls) /\ RefusedForCause(calls))'
  BY DEF RInv, LessThanTwice, RefusedForCause, Admitted, Within
<1> QED
  BY <1>1, <1>2 DEF RInv

LEMMA StepCounts ==
  ASSUME RInv, [Next]_vars
  PROVE  RInv'
<1>1. ASSUME NEW p \in Requests, ServeLimited(p) \/ ServeRotated(p) \/ ServeReused(p)
      PROVE  RInv'
  BY <1>1, ServedCalls
<1>2. ASSUME NEW p \in Requests, ServeTorn(p)
      PROVE  RInv'
  <2>1. torn' /\ UNCHANGED <<calls, now>>
    BY <1>2 DEF ServeTorn, Untouched
  <2> QED
    BY <2>1 DEF RInv, Timed
<1>3. CASE Tick
  <2>1. Timed(calls, now)' /\ now <= now' /\ now' \in Nat
    BY <1>3 DEF Tick, RInv, Timed
  <2> QED
    BY <1>3, <2>1, OtherCalls DEF Tick
<1>4. CASE UNCHANGED limiter
  <2>1. /\ UNCHANGED <<key, calls, torn, now>>
        /\ Timed(calls, now)' /\ now <= now' /\ now' \in Nat
    BY <1>4 DEF limiter, RInv, Timed
  <2> QED
    BY <2>1, OtherCalls
<1>5. ASSUME NEW t \in Tabs, SignIn(t) \/ SignOut(t) \/ ServeSignOut(t) \/ SignedOut(t) \/ Reload(t)
      PROVE  UNCHANGED limiter
  BY <1>5 DEF SignIn, SignOut, ServeSignOut, SignedOut, Reload, limiter
<1>6. ASSUME NEW p \in Requests,
             \/ (\E t \in Tabs : Send(p, t)) \/ Succeed(p) \/ FailAgain(p)
             \/ Join(p) \/ StartRefresh(p) \/ NothingToRefresh(p)
             \/ Refreshed(p) \/ RefreshFailed(p)
      PROVE  UNCHANGED limiter
  BY <1>6 DEF Send, Succeed, FailAgain, Join, StartRefresh, NothingToRefresh, Refreshed,
              RefreshFailed, limiter
<1>7. ASSUME Revoke \/ (\E j \in InUse : Expire(j)) \/ UNCHANGED vars
      PROVE  UNCHANGED limiter
  BY <1>7 DEF Revoke, Expire, vars, limiter
<1> QED
  BY <1>1, <1>2, <1>3, <1>4, <1>5, <1>6, <1>7 DEF Next

\* As long as no increment of the counter was torn, any minute admits less than twice the limit
\* of refreshes, and a refresh is refused only after a full count within the last minute: for
\* any limit, window and number of calls.
THEOREM AlwaysLimited == Spec => []RefreshesLimited
<1>1. Init => RInv
  <2> SUFFICES ASSUME Init PROVE RInv
    OBVIOUS
  <2>1. calls = <<>> /\ key = NoKey /\ now = 0 /\ Admitted(calls) = {} /\ DOMAIN calls = {}
    BY DEF Init, Admitted
  <2>2. Timed(calls, now)
    BY <2>1, EmptySeq DEF Timed
  <2> QED
    BY <2>1, <2>2 DEF RInv, Counted, LessThanTwice, RefusedForCause
<1>2. RInv => RefreshesLimited
  BY DEF RInv, RefreshesLimited
<1> QED
  BY <1>1, <1>2, StepCounts, PTL DEF Spec
=============================================================================
