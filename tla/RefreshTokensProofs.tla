------------------------- MODULE RefreshTokensProofs -------------------------
(* Proofs about RefreshTokens, for any number of requests, tokens and        *)
(* failures: the store settles in every interleaving (SettledNotDenied), and *)
(* while requests come one after another a session that was ended stays      *)
(* ended and one that nobody ended goes on.                                  *)
EXTENDS RefreshTokens, SequenceTheorems, TLAPS

-----------------------------------------------------------------------------
(* The inductive invariant.                                                  *)

\* The types of the variables.
Typed ==
  /\ active \in [Jtis -> Jtis \cup {Null}]
  /\ denied \subseteq Minted /\ families \subseteq Minted /\ held \subseteq Minted
  /\ ended \subseteq Minted /\ faulted \subseteq Minted
  /\ family \in Seq(Jtis) /\ Len(family) <= MaxTokens
  /\ \A j \in Minted : family[j] \in Minted
  /\ req \in [Requests -> Calls \cup {Null}]
  /\ latest \in [Jtis -> Jtis \cup {Null}]
  /\ overlapped \in BOOLEAN /\ is_active \in BOOLEAN

\* The active token of a family belongs to it.
ActiveIsOfFamily ==
  \A f \in Jtis : active[f] # Null => active[f] \in Minted /\ family[active[f]] = f

Updates == {"deactivate", "change_role"}
Presenting == {"get_denied", "get_active", "set_denied"}
Revoking == {"revoke_get", "revoke_deny", "revoke_delete"}
Registered == {"read_families", "set_families", "respond"}

\* What a request is for decides the steps it can take.
Way(r) ==
  /\ r.at \in {"get_denied", "get_active"} => r.for = "refresh"
  /\ r.at = "set_denied" => r.for \in {"refresh", "logout"}
  /\ r.at = "compare_active" => r.for = "logout"
  /\ r.at = "delete_active" => r.for \in {"refresh", "logout"}
  /\ r.at \in {"set_active"} \cup Registered => r.for \in {"login", "refresh"}
  /\ r.at \in Revoking => r.for \in {"refresh"} \cup Updates
  /\ r.at \in {"get_families", "delete_families", "commit"} => r.for \in Updates

\* What a request at its step holds, whatever the others do.
Carries(r) ==
  /\ Way(r)
  /\ r.for \in {"refresh", "logout"} =>
       r.jti \in held /\ r.family = family[r.jti] /\ r.ends \subseteq {r.family}
  /\ r.at \in Registered => r.new \in Minted /\ r.family = family[r.new]
  /\ r.at = "revoke_deny" => r.seen \in Minted /\ family[r.seen] = r.family
  /\ r.index \subseteq Minted
  /\ r.family # Null => r.family \in Minted
  /\ r.at \in Revoking => r.family # Null
  /\ r.left \subseteq Minted /\ r.ends \subseteq Minted
  /\ r.for = "login" => r.ends = {}

\* p is about to remove the active key of family f.
Removing(p, f) ==
  /\ req[p] # Null /\ req[p].family = f
  /\ \/ req[p].at \in {"delete_active", "revoke_delete"}
     \/ req[p].at = "compare_active" /\ req[p].jti = active[f]

\* A denied token is the active one only while a request is about to remove it.
DenialsRemoved ==
  \A f \in Jtis \ faulted :
    active[f] # Null /\ active[f] \in denied => \E p \in Requests : Removing(p, f)

\* One request at a time.
Alone == \A p, q \in InProgress : p = q

\* The invariant of all interleavings.
IInv ==
  /\ Typed /\ ActiveIsOfFamily
  /\ \A p \in InProgress : Carries(req[p])
  /\ DenialsRemoved
  /\ ~overlapped => Alone

-----------------------------------------------------------------------------
(* Requests one after another.                                               *)

\* What a refresh knows when no other request interferes.
RefreshKnows(r) ==
  /\ r.at \in Presenting => (r.ends = {} <=> active[r.family] = r.jti)
  /\ r.at = "set_denied" => r.ends = {}
  /\ r.at \in Revoking => r.ends # {} \/ r.family \in faulted
  /\ r.at \in {"delete_active", "set_active"} =>
       r.ends = {} /\ r.family \in families \ ended
\* What a sign-out knows.
LogoutKnows(r) ==
  /\ r.at \in {"set_denied", "compare_active"} => (r.ends # {} <=> active[r.family] = r.jti)
  /\ r.at = "delete_active" => r.ends # {}
\* What a revocation of all sessions knows: what is still active it has yet to visit.
UpdateKnows(r) ==
  /\ r.ends = {family[j] : j \in held}
  /\ r.at \in Revoking => \A f \in families : active[f] # Null => f \in r.left \cup {r.family}
  /\ r.at = "delete_families" => \A f \in families : active[f] = Null
  /\ r.at = "commit" => \A j \in held : active[family[j]] = Null
\* What a request that has registered a token knows.
RegisteredKnows(r) ==
  /\ active[r.family] = r.new /\ r.new \notin denied /\ r.ends = {}
  /\ r.at = "set_families" => r.index = families
  /\ r.at = "respond" => r.family \in families
Knows(r) ==
  /\ r.for = "refresh" => RefreshKnows(r)
  /\ r.for = "logout" => LogoutKnows(r)
  /\ r.for \in Updates => UpdateKnows(r)
  /\ r.at \in Registered => RegisteredKnows(r)

\* A session that was ended has no active key.
EndedAreGone == \A f \in ended : active[f] = Null
\* The index names every session a client can go on with.
HeldAreIndexed == \A j \in held : active[family[j]] # Null => family[j] \in families

\* a refresh that is replacing the last token of family f
Replacing(r, f) ==
  /\ r.for = "refresh" /\ r.family = f
  /\ r.at \in {"delete_active", "set_active"} \cup Registered
\* The last token of a session that nobody ended or is ending is good, or being replaced.
LastIsGood ==
  \A j \in held :
    latest[family[j]] = j /\ family[j] \notin ended \cup faulted =>
      \/ active[family[j]] = j /\ j \notin denied
      \/ \E p \in InProgress : family[j] \in req[p].ends \/ Replacing(req[p], family[j])

Serial ==
  /\ \A p \in InProgress : Knows(req[p])
  /\ EndedAreGone /\ HeldAreIndexed /\ LastIsGood
SInv == ~overlapped => Serial

-----------------------------------------------------------------------------
(* The steps, one by one.                                                    *)

\* A request that begins.
Begins(p) ==
  \/ Login(p) \/ \E j \in held : Refresh(p, j) \/ Logout(p, j)
  \/ UpdateUser(p, "deactivate") \/ UpdateUser(p, "change_role")

LEMMA StepCases ==
  ASSUME [Next]_vars
  PROVE  UNCHANGED vars \/ Reactivate \/ \E p \in Requests : Begins(p) \/ Step(p)
BY DEF Next, Begins

LEMMA StepOf ==
  ASSUME NEW p, Step(p)
  PROVE  req[p] # Null
BY DEF Step, GetDenied, GetActive, SetDenied, CompareActive, DeleteActive, SetActive, ReadFamilies,
       SetFamilies, Respond, GetFamilies, RevokeGet, RevokeDeny, RevokeDelete, DeleteFamilies,
       Commit, Fail, At

LEMMA BeginsFrame ==
  ASSUME NEW p, Begins(p)
  PROVE  UNCHANGED <<store, is_active, family, held, history>>
BY DEF Begins, Login, Refresh, Logout, UpdateUser, Begin

\* No step but SetActive registers a token, and no step but Respond hands one out.
LEMMA OnlySetActive ==
  ASSUME NEW p, Step(p)
  PROVE  UNCHANGED family \/ SetActive(p)
BY DEF Step, Rest, Done, GetDenied, GetActive, SetDenied, CompareActive, DeleteActive,
       ReadFamilies, SetFamilies, Respond, GetFamilies, RevokeGet, RevokeDeny, RevokeDelete,
       DeleteFamilies, Commit, Fail

LEMMA OnlyRespond ==
  ASSUME NEW p, Step(p)
  PROVE  UNCHANGED <<held, latest>> \/ Respond(p)
<1>1. Step(p) => UNCHANGED held \/ Respond(p)
  BY DEF Step, Rest, GetDenied, GetActive, SetDenied, CompareActive, DeleteActive, SetActive,
         ReadFamilies, SetFamilies, GetFamilies, RevokeGet, RevokeDeny, RevokeDelete,
         DeleteFamilies, Commit, Fail
<1>2. Step(p) => UNCHANGED latest \/ Respond(p)
  BY DEF Step, Rest, history, Done, GetDenied, GetActive, SetDenied, CompareActive, DeleteActive,
         SetActive, ReadFamilies, SetFamilies, GetFamilies, RevokeGet, RevokeDeny, RevokeDelete,
         DeleteFamilies, Commit, Fail
<1> QED
  BY <1>1, <1>2

\* What SetActive appends.
LEMMA Registers ==
  ASSUME Typed, NEW p \in Requests, SetActive(p), Carries(req[p])
  PROVE  LET j == Len(family) + 1
         IN  /\ j \in Jtis /\ j \notin Minted /\ Minted' = Minted \cup {j}
             /\ family' \in Seq(Jtis) /\ Len(family') <= MaxTokens
             /\ \A i \in Minted : family'[i] = family[i]
             /\ family'[j] = IF req[p].for = "login" THEN j ELSE req[p].family
             /\ family'[j] \in Minted'
             /\ req[p].for # "login" => req[p].family \in Minted
<1> DEFINE j == Len(family) + 1
           f == IF req[p].for = "login" THEN j ELSE req[p].family
<1>1. /\ family \in Seq(Jtis) /\ Len(family) \in Nat /\ MaxTokens \in Nat /\ j <= MaxTokens
      /\ family' = Append(family, f)
  BY BoundsAssumption, LenProperties DEF Typed, SetActive
<1>2. Minted = 1 .. Len(family)
  BY <1>1, LenProperties DEF Minted
<1>3. j \in Jtis /\ j \notin Minted
  BY <1>1, <1>2 DEF Jtis
<1>4. req[p].for # "login" => req[p].family \in Minted
  BY DEF Typed, Carries, Way, SetActive, At
<1>5. f \in Jtis /\ f \in Minted \cup {j}
  BY <1>1, <1>2, <1>3, <1>4 DEF Jtis
<1>6. /\ family' \in Seq(Jtis) /\ Len(family') = j
      /\ \A i \in 1 .. Len(family) : family'[i] = family[i]
      /\ family'[j] = f
  BY <1>1, <1>5, AppendProperties
<1>7. Minted' = 1 .. j
  BY <1>6, LenProperties DEF Minted
<1>8. Minted' = Minted \cup {j}
  BY <1>1, <1>2, <1>7
<1> QED
  BY <1>1, <1>2, <1>3, <1>4, <1>5, <1>6, <1>8

\* Tokens stay registered, with their family.
LEMMA FamiliesStay ==
  ASSUME Typed, \A p \in InProgress : Carries(req[p]), [Next]_vars
  PROVE  Minted \subseteq Minted' /\ \A j \in Minted : family'[j] = family[j]
<1>1. CASE UNCHANGED family
  BY <1>1 DEF Minted
<1>2. ASSUME NEW p \in Requests, SetActive(p)
      PROVE  Minted \subseteq Minted' /\ \A j \in Minted : family'[j] = family[j]
  <2>1. Carries(req[p])
    BY <1>2 DEF InProgress, SetActive, At
  <2> QED
    BY <1>2, <2>1, Registers
<1>3. UNCHANGED vars \/ Reactivate => UNCHANGED family
  BY DEF vars, Reactivate
<1> QED
  BY <1>1, <1>2, <1>3, StepCases, BeginsFrame, OnlySetActive

-----------------------------------------------------------------------------
(* The types.                                                                *)

\* A token or a family that exists is one of the possible ones.
LEMMA MintedAreJtis ==
  ASSUME Typed
  PROVE  Minted \subseteq Jtis
<1>1. family \in Seq(Jtis) /\ Len(family) \in Nat /\ MaxTokens \in Nat /\ Len(family) <= MaxTokens
  BY BoundsAssumption, LenProperties DEF Typed
<1> QED
  BY <1>1, LenProperties DEF Minted, Jtis

\* The record of a request that begins.
LEMMA BeginTyped ==
  ASSUME Typed, NEW p \in Requests,
         NEW for \in {"login", "refresh", "logout", "deactivate", "change_role"},
         NEW at \in {"set_active", "get_denied", "set_denied", "get_families"},
         NEW jti \in Minted \cup {Null}, NEW ends \in SUBSET Minted,
         Begin(p, for, at, jti, ends)
  PROVE  /\ req'[p] \in Calls
         /\ req' \in [Requests -> Calls \cup {Null}] /\ overlapped' \in BOOLEAN
<1>0. Minted \subseteq Jtis /\ Jtis \cap {Null} = {}
  BY MintedAreJtis, NullAssumption DEF Jtis
<1>1. (IF jti = Null THEN Null ELSE family[jti]) \in Jtis \cup {Null}
  BY <1>0 DEF Typed
<1>2. [for |-> for, at |-> at, jti |-> jti, family |-> IF jti = Null THEN Null ELSE family[jti],
       seen |-> Null, index |-> {}, left |-> {}, ends |-> ends, new |-> Null, was |-> is_active]
      \in Calls
  BY <1>0, <1>1 DEF Calls, Typed
<1>3. req \in [Requests -> Calls \cup {Null}] /\ overlapped \in BOOLEAN
  BY DEF Typed
<1> QED
  BY <1>2, <1>3 DEF Begin

LEMMA BeginsTyped ==
  ASSUME Typed, NEW p \in Requests, Begins(p)
  PROVE  Typed'
<1>0. Minted \subseteq Jtis /\ Jtis \cap {Null} = {}
  BY MintedAreJtis, NullAssumption DEF Jtis
<1>f. UNCHANGED <<active, denied, families, held, ended, faulted, family, latest>>
  BY BeginsFrame DEF store, history
<1>m. Minted' = Minted
  BY <1>f DEF Minted
<1>2. req' \in [Requests -> Calls \cup {Null}] /\ overlapped' \in BOOLEAN
  <2>1. CASE Login(p)
    BY BeginTyped, <2>1 DEF Login
  <2>2. ASSUME NEW j \in held, Refresh(p, j) \/ Logout(p, j)
        PROVE  req' \in [Requests -> Calls \cup {Null}] /\ overlapped' \in BOOLEAN
    <3>1. j \in Minted /\ family[j] \in Minted
      BY DEF Typed
    <3>2. \E ends \in SUBSET Minted, for \in {"refresh", "logout"},
             at \in {"get_denied", "set_denied"} : Begin(p, for, at, j, ends)
      BY <2>2, <3>1 DEF Refresh, Logout
    <3> QED
      BY BeginTyped, <3>1, <3>2
  <2>3. {family[j] : j \in held} \in SUBSET Minted
    BY DEF Typed
  <2>4. UpdateUser(p, "deactivate") \/ UpdateUser(p, "change_role") =>
          req' \in [Requests -> Calls \cup {Null}] /\ overlapped' \in BOOLEAN
    BY BeginTyped, <2>3 DEF UpdateUser
  <2> QED
    BY <2>1, <2>2, <2>4 DEF Begins
<1>3. is_active' \in BOOLEAN
  BY BeginsFrame DEF Typed
<1> QED
  BY <1>2, <1>3, <1>f, <1>m DEF Typed

LEMMA SetActiveTyped ==
  ASSUME Typed, NEW p \in Requests, SetActive(p), Carries(req[p])
  PROVE  Typed'
<1> DEFINE j == Len(family) + 1
           f == IF req[p].for = "login" THEN j ELSE req[p].family
<1>1. /\ j \in Jtis /\ Minted' = Minted \cup {j}
      /\ family' \in Seq(Jtis) /\ Len(family') <= MaxTokens
      /\ \A i \in Minted : family'[i] = family[i]
      /\ family'[j] = f /\ f \in Minted'
  BY Registers
<1>2. /\ active' = [active EXCEPT ![f] = j]
      /\ req' = [req EXCEPT ![p].at = "read_families", ![p].family = f, ![p].new = j]
      /\ UNCHANGED <<denied, families, is_active, held, latest, overlapped, ended, faulted>>
      /\ req[p] # Null
  BY DEF SetActive, history, bounds, At
<1>3. f \in Jtis
  BY <1>1, MintedAreJtis
<1> HIDE DEF j, f
<1>4. active' \in [Jtis -> Jtis \cup {Null}]
  BY <1>1, <1>2, <1>3 DEF Typed
<1>5. req' \in [Requests -> Calls \cup {Null}]
  <2>1. req[p] \in Calls
    BY <1>2 DEF Typed
  <2>2. [req[p] EXCEPT !.at = "read_families", !.family = f, !.new = j] \in Calls
    BY <1>1, <1>3, <2>1 DEF Calls
  <2> QED
    BY <1>2, <2>2 DEF Typed
<1>6. \A i \in Minted' : family'[i] \in Minted'
  BY <1>1 DEF Typed
<1> QED
  BY <1>1, <1>2, <1>4, <1>5, <1>6 DEF Typed

\* A request that goes on is still a request.
LEMMA StepRequestTyped ==
  ASSUME Typed, NEW p \in Requests, Step(p), ~SetActive(p), Carries(req[p])
  PROVE  /\ req' \in [Requests -> Calls \cup {Null}]
         /\ \A q \in Requests \ {p} : req'[q] = req[q]
<1>0. req[p] \in Calls /\ Null \in Calls \cup {Null}
  BY StepOf DEF Typed
<1>1. Minted \subseteq Jtis /\ families \subseteq Jtis /\ active \in [Jtis -> Jtis \cup {Null}]
      /\ req \in [Requests -> Calls \cup {Null}]
  BY MintedAreJtis DEF Typed
<1>2. ASSUME NEW r \in Calls \cup {Null}, req' = [req EXCEPT ![p] = r]
      PROVE  /\ req' \in [Requests -> Calls \cup {Null}]
             /\ \A q \in Requests \ {p} : req'[q] = req[q]
  BY <1>1, <1>2
<1>3. ASSUME NEW at \in {"get_active", "set_denied", "compare_active", "delete_active",
         "set_active", "set_families", "respond",
         "revoke_get", "revoke_deny", "revoke_delete", "delete_families", "commit"}
      PROVE  [req[p] EXCEPT !.at = at] \in Calls
  BY <1>0 DEF Calls
<1>4. GetDenied(p) \/ GetActive(p) \/ SetDenied(p) \/ CompareActive(p) \/ DeleteActive(p)
      => \E r \in Calls \cup {Null} : req' = [req EXCEPT ![p] = r]
  BY <1>0, <1>3 DEF GetDenied, GetActive, SetDenied, CompareActive, DeleteActive, Goto, Done
<1>5. SetFamilies(p) \/ RevokeDeny(p) \/ DeleteFamilies(p) \/ Commit(p) \/ Fail(p) \/ Respond(p)
      => \E r \in Calls \cup {Null} : req' = [req EXCEPT ![p] = r]
  BY <1>0, <1>3 DEF SetFamilies, RevokeDeny, DeleteFamilies, Commit, Fail, Respond, Goto, Done
<1>6. CASE ReadFamilies(p)
  <2>1. [req[p] EXCEPT !.at = "set_families", !.index = families] \in Calls
    BY <1>0, <1>1 DEF Calls
  <2> QED
    BY <1>2, <1>6, <2>1 DEF ReadFamilies
<1>7. CASE GetFamilies(p)
  <2>1. ASSUME NEW f \in families
        PROVE  [req[p] EXCEPT !.at = "revoke_get", !.family = f, !.left = families \ {f}] \in Calls
    BY <1>0, <1>1 DEF Calls
  <2>2. CASE families = {} /\ Goto(p, "commit")
    BY <1>2, <1>3, <2>2 DEF Goto
  <2>3. ASSUME NEW f \in families, req' = [req EXCEPT ![p].at = "revoke_get", ![p].family = f,
                                                     ![p].left = families \ {f}]
        PROVE  \E r \in Calls \cup {Null} : req' = [req EXCEPT ![p] = r]
    BY <2>1, <2>3
  <2> QED
    BY <1>2, <1>7, <2>2, <2>3 DEF GetFamilies
<1>8. CASE RevokeGet(p)
  <2>1. active[req[p].family] \in Jtis \cup {Null}
    BY <1>1, <1>8 DEF Carries, RevokeGet, Revoking, At
  <2>2. ASSUME NEW at \in {"revoke_delete", "revoke_deny"}
        PROVE  [req[p] EXCEPT !.seen = active[req[p].family], !.at = at] \in Calls
    BY <1>0, <2>1 DEF Calls
  <2> QED
    BY <1>2, <1>8, <2>2 DEF RevokeGet
<1>9. CASE RevokeDelete(p)
  <2>1. ASSUME NEW f \in req[p].left
        PROVE  [req[p] EXCEPT !.at = "revoke_get", !.family = f, !.left = @ \ {f}] \in Calls
    BY <1>0 DEF Calls
  <2>2. CASE Goto(p, "delete_families") \/ Done(p)
    BY <1>0, <1>2, <1>3, <2>2 DEF Goto, Done
  <2>3. ASSUME NEW f \in req[p].left, req' = [req EXCEPT ![p].at = "revoke_get", ![p].family = f,
                                                        ![p].left = @ \ {f}]
        PROVE  \E r \in Calls \cup {Null} : req' = [req EXCEPT ![p] = r]
    BY <2>1, <2>3
  <2> QED
    BY <1>2, <1>9, <2>2, <2>3 DEF RevokeDelete
<1> QED
  BY <1>2, <1>4, <1>5, <1>6, <1>7, <1>8, <1>9 DEF Step

LEMMA StepTyped ==
  ASSUME Typed, NEW p \in Requests, Step(p), ~SetActive(p), Carries(req[p])
  PROVE  Typed'
<1>0. Minted \subseteq Jtis /\ UNCHANGED family
  BY MintedAreJtis, OnlySetActive
<1>m. Minted' = Minted
  BY <1>0 DEF Minted
<1>c. req[p] \in Calls
  BY StepOf DEF Typed
<1>1. req' \in [Requests -> Calls \cup {Null}]
  BY StepRequestTyped
<1>2. active' \in [Jtis -> Jtis \cup {Null}]
  <2>1. UNCHANGED active \/ active' = [active EXCEPT ![req[p].family] = Null]
    BY DEF Step, GetDenied, GetActive, SetDenied, CompareActive, DeleteActive,
       ReadFamilies, SetFamilies, Respond, GetFamilies, RevokeGet, RevokeDeny, RevokeDelete,
       DeleteFamilies, Commit, Fail, store
  <2> QED
    BY <2>1 DEF Typed
<1>3. denied' \subseteq Minted
  <2>1. \/ UNCHANGED denied
        \/ denied' = denied \cup {req[p].jti} /\ SetDenied(p)
        \/ denied' = denied \cup {req[p].seen} /\ RevokeDeny(p)
    BY DEF Step, GetDenied, GetActive, SetDenied, CompareActive, DeleteActive,
       ReadFamilies, SetFamilies, Respond, GetFamilies, RevokeGet, RevokeDeny, RevokeDelete,
       DeleteFamilies, Commit, Fail, store
  <2>2. SetDenied(p) => req[p].jti \in Minted
    BY DEF SetDenied, At, Carries, Way, Typed
  <2>3. RevokeDeny(p) => req[p].seen \in Minted
    BY DEF RevokeDeny, At, Carries
  <2> QED
    BY <2>1, <2>2, <2>3 DEF Typed
<1>4. families' \subseteq Minted
  <2>1. \/ UNCHANGED families
        \/ families' = {}
        \/ families' = req[p].index \cup {req[p].family} /\ SetFamilies(p)
    BY DEF Step, GetDenied, GetActive, SetDenied, CompareActive, DeleteActive,
       ReadFamilies, SetFamilies, Respond, GetFamilies, RevokeGet, RevokeDeny, RevokeDelete,
       DeleteFamilies, Commit, Fail, store
  <2>2. SetFamilies(p) => req[p].index \cup {req[p].family} \subseteq Minted
    BY DEF SetFamilies, At, Carries, Registered, Typed
  <2> QED
    BY <2>1, <2>2 DEF Typed
<1>5. held' \subseteq Minted /\ latest' \in [Jtis -> Jtis \cup {Null}]
  <2>1. Respond(p) => req[p].new \in Minted
    BY DEF Respond, At, Carries, Registered
  <2>2. Respond(p) => held' = held \cup {req[p].new}
                      /\ latest' = [latest EXCEPT ![req[p].family] = req[p].new]
    BY DEF Respond
  <2> QED
    BY <1>0, <2>1, <2>2, OnlyRespond DEF Typed
<1>6. ended' \subseteq Minted
  <2>1. UNCHANGED ended \/ ended' = ended \cup req[p].ends
    BY DEF Step, GetDenied, GetActive, SetDenied, CompareActive, DeleteActive,
       ReadFamilies, SetFamilies, Respond, GetFamilies, RevokeGet, RevokeDeny, RevokeDelete,
       DeleteFamilies, Commit, Fail, Rest, Done, history
  <2> QED
    BY <2>1 DEF Typed, Carries
<1>7. faulted' \subseteq Minted
  <2>1. CASE ~Fail(p)
    BY <2>1 DEF Typed, Step, GetDenied, GetActive, SetDenied, CompareActive, DeleteActive,
       ReadFamilies, SetFamilies, Respond, GetFamilies, RevokeGet, RevokeDeny, RevokeDelete,
       DeleteFamilies, Commit, Rest, Done, history
  <2>2. Families \subseteq Minted
    BY DEF Families, Typed, Minted
  <2>3. req[p].family # Null => req[p].family \in Minted
    BY DEF Carries
  <2>4. CASE Fail(p)
    BY <2>2, <2>3, <2>4 DEF Fail, Typed
  <2> QED
    BY <2>1, <2>4
<1>8. overlapped' \in BOOLEAN
  <2>1. UNCHANGED overlapped
    BY DEF Step, GetDenied, GetActive, SetDenied, CompareActive, DeleteActive,
       ReadFamilies, SetFamilies, Respond, GetFamilies, RevokeGet, RevokeDeny, RevokeDelete,
       DeleteFamilies, Commit, Fail, Rest, Done, bounds
  <2> QED
    BY <2>1 DEF Typed
<1>9. is_active' \in BOOLEAN
  BY DEF Typed, Step, GetDenied, GetActive, SetDenied, CompareActive, DeleteActive,
       ReadFamilies, SetFamilies, Respond, GetFamilies, RevokeGet, RevokeDeny, RevokeDelete,
       DeleteFamilies, Commit, Fail, Rest
<1> QED
  BY <1>0, <1>1, <1>2, <1>3, <1>4, <1>5, <1>6, <1>7, <1>8, <1>9, <1>m DEF Typed

LEMMA TypedNext ==
  ASSUME Typed, \A p \in InProgress : Carries(req[p]), [Next]_vars
  PROVE  Typed'
<1>1. CASE UNCHANGED vars
  BY <1>1 DEF Typed, Minted, vars, store, history, bounds
<1>2. CASE Reactivate
  BY <1>2 DEF Typed, Minted, Reactivate, store, history, bounds
<1>3. ASSUME NEW p \in Requests, Step(p)
      PROVE  Carries(req[p])
  BY <1>3, StepOf DEF InProgress
<1> QED
  BY <1>1, <1>2, <1>3, StepCases, BeginsTyped, SetActiveTyped, StepTyped

-----------------------------------------------------------------------------
(* What a request carries.                                                   *)

\* It stays true of a request that does not move.
LEMMA CarriesStays ==
  ASSUME Typed, \A p \in InProgress : Carries(req[p]), [Next]_vars, NEW r, Carries(r)
  PROVE  Carries(r)'
<1>1. Minted \subseteq Minted' /\ \A j \in Minted : family'[j] = family[j]
  BY FamiliesStay
<1>2. held \subseteq held' /\ held \subseteq Minted
  <2>1. ASSUME NEW p, Respond(p)
        PROVE  held \subseteq held'
    BY <2>1 DEF Respond
  <2> QED
    BY <2>1, StepCases, BeginsFrame, OnlyRespond DEF Typed, vars, Reactivate
<1> QED
  BY <1>1, <1>2 DEF Carries, Way

LEMMA BeginsCarries ==
  ASSUME Typed, NEW p \in Requests, Begins(p)
  PROVE  /\ Carries(req[p])'
         /\ \A q \in Requests \ {p} : req'[q] = req[q]
<1>f. UNCHANGED <<held, family>> /\ Minted' = Minted
  BY BeginsFrame DEF Minted
<1>1. ASSUME NEW for \in {"login", "refresh", "logout", "deactivate", "change_role"},
             NEW at \in {"set_active", "get_denied", "set_denied", "get_families"},
             NEW jti \in Minted \cup {Null}, NEW ends \in SUBSET Minted,
             Begin(p, for, at, jti, ends)
      PROVE  /\ req'[p].for = for /\ req'[p].at = at /\ req'[p].jti = jti
             /\ req'[p].family = IF jti = Null THEN Null ELSE family[jti]
             /\ req'[p].ends = ends /\ req'[p].left = {} /\ req'[p].index = {}
             /\ req'[p].seen = Null /\ req'[p].new = Null /\ req'[p] # Null
             /\ \A q \in Requests \ {p} : req'[q] = req[q]
             /\ req[p] = Null
  <2>1. req'[p] # Null
    BY <1>1, BeginTyped, NullAssumption
  <2> QED
    BY <1>1, <2>1 DEF Begin, Typed
<1>2. CASE Login(p)
  BY <1>1, <1>2, <1>f DEF Login, Carries, Way, Registered, Revoking, Updates
<1>3. ASSUME NEW j \in held, Refresh(p, j) \/ Logout(p, j)
      PROVE  /\ Carries(req[p])'
             /\ \A q \in Requests \ {p} : req'[q] = req[q]
  <2>1. j \in Minted /\ j # Null /\ family[j] \in Minted
    BY MintedAreJtis, NullAssumption DEF Typed, Jtis
  <2>2. CASE Refresh(p, j)
    BY <1>1, <1>f, <2>1, <2>2 DEF Refresh, Carries, Way, Registered, Revoking, Updates
  <2>3. CASE Logout(p, j)
    BY <1>1, <1>f, <2>1, <2>3 DEF Logout, Carries, Way, Registered, Revoking, Updates
  <2> QED
    BY <1>3, <2>2, <2>3
<1>4. ASSUME NEW for \in Updates, UpdateUser(p, for)
      PROVE  /\ Carries(req[p])'
             /\ \A q \in Requests \ {p} : req'[q] = req[q]
  <2>1. {family[j] : j \in held} \subseteq Minted
    BY DEF Typed
  <2> QED
    BY <1>1, <1>4, <1>f, <2>1 DEF UpdateUser, Carries, Way, Registered, Revoking, Updates
<1> QED
  BY <1>2, <1>3, <1>4 DEF Begins, Updates

LEMMA StepCarries ==
  ASSUME Typed, ActiveIsOfFamily, NEW p \in Requests, Step(p), Carries(req[p]),
         \A q \in InProgress : Carries(req[q])
  PROVE  req'[p] # Null => Carries(req[p])'
<1>0. /\ req \in [Requests -> Calls \cup {Null}] /\ req[p] \in Calls
      /\ \A at : At(p, at) => req[p].at = at
  BY StepOf DEF Typed, At
<1>1. ASSUME NEW n, Carries(n), req'[p] = n
      PROVE  Carries(req[p])'
  <2>1. Carries(n)'
    BY <1>1, CarriesStays DEF Next
  <2> QED
    BY <1>1, <2>1 DEF Carries, Way, Registered, Revoking, Updates
<1> PICK r \in Calls : r = req[p]
  BY <1>0
<1>2. ASSUME NEW at, Goto(p, at),
             Way([r EXCEPT !.at = at]),
             at \in Revoking => r.family # Null,
             at = "revoke_deny" => r.seen \in Minted /\ family[r.seen] = r.family,
             at \in Registered => r.at \in Registered
      PROVE  Carries(req[p])'
  <2> PICK n : n = [r EXCEPT !.at = at]
    OBVIOUS
  <2>1. Carries(n)
    BY <1>2 DEF Carries, Calls
  <2>2. req'[p] = n
    BY <1>0, <1>2 DEF Goto
  <2> QED
    BY <1>1, <2>1, <2>2
<1>d. Done(p) => req'[p] = Null
  BY <1>0 DEF Done
<1>w. /\ Carries(r)
      /\ r.for \in {"refresh", "logout"} => r.jti \in Minted /\ r.family \in Minted /\ r.family # Null
      /\ r.family \in Minted => active[r.family] \in Minted \cup {Null}
  BY MintedAreJtis, NullAssumption DEF Carries, Typed, ActiveIsOfFamily, Jtis
<1>3. CASE GetDenied(p)
  BY <1>0, <1>2, <1>3, <1>w DEF GetDenied, Carries, Way, Registered, Revoking, Updates, Calls
<1>4. CASE GetActive(p)
  BY <1>0, <1>2, <1>4, <1>d, <1>w DEF GetActive, Carries, Way, Registered, Revoking, Updates, Calls
<1>5. CASE SetDenied(p)
  BY <1>0, <1>2, <1>5, <1>w DEF SetDenied, Carries, Way, Registered, Revoking, Updates, Calls
<1>6. CASE CompareActive(p)
  BY <1>0, <1>2, <1>6, <1>d, <1>w DEF CompareActive, Carries, Way, Registered, Revoking, Updates, Calls
<1>7. CASE DeleteActive(p)
  BY <1>0, <1>2, <1>7, <1>d, <1>w DEF DeleteActive, Carries, Way, Registered, Revoking, Updates, Calls
<1>8. CASE SetFamilies(p)
  BY <1>0, <1>2, <1>8, <1>w DEF SetFamilies, Carries, Way, Registered, Revoking, Updates, Calls
<1>9. CASE RevokeDeny(p)
  BY <1>0, <1>2, <1>9, <1>w DEF RevokeDeny, Carries, Way, Registered, Revoking, Updates, Calls
<1>10. CASE DeleteFamilies(p)
  BY <1>0, <1>2, <1>10, <1>w DEF DeleteFamilies, Carries, Way, Registered, Revoking, Updates, Calls
<1>11. CASE Respond(p) \/ Commit(p) \/ Fail(p)
  BY <1>0, <1>11 DEF Respond, Commit, Fail, Done
<1>12. CASE ReadFamilies(p)
  <2> PICK n : n = [r EXCEPT !.at = "set_families", !.index = families]
    OBVIOUS
  <2>1. Carries(n)
    BY <1>0, <1>12, <1>w DEF ReadFamilies, Carries, Way, Registered, Revoking, Updates, Calls, Typed
  <2>2. req'[p] = n
    BY <1>0, <1>12 DEF ReadFamilies
  <2> QED
    BY <1>1, <2>1, <2>2
<1>13. ASSUME NEW f \in Minted, NEW left \in SUBSET Minted, r.at \in {"get_families"} \cup Revoking,
              r.for \in Updates,
              req' = [req EXCEPT ![p].at = "revoke_get", ![p].family = f, ![p].left = left]
       PROVE  Carries(req[p])'
  <2> PICK n : n = [r EXCEPT !.at = "revoke_get", !.family = f, !.left = left]
    OBVIOUS
  <2>1. f # Null
    BY MintedAreJtis, NullAssumption DEF Jtis
  <2>2. Carries(n)
    BY <1>13, <1>w, <2>1 DEF Carries, Way, Registered, Revoking, Updates, Calls
  <2>3. req'[p] = n
    BY <1>0, <1>13
  <2> QED
    BY <1>1, <2>2, <2>3
<1>14. CASE GetFamilies(p)
  <2>1. r.at = "get_families" /\ r.for \in Updates /\ families \subseteq Minted
    BY <1>0, <1>14, <1>w DEF GetFamilies, Carries, Way, Typed
  <2>2. CASE Goto(p, "commit")
    BY <1>2, <2>1, <2>2 DEF Way, Registered, Revoking, Updates, Calls
  <2>3. ASSUME NEW f \in families, req' = [req EXCEPT ![p].at = "revoke_get", ![p].family = f,
                                                     ![p].left = families \ {f}]
        PROVE  Carries(req[p])'
    <3>1. f \in Minted /\ families \ {f} \in SUBSET Minted
      BY <2>1
    <3>2. r.at \in {"get_families"} \cup Revoking /\ r.for \in Updates
      BY <2>1
    <3> HIDE DEF Carries
    <3> QED
      BY ONLY <1>13, <2>3, <3>1, <3>2
  <2> QED
    BY <1>14, <2>2, <2>3 DEF GetFamilies
<1>15. CASE RevokeDelete(p)
  <2>1. r.at = "revoke_delete" /\ r.left \subseteq Minted /\ (r.for = "refresh" \/ r.for \in Updates)
    BY <1>0, <1>15, <1>w DEF RevokeDelete, Carries, Way, Revoking
  <2>2. CASE r.for = "refresh"
    BY <1>15, <1>d, <2>2 DEF RevokeDelete
  <2>3. CASE Goto(p, "delete_families") /\ r.for \in Updates
    BY <1>2, <2>1, <2>3 DEF Way, Registered, Revoking, Updates, Calls
  <2>4. ASSUME NEW f \in r.left, r.for \in Updates,
               req' = [req EXCEPT ![p].at = "revoke_get", ![p].family = f, ![p].left = @ \ {f}]
        PROVE  Carries(req[p])'
    <3>1. req' = [req EXCEPT ![p].at = "revoke_get", ![p].family = f, ![p].left = r.left \ {f}]
      BY <1>0, <2>4
    <3>2. f \in Minted /\ r.left \ {f} \in SUBSET Minted
      BY <2>1, <2>4
    <3>3. r.at \in {"get_families"} \cup Revoking
      BY <2>1 DEF Revoking
    <3> QED
      BY ONLY <1>13, <2>4, <3>1, <3>2, <3>3
  <2> QED
    BY <1>15, <2>1, <2>2, <2>3, <2>4 DEF RevokeDelete
<1>16. CASE RevokeGet(p)
  <2> PICK n : n = [r EXCEPT !.seen = active[r.family],
                             !.at = IF active[r.family] = Null THEN "revoke_delete" ELSE "revoke_deny"]
    OBVIOUS
  <2>1. active[r.family] # Null => active[r.family] \in Minted /\ family[active[r.family]] = r.family
    BY <1>0, <1>16, <1>w, MintedAreJtis DEF RevokeGet, Carries, Revoking, ActiveIsOfFamily
  <2>2. Carries(n)
    BY <1>0, <1>16, <1>w, <2>1 DEF RevokeGet, Carries, Way, Registered, Revoking, Updates, Calls
  <2>3. req'[p] = n
    BY <1>0, <1>16 DEF RevokeGet
  <2> QED
    BY <1>1, <2>2, <2>3
<1>17. CASE SetActive(p)
  <2> DEFINE j == Len(family) + 1
             f == IF r.for = "login" THEN j ELSE r.family
  <2>1. /\ j \in Jtis /\ j \notin Minted /\ Minted' = Minted \cup {j} /\ family'[j] = f
        /\ f \in Minted'
    BY <1>17, Registers
  <2>2. req' = [req EXCEPT ![p].at = "read_families", ![p].family = f, ![p].new = j]
    BY <1>17 DEF SetActive
  <2> PICK n : n = [r EXCEPT !.at = "read_families", !.family = f, !.new = j]
    OBVIOUS
  <2>3. /\ n.at = "read_families" /\ n.family = f /\ n.new = j /\ n.for = r.for /\ n.jti = r.jti
        /\ n.ends = r.ends /\ n.left = r.left /\ n.index = r.index
    BY DEF Calls
  <2>4. req'[p] = n
    BY <1>0, <2>2
  <2>5. Carries(r)' /\ r.for \in {"login", "refresh"}
    BY <1>0, <1>17, <1>w, CarriesStays DEF SetActive, Carries, Way, Next
  <2>6. /\ n.for \in {"refresh", "logout"} =>
              n.jti \in held' /\ n.family = family'[n.jti] /\ n.ends \subseteq {n.family}
        /\ n.left \subseteq Minted' /\ n.ends \subseteq Minted' /\ n.index \subseteq Minted'
        /\ n.for = "login" => n.ends = {}
    BY <2>3, <2>5 DEF Carries
  <2> HIDE DEF j, f
  <2> QED
    BY <2>1, <2>3, <2>4, <2>5, <2>6 DEF Carries, Way, Registered, Revoking, Updates
<1> QED
  BY <1>3, <1>4, <1>5, <1>6, <1>7, <1>8, <1>9, <1>10, <1>11, <1>12, <1>14, <1>15, <1>16, <1>17
     DEF Step

LEMMA CarriesNext ==
  ASSUME Typed, ActiveIsOfFamily, \A p \in InProgress : Carries(req[p]), [Next]_vars
  PROVE  (\A p \in InProgress : Carries(req[p]))'
<1> SUFFICES ASSUME NEW q \in Requests, req'[q] # Null
             PROVE  Carries(req[q])'
  BY DEF InProgress
<1>1. ASSUME req'[q] = req[q]
      PROVE  Carries(req[q])'
  <2> PICK r : r = req[q]
    OBVIOUS
  <2>1. Carries(r)
    BY <1>1 DEF InProgress
  <2>2. Carries(r)'
    BY <2>1, CarriesStays
  <2> QED
    BY <1>1, <2>2 DEF Carries, Way, Registered, Revoking, Updates
<1>2. CASE UNCHANGED vars \/ Reactivate
  BY <1>1, <1>2 DEF vars, Reactivate
<1>3. ASSUME NEW p \in Requests, Begins(p)
      PROVE  Carries(req[q])'
  BY <1>1, <1>3, BeginsCarries
<1>4. ASSUME NEW p \in Requests, Step(p)
      PROVE  Carries(req[q])'
  <2>1. p \in InProgress
    BY <1>4, StepOf DEF InProgress
  <2>2. q # p => req'[q] = req[q]
    <3>1. SetActive(p) => \A s \in Requests \ {p} : req'[s] = req[s]
      BY DEF SetActive, Typed
    <3> QED
      BY <1>4, <2>1, <3>1, StepRequestTyped
  <2> QED
    BY <1>1, <1>4, <2>1, <2>2, StepCarries
<1> QED
  BY <1>2, <1>3, <1>4, StepCases

-----------------------------------------------------------------------------
(* The store under interleaving requests.                                    *)

\* How a step changes the active keys and the denials.
LEMMA StoreSteps ==
  ASSUME NEW p, Step(p)
  PROVE  /\ \/ UNCHANGED active \/ SetActive(p)
            \/ DeleteActive(p) /\ active' = [active EXCEPT ![req[p].family] = Null]
            \/ RevokeDelete(p) /\ active' = [active EXCEPT ![req[p].family] = Null]
         /\ UNCHANGED denied \/ SetDenied(p) \/ RevokeDeny(p)
<1>1. \/ UNCHANGED active \/ SetActive(p)
      \/ DeleteActive(p) /\ active' = [active EXCEPT ![req[p].family] = Null]
      \/ RevokeDelete(p) /\ active' = [active EXCEPT ![req[p].family] = Null]
  BY DEF Step, GetDenied, GetActive, SetDenied, CompareActive, DeleteActive, ReadFamilies,
     SetFamilies, Respond, GetFamilies, RevokeGet, RevokeDeny, RevokeDelete, DeleteFamilies,
     Commit, Fail, store
<1>2. UNCHANGED denied \/ SetDenied(p) \/ RevokeDeny(p)
  BY DEF Step, GetDenied, GetActive, CompareActive, DeleteActive, SetActive, ReadFamilies,
     SetFamilies, Respond, GetFamilies, RevokeGet, RevokeDelete, DeleteFamilies,
     Commit, Fail, store
<1> QED
  BY <1>1, <1>2

\* What SetActive makes of the active keys.
LEMMA SetsActive ==
  ASSUME Typed, NEW p \in Requests, SetActive(p), Carries(req[p])
  PROVE  \E f \in Jtis : \E j \in Jtis \ Minted :
           /\ active' = [active EXCEPT ![f] = j] /\ family'[j] = f
           /\ Minted' = Minted \cup {j}
           /\ IF req[p].for = "login" THEN f = j ELSE f = req[p].family /\ f \in Minted
           /\ req' = [req EXCEPT ![p].at = "read_families", ![p].family = f, ![p].new = j]
<1> DEFINE j == Len(family) + 1
           f == IF req[p].for = "login" THEN j ELSE req[p].family
<1>1. /\ j \in Jtis /\ j \notin Minted /\ Minted' = Minted \cup {j} /\ family'[j] = f
      /\ req[p].for # "login" => req[p].family \in Minted
  BY Registers
<1>2. f \in Jtis
  BY <1>1, MintedAreJtis
<1>3. /\ active' = [active EXCEPT ![f] = j]
      /\ req' = [req EXCEPT ![p].at = "read_families", ![p].family = f, ![p].new = j]
  BY DEF SetActive
<1>4. IF req[p].for = "login" THEN f = j ELSE f = req[p].family /\ f \in Minted
  BY <1>1
<1> HIDE DEF j, f
<1> QED
  BY <1>1, <1>2, <1>3, <1>4

LEMMA ActiveIsOfFamilyNext ==
  ASSUME Typed, ActiveIsOfFamily, \A p \in InProgress : Carries(req[p]), [Next]_vars
  PROVE  ActiveIsOfFamily'
<1>1. Minted \subseteq Minted' /\ \A j \in Minted : family'[j] = family[j]
  BY FamiliesStay
<1>2. CASE UNCHANGED active
  BY <1>1, <1>2 DEF ActiveIsOfFamily
<1>3. ASSUME NEW p \in Requests, SetActive(p)
      PROVE  ActiveIsOfFamily'
  <2>1. Carries(req[p])
    BY <1>3 DEF InProgress, SetActive, At
  <2>2. PICK f \in Jtis, j \in Jtis \ Minted :
          active' = [active EXCEPT ![f] = j] /\ family'[j] = f /\ Minted' = Minted \cup {j}
    BY <1>3, <2>1, SetsActive
  <2> QED
    BY <1>1, <2>2 DEF ActiveIsOfFamily, Typed
<1>4. ASSUME NEW p, active' = [active EXCEPT ![req[p].family] = Null]
      PROVE  ActiveIsOfFamily'
  BY <1>1, <1>4 DEF ActiveIsOfFamily, Typed
<1>5. UNCHANGED vars \/ Reactivate => UNCHANGED active
  BY DEF vars, store, Reactivate
<1> QED
  BY <1>2, <1>3, <1>4, <1>5, StepCases, BeginsFrame, StoreSteps DEF store

\* Whoever denies the active token of a family goes on to remove it, and stays in the way of
\* no other; a request that fails instead leaves its family to faulted.
LEMMA DenialsRemovedStep ==
  ASSUME Typed, ActiveIsOfFamily, DenialsRemoved, NEW p \in Requests, Step(p), Carries(req[p]),
         Typed'
  PROVE  DenialsRemoved'
<1>0. /\ req \in [Requests -> Calls \cup {Null}] /\ req[p] \in Calls /\ req[p] # Null
      /\ \A at : At(p, at) => req[p].at = at
      /\ active \in [Jtis -> Jtis \cup {Null}] /\ Null \notin Jtis
      /\ \A f \in Jtis : active[f] # Null => active[f] \in Minted
  BY StepOf, NullAssumption DEF Typed, At, ActiveIsOfFamily, Jtis
<1> SUFFICES ASSUME NEW f \in Jtis \ faulted', active'[f] # Null, active'[f] \in denied'
             PROVE  \E q \in Requests : Removing(q, f)'
  BY DEF DenialsRemoved
<1>1. ASSUME NEW at \in {"delete_active", "revoke_delete", "compare_active"}, Goto(p, at)
      PROVE  /\ req'[p] # Null /\ req'[p].at = at /\ req'[p].family = req[p].family
             /\ req'[p].jti = req[p].jti
  <2>1. [req[p] EXCEPT !.at = at] \in Calls
    BY <1>0 DEF Calls
  <2>2. req'[p] = [req[p] EXCEPT !.at = at]
    BY <1>0, <1>1 DEF Goto
  <2> QED
    BY <1>0, <2>1, <2>2, NullAssumption DEF Calls
<1>2. \A q \in Requests \ {p} : req'[q] = req[q]
  <2>1. SetActive(p) => \A q \in Requests \ {p} : req'[q] = req[q]
    BY <1>0 DEF SetActive
  <2> QED
    BY <2>1, StepRequestTyped
<1>3. f \notin faulted
  <2>1. faulted \subseteq faulted'
    <3>1. UNCHANGED faulted \/ Fail(p)
      BY DEF Step, GetDenied, GetActive, SetDenied, CompareActive, DeleteActive, SetActive,
         ReadFamilies, SetFamilies, Respond, GetFamilies, RevokeGet, RevokeDeny, RevokeDelete,
         DeleteFamilies, Commit, Rest, Done, history
    <3> QED
      BY <3>1 DEF Fail
  <2> QED
    BY <2>1
<1>4. CASE active'[f] # active[f]
  <2>1. CASE SetActive(p)
    <3>1. PICK g \in Jtis, j \in Jtis \ Minted : active' = [active EXCEPT ![g] = j]
      BY <2>1, SetsActive
    <3>2. denied' \subseteq Minted
      BY <2>1 DEF SetActive, Typed
    <3> QED
      BY <1>0, <1>4, <3>1, <3>2
  <2>2. CASE active' = [active EXCEPT ![req[p].family] = Null]
    BY <1>0, <1>4, <2>2
  <2> QED
    BY <1>4, <2>1, <2>2, StoreSteps
<1>5. CASE active'[f] = active[f] /\ active[f] \in denied
  <2>1. PICK q \in Requests : Removing(q, f)
    BY <1>3, <1>5 DEF DenialsRemoved
  <2>2. CASE q # p
    BY <1>2, <1>5, <2>1, <2>2 DEF Removing
  <2>3. CASE q = p
    <3>1. req[p].family = f
      BY <2>1, <2>3 DEF Removing
    <3>2. ~Fail(p)
      <4>1. f \in Families
        BY <1>0, <1>5 DEF Families, ActiveIsOfFamily
      <4>2. f # Null
        BY <1>0
      <4> QED
        BY <3>1, <4>1, <4>2 DEF Fail
    <3>3. req[p].at # "delete_active"
      <4>1. CASE req[p].at = "delete_active"
        <5>1. DeleteActive(p)
          BY <1>0, <3>2, <4>1 DEF Step, GetDenied, GetActive, SetDenied, CompareActive, SetActive,
             ReadFamilies, SetFamilies, Respond, GetFamilies, RevokeGet, RevokeDeny, RevokeDelete,
             DeleteFamilies, Commit
        <5> QED
          BY <1>0, <3>1, <5>1 DEF DeleteActive
      <4> QED
        BY <4>1
    <3>4. req[p].at # "revoke_delete"
      <4>1. CASE req[p].at = "revoke_delete"
        <5>1. RevokeDelete(p)
          BY <1>0, <3>2, <4>1 DEF Step, GetDenied, GetActive, SetDenied, CompareActive, SetActive,
             ReadFamilies, SetFamilies, Respond, GetFamilies, RevokeGet, RevokeDeny, DeleteActive,
             DeleteFamilies, Commit
        <5> QED
          BY <1>0, <3>1, <5>1 DEF RevokeDelete
      <4> QED
        BY <4>1
    <3>5. req[p].at = "compare_active" /\ req[p].jti = active[f]
      BY <2>1, <2>3, <3>3, <3>4 DEF Removing
    <3>6. CompareActive(p)
      BY <1>0, <3>2, <3>5 DEF Step, GetDenied, GetActive, SetDenied, DeleteActive, SetActive,
         ReadFamilies, SetFamilies, Respond, GetFamilies, RevokeGet, RevokeDeny, RevokeDelete,
         DeleteFamilies, Commit
    <3>7. Goto(p, "delete_active")
      BY <3>1, <3>5, <3>6 DEF CompareActive
    <3> QED
      BY <1>1, <3>1, <3>7 DEF Removing
  <2> QED
    BY <2>2, <2>3
<1>6. CASE active'[f] = active[f] /\ active[f] \notin denied
  <2>0. active[f] # Null /\ family[active[f]] = f
    BY <1>6 DEF ActiveIsOfFamily
  <2>1. CASE SetDenied(p)
    <3>1. denied' = denied \cup {req[p].jti} /\ req[p].for \in {"refresh", "logout"}
      BY <1>0, <2>1 DEF SetDenied, Carries, Way
    <3>2. active[f] = req[p].jti
      BY <1>6, <3>1
    <3>3. req[p].family = f
      BY <2>0, <3>1, <3>2 DEF Carries
    <3>4. Goto(p, IF req[p].for = "refresh" THEN "delete_active" ELSE "compare_active")
      BY <2>1 DEF SetDenied
    <3>5. /\ req'[p] # Null /\ req'[p].family = f /\ req'[p].jti = active'[f]
          /\ req'[p].at \in {"delete_active", "compare_active"}
      BY <1>1, <1>6, <3>2, <3>3, <3>4
    <3> QED
      BY <3>5 DEF Removing
  <2>2. CASE RevokeDeny(p)
    <3>1. denied' = denied \cup {req[p].seen} /\ req[p].family = family[req[p].seen]
      BY <1>0, <2>2 DEF RevokeDeny, Carries
    <3>2. Goto(p, "revoke_delete")
      BY <2>2 DEF RevokeDeny
    <3>3. req[p].family = f
      BY <1>6, <2>0, <3>1
    <3> QED
      BY <1>1, <3>2, <3>3 DEF Removing
  <2> QED
    BY <1>6, <2>1, <2>2, StoreSteps
<1> QED
  BY <1>4, <1>5, <1>6

LEMMA DenialsRemovedNext ==
  ASSUME Typed, ActiveIsOfFamily, DenialsRemoved, \A p \in InProgress : Carries(req[p]), [Next]_vars
  PROVE  DenialsRemoved'
<1>1. CASE UNCHANGED vars
  BY <1>1 DEF vars, store, history, DenialsRemoved, Removing
<1>2. CASE Reactivate
  BY <1>2 DEF Reactivate, store, history, DenialsRemoved, Removing
<1>3. ASSUME NEW p \in Requests, Begins(p)
      PROVE  DenialsRemoved'
  <2>1. UNCHANGED <<active, denied, faulted>>
    BY <1>3, BeginsFrame DEF store, history
  <2>2. \A q \in Requests \ {p} : req'[q] = req[q]
    BY <1>3, BeginsCarries
  <2>3. req[p] = Null
    BY <1>3 DEF Begins, Login, Refresh, Logout, UpdateUser, Begin
  <2>4. \A q \in Requests : \A f : Removing(q, f) => Removing(q, f)'
    BY <2>1, <2>2, <2>3 DEF Removing
  <2> QED
    BY <2>1, <2>4 DEF DenialsRemoved
<1>4. ASSUME NEW p \in Requests, Step(p)
      PROVE  DenialsRemoved'
  <2>1. p \in InProgress
    BY <1>4, StepOf DEF InProgress
  <2> QED
    BY <1>4, <2>1, TypedNext, DenialsRemovedStep
<1> QED
  BY <1>1, <1>2, <1>3, <1>4, StepCases

\* While nothing overlapped there is one request.
LEMMA AloneNext ==
  ASSUME Typed, ~overlapped => Alone, \A p \in InProgress : Carries(req[p]), [Next]_vars
  PROVE  /\ (~overlapped => Alone)'
         /\ ~overlapped' => ~overlapped
<1>1. CASE UNCHANGED vars \/ Reactivate
  BY <1>1 DEF vars, Reactivate, bounds, Alone, InProgress
<1>2. ASSUME NEW p \in Requests, Begins(p)
      PROVE  (~overlapped => Alone)' /\ (~overlapped' => ~overlapped)
  <2>1. overlapped' = (overlapped \/ InProgress # {})
    BY <1>2 DEF Begins, Login, Refresh, Logout, UpdateUser, Begin
  <2>2. \A q \in Requests \ {p} : req'[q] = req[q]
    BY <1>2, BeginsCarries
  <2> QED
    BY <2>1, <2>2 DEF Alone, InProgress, Typed
<1>3. ASSUME NEW p \in Requests, Step(p)
      PROVE  (~overlapped => Alone)' /\ (~overlapped' => ~overlapped)
  <2>1. p \in InProgress
    BY <1>3, StepOf DEF InProgress
  <2>2. \A q \in Requests \ {p} : req'[q] = req[q]
    <3>1. SetActive(p) => \A q \in Requests \ {p} : req'[q] = req[q]
      BY DEF SetActive, Typed
    <3> QED
      BY <1>3, <2>1, <3>1, StepRequestTyped
  <2>3. UNCHANGED overlapped
    BY <1>3 DEF Step, GetDenied, GetActive, SetDenied, CompareActive, DeleteActive, SetActive,
       ReadFamilies, SetFamilies, Respond, GetFamilies, RevokeGet, RevokeDeny, RevokeDelete,
       DeleteFamilies, Commit, Fail, Rest, Done, bounds
  <2> QED
    BY <2>1, <2>2, <2>3 DEF Alone, InProgress, Typed
<1> QED
  BY <1>1, <1>2, <1>3, StepCases

LEMMA IInvInit ==
  ASSUME Init
  PROVE  IInv
<1>1. family = <<>> /\ Minted = {} /\ Len(family) = 0 /\ family \in Seq(Jtis)
  BY EmptySeq DEF Init, Minted
<1>2. Typed
  <2>1. req \in [Requests -> Calls \cup {Null}]
    BY DEF Init
  <2>2. active \in [Jtis -> Jtis \cup {Null}] /\ latest \in [Jtis -> Jtis \cup {Null}]
    BY DEF Init
  <2>3. /\ denied = {} /\ families = {} /\ held = {} /\ ended = {} /\ faulted = {}
        /\ overlapped = FALSE /\ is_active = TRUE
    BY DEF Init
  <2>4. Len(family) <= MaxTokens
    BY <1>1, BoundsAssumption
  <2> QED
    BY <1>1, <2>1, <2>2, <2>3, <2>4 DEF Typed
<1>3. InProgress = {}
  BY DEF Init, InProgress
<1> QED
  BY <1>2, <1>3 DEF Init, IInv, ActiveIsOfFamily, DenialsRemoved, Alone

LEMMA IInvNext ==
  ASSUME IInv, [Next]_vars
  PROVE  IInv'
<1> USE DEF IInv
<1> QED
  BY TypedNext, ActiveIsOfFamilyNext, CarriesNext, DenialsRemovedNext, AloneNext

LEMMA IInvAlways == Spec => []IInv
BY IInvInit, IInvNext, PTL DEF Spec

\* However any number of requests interleave and fail, once they have ended no active token
\* is denied, but of families a failed request had to do with: revoke, validate_and_rotate and
\* _revoke_family each remove the key they make void.
THEOREM AlwaysSettled == Spec => []SettledNotDenied
<1>1. IInv => SettledNotDenied
  BY DEF IInv, SettledNotDenied, DenialsRemoved, Removing, InProgress, Families, Typed, Minted
<1> QED
  BY <1>1, IInvAlways, PTL

-----------------------------------------------------------------------------
(* Requests one after another.                                               *)

\* What the invariant says when p is the request in progress.
LEMMA SerialFacts ==
  ASSUME IInv, Serial, ~overlapped, NEW p \in Requests, req[p] # Null
  PROVE  /\ req \in [Requests -> Calls \cup {Null}] /\ req[p] \in Calls
         /\ Carries(req[p]) /\ Knows(req[p])
         /\ InProgress = {p}
         /\ active \in [Jtis -> Jtis \cup {Null}] /\ latest \in [Jtis -> Jtis \cup {Null}]
         /\ Null \notin Jtis /\ Minted \subseteq Jtis
         /\ \A j \in held : j \in Minted /\ family[j] \in Minted
         /\ ended \subseteq Minted /\ families \subseteq Minted /\ denied \subseteq Minted
         /\ \A j \in held : latest[family[j]] = j /\ family[j] \notin ended \cup faulted =>
              \/ active[family[j]] = j /\ j \notin denied
              \/ family[j] \in req[p].ends \/ Replacing(req[p], family[j])
<1>1. InProgress = {p}
  BY DEF IInv, Alone, InProgress
<1> QED
  BY <1>1, MintedAreJtis, NullAssumption DEF IInv, Typed, Jtis, Serial, LastIsGood, InProgress

\* Serial' from what it says of the one request.
LEMMA SerialFrom ==
  ASSUME IInv, ~overlapped, NEW p \in Requests, req[p] # Null,
         \A q \in Requests \ {p} : req'[q] = req[q],
         EndedAreGone', HeldAreIndexed',
         req'[p] # Null => Knows(req[p])',
         (\A j \in held : latest[family[j]] = j /\ family[j] \notin ended \cup faulted =>
            \/ active[family[j]] = j /\ j \notin denied
            \/ req[p] # Null /\ (family[j] \in req[p].ends \/ Replacing(req[p], family[j])))'
  PROVE  Serial'
<1>1. InProgress' \subseteq {p} /\ (req'[p] # Null => p \in InProgress')
  BY DEF IInv, Alone, InProgress
<1>2. LastIsGood'
  BY <1>1 DEF LastIsGood
<1>3. ASSUME NEW q \in InProgress' PROVE Knows(req[q])'
  BY <1>1, <1>3 DEF InProgress
<1> QED
  BY <1>2, <1>3 DEF Serial

\* A request that goes on and leaves the store alone.
LEMMA SerialQuiet ==
  ASSUME IInv, Serial, ~overlapped, NEW p \in Requests, req[p] # Null,
         NEW n \in Calls, req' = [req EXCEPT ![p] = n], n.ends = req[p].ends,
         UNCHANGED <<active, denied, families, family, held, ended, faulted, latest>>,
         Knows(n), \A f : Replacing(req[p], f) => Replacing(n, f)
  PROVE  Serial'
<1>1. /\ req'[p] = n /\ n # Null
      /\ \A q \in Requests \ {p} : req'[q] = req[q]
  BY SerialFacts, NullAssumption
<1>2. EndedAreGone' /\ HeldAreIndexed'
  BY DEF Serial, EndedAreGone, HeldAreIndexed
<1>3. Knows(req[p])'
  BY <1>1 DEF Knows, RefreshKnows, LogoutKnows, UpdateKnows, RegisteredKnows, Presenting,
              Revoking, Registered, Updates
<1>4. (\A j \in held : latest[family[j]] = j /\ family[j] \notin ended \cup faulted =>
            \/ active[family[j]] = j /\ j \notin denied
            \/ req[p] # Null /\ (family[j] \in req[p].ends \/ Replacing(req[p], family[j])))'
  BY <1>1, SerialFacts DEF Replacing, Registered
<1> QED
  BY <1>1, <1>2, <1>3, <1>4, SerialFrom

\* A request that ends, with what it has ended gone.
LEMMA SerialEnds ==
  ASSUME IInv, Serial, ~overlapped, NEW p \in Requests, req[p] # Null, Done(p),
         UNCHANGED <<denied, families, held>>,
         \A f \in Jtis : \/ active'[f] = active[f]
                         \/ active'[f] = Null /\ f \in req[p].ends \cup faulted,
         \A f \in req[p].ends : active'[f] = Null,
         \A f : ~Replacing(req[p], f)
  PROVE  Serial'
<1>1. /\ req'[p] = Null /\ ended' = ended \cup req[p].ends
      /\ \A q \in Requests \ {p} : req'[q] = req[q]
      /\ UNCHANGED <<latest, faulted, family>>
  BY SerialFacts DEF Done
<1>2. EndedAreGone'
  BY <1>1, SerialFacts DEF Serial, EndedAreGone
<1>3. HeldAreIndexed'
  BY <1>1, SerialFacts DEF Serial, HeldAreIndexed
<1>4. (\A j \in held : latest[family[j]] = j /\ family[j] \notin ended \cup faulted =>
            \/ active[family[j]] = j /\ j \notin denied
            \/ req[p] # Null /\ (family[j] \in req[p].ends \/ Replacing(req[p], family[j])))'
  BY <1>1, SerialFacts
<1> QED
  BY <1>1, <1>2, <1>3, <1>4, SerialFrom

LEMMA GotoQuiet ==
  ASSUME IInv, Serial, ~overlapped, NEW p \in Requests, req[p] # Null,
         NEW at \in {"get_active", "set_denied", "delete_active", "revoke_get", "commit"},
         Goto(p, at), UNCHANGED store, Rest, Knows([req[p] EXCEPT !.at = at]),
         req[p].at \notin {"delete_active", "set_active"} \cup Registered
  PROVE  Serial'
<1> PICK n : n = [req[p] EXCEPT !.at = at]
  OBVIOUS
<1>1. n \in Calls /\ n.ends = req[p].ends
  BY SerialFacts DEF Calls
<1>2. req' = [req EXCEPT ![p] = n]
  BY SerialFacts DEF Goto
<1> QED
  BY <1>1, <1>2, SerialQuiet DEF store, Rest, history, Replacing

LEMMA SerialGetDenied ==
  ASSUME IInv, Serial, ~overlapped, NEW p \in Requests, GetDenied(p)
  PROVE  Serial'
<1>0. req[p] # Null /\ req[p].at = "get_denied"
  BY DEF GetDenied, At
<1> PICK r \in Calls : r = req[p]
  BY <1>0, SerialFacts
<1>1. r.for = "refresh" /\ Carries(r) /\ RefreshKnows(r) /\ InProgress = {p} /\ r.family \in Jtis
      /\ r.family = family[r.jti]
  BY <1>0, SerialFacts DEF Carries, Way, Knows
<1>2. CASE r.jti \in denied
  <2>1. r.ends = {} => r.family \in faulted
    <3> SUFFICES ASSUME r.ends = {}, r.family \notin faulted PROVE FALSE
      OBVIOUS
    <3>1. active[r.family] = r.jti /\ r.jti # Null
      BY <1>0, <1>1, <1>2, SerialFacts DEF RefreshKnows, Presenting
    <3>2. PICK q \in Requests : Removing(q, r.family)
      BY <1>1, <1>2, <3>1 DEF IInv, DenialsRemoved
    <3>3. q = p
      BY <1>1, <3>2 DEF Removing, InProgress
    <3> QED
      BY <1>0, <3>2, <3>3 DEF Removing
  <2>2. Knows([r EXCEPT !.at = "revoke_get"])
    BY <1>1, <2>1 DEF Knows, RefreshKnows, Presenting, Revoking, Registered, Updates, Calls
  <2>3. Goto(p, "revoke_get") /\ UNCHANGED store /\ Rest
    BY <1>2 DEF GetDenied
  <2> QED
    BY <1>0, <2>2, <2>3, GotoQuiet DEF Registered
<1>3. CASE r.jti \notin denied
  <2>1. Knows([r EXCEPT !.at = "get_active"])
    BY <1>0, <1>1 DEF Knows, RefreshKnows, Presenting, Revoking, Registered, Updates, Calls
  <2>2. Goto(p, "get_active") /\ UNCHANGED store /\ Rest
    BY <1>3 DEF GetDenied
  <2> QED
    BY <1>0, <2>1, <2>2, GotoQuiet DEF Registered
<1> QED
  BY <1>2, <1>3

LEMMA SerialGetActive ==
  ASSUME IInv, Serial, ~overlapped, NEW p \in Requests, GetActive(p)
  PROVE  Serial'
<1>0. req[p] # Null /\ req[p].at = "get_active"
  BY DEF GetActive, At
<1> PICK r \in Calls : r = req[p]
  BY <1>0, SerialFacts
<1>1. r.for = "refresh" /\ Carries(r) /\ RefreshKnows(r) /\ r.ends \subseteq {r.family}
      /\ (r.ends = {} <=> active[r.family] = r.jti) /\ r.jti # Null
  BY <1>0, SerialFacts DEF Carries, Way, Knows, RefreshKnows, Presenting
<1>2. CASE active[r.family] = Null
  <2>1. Done(p) /\ UNCHANGED <<active, denied, families, held>>
    BY <1>1, <1>2 DEF GetActive, store
  <2> QED
    BY <1>0, <1>1, <1>2, <2>1, SerialEnds DEF Replacing, Registered
<1>3. CASE active[r.family] = r.jti /\ active[r.family] # Null
  <2>1. Knows([r EXCEPT !.at = "set_denied"])
    BY <1>0, <1>1, <1>3 DEF Knows, RefreshKnows, Presenting, Revoking, Registered, Updates, Calls
  <2>2. Goto(p, "set_denied") /\ UNCHANGED store /\ Rest
    BY <1>3 DEF GetActive
  <2> QED
    BY <1>0, <2>1, <2>2, GotoQuiet DEF Registered
<1>4. CASE active[r.family] # r.jti /\ active[r.family] # Null
  <2>1. Knows([r EXCEPT !.at = "revoke_get"])
    BY <1>0, <1>1, <1>4 DEF Knows, RefreshKnows, Presenting, Revoking, Registered, Updates, Calls
  <2>2. Goto(p, "revoke_get") /\ UNCHANGED store /\ Rest
    BY <1>4 DEF GetActive
  <2> QED
    BY <1>0, <2>1, <2>2, GotoQuiet DEF Registered
<1> QED
  BY <1>2, <1>3, <1>4

LEMMA SerialCompareActive ==
  ASSUME IInv, Serial, ~overlapped, NEW p \in Requests, CompareActive(p)
  PROVE  Serial'
<1>0. req[p] # Null /\ req[p].at = "compare_active"
  BY DEF CompareActive, At
<1> PICK r \in Calls : r = req[p]
  BY <1>0, SerialFacts
<1>1. r.for = "logout" /\ (r.ends # {} <=> active[r.family] = r.jti)
  BY <1>0, SerialFacts DEF Carries, Way, Knows, LogoutKnows
<1>2. CASE active[r.family] = r.jti
  <2>1. Knows([r EXCEPT !.at = "delete_active"])
    BY <1>1, <1>2 DEF Knows, LogoutKnows, Registered, Updates, Calls
  <2>2. Goto(p, "delete_active") /\ UNCHANGED store /\ Rest
    BY <1>2 DEF CompareActive
  <2> QED
    BY <1>0, <2>1, <2>2, GotoQuiet DEF Registered
<1>3. CASE active[r.family] # r.jti
  <2>1. Done(p) /\ UNCHANGED <<active, denied, families, held>> /\ r.ends = {}
    BY <1>1, <1>3 DEF CompareActive, store
  <2> QED
    BY <1>0, <1>1, <2>1, SerialEnds DEF Replacing
<1> QED
  BY <1>2, <1>3

LEMMA SerialReadFamilies ==
  ASSUME IInv, Serial, ~overlapped, NEW p \in Requests, ReadFamilies(p)
  PROVE  Serial'
<1>0. req[p] # Null /\ req[p].at = "read_families"
  BY DEF ReadFamilies, At
<1> PICK r \in Calls : r = req[p]
  BY <1>0, SerialFacts
<1> PICK n : n = [r EXCEPT !.at = "set_families", !.index = families]
  OBVIOUS
<1>1. n \in Calls /\ n.ends = r.ends /\ req' = [req EXCEPT ![p] = n]
  BY SerialFacts, <1>0, ZenonT(30) DEF ReadFamilies, Calls
<1>2. r.for \in {"login", "refresh"} /\ RegisteredKnows(r)
  BY <1>0, SerialFacts DEF Carries, Way, Knows, Registered
<1>3. Knows(n)
  BY <1>2 DEF Knows, RefreshKnows, RegisteredKnows, Presenting, Revoking, Registered, Updates, Calls
<1>4. \A f : Replacing(r, f) => Replacing(n, f)
  BY DEF Replacing, Registered, Calls
<1>5. UNCHANGED <<active, denied, families, family, held, ended, faulted, latest>>
  BY DEF ReadFamilies, store, Rest, history
<1> QED
  BY <1>0, <1>1, <1>3, <1>4, <1>5, SerialQuiet

LEMMA SerialGetFamilies ==
  ASSUME IInv, Serial, ~overlapped, NEW p \in Requests, GetFamilies(p)
  PROVE  Serial'
<1>0. req[p] # Null /\ req[p].at = "get_families"
  BY DEF GetFamilies, At
<1> PICK r \in Calls : r = req[p]
  BY <1>0, SerialFacts
<1>1. r.for \in Updates /\ UpdateKnows(r)
  BY <1>0, SerialFacts DEF Carries, Way, Knows
<1>2. CASE families = {} /\ Goto(p, "commit")
  <2>1. \A j \in held : active[family[j]] = Null
    BY <1>2 DEF Serial, HeldAreIndexed
  <2>2. Knows([r EXCEPT !.at = "commit"])
    BY <1>1, <2>1 DEF Knows, UpdateKnows, Revoking, Registered, Updates, Calls
  <2> QED
    BY <1>0, <1>2, <2>2, GotoQuiet DEF Registered, GetFamilies
<1>3. ASSUME NEW f \in families, req' = [req EXCEPT ![p].at = "revoke_get", ![p].family = f,
                                                   ![p].left = families \ {f}]
      PROVE  Serial'
  <2> PICK n : n = [r EXCEPT !.at = "revoke_get", !.family = f, !.left = families \ {f}]
    OBVIOUS
  <2>1. n \in Calls /\ n.ends = r.ends /\ req' = [req EXCEPT ![p] = n]
    BY <1>0, <1>3, SerialFacts, ZenonT(30) DEF Calls
  <2>2. Knows(n)
    BY <1>1 DEF Knows, UpdateKnows, Revoking, Registered, Updates, Calls
  <2>3. UNCHANGED <<active, denied, families, family, held, ended, faulted, latest>>
    BY DEF GetFamilies, store, Rest, history
  <2> QED
    BY <1>0, <2>1, <2>2, <2>3, SerialQuiet DEF Replacing, Registered
<1> QED
  BY <1>2, <1>3 DEF GetFamilies

LEMMA SerialRevokeGet ==
  ASSUME IInv, Serial, ~overlapped, NEW p \in Requests, RevokeGet(p)
  PROVE  Serial'
<1>0. req[p] # Null /\ req[p].at = "revoke_get"
  BY DEF RevokeGet, At
<1> PICK r \in Calls : r = req[p]
  BY <1>0, SerialFacts
<1> PICK n : n = [r EXCEPT !.seen = active[r.family],
                           !.at = IF active[r.family] = Null THEN "revoke_delete" ELSE "revoke_deny"]
  OBVIOUS
<1>1. active[r.family] \in Jtis \cup {Null}
  BY <1>0, SerialFacts DEF Carries, Revoking
<1>2. n \in Calls /\ n.ends = r.ends /\ req' = [req EXCEPT ![p] = n]
  BY <1>0, <1>1, SerialFacts DEF RevokeGet, Calls
<1>3. Knows(n)
  <2>1. Knows(r) /\ r.for \in {"refresh"} \cup Updates
    BY <1>0, SerialFacts DEF Carries, Way, Revoking
  <2> QED
    BY <1>0, <2>1 DEF Knows, RefreshKnows, UpdateKnows, Presenting, Revoking, Registered, Updates, Calls
<1>4. UNCHANGED <<active, denied, families, family, held, ended, faulted, latest>>
  BY DEF RevokeGet, store, Rest, history
<1> QED
  BY <1>0, <1>2, <1>3, <1>4, SerialQuiet DEF Replacing, Registered

-----------------------------------------------------------------------------
(* The steps that write to the store.                                        *)

LEMMA SerialSetDenied ==
  ASSUME IInv, Serial, ~overlapped, NEW p \in Requests, SetDenied(p)
  PROVE  Serial'
<1>0. req[p] # Null /\ req[p].at = "set_denied"
  BY DEF SetDenied, At
<1> PICK r \in Calls : r = req[p]
  BY <1>0, SerialFacts
<1> PICK n : n = [r EXCEPT !.at = IF r.for = "refresh" THEN "delete_active" ELSE "compare_active"]
  OBVIOUS
<1>1. /\ n.ends = r.ends /\ n.family = r.family /\ n.for = r.for /\ n.jti = r.jti
      /\ n.at = IF r.for = "refresh" THEN "delete_active" ELSE "compare_active"
      /\ n \in Calls
  BY DEF Calls
<1>2. /\ req'[p] = n /\ n # Null /\ \A q \in Requests \ {p} : req'[q] = req[q]
  BY <1>0, <1>1, SerialFacts, NullAssumption DEF SetDenied, Goto
<1>3. /\ denied' = denied \cup {r.jti}
      /\ UNCHANGED <<active, families, family, held, ended, faulted, latest>>
  BY DEF SetDenied, Rest, history
<1>4. /\ r.for \in {"refresh", "logout"} /\ r.jti \in held /\ r.family = family[r.jti]
      /\ r.ends \subseteq {r.family} /\ Knows(r) /\ r.jti # Null
  BY <1>0, SerialFacts DEF Carries, Way
<1>5. EndedAreGone' /\ HeldAreIndexed'
  BY <1>3 DEF Serial, EndedAreGone, HeldAreIndexed
<1>6. r.for = "refresh" => r.ends = {} /\ active[r.family] = r.jti
  BY <1>0, <1>4 DEF Knows, RefreshKnows, Presenting
<1>7. r.for = "logout" => (r.ends # {} <=> active[r.family] = r.jti)
  BY <1>0, <1>4 DEF Knows, LogoutKnows
<1>8. r.for = "refresh" => r.family \in families \ ended
  BY <1>4, <1>6 DEF Serial, EndedAreGone, HeldAreIndexed
<1>9. Knows(req[p])'
  BY <1>1, <1>2, <1>3, <1>4, <1>6, <1>7, <1>8 DEF Knows, RefreshKnows, LogoutKnows, Presenting,
     Revoking, Registered, Updates
<1>10. (\A j \in held : latest[family[j]] = j /\ family[j] \notin ended \cup faulted =>
            \/ active[family[j]] = j /\ j \notin denied
            \/ req[p] # Null /\ (family[j] \in req[p].ends \/ Replacing(req[p], family[j])))'
  <2> SUFFICES ASSUME NEW j \in held, latest[family[j]] = j, family[j] \notin ended \cup faulted
               PROVE  \/ active[family[j]] = j /\ j \notin denied \cup {r.jti}
                      \/ family[j] \in n.ends \/ Replacing(n, family[j])
    BY <1>2, <1>3 DEF Replacing
  <2>1. \/ active[family[j]] = j /\ j \notin denied
        \/ family[j] \in r.ends
    BY <1>0, SerialFacts DEF Replacing, Registered
  <2>2. CASE family[j] \in r.ends
    BY <1>1, <2>2
  <2>3. CASE active[family[j]] = j /\ j \notin denied /\ j # r.jti
    BY <2>3
  <2>4. CASE active[family[j]] = j /\ j = r.jti
    BY <1>1, <1>4, <1>7, <2>4 DEF Replacing
  <2> QED
    BY <2>1, <2>2, <2>3, <2>4
<1> QED
  BY <1>0, <1>2, <1>5, <1>9, <1>10, SerialFrom

LEMMA SerialDeleteActive ==
  ASSUME IInv, Serial, ~overlapped, NEW p \in Requests, DeleteActive(p)
  PROVE  Serial'
<1>0. req[p] # Null /\ req[p].at = "delete_active"
  BY DEF DeleteActive, At
<1> PICK r \in Calls : r = req[p]
  BY <1>0, SerialFacts
<1>1. /\ active' = [active EXCEPT ![r.family] = Null] /\ UNCHANGED <<denied, families, held>>
  BY DEF DeleteActive
<1>2. /\ r.for \in {"refresh", "logout"} /\ r.family = family[r.jti] /\ r.family \in Jtis
      /\ r.ends \subseteq {r.family} /\ Knows(r)
  BY <1>0, SerialFacts DEF Carries, Way
<1>3. CASE r.for = "logout"
  <2>1. r.ends = {r.family}
    BY <1>0, <1>2, <1>3 DEF Knows, LogoutKnows
  <2>2. Done(p)
    BY <1>3 DEF DeleteActive
  <2> QED
    BY <1>0, <1>1, <1>2, <1>3, <2>1, <2>2, SerialFacts, SerialEnds DEF Replacing
<1>4. CASE r.for = "refresh"
  <2>1. r.ends = {} /\ r.family \in families \ ended
    BY <1>0, <1>2, <1>4 DEF Knows, RefreshKnows
  <2> PICK n : n = [r EXCEPT !.at = "set_active"]
    OBVIOUS
  <2>2. n \in Calls /\ n.ends = r.ends /\ n.family = r.family /\ n.for = r.for /\ n.at = "set_active"
    BY DEF Calls
  <2>3. /\ req'[p] = n /\ n # Null /\ \A q \in Requests \ {p} : req'[q] = req[q]
        /\ UNCHANGED <<family, ended, latest, faulted>>
    BY <1>0, <1>4, <2>2, SerialFacts, NullAssumption DEF DeleteActive, Goto, history
  <2>4. EndedAreGone' /\ HeldAreIndexed'
    BY <1>1, <1>2, <2>3, SerialFacts, <1>0 DEF Serial, EndedAreGone, HeldAreIndexed
  <2>5. Knows(req[p])'
    BY <1>1, <1>4, <2>1, <2>2, <2>3 DEF Knows, RefreshKnows, Presenting, Revoking, Registered, Updates
  <2>6. (\A j \in held : latest[family[j]] = j /\ family[j] \notin ended \cup faulted =>
            \/ active[family[j]] = j /\ j \notin denied
            \/ req[p] # Null /\ (family[j] \in req[p].ends \/ Replacing(req[p], family[j])))'
    <3> SUFFICES ASSUME NEW j \in held, latest[family[j]] = j, family[j] \notin ended \cup faulted
                 PROVE  (active'[family[j]] = j /\ j \notin denied) \/ Replacing(n, family[j])
      BY <1>1, <2>3 DEF Replacing
    <3>1. (active[family[j]] = j /\ j \notin denied) \/ family[j] = r.family
      BY <1>0, <2>1, SerialFacts DEF Replacing
    <3> QED
      BY <1>0, <1>1, <1>4, <2>2, <3>1, SerialFacts DEF Replacing
  <2> QED
    BY <1>0, <2>3, <2>4, <2>5, <2>6, SerialFrom
<1> QED
  BY <1>2, <1>3, <1>4

LEMMA SerialSetActive ==
  ASSUME IInv, Serial, ~overlapped, NEW p \in Requests, SetActive(p)
  PROVE  Serial'
<1>0. req[p] # Null /\ req[p].at = "set_active"
  BY DEF SetActive, At
<1> PICK r \in Calls : r = req[p]
  BY <1>0, SerialFacts
<1>1. r.for \in {"login", "refresh"} /\ r.ends = {} /\ (r.for = "refresh" => r.family \in families \ ended)
  BY <1>0, SerialFacts DEF Carries, Way, Knows, RefreshKnows
<1>2. PICK f \in Jtis, j \in Jtis \ Minted :
        /\ active' = [active EXCEPT ![f] = j] /\ family'[j] = f
        /\ IF r.for = "login" THEN f = j ELSE f = r.family /\ f \in Minted
        /\ req' = [req EXCEPT ![p].at = "read_families", ![p].family = f, ![p].new = j]
  <2>1. Typed /\ Carries(req[p])
    BY <1>0, SerialFacts DEF IInv
  <2>2. \E f \in Jtis : \E j \in Jtis \ Minted :
           /\ active' = [active EXCEPT ![f] = j] /\ family'[j] = f
           /\ Minted' = Minted \cup {j}
           /\ IF req[p].for = "login" THEN f = j ELSE f = req[p].family /\ f \in Minted
           /\ req' = [req EXCEPT ![p].at = "read_families", ![p].family = f, ![p].new = j]
    BY ONLY <2>1, SetsActive, SetActive(p), p \in Requests
  <2> QED
    BY ONLY <2>2, r = req[p]
<1>3. /\ UNCHANGED <<denied, families, held, latest, ended, faulted>>
      /\ \A i \in Minted : family'[i] = family[i]
  BY <1>0, SerialFacts, Registers DEF SetActive, history, IInv
<1> PICK n : n = [r EXCEPT !.at = "read_families", !.family = f, !.new = j]
  OBVIOUS
<1>4. /\ n \in Calls /\ n.ends = r.ends /\ n.family = f /\ n.for = r.for /\ n.at = "read_families"
      /\ n.new = j
  BY ZenonT(30) DEF Calls
<1>5. req'[p] = n /\ n # Null /\ \A q \in Requests \ {p} : req'[q] = req[q]
  BY <1>0, <1>2, <1>4, SerialFacts, NullAssumption
<1>6. f \notin ended /\ (f \in Minted => f \in families)
  BY <1>0, <1>1, <1>2, SerialFacts
<1>7. EndedAreGone'
  BY <1>0, <1>2, <1>3, <1>6, SerialFacts DEF Serial, EndedAreGone
<1>8. HeldAreIndexed'
  BY <1>0, <1>2, <1>3, <1>6, SerialFacts DEF Serial, HeldAreIndexed
<1>9. Knows(req[p])'
  <2>1. active'[f] = j /\ j \notin denied
    BY <1>0, <1>2, SerialFacts
  <2> QED
    BY <1>1, <1>3, <1>4, <1>5, <2>1 DEF Knows, RefreshKnows, RegisteredKnows, Presenting, Revoking,
       Registered, Updates
<1>10. (\A i \in held : latest[family[i]] = i /\ family[i] \notin ended \cup faulted =>
            \/ active[family[i]] = i /\ i \notin denied
            \/ req[p] # Null /\ (family[i] \in req[p].ends \/ Replacing(req[p], family[i])))'
  <2> SUFFICES ASSUME NEW i \in held, latest[family'[i]] = i, family'[i] \notin ended \cup faulted
               PROVE  (active'[family'[i]] = i /\ i \notin denied) \/ Replacing(n, family'[i])
    BY <1>3, <1>5 DEF Replacing
  <2>1. i \in Minted /\ family'[i] = family[i] /\ family[i] \in Minted
    BY <1>0, <1>3, SerialFacts
  <2>2. (active[family[i]] = i /\ i \notin denied) \/ Replacing(r, family[i])
    BY <1>0, <1>1, <2>1, SerialFacts
  <2>3. CASE family[i] = f
    <3>1. r.for = "refresh"
      BY <1>1, <1>2, <2>1, <2>3
    <3> QED
      BY <1>4, <2>1, <2>3, <3>1 DEF Replacing, Registered
  <2>4. CASE family[i] # f
    BY <1>0, <1>1, <1>2, <2>1, <2>2, <2>4, SerialFacts DEF Replacing
  <2> QED
    BY <2>3, <2>4
<1> QED
  BY <1>0, <1>5, <1>7, <1>8, <1>9, <1>10, SerialFrom

LEMMA SerialSetFamilies ==
  ASSUME IInv, Serial, ~overlapped, NEW p \in Requests, SetFamilies(p)
  PROVE  Serial'
<1>0. req[p] # Null /\ req[p].at = "set_families"
  BY DEF SetFamilies, At
<1> PICK r \in Calls : r = req[p]
  BY <1>0, SerialFacts
<1> PICK n : n = [r EXCEPT !.at = "respond"]
  OBVIOUS
<1>1. /\ n \in Calls /\ n.ends = r.ends /\ n.family = r.family /\ n.for = r.for /\ n.at = "respond"
      /\ n.new = r.new
  BY DEF Calls
<1>2. r.for \in {"login", "refresh"} /\ RegisteredKnows(r)
  BY <1>0, SerialFacts DEF Carries, Way, Knows, Registered
<1>3. /\ families' = families \cup {r.family}
      /\ UNCHANGED <<active, denied, family, held, latest, ended, faulted>>
  BY <1>0, <1>2 DEF SetFamilies, Rest, history, RegisteredKnows
<1>4. req'[p] = n /\ n # Null /\ \A q \in Requests \ {p} : req'[q] = req[q]
  BY <1>0, <1>1, SerialFacts, NullAssumption DEF SetFamilies, Goto
<1>5. EndedAreGone' /\ HeldAreIndexed'
  BY <1>3 DEF Serial, EndedAreGone, HeldAreIndexed
<1>6. Knows(req[p])'
  BY <1>1, <1>2, <1>3, <1>4 DEF Knows, RefreshKnows, RegisteredKnows, Presenting, Revoking,
     Registered, Updates
<1>7. (\A j \in held : latest[family[j]] = j /\ family[j] \notin ended \cup faulted =>
            \/ active[family[j]] = j /\ j \notin denied
            \/ req[p] # Null /\ (family[j] \in req[p].ends \/ Replacing(req[p], family[j])))'
  BY <1>0, <1>1, <1>3, <1>4, SerialFacts DEF Replacing, Registered
<1> QED
  BY <1>0, <1>4, <1>5, <1>6, <1>7, SerialFrom

LEMMA SerialRespond ==
  ASSUME IInv, Serial, ~overlapped, NEW p \in Requests, Respond(p)
  PROVE  Serial'
<1>0. req[p] # Null /\ req[p].at = "respond"
  BY DEF Respond, At
<1> PICK r \in Calls : r = req[p]
  BY <1>0, SerialFacts
<1>1. /\ RegisteredKnows(r) /\ r.new \in Minted /\ r.family = family[r.new] /\ r.family \in Jtis
      /\ r.family \in families /\ r.ends = {} /\ active[r.family] = r.new /\ r.new \notin denied
  BY <1>0, SerialFacts DEF Carries, Knows, Registered, RegisteredKnows, IInv, Typed
<1>2. /\ held' = held \cup {r.new} /\ latest' = [latest EXCEPT ![r.family] = r.new]
      /\ UNCHANGED <<active, denied, families, family, faulted>>
      /\ ended' = ended \cup r.ends
  BY <1>0 DEF Respond, store
<1>3. req'[p] = Null /\ \A q \in Requests \ {p} : req'[q] = req[q]
  BY <1>0, SerialFacts DEF Respond
<1>4. EndedAreGone' /\ HeldAreIndexed'
  BY <1>1, <1>2 DEF Serial, EndedAreGone, HeldAreIndexed
<1>5. (\A j \in held : latest[family[j]] = j /\ family[j] \notin ended \cup faulted =>
            \/ active[family[j]] = j /\ j \notin denied
            \/ req[p] # Null /\ (family[j] \in req[p].ends \/ Replacing(req[p], family[j])))'
  <2> SUFFICES ASSUME NEW j \in held \cup {r.new}, latest'[family[j]] = j,
                      family[j] \notin ended \cup faulted
               PROVE  active[family[j]] = j /\ j \notin denied
    BY <1>1, <1>2
  <2>1. CASE family[j] = r.family
    BY <1>0, <1>1, <1>2, <2>1, SerialFacts
  <2>2. CASE family[j] # r.family
    BY <1>0, <1>1, <1>2, <2>2, SerialFacts DEF Replacing
  <2> QED
    BY <2>1, <2>2
<1> QED
  BY <1>0, <1>3, <1>4, <1>5, SerialFrom

LEMMA SerialRevokeDeny ==
  ASSUME IInv, Serial, ~overlapped, NEW p \in Requests, RevokeDeny(p)
  PROVE  Serial'
<1>0. req[p] # Null /\ req[p].at = "revoke_deny"
  BY DEF RevokeDeny, At
<1> PICK r \in Calls : r = req[p]
  BY <1>0, SerialFacts
<1> PICK n : n = [r EXCEPT !.at = "revoke_delete"]
  OBVIOUS
<1>1. /\ n \in Calls /\ n.ends = r.ends /\ n.family = r.family /\ n.for = r.for
      /\ n.at = "revoke_delete" /\ n.left = r.left
  BY DEF Calls
<1>2. /\ r.for \in {"refresh"} \cup Updates /\ family[r.seen] = r.family /\ Knows(r)
      /\ r.for = "refresh" => r.ends \subseteq {r.family}
  BY <1>0, SerialFacts DEF Carries, Way, Revoking
<1>3. /\ denied' = denied \cup {r.seen}
      /\ UNCHANGED <<active, families, family, held, latest, ended, faulted>>
  BY DEF RevokeDeny, Rest, history
<1>4. req'[p] = n /\ n # Null /\ \A q \in Requests \ {p} : req'[q] = req[q]
  BY <1>0, <1>1, SerialFacts, NullAssumption DEF RevokeDeny, Goto
<1>5. EndedAreGone' /\ HeldAreIndexed'
  BY <1>3 DEF Serial, EndedAreGone, HeldAreIndexed
<1>6. Knows(req[p])'
  BY <1>0, <1>1, <1>2, <1>3, <1>4 DEF Knows, RefreshKnows, UpdateKnows, Presenting, Revoking,
     Registered, Updates
<1>7. (\A j \in held : latest[family[j]] = j /\ family[j] \notin ended \cup faulted =>
            \/ active[family[j]] = j /\ j \notin denied
            \/ req[p] # Null /\ (family[j] \in req[p].ends \/ Replacing(req[p], family[j])))'
  <2> SUFFICES ASSUME NEW j \in held, latest[family[j]] = j, family[j] \notin ended \cup faulted
               PROVE  (active[family[j]] = j /\ j \notin denied \cup {r.seen}) \/ family[j] \in r.ends
    BY <1>1, <1>3, <1>4
  <2>1. (active[family[j]] = j /\ j \notin denied) \/ family[j] \in r.ends
    BY <1>0, SerialFacts DEF Replacing, Registered
  <2>2. CASE j = r.seen
    <3>1. r.for = "refresh" => r.ends # {} \/ r.family \in faulted
      BY <1>0, <1>2 DEF Knows, RefreshKnows, Revoking
    <3>2. r.for \in Updates => family[j] \in r.ends
      BY <1>2 DEF Knows, UpdateKnows
    <3> QED
      BY <1>2, <2>2, <3>1, <3>2
  <2> QED
    BY <2>1, <2>2
<1> QED
  BY <1>0, <1>4, <1>5, <1>6, <1>7, SerialFrom

LEMMA SerialRevokeDelete ==
  ASSUME IInv, Serial, ~overlapped, NEW p \in Requests, RevokeDelete(p)
  PROVE  Serial'
<1>0. req[p] # Null /\ req[p].at = "revoke_delete"
  BY DEF RevokeDelete, At
<1> PICK r \in Calls : r = req[p]
  BY <1>0, SerialFacts
<1>1. active' = [active EXCEPT ![r.family] = Null] /\ UNCHANGED <<denied, families, held>>
  BY DEF RevokeDelete
<1>2. /\ r.for \in {"refresh"} \cup Updates /\ r.family \in Jtis /\ Knows(r)
      /\ r.for = "refresh" => r.ends \subseteq {r.family}
  BY <1>0, SerialFacts DEF Carries, Way, Revoking
<1>3. CASE r.for = "refresh"
  <2>1. r.ends # {} \/ r.family \in faulted
    BY <1>0, <1>2, <1>3 DEF Knows, RefreshKnows, Revoking
  <2>2. Done(p)
    BY <1>3 DEF RevokeDelete
  <2> QED
    BY <1>0, <1>1, <1>2, <1>3, <2>1, <2>2, SerialFacts, SerialEnds DEF Replacing, Registered
<1>4. CASE r.for \in Updates
  <2>0. r.for # "refresh"
    BY <1>4 DEF Updates
  <2>1. /\ r.ends = {family[j] : j \in held}
        /\ \A f \in families : active[f] # Null => f \in r.left \cup {r.family}
    BY <1>0, <1>2, <1>4 DEF Knows, UpdateKnows, Revoking
  <2>2. /\ UNCHANGED <<family, latest, ended, faulted>>
        /\ \/ r.left = {} /\ Goto(p, "delete_families")
           \/ \E f \in r.left : req' = [req EXCEPT ![p].at = "revoke_get", ![p].family = f,
                                                  ![p].left = @ \ {f}]
    BY <2>0 DEF RevokeDelete, history
  <2>3. \E n \in Calls :
          /\ n.ends = r.ends /\ n.for = r.for /\ req' = [req EXCEPT ![p] = n]
          /\ \/ r.left = {} /\ n.at = "delete_families"
             \/ n.at = "revoke_get" /\ n.left \cup {n.family} = r.left
    <3>1. CASE r.left = {} /\ Goto(p, "delete_families")
      <4> PICK n : n = [r EXCEPT !.at = "delete_families"]
        OBVIOUS
      <4>1. n \in Calls /\ n.ends = r.ends /\ n.for = r.for /\ n.at = "delete_families"
        BY DEF Calls
      <4> QED
        BY <3>1, <4>1 DEF Goto
    <3>2. ASSUME NEW f \in r.left, req' = [req EXCEPT ![p].at = "revoke_get", ![p].family = f,
                                                    ![p].left = @ \ {f}]
          PROVE  \E n \in Calls :
                   /\ n.ends = r.ends /\ n.for = r.for /\ req' = [req EXCEPT ![p] = n]
                   /\ n.at = "revoke_get" /\ n.left \cup {n.family} = r.left
      <4> PICK n : n = [r EXCEPT !.at = "revoke_get", !.family = f, !.left = r.left \ {f}]
        OBVIOUS
      <4>1. /\ n \in Calls /\ n.ends = r.ends /\ n.for = r.for /\ n.at = "revoke_get"
            /\ n.family = f /\ n.left = r.left \ {f}
        BY ZenonT(30) DEF Calls
      <4>2. req' = [req EXCEPT ![p] = n]
        BY <1>0, <3>2, SerialFacts
      <4>3. n.left \cup {n.family} = r.left
        BY <4>1
      <4> HIDE DEF Calls
      <4> QED
        BY ONLY <4>1, <4>2, <4>3
    <3> QED
      BY <2>2, <3>1, <3>2
  <2> PICK n \in Calls :
          /\ n.ends = r.ends /\ n.for = r.for /\ req' = [req EXCEPT ![p] = n]
          /\ \/ r.left = {} /\ n.at = "delete_families"
             \/ n.at = "revoke_get" /\ n.left \cup {n.family} = r.left
    BY <2>3
  <2>4. req'[p] = n /\ n # Null /\ \A q \in Requests \ {p} : req'[q] = req[q]
    BY <1>0, SerialFacts, NullAssumption
  <2>5. EndedAreGone' /\ HeldAreIndexed'
    BY <1>0, <1>1, <1>2, <2>2, SerialFacts DEF Serial, EndedAreGone, HeldAreIndexed
  <2>6. \A f \in families : active'[f] # Null => f \in r.left
    BY <1>0, <1>1, <1>2, <2>1, SerialFacts
  <2>7. UpdateKnows(req[p])'
    <3>1. UNCHANGED <<families, held, family>>
      BY <1>1, <2>2
    <3>2. (req[p].ends = {family[j] : j \in held})'
      BY <2>1, <2>4, <3>1
    <3>3. CASE r.left = {} /\ n.at = "delete_families"
      <4>1. \A f \in families : active'[f] = Null
        BY <2>6, <3>3
      <4> QED
        BY <2>4, <3>1, <3>2, <3>3, <4>1 DEF UpdateKnows, Revoking
    <3>4. CASE n.at = "revoke_get" /\ n.left \cup {n.family} = r.left
      BY <2>4, <2>6, <3>1, <3>2, <3>4 DEF UpdateKnows, Revoking
    <3> QED
      BY <3>3, <3>4
  <2>8. Knows(req[p])'
    BY <1>4, <2>4, <2>7 DEF Knows, Registered, Updates
  <2>9. (\A j \in held : latest[family[j]] = j /\ family[j] \notin ended \cup faulted =>
            \/ active[family[j]] = j /\ j \notin denied
            \/ req[p] # Null /\ (family[j] \in req[p].ends \/ Replacing(req[p], family[j])))'
    BY <1>1, <2>1, <2>2, <2>4
  <2> QED
    BY <1>0, <2>4, <2>5, <2>8, <2>9, SerialFrom
<1> QED
  BY <1>2, <1>3, <1>4

LEMMA SerialDeleteFamilies ==
  ASSUME IInv, Serial, ~overlapped, NEW p \in Requests, DeleteFamilies(p)
  PROVE  Serial'
<1>0. req[p] # Null /\ req[p].at = "delete_families"
  BY DEF DeleteFamilies, At
<1> PICK r \in Calls : r = req[p]
  BY <1>0, SerialFacts
<1> PICK n : n = [r EXCEPT !.at = "commit"]
  OBVIOUS
<1>1. n \in Calls /\ n.ends = r.ends /\ n.for = r.for /\ n.at = "commit"
  BY DEF Calls
<1>2. r.for \in Updates /\ UpdateKnows(r)
  BY <1>0, SerialFacts DEF Carries, Way, Knows
<1>3. /\ families' = {}
      /\ UNCHANGED <<active, denied, family, held, latest, ended, faulted>>
  BY DEF DeleteFamilies, Rest, history
<1>4. req'[p] = n /\ n # Null /\ \A q \in Requests \ {p} : req'[q] = req[q]
  BY <1>0, <1>1, SerialFacts, NullAssumption DEF DeleteFamilies, Goto
<1>5. \A j \in held : active[family[j]] = Null
  BY <1>0, <1>2 DEF UpdateKnows, Serial, HeldAreIndexed
<1>6. EndedAreGone' /\ HeldAreIndexed'
  BY <1>3, <1>5 DEF Serial, EndedAreGone, HeldAreIndexed
<1>7. Knows(req[p])'
  BY <1>1, <1>2, <1>3, <1>4, <1>5 DEF Knows, UpdateKnows, Revoking, Registered, Updates
<1>8. (\A j \in held : latest[family[j]] = j /\ family[j] \notin ended \cup faulted =>
            \/ active[family[j]] = j /\ j \notin denied
            \/ req[p] # Null /\ (family[j] \in req[p].ends \/ Replacing(req[p], family[j])))'
  BY <1>1, <1>2, <1>3, <1>4 DEF UpdateKnows
<1> QED
  BY <1>0, <1>4, <1>6, <1>7, <1>8, SerialFrom

LEMMA SerialCommit ==
  ASSUME IInv, Serial, ~overlapped, NEW p \in Requests, Commit(p)
  PROVE  Serial'
<1>0. req[p] # Null /\ req[p].at = "commit"
  BY DEF Commit, At
<1>1. req[p].for \in Updates /\ UpdateKnows(req[p])
  BY <1>0, SerialFacts DEF Carries, Way, Knows
<1>2. Done(p) /\ UNCHANGED <<active, denied, families, held>>
  BY DEF Commit, store
<1>3. \A f \in req[p].ends : active[f] = Null
  BY <1>0, <1>1 DEF UpdateKnows
<1> QED
  BY <1>0, <1>1, <1>2, <1>3, SerialEnds DEF Replacing, Updates

\* A request that fails leaves what it had to do with to faulted.
LEMMA SerialFail ==
  ASSUME IInv, Serial, ~overlapped, NEW p \in Requests, Fail(p)
  PROVE  Serial'
<1>0. req[p] # Null
  BY DEF Fail
<1> PICK r \in Calls : r = req[p]
  BY <1>0, SerialFacts
<1>1. /\ UNCHANGED <<active, denied, families, family, held, latest, ended>>
      /\ faulted' = faulted \cup (IF r.for \in Updates THEN Families ELSE {r.family} \ {Null})
  BY DEF Fail, store, Updates
<1>2. req'[p] = Null /\ \A q \in Requests \ {p} : req'[q] = req[q]
  BY <1>0, SerialFacts DEF Fail
<1>3. EndedAreGone' /\ HeldAreIndexed'
  BY <1>1 DEF Serial, EndedAreGone, HeldAreIndexed
<1>4. (\A j \in held : latest[family[j]] = j /\ family[j] \notin ended \cup faulted =>
            \/ active[family[j]] = j /\ j \notin denied
            \/ req[p] # Null /\ (family[j] \in req[p].ends \/ Replacing(req[p], family[j])))'
  <2> SUFFICES ASSUME NEW j \in held, latest[family[j]] = j, family[j] \notin ended \cup faulted'
               PROVE  active[family[j]] = j /\ j \notin denied
    BY <1>1
  <2>0. j \in Minted /\ family[j] \in Families /\ family[j] # Null
    BY <1>0, SerialFacts DEF Families
  <2>1. r.for \notin Updates /\ r.family # family[j]
    BY <1>1, <2>0
  <2>2. family[j] \notin r.ends
    <3>1. r.for \in {"login", "refresh", "logout"}
      BY <2>1 DEF Calls, Updates
    <3> QED
      BY <1>0, <2>1, <3>1, SerialFacts DEF Carries
  <2> QED
    BY <1>0, <1>1, <2>1, <2>2, SerialFacts DEF Replacing
<1> QED
  BY <1>0, <1>2, <1>3, <1>4, SerialFrom

\* A request begins when no other is in progress.
LEMMA SerialBegins ==
  ASSUME IInv, Serial, NEW p \in Requests, Begins(p), ~overlapped'
  PROVE  Serial'
<1>1. UNCHANGED <<active, denied, families, family, held, ended, latest, faulted>>
  BY BeginsFrame DEF store, history
<1>2. InProgress = {} /\ req[p] = Null
  BY DEF Begins, Login, Refresh, Logout, UpdateUser, Begin
<1>3. InProgress' \subseteq {p} /\ Typed
  BY <1>2, BeginsCarries DEF InProgress, IInv
<1>4. EndedAreGone' /\ HeldAreIndexed'
  BY <1>1 DEF Serial, EndedAreGone, HeldAreIndexed
<1>5. LastIsGood'
  <2>1. \A j \in held : latest[family[j]] = j /\ family[j] \notin ended \cup faulted =>
                          active[family[j]] = j /\ j \notin denied
    BY <1>2 DEF Serial, LastIsGood
  <2> QED
    BY <1>1, <2>1 DEF LastIsGood
<1>6. ASSUME NEW for, NEW at, NEW jti, NEW ends, Begin(p, for, at, jti, ends)
      PROVE  /\ req'[p].for = for /\ req'[p].at = at /\ req'[p].jti = jti
             /\ req'[p].family = IF jti = Null THEN Null ELSE family[jti]
             /\ req'[p].ends = ends
  BY <1>3, <1>6 DEF Begin, Typed
<1>7. Knows(req[p])'
  <2>1. CASE Login(p)
    BY <1>6, <2>1 DEF Login, Knows, Registered, Updates
  <2>2. ASSUME NEW j \in held, Refresh(p, j) \/ Logout(p, j)
        PROVE  Knows(req[p])'
    <3>1. j # Null
      BY <1>3, MintedAreJtis, NullAssumption DEF Typed, Jtis
    <3>2. CASE Refresh(p, j)
      BY <1>1, <1>6, <3>1, <3>2 DEF Refresh, Knows, RefreshKnows, Presenting, Revoking, Registered, Updates
    <3>3. CASE Logout(p, j)
      BY <1>1, <1>6, <3>1, <3>3 DEF Logout, Knows, LogoutKnows, Registered, Updates
    <3> QED
      BY <2>2, <3>2, <3>3
  <2>3. ASSUME NEW for \in Updates, UpdateUser(p, for)
        PROVE  Knows(req[p])'
    BY <1>1, <1>6, <2>3 DEF UpdateUser, Knows, UpdateKnows, Revoking, Registered, Updates
  <2> QED
    BY <2>1, <2>2, <2>3 DEF Begins, Updates
<1>8. \A q \in InProgress' : Knows(req[q])'
  BY <1>3, <1>7
<1> QED
  BY <1>4, <1>5, <1>8 DEF Serial

LEMMA SInvNext ==
  ASSUME IInv, SInv, [Next]_vars
  PROVE  SInv'
<1> SUFFICES ASSUME ~overlapped'
             PROVE  Serial'
  BY DEF SInv
<1>1. ~overlapped /\ Serial
  BY AloneNext DEF IInv, SInv
<1>2. CASE UNCHANGED vars
  BY <1>1, <1>2 DEF vars, store, history, Serial, EndedAreGone, HeldAreIndexed, LastIsGood,
     InProgress, Knows, RefreshKnows, LogoutKnows, UpdateKnows, RegisteredKnows, Replacing
<1>3. CASE Reactivate
  BY <1>1, <1>3 DEF Reactivate, store, history, Serial, EndedAreGone, HeldAreIndexed, LastIsGood,
     InProgress, Knows, RefreshKnows, LogoutKnows, UpdateKnows, RegisteredKnows, Replacing
<1>4. ASSUME NEW p \in Requests, Step(p)
      PROVE  Serial'
  BY <1>1, <1>4, SerialGetDenied, SerialGetActive, SerialSetDenied, SerialCompareActive,
     SerialDeleteActive, SerialSetActive, SerialReadFamilies, SerialSetFamilies, SerialRespond,
     SerialGetFamilies, SerialRevokeGet, SerialRevokeDeny, SerialRevokeDelete,
     SerialDeleteFamilies, SerialCommit, SerialFail DEF Step
<1> QED
  BY <1>1, <1>2, <1>3, <1>4, SerialBegins, StepCases

LEMMA SInvInit ==
  ASSUME Init
  PROVE  SInv
BY DEF Init, SInv, Serial, EndedAreGone, HeldAreIndexed, LastIsGood, InProgress

LEMMA SInvAlways == Spec => []SInv
BY SInvInit, SInvNext, IInvAlways, PTL DEF Spec

\* As long as no two requests overlap, no token of a session that was ended - by signing out,
\* by a second use, by update_user - can be exchanged again, whatever failed before or after.
THEOREM AlwaysEnded == Spec => []EndedStaysEnded
<1>1. IInv /\ SInv => EndedStaysEnded
  BY MintedAreJtis, NullAssumption
     DEF IInv, SInv, Serial, EndedAreGone, EndedStaysEnded, Usable, Typed, Jtis
<1> QED
  BY <1>1, IInvAlways, SInvAlways, PTL

\* As long as no two requests overlap, a session that nobody ended and no failed request had to
\* do with goes on: its last token can be exchanged, whatever became of the others.
THEOREM AlwaysLive == Spec => []LiveUntilEnded
<1>1. SInv => LiveUntilEnded
  BY DEF SInv, Serial, LastIsGood, LiveUntilEnded, Usable
<1> QED
  BY <1>1, SInvAlways, PTL
=============================================================================
