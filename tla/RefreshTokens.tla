--------------------------- MODULE RefreshTokens ---------------------------
(* The refresh tokens of one user: sign-in, rotation, sign-out and the       *)
(* revocation of every session when an administrator deactivates the user or *)
(* changes the role.  The store is a key-value store without transactions:   *)
(* each get, set and delete is an action of its own, requests interleave     *)
(* between them, and a request can fail before any of them.  Every key is    *)
(* written with the lifetime of a refresh token, so a key outlives the       *)
(* tokens it speaks of and expiry is left out.  A token is known by its jti, *)
(* numbered in the order of registration; the family is the jti of the       *)
(* sign-in that opened it.                                                   *)
EXTENDS Integers, FiniteSets, Sequences

CONSTANTS
  Requests,                \* requests that can be in progress at once
  Null,
  MaxTokens, MaxRequests   \* bounds: tokens registered, requests begun

Jtis == 1 .. MaxTokens

\* a request: what it is for, its next step, the token presented, the family at hand, the active
\* token and the index it read, the families still to revoke, the families it will have ended,
\* the token it registers, and is_active as it read it
Calls ==
  [for : {"login", "refresh", "logout", "deactivate", "change_role"},
   at : {"get_denied", "get_active", "set_denied", "compare_active", "delete_active",
         "set_active", "read_families", "set_families", "respond",
         "get_families", "revoke_get", "revoke_deny", "revoke_delete", "delete_families", "commit"},
   jti : Jtis \cup {Null}, family : Jtis \cup {Null}, seen : Jtis \cup {Null},
   index : SUBSET Jtis, left : SUBSET Jtis, ends : SUBSET Jtis, new : Jtis \cup {Null}, was : BOOLEAN]

ASSUME NullAssumption == Null \notin Int \cup Calls
ASSUME BoundsAssumption == {MaxTokens, MaxRequests} \subseteq Nat

VARIABLES
  active,      \* refresh:active:{user}:{family}, per family
  denied,      \* the jtis with a revoked:jti:{jti} key
  families,    \* refresh:families:{user}
  is_active,   \* users.is_active, as committed
  family,      \* the family claim of every token registered, by jti
  held,        \* the tokens whose response reached the client
  req,         \* the requests in progress
  ended,       \* history: families that a completed request has ended
  latest,      \* history: the last token the client received, per family
  faulted,     \* history: families a failed request had to do with
  begun,       \* requests begun
  overlapped   \* history: have two requests been in progress at once
store == <<active, denied, families>>
history == <<ended, latest, faulted>>
bounds == <<begun, overlapped>>
vars == <<store, is_active, family, held, req, history, bounds>>

Minted == DOMAIN family
Families == {family[j] : j \in Minted}
InProgress == {p \in Requests : req[p] # Null}

Init ==
  /\ active = [f \in Jtis |-> Null] /\ denied = {} /\ families = {}
  /\ is_active = TRUE /\ family = <<>> /\ held = {}
  /\ req = [p \in Requests |-> Null]
  /\ ended = {} /\ latest = [f \in Jtis |-> Null] /\ faulted = {}
  /\ begun = 0 /\ overlapped = FALSE

-----------------------------------------------------------------------------
(* The requests.  What the database and the JWT decide comes first; a        *)
(* request they refuse changes nothing and is not begun.                     *)

Begin(p, for, at, jti, ends) ==
  /\ req[p] = Null /\ begun < MaxRequests
  /\ begun' = begun + 1 /\ overlapped' = (overlapped \/ InProgress # {})
  /\ req' = [req EXCEPT ![p] =
       [for |-> for, at |-> at, jti |-> jti, family |-> IF jti = Null THEN Null ELSE family[jti],
        seen |-> Null, index |-> {}, left |-> {}, ends |-> ends, new |-> Null, was |-> is_active]]
  /\ UNCHANGED <<store, is_active, family, held, history>>

\* login, and register_tenant_and_admin for the first user
Login(p) == is_active /\ Begin(p, "login", "set_active", Null, {})

Refresh(p, j) ==
  /\ is_active
  /\ Begin(p, "refresh", "get_denied", j, IF active[family[j]] = j THEN {} ELSE {family[j]})

Logout(p, j) ==
  Begin(p, "logout", "set_denied", j, IF active[family[j]] = j THEN {family[j]} ELSE {})

\* update_user that deactivates or changes the role; the commit follows the revocation
UpdateUser(p, for) == Begin(p, for, "get_families", Null, {family[j] : j \in held})

Reactivate ==
  /\ ~is_active /\ is_active' = TRUE
  /\ UNCHANGED <<store, family, held, req, history, bounds>>

-----------------------------------------------------------------------------
(* The steps of the store.                                                   *)

At(p, at) == req[p] # Null /\ req[p].at = at
Goto(p, at) == req' = [req EXCEPT ![p].at = at]
Rest == UNCHANGED <<is_active, family, held, history, bounds>>

\* the request ends; the client has the answer
Done(p) ==
  /\ req' = [req EXCEPT ![p] = Null]
  /\ ended' = ended \cup req[p].ends
  /\ UNCHANGED <<latest, faulted, family, bounds>>

\* Mutant: a revoked token is refused and nothing else.
GetDeniedRefuses(p) ==
  /\ At(p, "get_denied")
  /\ IF req[p].jti \in denied
     THEN Done(p) /\ UNCHANGED <<store, is_active, held>>
     ELSE Goto(p, "get_active") /\ UNCHANGED store /\ Rest
GetDenied(p) ==
  /\ At(p, "get_denied")
  /\ Goto(p, IF req[p].jti \in denied THEN "revoke_get" ELSE "get_active")
  /\ UNCHANGED store /\ Rest

GetActive(p) ==
  /\ At(p, "get_active")
  /\ LET current == active[req[p].family]
     IN  CASE current = Null -> Done(p) /\ UNCHANGED <<store, is_active, held>>
           [] current = req[p].jti -> Goto(p, "set_denied") /\ UNCHANGED store /\ Rest
           [] OTHER -> Goto(p, "revoke_get") /\ UNCHANGED store /\ Rest

SetDenied(p) ==
  /\ At(p, "set_denied")
  /\ denied' = denied \cup {req[p].jti}
  /\ Goto(p, IF req[p].for = "refresh" THEN "delete_active" ELSE "compare_active")
  /\ UNCHANGED <<active, families>> /\ Rest

\* Mutant: signing out denies the token and leaves it the active one.
CompareActiveKeeps(p) ==
  /\ At(p, "compare_active")
  /\ Done(p) /\ UNCHANGED <<store, is_active, held>>
\* Mutant: signing out with any token of a family ends the family.
CompareActiveAny(p) ==
  /\ At(p, "compare_active")
  /\ Goto(p, "delete_active") /\ UNCHANGED store /\ Rest
CompareActive(p) ==
  /\ At(p, "compare_active")
  /\ IF active[req[p].family] = req[p].jti
     THEN Goto(p, "delete_active") /\ UNCHANGED store /\ Rest
     ELSE Done(p) /\ UNCHANGED <<store, is_active, held>>

DeleteActive(p) ==
  /\ At(p, "delete_active")
  /\ active' = [active EXCEPT ![req[p].family] = Null]
  /\ UNCHANGED <<denied, families, is_active, held>>
  /\ IF req[p].for = "refresh"
     THEN Goto(p, "set_active") /\ UNCHANGED <<family, history, bounds>>
     ELSE Done(p)

\* register: the new token's jti is fresh, and so is the family of a sign-in
SetActive(p) ==
  /\ At(p, "set_active") /\ Len(family) < MaxTokens
  /\ LET j == Len(family) + 1
         f == IF req[p].for = "login" THEN j ELSE req[p].family
     IN  /\ family' = Append(family, f)
         /\ active' = [active EXCEPT ![f] = j]
         /\ req' = [req EXCEPT ![p].at = "read_families", ![p].family = f, ![p].new = j]
  /\ UNCHANGED <<denied, families, is_active, held, history, bounds>>

ReadFamilies(p) ==
  /\ At(p, "read_families")
  /\ req' = [req EXCEPT ![p].at = "set_families", ![p].index = families]
  /\ UNCHANGED store /\ Rest

\* Mutant: the index is the family just registered.
SetFamiliesOverwrites(p) ==
  /\ At(p, "set_families")
  /\ families' = {req[p].family}
  /\ Goto(p, "respond")
  /\ UNCHANGED <<active, denied>> /\ Rest
SetFamilies(p) ==
  /\ At(p, "set_families")
  /\ families' = req[p].index \cup {req[p].family}
  /\ Goto(p, "respond")
  /\ UNCHANGED <<active, denied>> /\ Rest

Respond(p) ==
  /\ At(p, "respond")
  /\ held' = held \cup {req[p].new}
  /\ latest' = [latest EXCEPT ![req[p].family] = req[p].new]
  /\ req' = [req EXCEPT ![p] = Null]
  /\ ended' = ended \cup req[p].ends
  /\ UNCHANGED <<store, is_active, family, faulted, bounds>>

\* revoke_all_for_user: the index, then family by family; the ids are random, so the order in
\* which the index lists them is any order
GetFamilies(p) ==
  /\ At(p, "get_families")
  /\ \/ families = {} /\ Goto(p, "commit")
     \/ \E f \in families :
          req' = [req EXCEPT ![p].at = "revoke_get", ![p].family = f, ![p].left = families \ {f}]
  /\ UNCHANGED store /\ Rest

\* _revoke_family
RevokeGet(p) ==
  /\ At(p, "revoke_get")
  /\ LET current == active[req[p].family]
     IN  req' = [req EXCEPT ![p].seen = current,
                            ![p].at = IF current = Null THEN "revoke_delete" ELSE "revoke_deny"]
  /\ UNCHANGED store /\ Rest

RevokeDeny(p) ==
  /\ At(p, "revoke_deny")
  /\ denied' = denied \cup {req[p].seen}
  /\ Goto(p, "revoke_delete")
  /\ UNCHANGED <<active, families>> /\ Rest

RevokeDelete(p) ==
  /\ At(p, "revoke_delete")
  /\ active' = [active EXCEPT ![req[p].family] = Null]
  /\ UNCHANGED <<denied, families, is_active, held>>
  /\ IF req[p].for = "refresh" THEN Done(p)
     ELSE /\ \/ req[p].left = {} /\ Goto(p, "delete_families")
             \/ \E f \in req[p].left :
                  req' = [req EXCEPT ![p].at = "revoke_get", ![p].family = f, ![p].left = @ \ {f}]
          /\ UNCHANGED <<family, history, bounds>>

DeleteFamilies(p) ==
  /\ At(p, "delete_families")
  /\ families' = {}
  /\ Goto(p, "commit")
  /\ UNCHANGED <<active, denied>> /\ Rest

\* the transaction of update_user commits when the handler returns; an attribute set to the value
\* it was read with is not written
Commit(p) ==
  /\ At(p, "commit")
  /\ is_active' = IF req[p].for = "deactivate" /\ req[p].was THEN FALSE ELSE is_active
  /\ Done(p) /\ UNCHANGED <<store, held>>

\* the store does not answer, or the answer of the request is lost; the database rolls back
Fail(p) ==
  /\ req[p] # Null
  /\ req' = [req EXCEPT ![p] = Null]
  /\ faulted' = faulted \cup (IF req[p].for \in {"deactivate", "change_role"} THEN Families
                             ELSE {req[p].family} \ {Null})
  /\ UNCHANGED <<store, is_active, family, held, ended, latest, bounds>>

Step(p) ==
  \/ GetDenied(p) \/ GetActive(p) \/ SetDenied(p) \/ CompareActive(p) \/ DeleteActive(p)
  \/ SetActive(p) \/ ReadFamilies(p) \/ SetFamilies(p) \/ Respond(p)
  \/ GetFamilies(p) \/ RevokeGet(p) \/ RevokeDeny(p) \/ RevokeDelete(p) \/ DeleteFamilies(p)
  \/ Commit(p) \/ Fail(p)

Next ==
  \/ Reactivate
  \/ \E p \in Requests :
       \/ Login(p) \/ (\E j \in held : Refresh(p, j) \/ Logout(p, j))
       \/ UpdateUser(p, "deactivate") \/ UpdateUser(p, "change_role")
       \/ Step(p)

Spec == Init /\ [][Next]_vars

-----------------------------------------------------------------------------
(* Properties.                                                               *)

\* a token that a refresh would exchange now
Usable(j) == active[family[j]] = j /\ j \notin denied

\* Sessions that were ended stay ended: after a sign-out of the current token, a second use of
\* a replaced one, or update_user, no token a client holds of such a family can be exchanged
\* again, whatever failed before or after, as long as no two requests overlapped.
EndedStaysEnded ==
  ~overlapped => \A j \in held : family[j] \in ended => ~Usable(j)

\* A session nobody ended goes on: its last token can be exchanged, whatever happens to the
\* user's other sessions (serial requests, none of which failed on this family).
LiveUntilEnded ==
  ~overlapped /\ InProgress = {} =>
    \A j \in held : latest[family[j]] = j /\ family[j] \notin ended \cup faulted => Usable(j)

\* However requests interleave, when they have ended the store has no active token that is
\* also denied: every denial is followed by the removal of the key it makes void.
SettledNotDenied ==
  InProgress = {} =>
    \A f \in Families \ faulted : active[f] # Null => active[f] \notin denied
=============================================================================
