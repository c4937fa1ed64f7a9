---------------------------- MODULE UserSessions ----------------------------
(***************************************************************************)
(* The user service: accounts, login, rotation of the refresh token,       *)
(* logout, and the administration of accounts.  A login or a refresh hands *)
(* out an access and a refresh token together; both carry the role read    *)
(* from the account row, neither is stored.  What is stored, in Redis with *)
(* a time to live, is the key that marks a refresh token as consumed.      *)
(* Logout sets another key, for the same refresh token; no code looks that *)
(* one up (the gateway asks for access tokens, refresh for the consumption *)
(* key), so logout changes nothing here.                                   *)
(*                                                                         *)
(* Time is relative: a pair has an age, a key a remaining time to live,    *)
(* and SessTick moves all of them by one unit.  Metrics, names, passwords (a   *)
(* wrong one changes nothing) and the refusals that leave every table as   *)
(* it was are left out; the rate limiter in front of login and refresh is  *)
(* module RateWindow.                                                      *)
(***************************************************************************)
EXTENDS Integers, FiniteSets, FiniteSetsExt

CONSTANTS Accounts,      \* e-mail addresses, unique over all tenants
          AccountTenants,
          AccountRoles,  \* the roles administrators hand out in this instance
          FirstAccount,  \* the seeded superadmin
          SessClients,   \* concurrent refresh requests
          MaxPairs,      \* token pairs followed up at a time
          AccessLife,    \* access_expire_minutes
          RefreshLife,   \* refresh_expire_days, in the same unit
          MinRevokeTTL   \* _MIN_REVOKE_TTL

ASSUME SessAssumption ==
    /\ FirstAccount \in Accounts
    /\ AccountTenants # {}
    /\ AccountRoles \subseteq {"viewer", "operator", "admin", "superadmin"}
    /\ {MaxPairs, AccessLife, RefreshLife, MinRevokeTTL} \subseteq Nat \ {0}
    /\ AccessLife <= RefreshLife

VARIABLES account,  \* the users table: a row or NoAccount, per e-mail
          pair,     \* token pairs handed out, with the Redis keys of their refresh token
          call      \* per client, the refresh request between its read and its answer

sessVars == <<account, pair, call>>

NoAccount == [tenant |-> "none"]
NoPair == [user |-> "none"]
NoCall == [pair |-> 0]

Slots == 1 .. MaxPairs

-----------------------------------------------------------------------------
(* Tokens.  A token is valid up to and including the second of its exp      *)
(* claim.                                                                   *)

AccessValid(p) == p # NoPair /\ p.age <= AccessLife

RefreshValid(p) == p # NoPair /\ p.age <= RefreshLife

\* Seconds until the refresh token expires, negative once it has.
Remaining(p) == RefreshLife - p.age

\* Mutant: a refresh token is marked for the minimal time only.
KeyTTLMinimal(p) == MinRevokeTTL

KeyTTL(p) == Max({Remaining(p), MinRevokeTTL})

FreeSlots == {n \in Slots : pair[n] = NoPair}

\* The new pair is followed up as long as a slot is free.
Track(pairs, p) ==
    IF FreeSlots = {} THEN pairs ELSE [pairs EXCEPT ![Min(FreeSlots)] = p]

\* What a token says of its bearer is the row it was made from; "exchanged"
\* is history: how often the refresh token was exchanged before its expiry.
IssuePair(u, row) ==
    [user |-> u, tenant |-> row.tenant, role |-> row.role,
     age |-> 0, used |-> 0, exchanged |-> 0]

-----------------------------------------------------------------------------
(* login and refresh                                                        *)

GetByEmail(u) == account[u]

GetById(u) == account[u]

\* The tenant assertion of the request body, when there is one.
Authenticates(row, asserted) ==
    row # NoAccount /\ row.active /\ asserted \in {"none", row.tenant}

\* Nothing is awaited between the read of the row and the answer.
Login(u, asserted) ==
    /\ Authenticates(GetByEmail(u), asserted)
    /\ FreeSlots # {}
    /\ pair' = Track(pair, IssuePair(u, GetByEmail(u)))
    /\ UNCHANGED <<account, call>>

\* Mutant: the account is looked up and its is_active ignored.
RefreshReadInactive(c, n) ==
    LET row == GetById(pair[n].user) IN
    /\ call[c] = NoCall
    /\ RefreshValid(pair[n])
    /\ row # NoAccount
    /\ call' = [call EXCEPT ![c] = [pair |-> n, row |-> row, seen |-> {row}]]
    /\ UNCHANGED <<account, pair>>

\* The token is verified and the account read; what follows awaits Redis.
\* "seen" is history: the rows the account has had since.
RefreshRead(c, n) ==
    LET row == GetById(pair[n].user) IN
    /\ call[c] = NoCall
    /\ RefreshValid(pair[n])
    /\ row # NoAccount
    /\ row.active
    /\ call' = [call EXCEPT ![c] = [pair |-> n, row |-> row, seen |-> {row}]]
    /\ UNCHANGED <<account, pair>>

\* SET NX EX: one caller finds the key absent and sets it.
ConsumeRefreshToken(p) ==
    [p EXCEPT !.used = KeyTTL(p),
              !.exchanged = IF Remaining(p) > 0 THEN @ + 1 ELSE @]

\* Mutant: the new tokens repeat the role of the old one.
RefreshIssueClaims(c) ==
    LET n == call[c].pair IN
    /\ call[c] # NoCall
    /\ pair[n].used = 0
    /\ pair' = Track([pair EXCEPT ![n] = ConsumeRefreshToken(@)],
                     IssuePair(pair[n].user, pair[n]))
    /\ call' = [call EXCEPT ![c] = NoCall]
    /\ UNCHANGED account

RefreshIssue(c) ==
    LET n == call[c].pair IN
    /\ call[c] # NoCall
    /\ pair[n].used = 0
    /\ pair' = Track([pair EXCEPT ![n] = ConsumeRefreshToken(@)],
                     IssuePair(pair[n].user, call[c].row))
    /\ call' = [call EXCEPT ![c] = NoCall]
    /\ UNCHANGED account

\* The key is there already: replay detected, 401.
RefreshReplay(c) ==
    /\ call[c] # NoCall
    /\ pair[call[c].pair].used > 0
    /\ call' = [call EXCEPT ![c] = NoCall]
    /\ UNCHANGED <<account, pair>>

\* Redis is unreachable, or its answer is lost after it set the key: 500.
RefreshFails(c) ==
    LET n == call[c].pair IN
    /\ call[c] # NoCall
    /\ pair' \in {pair, [pair EXCEPT ![n].used = IF @ = 0 THEN KeyTTL(pair[n]) ELSE @]}
    /\ call' = [call EXCEPT ![c] = NoCall]
    /\ UNCHANGED account

\* The request from its read on, as it ends: 200, 401 or 500.
RefreshEnds(c) == RefreshIssue(c) \/ RefreshReplay(c) \/ RefreshFails(c)

-----------------------------------------------------------------------------
(* Administration: the actor is what the claims of its access token say.    *)

CanCreate(role) == role \in {"admin", "superadmin"}

\* tenant_scope: the tenant asked for, or the actor's own when none is named.
ActorScope(actor, tenant) == tenant = actor.tenant \/ actor.role = "superadmin"

ValidateRole(role) == role \in {"viewer", "operator", "admin", "superadmin"}

\* INSERT ... ON CONFLICT (email) DO NOTHING: a taken address answers 409.
InsertUser(u, row) == account[u] = NoAccount /\ account' = [account EXCEPT ![u] = row]

CreateUser(n, u, role, tenant) ==
    /\ AccessValid(pair[n])
    /\ ValidateRole(role)
    /\ CanCreate(pair[n].role)
    /\ ActorScope(pair[n], tenant)
    /\ InsertUser(u, [tenant |-> tenant, role |-> role, active |-> TRUE])
    /\ UNCHANGED <<pair, call>>

\* The row is written in one statement; requests that read it before keep
\* what they read.
WriteRow(u, row) ==
    /\ account' = [account EXCEPT ![u] = row]
    /\ call' = [c \in SessClients |->
                  IF call[c] # NoCall /\ pair[call[c].pair].user = u
                  THEN [call[c] EXCEPT !.seen = @ \cup {row}] ELSE call[c]]
    /\ UNCHANGED pair

\* The row is read first, for the tenant, which never changes; then updated.
UpdateUser(n, u, role) ==
    /\ AccessValid(pair[n])
    /\ CanCreate(pair[n].role)
    /\ account[u] # NoAccount
    /\ ActorScope(pair[n], account[u].tenant)
    /\ ValidateRole(role)
    /\ WriteRow(u, [account[u] EXCEPT !.role = role])

DeactivateUser(n, u) ==
    /\ AccessValid(pair[n])
    /\ CanCreate(pair[n].role)
    /\ account[u] # NoAccount
    /\ ActorScope(pair[n], account[u].tenant)
    /\ WriteRow(u, [account[u] EXCEPT !.active = FALSE])

-----------------------------------------------------------------------------
(* Time: tokens age, keys run out.                                          *)

Older(p) ==
    [p EXCEPT !.age = Min({@ + 1, RefreshLife + 1}), !.used = Max({@ - 1, 0})]

\* A pair nobody can present any more is forgotten, unless a request holds it.
Forgotten(n, p) ==
    ~RefreshValid(p) /\ p.used = 0 /\ \A c \in SessClients : call[c].pair # n

SessTick ==
    /\ pair' = [n \in Slots |->
                  IF pair[n] = NoPair \/ Forgotten(n, Older(pair[n])) THEN NoPair
                  ELSE Older(pair[n])]
    /\ UNCHANGED <<account, call>>

SessInit ==
    /\ account = [u \in Accounts |->
                    IF u = FirstAccount
                    THEN [tenant |-> CHOOSE t \in AccountTenants : TRUE,
                          role |-> "superadmin", active |-> TRUE]
                    ELSE NoAccount]
    /\ pair = [n \in Slots |-> NoPair]
    /\ call = [c \in SessClients |-> NoCall]

SessNext ==
    \/ \E u \in Accounts, t \in AccountTenants \cup {"none"} : Login(u, t)
    \/ \E c \in SessClients : \/ \E n \in Slots : RefreshRead(c, n)
                              \/ RefreshEnds(c)
    \/ \E n \in Slots, u \in Accounts :
         \/ \E r \in AccountRoles :
              \/ UpdateUser(n, u, r)
              \/ \E t \in AccountTenants : CreateUser(n, u, r, t)
         \/ DeactivateUser(n, u)
    \/ SessTick

SessSpec == SessInit /\ [][SessNext]_sessVars

-----------------------------------------------------------------------------
(* Properties                                                               *)

\* A refresh token is exchanged once before it expires, however many requests
\* present it at the same time and whenever they do: the key that marks it
\* consumed (consume_refresh_token) outlives it.
RotatedOnce == \A n \in Slots : pair[n] # NoPair => pair[n].exchanged <= 1

PairIssued(n) == n \in FreeSlots /\ pair'[n] # pair[n] /\ pair'[n] # NoPair

\* A pair is handed out on a row that the account had at some time since
\* the request began: AuthService.refresh takes the role from the users
\* table and never from the claims of the token it replaces.
ClaimsCurrent ==
    \A n \in Slots : PairIssued(n) =>
         LET grounds(row) == row # NoAccount /\ row.role = pair'[n].role
         IN  \/ grounds(account[pair'[n].user])
             \/ \E c \in SessClients : /\ call[c] # NoCall /\ call'[c] = NoCall
                                       /\ \E row \in call[c].seen : grounds(row)

\* What a refresh hands out, it hands out once and on a current row.
SessionsSound == [][RotatedOnce' /\ ClaimsCurrent]_sessVars

Inactive(u) == account[u] # NoAccount /\ ~account[u].active

Dead(u) == \A n \in Slots : pair[n] # NoPair /\ pair[n].user = u => ~AccessValid(pair[n])

\* A deactivated user ends up without a valid access token for good, though
\* deactivate_user revokes none: refresh and login refuse the user, and what
\* was handed out runs out.  (No operation makes an account active again.)
LockedOut == <>[](\A u \in Accounts : Inactive(u) => Dead(u))

SessFairness ==
    /\ WF_sessVars(SessTick)
    /\ \A c \in SessClients : WF_sessVars(RefreshEnds(c))

=============================================================================
