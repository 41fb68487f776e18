------------------------------ MODULE Identity ------------------------------
(***************************************************************************)
(* Who may work where (internal/identity): the one setup of an             *)
(* installation, its companies, members, roles, sessions and API tokens,   *)
(* and the second factor of a sign-in.                                     *)
(*                                                                         *)
(* Two parts.  The office: companies and the rows that hang on them; a     *)
(* company is deleted by a transaction that reads a company to fall back   *)
(* to, and two such transactions may run side by side.  The door: one      *)
(* account signing in with time steps and recovery codes while its factor  *)
(* is replaced.  Names, audit rows and modules' contents are left out.     *)
(***************************************************************************)
EXTENDS Integers, FiniteSets, FiniteSetsExt

CONSTANTS Users,        \* accounts
          DemoUser,     \* the account of the demo company
          Companies,    \* numbered in the order of their trade names
          DemoCompany,
          Seats,        \* sessions
          Tokens,       \* API tokens
          Permissions,  \* what a role may allow; "manage" covers security.*
          Attempts,     \* concurrent sign-ins
          MaxFailures,  \* failed sign-ins of a window that block the next
          MaxStep,      \* bound: time steps of the second factor
          MaxVersion,   \* bound: changes of a membership and of a role
          MaxSecrets    \* bound: factors ever set up

ASSUME IdentityAssumption ==
    /\ DemoUser \in Users /\ "nobody" \notin Users
    /\ Companies \subseteq Nat \ {0} /\ DemoCompany \in Companies
    /\ "manage" \in Permissions
    /\ {MaxFailures, MaxStep, MaxVersion, MaxSecrets} \subseteq Nat

VARIABLES
    setupBy,    \* who completed the setup
    company,    \* state of each company: none, real or demo
    member,     \* memberships: state, version and roles of a user in a company
    clerk,      \* the permissions and the version of each company's own role
    module,     \* companies in which the optional module is enabled
    seat,       \* sessions: user, company, state
    token,      \* API tokens: owner, company, scopes, state
    deletion,   \* deletions under way: the company and the one to fall back to
    crossed,    \* was the owner's last company taken, by crossing deletions or a demo reset
    factor,     \* the account's second factor
    door,       \* sign-ins under way
    clock,      \* the current time step
    spent       \* codes that opened a session, once per session

officeVars == <<setupBy, company, member, clerk, module, seat, token, deletion, crossed>>
doorVars == <<factor, door, clock, spent>>

Nobody == "nobody"
NoCompany == 0
Stranger == [state |-> "none", version |-> 0, roles |-> {}]
NoSeat == [user |-> Nobody, company |-> NoCompany, state |-> "none"]
NoToken == [owner |-> Nobody, company |-> NoCompany, scopes |-> {}, state |-> "none"]
NoDeletion == [company |-> NoCompany, fallback |-> NoCompany]
Standing(c) == company[c] # "none"
-----------------------------------------------------------------------------
(* What a session may do *)
RolePermissions(c, r) == IF r = "admin" THEN Permissions ELSE clerk[c].allows
permissions(u, c) ==
    IF member[c][u].state = "active" THEN UNION {RolePermissions(c, r) : r \in member[c][u].roles} ELSE {}

(* A session with a company needs an active membership in it *)
Authenticate(s) ==
    /\ seat[s].state = "open"
    /\ seat[s].company # NoCompany => member[seat[s].company][seat[s].user].state = "active"
HasPermission(s, p) ==
    /\ seat[s].company # NoCompany /\ p \in permissions(seat[s].user, seat[s].company)
IsInstanceOwner(s) == seat[s].user = setupBy

(* An API token never allows more than its owner may do now *)
intersectTokenPermissions(t) == token[t].scopes \cap permissions(token[t].owner, token[t].company)
AuthenticateAPIToken(t) ==
    /\ token[t].state = "live" /\ Standing(token[t].company)
    /\ member[token[t].company][token[t].owner].state = "active"

createSession(s, u, c) ==
    /\ seat[s].state = "none"
    /\ seat' = [seat EXCEPT ![s] = [user |-> u, company |-> c, state |-> "open"]]

Memberships(u) == {c \in Companies : member[c][u].state = "active"}
ListBranches(s) == {c \in Companies : c = seat[s].company /\ Standing(c)}
ListModules(s) == module \cap {seat[s].company}
CurrentCompany(s) == HasPermission(s, "read")
-----------------------------------------------------------------------------
(* Companies *)
provisionCompany(c, u, kind) ==
    /\ ~ Standing(c)
    /\ company' = [company EXCEPT ![c] = kind]
    /\ member' = [member EXCEPT ![c] = [v \in Users |->
                    IF v = u THEN [state |-> "active", version |-> 1, roles |-> {"admin"}] ELSE Stranger]]
    /\ clerk' = [clerk EXCEPT ![c] = [allows |-> {}, version |-> 0]]
    /\ module' = module \cup {c}

(* The setup waits for its lock with a snapshot taken before: what keeps a *)
(* second one out is the key of instance_setup, at its insert              *)
Setup(s, c, u) ==
    /\ setupBy = Nobody
    /\ provisionCompany(c, u, "real") /\ c # DemoCompany
    /\ setupBy' = u
    /\ createSession(s, u, c)
    /\ UNCHANGED <<token, deletion, crossed>>

CreateCompany(s, c) ==
    /\ Authenticate(s) /\ IsInstanceOwner(s)
    /\ provisionCompany(c, seat[s].user, "real") /\ c # DemoCompany
    /\ seat' = [seat EXCEPT ![s].company = c]
    /\ UNCHANGED <<setupBy, token, deletion, crossed>>

(* The company to fall back to is read, not locked *)
Fallbacks(s, c) == {d \in Companies \ {c} : Standing(d) /\ member[d][seat[s].user].state = "active"}

BeginDelete(s, c) ==
    /\ Authenticate(s) /\ IsInstanceOwner(s) /\ Standing(c)
    /\ deletion[s] = NoDeletion
    /\ \A r \in Seats : deletion[r].company # c   \* the row lock on the company
    /\ Fallbacks(s, c) # {}
    /\ deletion' = [deletion EXCEPT ![s] = [company |-> c, fallback |-> Min(Fallbacks(s, c))]]
    /\ UNCHANGED <<setupBy, company, member, clerk, module, seat, token, crossed>>

purgeCompanyRows(c) ==
    /\ company' = [company EXCEPT ![c] = "none"]
    /\ member' = [member EXCEPT ![c] = [v \in Users |-> Stranger]]
    /\ clerk' = [clerk EXCEPT ![c] = [allows |-> {}, version |-> 0]]
    /\ module' = module \ {c}
    /\ token' = [t \in Tokens |-> IF token[t].company = c THEN NoToken ELSE token[t]]
Cleared(c) == [r \in Seats |-> IF seat[r].company = c THEN [seat[r] EXCEPT !.company = NoCompany] ELSE seat[r]]

(* Foreign keys are off in this transaction *)
DeleteCompany(s) ==
    LET d == deletion[s]
    IN  /\ d # NoDeletion
        /\ purgeCompanyRows(d.company)
        /\ seat' = [Cleared(d.company) EXCEPT ![s].company = d.fallback]
        /\ crossed' = (crossed \/ member[d.fallback][seat[s].user].state # "active")
        /\ deletion' = [deletion EXCEPT ![s] = NoDeletion]
        /\ UNCHANGED setupBy

AbandonDelete(s) ==
    /\ deletion[s] # NoDeletion
    /\ deletion' = [deletion EXCEPT ![s] = NoDeletion]
    /\ UNCHANGED <<setupBy, company, member, clerk, module, seat, token, crossed>>

(* The demo company is purged and built again without anyone's session *)
Deleting(c) == \E s \in Seats : deletion[s].company = c
PurgeDemoCompany ==
    /\ company[DemoCompany] = "demo" /\ ~ Deleting(DemoCompany)
    /\ purgeCompanyRows(DemoCompany)
    /\ seat' = Cleared(DemoCompany)
    /\ crossed' = (crossed \/ (setupBy # Nobody /\ Memberships(setupBy) = {DemoCompany}))
    /\ UNCHANGED <<setupBy, deletion>>
ProvisionDemoCompany(s) ==
    /\ provisionCompany(DemoCompany, DemoUser, "demo")
    /\ setupBy' = IF setupBy = Nobody THEN DemoUser ELSE setupBy
    /\ createSession(s, DemoUser, DemoCompany)
    /\ UNCHANGED <<token, deletion, crossed>>
StartDemoSession(s) ==
    /\ company[DemoCompany] = "demo" /\ member[DemoCompany][DemoUser].state = "active"
    /\ createSession(s, DemoUser, DemoCompany)
    /\ UNCHANGED <<setupBy, company, member, clerk, module, token, deletion, crossed>>
-----------------------------------------------------------------------------
(* Sessions *)
OpenSession(s, u) ==   \* the last transaction of a sign-in
    /\ setupBy # Nobody
    /\ \E c \in IF Memberships(u) = {} THEN {NoCompany} ELSE Memberships(u) : createSession(s, u, c)
    /\ UNCHANGED <<setupBy, company, member, clerk, module, token, deletion, crossed>>

SelectCompany(s, c) ==
    /\ Authenticate(s) /\ member[c][seat[s].user].state = "active" /\ seat[s].company # c
    /\ seat' = [seat EXCEPT ![s].company = c]
    /\ UNCHANGED <<setupBy, company, member, clerk, module, token, deletion, crossed>>

Logout(s) ==
    /\ Authenticate(s) /\ deletion[s] = NoDeletion
    /\ seat' = [seat EXCEPT ![s] = NoSeat]
    /\ UNCHANGED <<setupBy, company, member, clerk, module, token, deletion, crossed>>

Expire(s) ==
    /\ seat[s].state = "open" /\ deletion[s] = NoDeletion
    /\ seat' = [seat EXCEPT ![s] = NoSeat]
    /\ UNCHANGED <<setupBy, company, member, clerk, module, token, deletion, crossed>>
-----------------------------------------------------------------------------
(* Members, roles, tokens and modules of the session's company *)
AddMember(s, u, rs) ==
    LET c == seat[s].company
    IN  /\ Authenticate(s) /\ HasPermission(s, "manage") /\ ~ Deleting(c)
        /\ rs # {} /\ ("clerk" \in rs => clerk[c].version > 0)
        /\ member[c][u].version < MaxVersion
        /\ member' = [member EXCEPT ![c][u] = [state |-> "active", version |-> @.version + 1, roles |-> rs]]
        /\ UNCHANGED <<setupBy, company, clerk, module, seat, token, deletion, crossed>>

SetMemberActive(s, u, active, version) ==
    LET c == seat[s].company
    IN  /\ Authenticate(s) /\ HasPermission(s, "manage") /\ ~ Deleting(c)
        /\ ~ active => u # seat[s].user /\ u # setupBy
        /\ member[c][u].state # "none" /\ member[c][u].version = version /\ version < MaxVersion
        /\ member' = [member EXCEPT ![c][u].state = IF active THEN "active" ELSE "passive",
                                    ![c][u].version = @ + 1]
        /\ UNCHANGED <<setupBy, company, clerk, module, seat, token, deletion, crossed>>

(* The administrator's role is locked; a company's own role is replaced as *)
(* a whole                                                                 *)
SaveRole(s, allows, version) ==
    LET c == seat[s].company
    IN  /\ Authenticate(s) /\ HasPermission(s, "manage") /\ ~ Deleting(c)
        /\ allows # {} /\ clerk[c].version = version /\ version < MaxVersion
        /\ clerk' = [clerk EXCEPT ![c] = [allows |-> allows, version |-> version + 1]]
        /\ UNCHANGED <<setupBy, company, member, module, seat, token, deletion, crossed>>

SetModule(s, enabled) ==
    LET c == seat[s].company
    IN  /\ Authenticate(s) /\ HasPermission(s, "manage") /\ ~ Deleting(c)
        /\ (c \in module) # enabled
        /\ module' = IF enabled THEN module \cup {c} ELSE module \ {c}
        /\ UNCHANGED <<setupBy, company, member, clerk, seat, token, deletion, crossed>>

CreateAPIToken(s, t, scopes) ==
    /\ Authenticate(s) /\ HasPermission(s, "manage") /\ token[t] = NoToken /\ ~ Deleting(seat[s].company)
    /\ token' = [token EXCEPT ![t] = [owner |-> seat[s].user, company |-> seat[s].company,
                                      scopes |-> scopes, state |-> "live"]]
    /\ UNCHANGED <<setupBy, company, member, clerk, module, seat, deletion, crossed>>

RevokeAPIToken(s, t) ==
    /\ Authenticate(s) /\ HasPermission(s, "manage")
    /\ token[t].state = "live" /\ token[t].company = seat[s].company
    /\ token' = [token EXCEPT ![t].state = "revoked"]
    /\ UNCHANGED <<setupBy, company, member, clerk, module, seat, deletion, crossed>>

OfficeInit ==
    /\ setupBy = Nobody
    /\ company = [c \in Companies |-> "none"]
    /\ member = [c \in Companies |-> [u \in Users |-> Stranger]]
    /\ clerk = [c \in Companies |-> [allows |-> {}, version |-> 0]]
    /\ module = {}
    /\ seat = [s \in Seats |-> NoSeat] /\ token = [t \in Tokens |-> NoToken]
    /\ deletion = [s \in Seats |-> NoDeletion] /\ crossed = FALSE

CompanyStep ==
    \/ \E s \in Seats, c \in Companies :
         \/ \E u \in Users : Setup(s, c, u)
         \/ CreateCompany(s, c) \/ BeginDelete(s, c) \/ SelectCompany(s, c)
    \/ \E s \in Seats : DeleteCompany(s) \/ AbandonDelete(s) \/ Logout(s) \/ Expire(s)
    \/ PurgeDemoCompany
    \/ \E s \in Seats : ProvisionDemoCompany(s) \/ StartDemoSession(s)
    \/ \E s \in Seats, u \in Users : OpenSession(s, u)
StaffStep ==
    \/ \E s \in Seats, u \in Users, rs \in SUBSET {"admin", "clerk"} : AddMember(s, u, rs)
    \/ \E s \in Seats, u \in Users, a \in BOOLEAN, v \in 1..MaxVersion : SetMemberActive(s, u, a, v)
    \/ \E s \in Seats, ps \in SUBSET Permissions, v \in 0..MaxVersion : SaveRole(s, ps, v)
    \/ \E s \in Seats, e \in BOOLEAN : SetModule(s, e)
    \/ \E s \in Seats, t \in Tokens : RevokeAPIToken(s, t) \/ \E ps \in SUBSET Permissions : CreateAPIToken(s, t, ps)
-----------------------------------------------------------------------------
(* The door *)
NoAttempt == [state |-> "none", secret |-> 0, code |-> 0]
NoFactor == [active |-> 0, pending |-> 0, made |-> 0, last |-> -1, recovery |-> {}, failures |-> 0]

(* Codes are numbered: a time step, or minus the number of a recovery code *)
VerifyTOTPStep(step) == step \in {clock - 1, clock, clock + 1}
(* A bug: only the last step is refused again *)
MutconsumeTOTPStep(step) == factor.last # step
consumeTOTPStep(step) == factor.last < step
consumeRecoveryCode(code) == code \in factor.recovery

Limited == factor.failures >= MaxFailures   \* of the last fifteen minutes

(* The account, its password and its secret are read first *)
BeginLogin(a) ==
    /\ door[a].state = "none" /\ ~ Limited
    /\ door' = [door EXCEPT ![a] = [state |-> "read", secret |-> factor.active, code |-> 0]]
    /\ UNCHANGED <<factor, clock, spent>>

(* Without a factor the password is enough; with one and no code the       *)
(* attempt is asked for a code and counts for nothing                      *)
LoginWithoutCode(a) ==
    /\ door[a].state = "read"
    /\ door' = [door EXCEPT ![a] = IF door[a].secret = 0 THEN [@ EXCEPT !.state = "valid"] ELSE NoAttempt]
    /\ UNCHANGED <<factor, clock, spent>>

Fails(a) ==
    /\ factor' = [factor EXCEPT !.failures = IF Limited THEN @ ELSE @ + 1]   \* bound: beyond it nothing changes
    /\ door' = [door EXCEPT ![a] = NoAttempt]
    /\ UNCHANGED <<clock, spent>>

LoginWithStep(a, step) ==
    /\ door[a].state = "read" /\ door[a].secret # 0
    /\ \/ VerifyTOTPStep(step) /\ consumeTOTPStep(step)
          /\ factor' = [factor EXCEPT !.last = step]
          /\ door' = [door EXCEPT ![a].state = "valid", ![a].code = step]
          /\ UNCHANGED <<clock, spent>>
       \/ ~ (VerifyTOTPStep(step) /\ consumeTOTPStep(step)) /\ Fails(a)

LoginWithRecovery(a, code) ==
    /\ door[a].state = "read" /\ door[a].secret # 0
    /\ \/ consumeRecoveryCode(code)
          /\ factor' = [factor EXCEPT !.recovery = @ \ {code}]
          /\ door' = [door EXCEPT ![a].state = "valid", ![a].code = code]
          /\ UNCHANGED <<clock, spent>>
       \/ ~ consumeRecoveryCode(code) /\ Fails(a)

WrongPassword(a) == door[a].state = "read" /\ Fails(a)

(* The session's transaction comes after; it may fail with the code spent *)
CommitLogin(a) ==
    /\ door[a].state = "valid"
    /\ spent' = IF door[a].code = 0 THEN spent
                ELSE [spent EXCEPT ![door[a].code] = IF @ < 2 THEN @ + 1 ELSE @]
    /\ door' = [door EXCEPT ![a] = NoAttempt]
    /\ UNCHANGED <<factor, clock>>
FailLogin(a) ==
    /\ door[a].state = "valid"
    /\ door' = [door EXCEPT ![a] = NoAttempt]
    /\ UNCHANGED <<factor, clock, spent>>

BeginTOTP ==
    /\ factor.made < MaxSecrets
    /\ factor' = [factor EXCEPT !.pending = factor.made + 1, !.made = @ + 1]
    /\ UNCHANGED <<door, clock, spent>>
(* Recovery codes are replaced with the factor *)
ConfirmTOTP ==
    /\ factor.pending # 0
    /\ factor' = [factor EXCEPT !.active = factor.pending, !.pending = 0, !.recovery = {-factor.pending}]
    /\ UNCHANGED <<door, clock, spent>>
DisableTOTP ==
    /\ factor.active # 0
    /\ factor' = [factor EXCEPT !.active = 0, !.pending = 0, !.recovery = {}]
    /\ UNCHANGED <<door, clock, spent>>
Tick == clock < MaxStep /\ clock' = clock + 1 /\ UNCHANGED <<factor, door, spent>>
(* The oldest failure leaves the window; attempts refused are no failures *)
Forget ==
    /\ factor.failures > 0
    /\ factor' = [factor EXCEPT !.failures = @ - 1]
    /\ UNCHANGED <<door, clock, spent>>

Spendable == (-MaxSecrets)..(MaxStep + 1)
DoorInit ==
    /\ factor = NoFactor /\ door = [a \in Attempts |-> NoAttempt] /\ clock = 1
    /\ spent = [c \in Spendable |-> 0]
DoorStep ==
    \/ \E a \in Attempts : BeginLogin(a) \/ LoginWithoutCode(a) \/ WrongPassword(a) \/ CommitLogin(a) \/ FailLogin(a)
    \/ \E a \in Attempts, step \in 1..(MaxStep + 1) : LoginWithStep(a, step)
    \/ \E a \in Attempts, n \in 1..MaxSecrets : LoginWithRecovery(a, -n)
    \/ BeginTOTP \/ ConfirmTOTP \/ DisableTOTP \/ Tick \/ Forget

IdentityStep ==
    \/ (CompanyStep \/ StaffStep) /\ UNCHANGED doorVars
    \/ DoorStep /\ UNCHANGED officeVars
IdentitySpec == OfficeInit /\ DoorInit /\ [][IdentityStep]_<<officeVars, doorVars>>
-----------------------------------------------------------------------------
(* The account that set the installation up is never shut out: it is an    *)
(* active member of every company but the demo, keeps one to work in       *)
(* through every deletion (DeleteCompany, ErrLastCompany), and no session  *)
(* or token is left pointing at a company that is gone.  The exception is  *)
(* named: two deletions that chose each other's company to fall back to,   *)
(* or the reset of a demo that was the owner's only company.               *)
OwnerIsServed ==
    setupBy # Nobody =>
        /\ \A c \in Companies : company[c] = "real" => member[c][setupBy].state = "active"
        /\ crossed \/ \E c \in Companies : Standing(c) /\ member[c][setupBy].state = "active"
        /\ \A s \in Seats : seat[s].company # NoCompany => crossed \/ Standing(seat[s].company)
        /\ \A t \in Tokens : token[t] # NoToken => Standing(token[t].company)

(* A time step and a recovery code each open at most one session, whoever  *)
(* signs in at the same time and even while the factor is replaced         *)
(* (consumeTOTPStep: steps only advance; consumeRecoveryCode).             *)
CodeSpentOnce == \A c \in Spendable : spent[c] <= 1

(* Access holds through concurrent deletions, resets and sign-ins: nobody  *)
(* who must get in is shut out, and no second factor lets anyone in twice. *)
AccessIsSound == OwnerIsServed /\ CodeSpentOnce
=============================================================================
