------------------------------ MODULE Accounts ------------------------------
(***************************************************************************)
(* Who may enter the workspace, and as what: the tables accounts,          *)
(* account_username_reservations, ssh_keys, bootstrap_tokens, invites and  *)
(* device_link_tokens with every operation that changes them.              *)
(*                                                                         *)
(* Every operation of the code runs in one IMMEDIATE transaction, so it is *)
(* one action here; an early return or a failed ensure! rolls back and is  *)
(* a step that does not happen.  A table is a function from the ids of its *)
(* rows to the rows.                                                       *)
(***************************************************************************)
EXTENDS Naturals, FiniteSets

CONSTANTS
    Account,      \* ids accounts.id may take
    Name,         \* normalized usernames a person may choose
    Key,          \* SSH key fingerprints
    BootToken,    \* bootstrap token codes
    Invite,       \* invite codes
    LinkToken,    \* device link token codes
    None          \* SQL NULL; also the generated pending-<id> username

ASSUME NoneIsNoId == None \notin Account \cup Name \cup Key

VARIABLES
    accounts, account_username_reservations, ssh_keys,
    bootstrap_tokens, invites, device_link_tokens

vars == <<accounts, account_username_reservations, ssh_keys,
          bootstrap_tokens, invites, device_link_tokens>>

Role == {"owner", "admin", "member"}

AccountRow == [username : Name \cup {None}, role : Role,
               activated : BOOLEAN, disabled : BOOLEAN]
ReservationRow == [account : Account, current : BOOLEAN]
KeyRow == [account : Account, revoked : BOOLEAN]
InviteRow == [role : {"admin", "member"}, accepted_by : Account \cup {None},
              revoked : BOOLEAN, expired : BOOLEAN]
LinkRow == [account : Account, used_by_key : Key \cup {None}, expired : BOOLEAN]

\* A table holds well-formed rows under ids of its own kind.
IsTable(t, Id, Row) == t \in [DOMAIN t -> Row] /\ DOMAIN t \subseteq Id

TypeOK ==
    /\ IsTable(accounts, Account, AccountRow)
    /\ IsTable(account_username_reservations, Name, ReservationRow)
    /\ IsTable(ssh_keys, Key, KeyRow)
    /\ IsTable(bootstrap_tokens, BootToken, Account \cup {None})
    /\ IsTable(invites, Invite, InviteRow)
    /\ IsTable(device_link_tokens, LinkToken, LinkRow)

NoRows == [x \in {} |-> None]

Insert(t, id, row) ==
    [x \in DOMAIN t \cup {id} |-> IF x = id THEN row ELSE t[x]]

-----------------------------------------------------------------------------
(* Helpers of the transactions                                             *)

\* Rows counted by "activated_at IS NOT NULL AND disabled_at IS NULL".
ActiveAccounts ==
    {a \in DOMAIN accounts : accounts[a].activated /\ ~accounts[a].disabled}

ActiveOwners == {a \in ActiveAccounts : accounts[a].role = "owner"}

\* An account a handler accepts as its actor.  The shell offers a pending
\* account nothing but onboarding, and activation is never undone.
Actor(a) == a \in ActiveAccounts

CanAdmin(a) == accounts[a].role \in {"owner", "admin"}

EnsureCanManageAccount(actor, target) ==
    /\ CanAdmin(actor)
    /\ accounts[actor].role = "owner" \/ accounts[target].role # "owner"

\* Mutant: disabled owners count as well.
EnsureNotLastOwnerEvenDisabled(target) ==
    {a \in DOMAIN accounts : accounts[a].activated /\ accounts[a].role = "owner"}
        \ {target} # {}

EnsureNotLastActiveOwner(target) == ActiveOwners \ {target} # {}

ActiveKeys(a) ==
    {k \in DOMAIN ssh_keys : ssh_keys[k].account = a /\ ~ssh_keys[k].revoked}

EnsureOwnerKeepsActiveKey(a) ==
    Cardinality(ActiveKeys(a)) <= 1 => EnsureNotLastActiveOwner(a)

\* Mutant: a name given up by a rename is free again.
EnsureUsernameNotCurrent(a, n) ==
    n \in DOMAIN account_username_reservations
        => \/ account_username_reservations[n].account = a
           \/ ~account_username_reservations[n].current

EnsureUsernameReservable(a, n) ==
    n \in DOMAIN account_username_reservations
        => account_username_reservations[n].account = a

\* Mutant: the name given up keeps its current mark.
AddUsernameReservation(a, n) ==
    account_username_reservations' =
        Insert(account_username_reservations, n, [account |-> a, current |-> TRUE])

\* The old current name of a stays reserved, n becomes its current one.
SetCurrentUsernameReservation(a, n) ==
    account_username_reservations' =
        [x \in DOMAIN account_username_reservations \cup {n} |->
            IF x = n THEN [account |-> a, current |-> TRUE]
            ELSE IF account_username_reservations[x].account = a
                 THEN [account |-> a, current |-> FALSE]
                 ELSE account_username_reservations[x]]

\* Mutant: a revoked fingerprint may be registered again.
UpsertRevokedKey(a, k) ==
    /\ k \in DOMAIN ssh_keys => ssh_keys[k].revoked
    /\ ssh_keys' = Insert(ssh_keys, k, [account |-> a, revoked |-> FALSE])

InsertKey(a, k) ==
    /\ k \notin DOMAIN ssh_keys     \* fingerprint TEXT NOT NULL UNIQUE
    /\ ssh_keys' = Insert(ssh_keys, k, [account |-> a, revoked |-> FALSE])

InsertPendingAccount(a, r) ==
    /\ a \notin DOMAIN accounts
    /\ accounts' = Insert(accounts, a, [username |-> None, role |-> r,
                                        activated |-> FALSE, disabled |-> FALSE])

-----------------------------------------------------------------------------
(* Tokens and onboarding                                                   *)

Init ==
    /\ accounts = NoRows
    /\ account_username_reservations = NoRows
    /\ ssh_keys = NoRows
    /\ bootstrap_tokens = NoRows
    /\ invites = NoRows
    /\ device_link_tokens = NoRows

\* `sshoosh bootstrap`, run by the operator on the host.
CreateBootstrapToken(t) ==
    /\ ActiveAccounts = {}
    /\ t \notin DOMAIN bootstrap_tokens
    /\ bootstrap_tokens' = Insert(bootstrap_tokens, t, None)
    /\ UNCHANGED <<accounts, account_username_reservations, ssh_keys,
                   invites, device_link_tokens>>

\* redeem_token_for_key while nobody is active: only a bootstrap token counts.
RedeemBootstrapToken(t, k, a) ==
    /\ ActiveAccounts = {}
    /\ t \in DOMAIN bootstrap_tokens /\ bootstrap_tokens[t] = None
    /\ InsertPendingAccount(a, "owner")
    /\ InsertKey(a, k)
    /\ bootstrap_tokens' = [bootstrap_tokens EXCEPT ![t] = a]
    /\ UNCHANGED <<account_username_reservations, invites, device_link_tokens>>

InviteOpen(i) ==
    /\ i \in DOMAIN invites
    /\ invites[i].accepted_by = None
    /\ ~invites[i].revoked

\* redeem_token_for_key once somebody is active: only an invite counts.
RedeemInvite(i, k, a) ==
    /\ ActiveAccounts # {}
    /\ InviteOpen(i) /\ ~invites[i].expired
    /\ InsertPendingAccount(a, invites[i].role)
    /\ InsertKey(a, k)
    /\ invites' = [invites EXCEPT ![i].accepted_by = a]
    /\ UNCHANGED <<account_username_reservations, bootstrap_tokens,
                   device_link_tokens>>

\* The checks of complete_onboarding that depend on the role of the account.
AcceptedBootstrapToken(a) ==
    \E t \in DOMAIN bootstrap_tokens : bootstrap_tokens[t] = a

AcceptedInvite(a) == \E i \in DOMAIN invites : invites[i].accepted_by = a

\* Mutant: a pending owner is not held back by active accounts.
EnsureAcceptedTokenOnly(a) ==
    IF accounts[a].role = "owner" THEN AcceptedBootstrapToken(a) ELSE AcceptedInvite(a)

EnsureAcceptedToken(a) ==
    IF accounts[a].role = "owner"
    THEN AcceptedBootstrapToken(a) /\ ActiveAccounts = {}
    ELSE AcceptedInvite(a)

CompleteOnboarding(a, n) ==
    /\ a \in DOMAIN accounts /\ ~accounts[a].disabled /\ ~accounts[a].activated
    /\ EnsureUsernameReservable(a, n)
    /\ EnsureAcceptedToken(a)
    /\ accounts' = [accounts EXCEPT ![a].username = n, ![a].activated = TRUE]
    /\ SetCurrentUsernameReservation(a, n)
    /\ UNCHANGED <<ssh_keys, bootstrap_tokens, invites, device_link_tokens>>

CreateInvite(actor, r, i) ==
    /\ Actor(actor) /\ CanAdmin(actor)
    /\ r = "admin" => accounts[actor].role = "owner"
    /\ i \notin DOMAIN invites
    /\ invites' = Insert(invites, i, [role |-> r, accepted_by |-> None,
                                      revoked |-> FALSE, expired |-> FALSE])
    /\ UNCHANGED <<accounts, account_username_reservations, ssh_keys,
                   bootstrap_tokens, device_link_tokens>>

RevokeInvite(actor, i) ==
    /\ Actor(actor) /\ CanAdmin(actor)
    /\ InviteOpen(i)
    /\ invites' = [invites EXCEPT ![i].revoked = TRUE]
    /\ UNCHANGED <<accounts, account_username_reservations, ssh_keys,
                   bootstrap_tokens, device_link_tokens>>

\* Time passes expires_at.
ExpireInvite(i) ==
    /\ i \in DOMAIN invites
    /\ invites' = [invites EXCEPT ![i].expired = TRUE]
    /\ UNCHANGED <<accounts, account_username_reservations, ssh_keys,
                   bootstrap_tokens, device_link_tokens>>

-----------------------------------------------------------------------------
(* Roles and names                                                         *)

SetUserDisabled(actor, target, disabled) ==
    /\ Actor(actor) /\ target \in DOMAIN accounts
    /\ EnsureCanManageAccount(actor, target)
    /\ disabled /\ accounts[target].role = "owner"
           => EnsureNotLastActiveOwner(target)
    /\ accounts' = [accounts EXCEPT ![target].disabled = disabled]
    /\ UNCHANGED <<account_username_reservations, ssh_keys,
                   bootstrap_tokens, invites, device_link_tokens>>

SetUserRole(actor, target, role) ==
    /\ Actor(actor) /\ target \in DOMAIN accounts
    /\ EnsureCanManageAccount(actor, target)
    /\ accounts[actor].role # "owner" => role \notin {"owner", "admin"}
    /\ accounts[target].role = "owner" /\ role # "owner"
           => EnsureNotLastActiveOwner(target)
    /\ accounts' = [accounts EXCEPT ![target].role = role]
    /\ UNCHANGED <<account_username_reservations, ssh_keys,
                   bootstrap_tokens, invites, device_link_tokens>>

RenameUser(actor, target, n) ==
    /\ Actor(actor) /\ target \in DOMAIN accounts
    /\ actor # target => EnsureCanManageAccount(actor, target)
    /\ EnsureUsernameReservable(target, n)
    /\ accounts' = [accounts EXCEPT ![target].username = n]
    /\ SetCurrentUsernameReservation(target, n)
    /\ UNCHANGED <<ssh_keys, bootstrap_tokens, invites, device_link_tokens>>

-----------------------------------------------------------------------------
(* Keys and further devices                                                *)

AddSshKey(actor, target, k) ==
    /\ Actor(actor) /\ target \in DOMAIN accounts
    /\ actor # target => EnsureCanManageAccount(actor, target)
    /\ InsertKey(target, k)
    /\ UNCHANGED <<accounts, account_username_reservations,
                   bootstrap_tokens, invites, device_link_tokens>>

RevokeSshKey(actor, k) ==
    /\ Actor(actor)
    /\ k \in DOMAIN ssh_keys /\ ~ssh_keys[k].revoked
    /\ LET target == ssh_keys[k].account IN
           /\ actor # target => EnsureCanManageAccount(actor, target)
           /\ accounts[target].role = "owner"
                  => EnsureOwnerKeepsActiveKey(target)
    /\ ssh_keys' = [ssh_keys EXCEPT ![k].revoked = TRUE]
    /\ UNCHANGED <<accounts, account_username_reservations,
                   bootstrap_tokens, invites, device_link_tokens>>

CreateDeviceLinkToken(actor, t) ==
    /\ Actor(actor)
    /\ t \notin DOMAIN device_link_tokens
    /\ device_link_tokens' =
           Insert(device_link_tokens, t,
                  [account |-> actor, used_by_key |-> None, expired |-> FALSE])
    /\ UNCHANGED <<accounts, account_username_reservations, ssh_keys,
                   bootstrap_tokens, invites>>

RedeemDeviceLinkToken(t, k) ==
    /\ t \in DOMAIN device_link_tokens
    /\ device_link_tokens[t].used_by_key = None /\ ~device_link_tokens[t].expired
    /\ device_link_tokens[t].account \in ActiveAccounts
    /\ InsertKey(device_link_tokens[t].account, k)
    /\ device_link_tokens' = [device_link_tokens EXCEPT ![t].used_by_key = k]
    /\ UNCHANGED <<accounts, account_username_reservations,
                   bootstrap_tokens, invites>>

ExpireDeviceLinkToken(t) ==
    /\ t \in DOMAIN device_link_tokens
    /\ device_link_tokens' = [device_link_tokens EXCEPT ![t].expired = TRUE]
    /\ UNCHANGED <<accounts, account_username_reservations, ssh_keys,
                   bootstrap_tokens, invites>>

-----------------------------------------------------------------------------
OnboardingNext ==
    \/ \E t \in BootToken : CreateBootstrapToken(t)
    \/ \E t \in BootToken, k \in Key, a \in Account : RedeemBootstrapToken(t, k, a)
    \/ \E i \in Invite, k \in Key, a \in Account : RedeemInvite(i, k, a)
    \/ \E a \in Account, n \in Name : CompleteOnboarding(a, n)

InviteNext ==
    \/ \E a \in Account, r \in {"admin", "member"}, i \in Invite : CreateInvite(a, r, i)
    \/ \E a \in Account, i \in Invite : RevokeInvite(a, i)
    \/ \E i \in Invite : ExpireInvite(i)

AdminNext ==
    \/ \E a, b \in Account, d \in BOOLEAN : SetUserDisabled(a, b, d)
    \/ \E a, b \in Account, r \in Role : SetUserRole(a, b, r)
    \/ \E a, b \in Account, n \in Name : RenameUser(a, b, n)

KeyNext ==
    \/ \E a, b \in Account, k \in Key : AddSshKey(a, b, k)
    \/ \E a \in Account, k \in Key : RevokeSshKey(a, k)

LinkNext ==
    \/ \E a \in Account, t \in LinkToken : CreateDeviceLinkToken(a, t)
    \/ \E t \in LinkToken, k \in Key : RedeemDeviceLinkToken(t, k)
    \/ \E t \in LinkToken : ExpireDeviceLinkToken(t)

Next == OnboardingNext \/ InviteNext \/ AdminNext \/ KeyNext \/ LinkNext

Spec == Init /\ [][Next]_vars

-----------------------------------------------------------------------------
(* Properties                                                              *)

\* Once somebody has ever been activated there is always an active owner:
\* no sequence of disabling, demoting and onboarding, by any actors, gets
\* the workspace into a state that only a second bootstrap could repair.
ActiveOwnerExists ==
    (\E a \in DOMAIN accounts : accounts[a].activated) => ActiveOwners # {}

\* However many bootstrap tokens were issued and redeemed before the first
\* activation, at most one of the accounts they created is ever activated.
SingleBootstrapActivation ==
    \A a, b \in DOMAIN accounts :
        /\ accounts[a].activated /\ AcceptedBootstrapToken(a)
        /\ accounts[b].activated /\ AcceptedBootstrapToken(b)
        => a = b

\* An account carries a chosen username exactly when it holds the one current
\* reservation, so two accounts never share a username: the reservation
\* transactions alone guarantee what accounts.username UNIQUE asks for.
UsernamesReserved ==
    /\ \A a \in DOMAIN accounts :
           accounts[a].username # None =>
               /\ accounts[a].username \in DOMAIN account_username_reservations
               /\ account_username_reservations[accounts[a].username]
                      = [account |-> a, current |-> TRUE]
    /\ \A n \in DOMAIN account_username_reservations :
           LET r == account_username_reservations[n] IN
           /\ r.account \in DOMAIN accounts
           /\ r.current => accounts[r.account].username = n

\* A name once used is never given to another account, whatever renames,
\* onboardings and disablings happen in between.
NamesNeverChangeHands ==
    [][\A n \in DOMAIN account_username_reservations :
           /\ n \in DOMAIN account_username_reservations'
           /\ account_username_reservations'[n].account
                  = account_username_reservations[n].account]_vars

\* Every account came in on exactly one token, and no token let two accounts
\* in: the redeeming transaction ties the token, the account and the key.
OneTokenPerAccount ==
    \A a \in DOMAIN accounts :
        Cardinality({t \in DOMAIN bootstrap_tokens : bootstrap_tokens[t] = a})
      + Cardinality({i \in DOMAIN invites : invites[i].accepted_by = a}) = 1

\* A fingerprint belongs to one account for good: neither a revocation nor a
\* device link lets a key sign in as somebody else later.
KeysNeverChangeHands ==
    [][\A k \in DOMAIN ssh_keys :
           /\ k \in DOMAIN ssh_keys'
           /\ ssh_keys'[k].account = ssh_keys[k].account
           /\ ssh_keys[k].revoked => ssh_keys'[k].revoked]_vars

\* A device link added exactly one key, to the account that asked for it, and
\* a key never counts for two links, even after it was revoked.
LinkedKeysBelongToIssuer ==
    \A t \in DOMAIN device_link_tokens :
        LET link == device_link_tokens[t] IN
        link.used_by_key # None =>
            /\ link.used_by_key \in DOMAIN ssh_keys
            /\ ssh_keys[link.used_by_key].account = link.account
            /\ \A u \in DOMAIN device_link_tokens \ {t} :
                   device_link_tokens[u].used_by_key # link.used_by_key

\* Tokens, keys and accounts agree about who came in on what: redeeming,
\* linking, revoking and disabling in any order leave no token with two
\* accounts and no linked key with a stranger.
TokensNameOwners == OneTokenPerAccount /\ LinkedKeysBelongToIssuer

-----------------------------------------------------------------------------
(* Claims of the source that the code does not keep                        *)

\* "a user who already redeemed a token can reconnect and finish choosing a
\* username": no admin action makes an accepted invite worthless.
PendingInviteeMayFinish ==
    \A a \in DOMAIN accounts :
        /\ AcceptedInvite(a)
        /\ ~accounts[a].activated /\ ~accounts[a].disabled
        => EnsureAcceptedToken(a)
=============================================================================
