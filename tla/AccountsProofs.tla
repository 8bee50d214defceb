--------------------------- MODULE AccountsProofs ---------------------------
(***************************************************************************)
(* Theorems about Accounts, for any sets of ids.                           *)
(***************************************************************************)
EXTENDS Accounts, FiniteSetTheorems, TLAPS

SomebodyActivated == \E a \in DOMAIN accounts : accounts[a].activated

(* What makes ActiveOwnerExists and SingleBootstrapActivation inductive.   *)

\* Only an activated actor creates invites, and activation is never undone.
InvitesNeedActivation == DOMAIN invites # {} => SomebodyActivated

\* A token is only ever accepted by an account the same step creates.
TokensNameAccounts ==
    /\ \A t \in DOMAIN bootstrap_tokens :
           bootstrap_tokens[t] # None => bootstrap_tokens[t] \in DOMAIN accounts
    /\ \A i \in DOMAIN invites :
           invites[i].accepted_by # None => invites[i].accepted_by \in DOMAIN accounts
    /\ \A a \in DOMAIN accounts : ~(AcceptedBootstrapToken(a) /\ AcceptedInvite(a))

OwnerInv ==
    /\ TypeOK
    /\ ActiveOwnerExists
    /\ SingleBootstrapActivation
    /\ InvitesNeedActivation
    /\ TokensNameAccounts

-----------------------------------------------------------------------------
(* Every reachable state of the six tables is well-formed.                 *)
LEMMA InitTypeOK == Init => TypeOK
  BY DEF Init, TypeOK, IsTable, NoRows

LEMMA NextTypeOK == TypeOK /\ [Next]_vars => TypeOK'
<1> SUFFICES ASSUME TypeOK, [Next]_vars PROVE TypeOK'
  OBVIOUS
<1> USE DEF TypeOK, IsTable, Insert
<1>1. ASSUME NEW t \in BootToken, CreateBootstrapToken(t) PROVE TypeOK'
  BY <1>1 DEF CreateBootstrapToken
<1>2. ASSUME NEW t \in BootToken, NEW k \in Key, NEW a \in Account,
             RedeemBootstrapToken(t, k, a)
      PROVE TypeOK'
  BY <1>2 DEF RedeemBootstrapToken, InsertPendingAccount, InsertKey,
              AccountRow, KeyRow, Role
<1>3. ASSUME NEW i \in Invite, NEW k \in Key, NEW a \in Account,
             RedeemInvite(i, k, a)
      PROVE TypeOK'
  BY <1>3 DEF RedeemInvite, InviteOpen, InsertPendingAccount, InsertKey,
              AccountRow, KeyRow, InviteRow, Role
<1>4. ASSUME NEW a \in Account, NEW n \in Name, CompleteOnboarding(a, n)
      PROVE TypeOK'
  BY <1>4 DEF CompleteOnboarding, SetCurrentUsernameReservation,
              AccountRow, ReservationRow
<1>5. ASSUME NEW a \in Account, NEW r \in {"admin", "member"}, NEW i \in Invite,
             CreateInvite(a, r, i)
      PROVE TypeOK'
  BY <1>5 DEF CreateInvite, InviteRow
<1>6. ASSUME NEW a \in Account, NEW i \in Invite, RevokeInvite(a, i)
      PROVE TypeOK'
  BY <1>6 DEF RevokeInvite, InviteRow
<1>7. ASSUME NEW i \in Invite, ExpireInvite(i) PROVE TypeOK'
  BY <1>7 DEF ExpireInvite, InviteRow
<1>8. ASSUME NEW a \in Account, NEW b \in Account, NEW d \in BOOLEAN,
             SetUserDisabled(a, b, d)
      PROVE TypeOK'
  BY <1>8 DEF SetUserDisabled, AccountRow
<1>9. ASSUME NEW a \in Account, NEW b \in Account, NEW r \in Role,
             SetUserRole(a, b, r)
      PROVE TypeOK'
  BY <1>9 DEF SetUserRole, AccountRow
<1>10. ASSUME NEW a \in Account, NEW b \in Account, NEW n \in Name,
              RenameUser(a, b, n)
       PROVE TypeOK'
  BY <1>10 DEF RenameUser, SetCurrentUsernameReservation,
               AccountRow, ReservationRow
<1>11. ASSUME NEW a \in Account, NEW b \in Account, NEW k \in Key,
              AddSshKey(a, b, k)
       PROVE TypeOK'
  BY <1>11 DEF AddSshKey, InsertKey, KeyRow
<1>12. ASSUME NEW a \in Account, NEW k \in Key, RevokeSshKey(a, k)
       PROVE TypeOK'
  BY <1>12 DEF RevokeSshKey, KeyRow
<1>13. ASSUME NEW a \in Account, NEW t \in LinkToken, CreateDeviceLinkToken(a, t)
       PROVE TypeOK'
  BY <1>13 DEF CreateDeviceLinkToken, LinkRow
<1>14. ASSUME NEW t \in LinkToken, NEW k \in Key, RedeemDeviceLinkToken(t, k)
       PROVE TypeOK'
  BY <1>14 DEF RedeemDeviceLinkToken, InsertKey, LinkRow, KeyRow
<1>15. ASSUME NEW t \in LinkToken, ExpireDeviceLinkToken(t) PROVE TypeOK'
  BY <1>15 DEF ExpireDeviceLinkToken, LinkRow
<1>16. CASE UNCHANGED vars
  BY <1>16 DEF vars
<1> QED
  BY <1>1, <1>2, <1>3, <1>4, <1>5, <1>6, <1>7, <1>8, <1>9, <1>10, <1>11,
     <1>12, <1>13, <1>14, <1>15, <1>16
     DEF Next, OnboardingNext, InviteNext, AdminNext, KeyNext, LinkNext

THEOREM TypeCorrect == Spec => []TypeOK
<1>1. Init => TypeOK
  BY InitTypeOK
<1>2. TypeOK /\ [Next]_vars => TypeOK'
  BY NextTypeOK
<1> QED
  BY <1>1, <1>2, PTL DEF Spec

-----------------------------------------------------------------------------
(* The owner invariant.                                                    *)
LEMMA InitOwnerInv == Init => OwnerInv
  BY InitTypeOK DEF Init, OwnerInv, ActiveOwnerExists, SingleBootstrapActivation,
     InvitesNeedActivation, TokensNameAccounts, SomebodyActivated, NoRows

\* With the owner invariant, "nobody is active" means nobody ever was.
LEMMA NobodyActive ==
    ASSUME OwnerInv, ActiveAccounts = {}
    PROVE  ~SomebodyActivated
  BY DEF OwnerInv, ActiveOwnerExists, SomebodyActivated, ActiveOwners

\* A step that leaves what the invariant speaks of as it was: the tokens, and
\* every account's role, activation and disabling.
SameStanding ==
    /\ DOMAIN accounts' = DOMAIN accounts
    /\ \A a \in DOMAIN accounts :
           /\ accounts'[a].role = accounts[a].role
           /\ accounts'[a].activated = accounts[a].activated
           /\ accounts'[a].disabled = accounts[a].disabled
    /\ bootstrap_tokens' = bootstrap_tokens
    /\ invites' = invites

LEMMA SameStandingKeepsOwnerInv ==
    ASSUME OwnerInv, TypeOK', SameStanding
    PROVE  OwnerInv'
<1> USE DEF OwnerInv, SameStanding, AcceptedBootstrapToken, AcceptedInvite
<1>1. ActiveOwnerExists'
  BY DEF ActiveOwnerExists, ActiveOwners, ActiveAccounts
<1>2. SingleBootstrapActivation'
  BY DEF SingleBootstrapActivation
<1>3. InvitesNeedActivation'
  BY DEF InvitesNeedActivation, SomebodyActivated
<1>4. TokensNameAccounts'
  BY DEF TokensNameAccounts
<1> QED
  BY <1>1, <1>2, <1>3, <1>4

\* A role change or a disabling that spares some other active owner whenever
\* its target is an owner leaves an active owner.
LEMMA GuardedChangeKeepsOwner ==
    ASSUME OwnerInv, TypeOK',
           NEW target \in DOMAIN accounts,
           DOMAIN accounts' = DOMAIN accounts,
           \A a \in DOMAIN accounts : accounts'[a].activated = accounts[a].activated,
           \A a \in DOMAIN accounts \ {target} : accounts'[a] = accounts[a],
           \/ EnsureNotLastActiveOwner(target)
           \/ accounts[target].role # "owner"
           \/ /\ accounts'[target].role = "owner"
              /\ \/ accounts[target].disabled = accounts'[target].disabled
                 \/ ~accounts'[target].disabled,
           bootstrap_tokens' = bootstrap_tokens, invites' = invites
    PROVE  OwnerInv'
<1> USE DEF OwnerInv, AcceptedBootstrapToken, AcceptedInvite
<1>1. ActiveOwnerExists'
  <2> SUFFICES ASSUME SomebodyActivated' PROVE ActiveOwners' # {}
    BY DEF ActiveOwnerExists, SomebodyActivated
  <2>1. SomebodyActivated
    BY DEF SomebodyActivated
  <2>2. PICK o \in ActiveOwners : \/ o # target
                                  \/ accounts[target].role # "owner"
                                  \/ /\ accounts'[target].role = "owner"
                                     /\ \/ accounts[target].disabled = accounts'[target].disabled
                                        \/ ~accounts'[target].disabled
    BY <2>1 DEF ActiveOwnerExists, SomebodyActivated, EnsureNotLastActiveOwner
  <2>3. o \in ActiveOwners'
    BY <2>2 DEF ActiveOwners, ActiveAccounts
  <2> QED
    BY <2>3
<1>2. SingleBootstrapActivation'
  BY DEF SingleBootstrapActivation
<1>3. InvitesNeedActivation'
  BY DEF InvitesNeedActivation, SomebodyActivated
<1>4. TokensNameAccounts'
  BY DEF TokensNameAccounts
<1> QED
  BY <1>1, <1>2, <1>3, <1>4

LEMMA CreateBootstrapTokenKeepsOwnerInv ==
    ASSUME OwnerInv, TypeOK', NEW t \in BootToken, CreateBootstrapToken(t)
    PROVE  OwnerInv'
<1> USE DEF OwnerInv, CreateBootstrapToken, Insert
<1>1. ActiveOwnerExists'
  BY DEF ActiveOwnerExists, ActiveOwners, ActiveAccounts
<1>2. \A a \in DOMAIN accounts : AcceptedBootstrapToken(a)' <=> AcceptedBootstrapToken(a)
  BY NoneIsNoId DEF AcceptedBootstrapToken, TypeOK, IsTable
<1>3. SingleBootstrapActivation'
  BY <1>2 DEF SingleBootstrapActivation
<1>4. InvitesNeedActivation'
  BY DEF InvitesNeedActivation, SomebodyActivated
<1>5. TokensNameAccounts'
  BY <1>2 DEF TokensNameAccounts, AcceptedInvite
<1> QED
  BY <1>1, <1>3, <1>4, <1>5

LEMMA RedeemBootstrapTokenKeepsOwnerInv ==
    ASSUME OwnerInv, TypeOK', NEW t \in BootToken, NEW k \in Key, NEW a \in Account,
           RedeemBootstrapToken(t, k, a)
    PROVE  OwnerInv'
<1> USE DEF RedeemBootstrapToken, InsertPendingAccount, Insert
<1>1. ~SomebodyActivated'
  BY NobodyActive DEF SomebodyActivated
<1>2. /\ ActiveOwnerExists'
      /\ SingleBootstrapActivation'
      /\ InvitesNeedActivation'
  BY <1>1 DEF ActiveOwnerExists, SingleBootstrapActivation, InvitesNeedActivation,
              SomebodyActivated, OwnerInv
<1>3. TokensNameAccounts'
  BY NoneIsNoId DEF OwnerInv, TokensNameAccounts, AcceptedBootstrapToken, AcceptedInvite
<1> QED
  BY <1>2, <1>3 DEF OwnerInv

LEMMA RedeemInviteKeepsOwnerInv ==
    ASSUME OwnerInv, TypeOK', NEW i \in Invite, NEW k \in Key, NEW a \in Account,
           RedeemInvite(i, k, a)
    PROVE  OwnerInv'
<1> USE DEF OwnerInv, RedeemInvite, InviteOpen, InsertPendingAccount, Insert
<1>1. \A b \in DOMAIN accounts : accounts'[b] = accounts[b]
  OBVIOUS
<1>2. ActiveOwnerExists'
  BY <1>1 DEF ActiveOwnerExists, ActiveOwners, ActiveAccounts
<1>3. SingleBootstrapActivation'
  BY <1>1 DEF SingleBootstrapActivation, AcceptedBootstrapToken
<1>4. InvitesNeedActivation'
  BY <1>1 DEF InvitesNeedActivation, SomebodyActivated
<1>5. TokensNameAccounts'
  BY NoneIsNoId DEF TokensNameAccounts, AcceptedBootstrapToken, AcceptedInvite,
                    TypeOK, IsTable, InviteRow
<1> QED
  BY <1>2, <1>3, <1>4, <1>5

\* Onboarding: the first account to be activated becomes an owner by a
\* bootstrap token; everybody later comes in by an invite and finds one.
LEMMA CompleteOnboardingKeepsOwnerInv ==
    ASSUME OwnerInv, TypeOK', NEW a \in Account, NEW n \in Name,
           CompleteOnboarding(a, n)
    PROVE  OwnerInv'
<1> USE DEF CompleteOnboarding
<1>1. /\ DOMAIN accounts' = DOMAIN accounts
      /\ accounts'[a].activated /\ ~accounts'[a].disabled
      /\ accounts'[a].role = accounts[a].role
      /\ \A b \in DOMAIN accounts \ {a} : accounts'[b] = accounts[b]
  <2>1. accounts \in [DOMAIN accounts -> AccountRow] /\ a \in DOMAIN accounts
    BY DEF OwnerInv, TypeOK, IsTable
  <2>2. accounts' = [accounts EXCEPT
                        ![a] = [accounts[a] EXCEPT !.username = n, !.activated = TRUE]]
    BY <2>1 DEF AccountRow
  <2>3. accounts'[a] = [accounts[a] EXCEPT !.username = n, !.activated = TRUE]
    BY ONLY <2>1, <2>2
  <2>4. /\ DOMAIN accounts' = DOMAIN accounts
        /\ \A b \in DOMAIN accounts \ {a} : accounts'[b] = accounts[b]
    BY ONLY <2>1, <2>2
  <2>5. accounts[a] \in AccountRow /\ ~accounts[a].disabled
    BY <2>1
  <2>6. accounts'[a].activated /\ ~accounts'[a].disabled
        /\ accounts'[a].role = accounts[a].role
    BY ONLY <2>3, <2>5 DEF AccountRow
  <2> QED BY ONLY <2>4, <2>6
<1>2. TokensNameAccounts'
  BY <1>1 DEF OwnerInv, TokensNameAccounts, AcceptedBootstrapToken, AcceptedInvite
<1>3. InvitesNeedActivation'
  BY <1>1 DEF InvitesNeedActivation, SomebodyActivated
<1>4. CASE accounts[a].role = "owner"
  <2>1. ~SomebodyActivated
    BY <1>4, NobodyActive DEF EnsureAcceptedToken
  <2>2. ActiveOwnerExists'
    BY <1>1, <1>4 DEF ActiveOwnerExists, ActiveOwners, ActiveAccounts
  <2>3. SingleBootstrapActivation'
    BY <1>1, <2>1 DEF SingleBootstrapActivation, SomebodyActivated
  <2> QED
    BY <1>2, <1>3, <2>2, <2>3 DEF OwnerInv
<1>5. CASE accounts[a].role # "owner"
  <2>1. AcceptedInvite(a)
    BY <1>5 DEF EnsureAcceptedToken
  <2>2. SomebodyActivated /\ ~AcceptedBootstrapToken(a)
    BY <2>1 DEF OwnerInv, InvitesNeedActivation, TokensNameAccounts, AcceptedInvite
  <2>3. ActiveOwnerExists'
    BY <1>1, <1>5, <2>2 DEF OwnerInv, ActiveOwnerExists, ActiveOwners,
                            ActiveAccounts, SomebodyActivated
  <2>4. SingleBootstrapActivation'
    BY <1>1, <2>2 DEF OwnerInv, SingleBootstrapActivation, AcceptedBootstrapToken
  <2> QED
    BY <1>2, <1>3, <2>3, <2>4 DEF OwnerInv
<1> QED
  BY <1>4, <1>5

\* The steps that change invites and nothing else the invariant speaks of.
LEMMA InviteStepKeepsOwnerInv ==
    ASSUME OwnerInv, TypeOK', SomebodyActivated,
           UNCHANGED <<accounts, bootstrap_tokens>>,
           \A i \in DOMAIN invites' :
               invites'[i].accepted_by # None =>
                   /\ i \in DOMAIN invites
                   /\ invites'[i].accepted_by = invites[i].accepted_by
    PROVE  OwnerInv'
<1>1. /\ ActiveOwnerExists'
      /\ SingleBootstrapActivation'
      /\ InvitesNeedActivation'
  BY DEF OwnerInv, ActiveOwnerExists, ActiveOwners, ActiveAccounts, SomebodyActivated,
         SingleBootstrapActivation, AcceptedBootstrapToken, InvitesNeedActivation
<1>2. TokensNameAccounts'
  BY NoneIsNoId DEF OwnerInv, TypeOK, IsTable, TokensNameAccounts,
                    AcceptedBootstrapToken, AcceptedInvite
<1> QED
  BY <1>1, <1>2 DEF OwnerInv

LEMMA InviteNextKeepsOwnerInv ==
    ASSUME OwnerInv, TypeOK', InviteNext
    PROVE  OwnerInv'
<1> USE DEF OwnerInv, TypeOK, IsTable, InviteRow
<1>1. ASSUME NEW a \in Account, NEW r \in {"admin", "member"}, NEW i \in Invite,
             CreateInvite(a, r, i)
      PROVE OwnerInv'
  <2>1. SomebodyActivated
    BY <1>1 DEF CreateInvite, Actor, ActiveAccounts, SomebodyActivated
  <2>2. \A j \in DOMAIN invites' :
           invites'[j].accepted_by # None =>
               j \in DOMAIN invites /\ invites'[j].accepted_by = invites[j].accepted_by
    BY <1>1 DEF CreateInvite, Insert
  <2> QED
    BY <1>1, <2>1, <2>2, InviteStepKeepsOwnerInv DEF CreateInvite
<1>2. ASSUME NEW i \in DOMAIN invites, UNCHANGED <<accounts, bootstrap_tokens>>,
             \/ invites' = [invites EXCEPT ![i].revoked = TRUE]
             \/ invites' = [invites EXCEPT ![i].expired = TRUE]
      PROVE OwnerInv'
  <2>1. SomebodyActivated
    BY DEF InvitesNeedActivation
  <2>2. \A j \in DOMAIN invites' :
           j \in DOMAIN invites /\ invites'[j].accepted_by = invites[j].accepted_by
    BY <1>2
  <2> QED
    BY <1>2, <2>1, <2>2, InviteStepKeepsOwnerInv
<1> QED
  BY <1>1, <1>2 DEF InviteNext, RevokeInvite, InviteOpen, ExpireInvite

LEMMA AdminNextKeepsOwnerInv ==
    ASSUME OwnerInv, TypeOK', AdminNext
    PROVE  OwnerInv'
<1> USE DEF OwnerInv, TypeOK, IsTable, AccountRow
<1>1. ASSUME NEW a \in Account, NEW b \in Account, NEW d \in BOOLEAN,
             SetUserDisabled(a, b, d)
      PROVE OwnerInv'
  <2>1. /\ DOMAIN accounts' = DOMAIN accounts
        /\ accounts'[b].role = accounts[b].role
        /\ accounts'[b].activated = accounts[b].activated
        /\ accounts'[b].disabled = d
        /\ \A c \in DOMAIN accounts \ {b} : accounts'[c] = accounts[c]
    BY <1>1 DEF SetUserDisabled
  <2> QED
    BY <1>1, <2>1, GuardedChangeKeepsOwner DEF SetUserDisabled
<1>2. ASSUME NEW a \in Account, NEW b \in Account, NEW r \in Role, SetUserRole(a, b, r)
      PROVE OwnerInv'
  <2>1. /\ DOMAIN accounts' = DOMAIN accounts
        /\ accounts'[b].role = r
        /\ accounts'[b].activated = accounts[b].activated
        /\ accounts'[b].disabled = accounts[b].disabled
        /\ \A c \in DOMAIN accounts \ {b} : accounts'[c] = accounts[c]
    BY <1>2 DEF SetUserRole
  <2> QED
    BY <1>2, <2>1, GuardedChangeKeepsOwner DEF SetUserRole
<1>3. ASSUME NEW a \in Account, NEW b \in Account, NEW n \in Name, RenameUser(a, b, n)
      PROVE OwnerInv'
  BY <1>3, SameStandingKeepsOwnerInv DEF RenameUser, SameStanding
<1> QED
  BY <1>1, <1>2, <1>3 DEF AdminNext

LEMMA NextOwnerInv == OwnerInv /\ [Next]_vars => OwnerInv'
<1> SUFFICES ASSUME OwnerInv, [Next]_vars PROVE OwnerInv'
  OBVIOUS
<1>1. TypeOK'
  BY NextTypeOK DEF OwnerInv
<1>2. CASE OnboardingNext
  BY <1>1, <1>2, CreateBootstrapTokenKeepsOwnerInv, RedeemBootstrapTokenKeepsOwnerInv,
     RedeemInviteKeepsOwnerInv, CompleteOnboardingKeepsOwnerInv DEF OnboardingNext
<1>3. CASE InviteNext
  BY <1>1, <1>3, InviteNextKeepsOwnerInv
<1>4. CASE AdminNext
  BY <1>1, <1>4, AdminNextKeepsOwnerInv
<1>5. CASE KeyNext \/ LinkNext
  BY <1>1, <1>5, SameStandingKeepsOwnerInv
     DEF KeyNext, LinkNext, SameStanding, AddSshKey, RevokeSshKey,
         CreateDeviceLinkToken, RedeemDeviceLinkToken, ExpireDeviceLinkToken
<1>6. CASE UNCHANGED vars
  BY <1>1, <1>6, SameStandingKeepsOwnerInv DEF vars, SameStanding
<1> QED
  BY <1>2, <1>3, <1>4, <1>5, <1>6 DEF Next

LEMMA OwnerInvariant == Spec => []OwnerInv
  BY InitOwnerInv, NextOwnerInv, PTL DEF Spec

(* Whoever may act, and in whatever order: once anybody was activated, an  *)
(* active owner remains (set_user_disabled, set_user_role and              *)
(* complete_onboarding together).                                          *)
THEOREM ActiveOwnerAlwaysExists == Spec => []ActiveOwnerExists
<1>1. OwnerInv => ActiveOwnerExists
  BY DEF OwnerInv
<1> QED
  BY <1>1, OwnerInvariant, PTL

(* At most one of the accounts created by bootstrap tokens is ever         *)
(* activated (redeem_token_for_key and complete_onboarding).               *)
THEOREM OneBootstrapActivation == Spec => []SingleBootstrapActivation
<1>1. OwnerInv => SingleBootstrapActivation
  BY DEF OwnerInv
<1> QED
  BY <1>1, OwnerInvariant, PTL

-----------------------------------------------------------------------------
(* Usernames.                                                              *)
NameInv == TypeOK /\ UsernamesReserved

\* A step that leaves the reservations and every username as they were.
LEMMA SameNamesKeepNameInv ==
    ASSUME NameInv, TypeOK',
           account_username_reservations' = account_username_reservations,
           DOMAIN accounts \subseteq DOMAIN accounts',
           \A a \in DOMAIN accounts : accounts'[a].username = accounts[a].username,
           \A a \in DOMAIN accounts' \ DOMAIN accounts : accounts'[a].username = None
    PROVE  NameInv'
  BY DEF NameInv, UsernamesReserved

\* Onboarding and renaming: a takes n, which nobody else ever held.
LEMMA TakeNameKeepsNameInv ==
    ASSUME NameInv, TypeOK', NEW a \in DOMAIN accounts, NEW n \in Name,
           EnsureUsernameReservable(a, n),
           SetCurrentUsernameReservation(a, n),
           DOMAIN accounts' = DOMAIN accounts,
           accounts'[a].username = n,
           \A b \in DOMAIN accounts \ {a} : accounts'[b] = accounts[b]
    PROVE  NameInv'
<1> USE DEF NameInv, EnsureUsernameReservable, SetCurrentUsernameReservation
<1>1. ASSUME NEW b \in DOMAIN accounts', accounts'[b].username # None
      PROVE  /\ accounts'[b].username \in DOMAIN account_username_reservations'
             /\ account_username_reservations'[accounts'[b].username]
                    = [account |-> b, current |-> TRUE]
  <2>1. CASE b = a
    BY <2>1
  <2>2. CASE b # a
    <3>1. accounts'[b].username = accounts[b].username
      BY <2>2
    <3>2. /\ accounts[b].username \in DOMAIN account_username_reservations
          /\ account_username_reservations[accounts[b].username]
                 = [account |-> b, current |-> TRUE]
      BY <1>1, <3>1 DEF UsernamesReserved
    <3> QED
      BY <2>2, <3>1, <3>2
  <2> QED
    BY <2>1, <2>2
<1>2. ASSUME NEW m \in DOMAIN account_username_reservations'
      PROVE  /\ account_username_reservations'[m].account \in DOMAIN accounts'
             /\ account_username_reservations'[m].current
                    => accounts'[account_username_reservations'[m].account].username = m
  BY <1>2 DEF UsernamesReserved
<1> QED
  BY <1>1, <1>2 DEF UsernamesReserved

LEMMA NextNameInv == NameInv /\ [Next]_vars => NameInv'
<1> SUFFICES ASSUME NameInv, [Next]_vars PROVE NameInv'
  OBVIOUS
<1>1. TypeOK'
  BY NextTypeOK DEF NameInv
<1> USE <1>1
<1>2. ASSUME NEW a \in Account, NEW n \in Name, CompleteOnboarding(a, n)
      PROVE NameInv'
  BY <1>2, TakeNameKeepsNameInv
     DEF CompleteOnboarding, NameInv, TypeOK, IsTable, AccountRow
<1>3. ASSUME NEW a \in Account, NEW b \in Account, NEW n \in Name, RenameUser(a, b, n)
      PROVE NameInv'
  BY <1>3, TakeNameKeepsNameInv DEF RenameUser, NameInv, TypeOK, IsTable, AccountRow
<1>4. ASSUME NEW a \in Account, NEW b \in Account,
             \/ \E d \in BOOLEAN : SetUserDisabled(a, b, d)
             \/ \E r \in Role : SetUserRole(a, b, r)
      PROVE NameInv'
  BY <1>4, SameNamesKeepNameInv
     DEF SetUserDisabled, SetUserRole, NameInv, TypeOK, IsTable, AccountRow
<1>5. ASSUME NEW a \in Account,
             \/ \E t \in BootToken, k \in Key : RedeemBootstrapToken(t, k, a)
             \/ \E i \in Invite, k \in Key : RedeemInvite(i, k, a)
      PROVE NameInv'
  BY <1>5, SameNamesKeepNameInv
     DEF RedeemBootstrapToken, RedeemInvite, InsertPendingAccount, Insert
<1>6. CASE InviteNext \/ KeyNext \/ LinkNext \/ UNCHANGED vars
           \/ \E t \in BootToken : CreateBootstrapToken(t)
  BY <1>6, SameNamesKeepNameInv
     DEF InviteNext, CreateInvite, RevokeInvite, ExpireInvite, KeyNext, AddSshKey,
         RevokeSshKey, LinkNext, CreateDeviceLinkToken, RedeemDeviceLinkToken,
         ExpireDeviceLinkToken, CreateBootstrapToken, vars
<1> QED
  BY <1>2, <1>3, <1>4, <1>5, <1>6 DEF Next, OnboardingNext, AdminNext

LEMMA NameInvariant == Spec => []NameInv
<1>1. Init => NameInv
  BY InitTypeOK DEF Init, NameInv, UsernamesReserved, NoRows
<1> QED
  BY <1>1, NextNameInv, PTL DEF Spec

(* The reservation transactions alone keep every chosen username with one  *)
(* account (complete_onboarding and rename_user).                          *)
THEOREM UsernamesAlwaysReserved == Spec => []UsernamesReserved
<1>1. NameInv => UsernamesReserved
  BY DEF NameInv
<1> QED
  BY <1>1, NameInvariant, PTL

\* Two accounts never share a chosen username.
LEMMA UsernamesUnique ==
    ASSUME UsernamesReserved,
           NEW a \in DOMAIN accounts, NEW b \in DOMAIN accounts,
           accounts[a].username = accounts[b].username, accounts[a].username # None
    PROVE  a = b
<1>1. /\ account_username_reservations[accounts[a].username] = [account |-> a, current |-> TRUE]
      /\ account_username_reservations[accounts[a].username] = [account |-> b, current |-> TRUE]
  BY DEF UsernamesReserved
<1>2. [account |-> a, current |-> TRUE].account = [account |-> b, current |-> TRUE].account
  BY <1>1
<1> QED
  BY <1>2

(* A name once used stays with its account for good: "Username has already *)
(* been used" answers everybody else, forever.                             *)
THEOREM UsernamesNeverChangeHands == Spec => NamesNeverChangeHands
<1> DEFINE Kept == \A n \in DOMAIN account_username_reservations :
                      /\ n \in DOMAIN account_username_reservations'
                      /\ account_username_reservations'[n].account
                             = account_username_reservations[n].account
<1>1. NameInv /\ [Next]_vars => Kept
  <2> SUFFICES ASSUME [Next]_vars PROVE Kept
    OBVIOUS
  <2>1. ASSUME NEW a, NEW n, EnsureUsernameReservable(a, n),
               SetCurrentUsernameReservation(a, n)
        PROVE  Kept
    BY <2>1 DEF EnsureUsernameReservable, SetCurrentUsernameReservation
  <2>2. CASE UNCHANGED account_username_reservations
    BY <2>2
  <2> QED
    BY <2>1, <2>2
       DEF Next, OnboardingNext, InviteNext, AdminNext, KeyNext, LinkNext,
           CompleteOnboarding, RenameUser, CreateBootstrapToken, RedeemBootstrapToken,
           RedeemInvite, CreateInvite, RevokeInvite, ExpireInvite, SetUserDisabled,
           SetUserRole, AddSshKey, RevokeSshKey, CreateDeviceLinkToken,
           RedeemDeviceLinkToken, ExpireDeviceLinkToken, vars
<1>2. NameInv /\ [Next]_vars => [Kept]_vars
  BY <1>1
<1> QED
  BY <1>2, NameInvariant, PTL DEF Spec, NamesNeverChangeHands

-----------------------------------------------------------------------------
(* Keys.                                                                   *)

(* A fingerprint belongs to one account for good, and a revoked one stays  *)
(* revoked: fingerprint is UNIQUE, and no operation deletes a key.         *)
THEOREM KeysStayWithOwner == Spec => KeysNeverChangeHands
<1> DEFINE Kept == \A k \in DOMAIN ssh_keys :
                      /\ k \in DOMAIN ssh_keys'
                      /\ ssh_keys'[k].account = ssh_keys[k].account
                      /\ ssh_keys[k].revoked => ssh_keys'[k].revoked
<1>1. TypeOK /\ [Next]_vars => Kept
  <2> SUFFICES ASSUME TypeOK, [Next]_vars PROVE Kept
    OBVIOUS
  <2>1. ASSUME NEW a, NEW k, InsertKey(a, k) PROVE Kept
    BY <2>1 DEF InsertKey, Insert
  <2>2. ASSUME NEW a \in Account, NEW k \in Key, RevokeSshKey(a, k) PROVE Kept
    BY <2>2 DEF RevokeSshKey, TypeOK, IsTable, KeyRow
  <2>3. CASE UNCHANGED ssh_keys
    BY <2>3
  <2> QED
    BY <2>1, <2>2, <2>3
       DEF Next, OnboardingNext, InviteNext, AdminNext, KeyNext, LinkNext,
           CompleteOnboarding, RenameUser, CreateBootstrapToken, RedeemBootstrapToken,
           RedeemInvite, CreateInvite, RevokeInvite, ExpireInvite, SetUserDisabled,
           SetUserRole, AddSshKey, CreateDeviceLinkToken,
           RedeemDeviceLinkToken, ExpireDeviceLinkToken, vars
<1>2. TypeOK /\ [Next]_vars => [Kept]_vars
  BY <1>1
<1> QED
  BY <1>2, TypeCorrect, PTL DEF Spec, KeysNeverChangeHands

-----------------------------------------------------------------------------
(* Tokens.                                                                 *)

\* Every account came in on a token, and a token let in one account.  That it
\* was not one of each kind is in TokensNameAccounts.
EntryInv ==
    /\ \A a \in DOMAIN accounts : AcceptedBootstrapToken(a) \/ AcceptedInvite(a)
    /\ \A t, u \in DOMAIN bootstrap_tokens :
           bootstrap_tokens[t] = bootstrap_tokens[u] /\ bootstrap_tokens[t] # None
               => t = u
    /\ \A i, j \in DOMAIN invites :
           invites[i].accepted_by = invites[j].accepted_by /\ invites[i].accepted_by # None
               => i = j

\* A step that accepts no token and creates no account.
LEMMA SameEntriesKeepEntryInv ==
    ASSUME EntryInv, DOMAIN accounts' = DOMAIN accounts,
           DOMAIN bootstrap_tokens \subseteq DOMAIN bootstrap_tokens',
           \A t \in DOMAIN bootstrap_tokens : bootstrap_tokens'[t] = bootstrap_tokens[t],
           \A t \in DOMAIN bootstrap_tokens' \ DOMAIN bootstrap_tokens :
               bootstrap_tokens'[t] = None,
           DOMAIN invites \subseteq DOMAIN invites',
           \A i \in DOMAIN invites : invites'[i].accepted_by = invites[i].accepted_by,
           \A i \in DOMAIN invites' \ DOMAIN invites : invites'[i].accepted_by = None
    PROVE  EntryInv'
<1>1. \A a \in DOMAIN accounts' : AcceptedBootstrapToken(a)' \/ AcceptedInvite(a)'
  BY DEF EntryInv, AcceptedBootstrapToken, AcceptedInvite
<1>2. \A t, u \in DOMAIN bootstrap_tokens' :
         bootstrap_tokens'[t] = bootstrap_tokens'[u] /\ bootstrap_tokens'[t] # None
             => t = u
  BY DEF EntryInv
<1>3. \A i, j \in DOMAIN invites' :
         invites'[i].accepted_by = invites'[j].accepted_by /\ invites'[i].accepted_by # None
             => i = j
  BY DEF EntryInv
<1> QED
  BY <1>1, <1>2, <1>3 DEF EntryInv

\* The two redemptions: the account is new, so no token names it yet.
LEMMA RedemptionKeepsEntryInv ==
    ASSUME TypeOK, TokensNameAccounts, EntryInv, NEW a \in Account, NEW k \in Key,
           \/ \E t \in BootToken : RedeemBootstrapToken(t, k, a)
           \/ \E i \in Invite : RedeemInvite(i, k, a)
    PROVE  EntryInv'
<1> USE DEF InsertPendingAccount, Insert
<1>1. ASSUME NEW t \in BootToken, RedeemBootstrapToken(t, k, a) PROVE EntryInv'
  <2>1. /\ a \notin DOMAIN accounts /\ DOMAIN accounts' = DOMAIN accounts \cup {a}
        /\ t \in DOMAIN bootstrap_tokens /\ bootstrap_tokens[t] = None
        /\ bootstrap_tokens' = [bootstrap_tokens EXCEPT ![t] = a]
        /\ invites' = invites
    BY <1>1 DEF RedeemBootstrapToken
  <2>2. \A b \in DOMAIN accounts' : AcceptedBootstrapToken(b)' \/ AcceptedInvite(b)'
    BY <2>1, NoneIsNoId DEF EntryInv, AcceptedBootstrapToken, AcceptedInvite,
                            TypeOK, IsTable
  <2>3. \A u \in DOMAIN bootstrap_tokens : bootstrap_tokens[u] # a
    BY <2>1, NoneIsNoId DEF TokensNameAccounts
  <2> QED BY <2>1, <2>2, <2>3 DEF EntryInv
<1>2. ASSUME NEW i \in Invite, RedeemInvite(i, k, a) PROVE EntryInv'
  <2>1. /\ a \notin DOMAIN accounts /\ DOMAIN accounts' = DOMAIN accounts \cup {a}
        /\ i \in DOMAIN invites /\ invites[i].accepted_by = None
        /\ invites' = [invites EXCEPT ![i].accepted_by = a]
        /\ bootstrap_tokens' = bootstrap_tokens
    BY <1>2 DEF RedeemInvite, InviteOpen
  <2>2. /\ DOMAIN invites' = DOMAIN invites
        /\ invites'[i].accepted_by = a
        /\ \A j \in DOMAIN invites \ {i} : invites'[j] = invites[j]
    BY <2>1 DEF TypeOK, IsTable, InviteRow
  <2>3. \A b \in DOMAIN accounts' : AcceptedBootstrapToken(b)' \/ AcceptedInvite(b)'
    BY <2>1, <2>2, NoneIsNoId DEF EntryInv, AcceptedBootstrapToken, AcceptedInvite,
                                  TypeOK, IsTable
  <2>4. \A j \in DOMAIN invites : invites[j].accepted_by # a
    BY <2>1, NoneIsNoId DEF TokensNameAccounts
  <2> QED BY <2>1, <2>2, <2>3, <2>4 DEF EntryInv
<1> QED BY <1>1, <1>2

LEMMA NextEntryInv == TypeOK /\ TokensNameAccounts /\ EntryInv /\ [Next]_vars => EntryInv'
<1> SUFFICES ASSUME TypeOK, TokensNameAccounts, EntryInv, [Next]_vars PROVE EntryInv'
  OBVIOUS
<1>1. ASSUME NEW t \in BootToken, CreateBootstrapToken(t) PROVE EntryInv'
  BY <1>1, SameEntriesKeepEntryInv DEF CreateBootstrapToken, Insert
<1>2. ASSUME NEW a \in Account, NEW r \in {"admin", "member"}, NEW i \in Invite,
             CreateInvite(a, r, i)
      PROVE  EntryInv'
  BY <1>2, SameEntriesKeepEntryInv DEF CreateInvite, Insert
<1>3. ASSUME NEW i \in Invite,
             ExpireInvite(i) \/ \E a \in Account : RevokeInvite(a, i)
      PROVE  EntryInv'
  <2>1. /\ DOMAIN invites' = DOMAIN invites
        /\ \A j \in DOMAIN invites : invites'[j].accepted_by = invites[j].accepted_by
        /\ UNCHANGED <<accounts, bootstrap_tokens>>
    BY <1>3 DEF RevokeInvite, InviteOpen, ExpireInvite, TypeOK, IsTable, InviteRow
  <2> QED BY <2>1, SameEntriesKeepEntryInv
<1>4. CASE DOMAIN accounts' = DOMAIN accounts /\ UNCHANGED <<bootstrap_tokens, invites>>
  BY <1>4, SameEntriesKeepEntryInv
<1>5. CASE AdminNext \/ KeyNext \/ LinkNext \/ UNCHANGED vars
           \/ \E a \in Account, n \in Name : CompleteOnboarding(a, n)
  BY <1>4, <1>5 DEF AdminNext, KeyNext, LinkNext, vars, CompleteOnboarding,
     SetUserDisabled, SetUserRole, RenameUser, AddSshKey, RevokeSshKey,
     CreateDeviceLinkToken, RedeemDeviceLinkToken, ExpireDeviceLinkToken
<1> QED BY <1>1, <1>2, <1>3, <1>5, RedemptionKeepsEntryInv
           DEF Next, OnboardingNext, InviteNext

\* One row among both tables of tokens names an account.
LEMMA EntryIsOneToken ==
    ASSUME TokensNameAccounts, EntryInv, NEW a \in DOMAIN accounts, a # None
    PROVE  Cardinality({t \in DOMAIN bootstrap_tokens : bootstrap_tokens[t] = a})
         + Cardinality({i \in DOMAIN invites : invites[i].accepted_by = a}) = 1
<1> DEFINE T == {t \in DOMAIN bootstrap_tokens : bootstrap_tokens[t] = a}
           I == {i \in DOMAIN invites : invites[i].accepted_by = a}
<1>1. CASE AcceptedBootstrapToken(a)
  <2>1. I = {}
    BY <1>1 DEF TokensNameAccounts, AcceptedInvite
  <2>2. PICK t \in DOMAIN bootstrap_tokens : T = {t}
    BY <1>1 DEF EntryInv, AcceptedBootstrapToken
  <2>3. Cardinality(T) = 1 /\ Cardinality(I) = 0
    BY <2>1, <2>2, FS_Singleton, FS_EmptySet
  <2> QED BY <2>3
<1>2. CASE AcceptedInvite(a)
  <2>1. T = {}
    BY <1>2 DEF TokensNameAccounts, AcceptedBootstrapToken
  <2>2. PICK i \in DOMAIN invites : I = {i}
    BY <1>2 DEF EntryInv, AcceptedInvite
  <2>3. Cardinality(I) = 1 /\ Cardinality(T) = 0
    BY <2>1, <2>2, FS_Singleton, FS_EmptySet
  <2> QED BY <2>3
<1> QED BY <1>1, <1>2 DEF EntryInv

\* A new key is none a link already counts.
LEMMA NextLinks ==
    TypeOK /\ LinkedKeysBelongToIssuer /\ [Next]_vars => LinkedKeysBelongToIssuer'
<1> SUFFICES ASSUME TypeOK, LinkedKeysBelongToIssuer, [Next]_vars
             PROVE  LinkedKeysBelongToIssuer'
  OBVIOUS
<1> USE NoneIsNoId DEF LinkedKeysBelongToIssuer, TypeOK, IsTable, LinkRow, KeyRow
<1>1. ASSUME NEW t \in LinkToken, NEW k \in Key, RedeemDeviceLinkToken(t, k)
      PROVE  LinkedKeysBelongToIssuer'
  <2>1. /\ k \notin DOMAIN ssh_keys /\ DOMAIN ssh_keys' = DOMAIN ssh_keys \cup {k}
        /\ ssh_keys'[k].account = device_link_tokens[t].account
        /\ \A x \in DOMAIN ssh_keys : ssh_keys'[x] = ssh_keys[x]
        /\ t \in DOMAIN device_link_tokens
        /\ DOMAIN device_link_tokens' = DOMAIN device_link_tokens
        /\ device_link_tokens'[t].used_by_key = k
        /\ device_link_tokens'[t].account = device_link_tokens[t].account
        /\ \A u \in DOMAIN device_link_tokens \ {t} :
              device_link_tokens'[u] = device_link_tokens[u]
    BY <1>1 DEF RedeemDeviceLinkToken, InsertKey, Insert
  <2>2. \A u \in DOMAIN device_link_tokens : device_link_tokens[u].used_by_key # k
    BY <2>1
  <2> QED BY ONLY <2>1, <2>2, LinkedKeysBelongToIssuer, NoneIsNoId, k \in Key
             DEF LinkedKeysBelongToIssuer
<1>2. ASSUME NEW a \in Account, NEW k \in Key, InsertKey(a, k),
             UNCHANGED device_link_tokens
      PROVE  LinkedKeysBelongToIssuer'
  BY <1>2 DEF InsertKey, Insert
<1>3. ASSUME NEW a \in Account, NEW k \in Key, RevokeSshKey(a, k)
      PROVE  LinkedKeysBelongToIssuer'
  BY <1>3 DEF RevokeSshKey
<1>4. ASSUME NEW a \in Account, NEW t \in LinkToken, CreateDeviceLinkToken(a, t)
      PROVE  LinkedKeysBelongToIssuer'
  BY <1>4 DEF CreateDeviceLinkToken, Insert
<1>5. ASSUME NEW t \in LinkToken, ExpireDeviceLinkToken(t)
      PROVE  LinkedKeysBelongToIssuer'
  BY <1>5 DEF ExpireDeviceLinkToken
<1>6. CASE UNCHANGED <<ssh_keys, device_link_tokens>>
  BY <1>6
<1> QED
  BY <1>1, <1>2, <1>3, <1>4, <1>5, <1>6
     DEF Next, OnboardingNext, InviteNext, AdminNext, KeyNext, LinkNext,
         CompleteOnboarding, RenameUser, CreateBootstrapToken, RedeemBootstrapToken,
         RedeemInvite, CreateInvite, RevokeInvite, ExpireInvite, SetUserDisabled,
         SetUserRole, AddSshKey, vars

(* However redemptions, links, revocations and disablings follow each      *)
(* other, each account came in on exactly one token, and each linked key   *)
(* belongs to who asked for the link.                                      *)
THEOREM TokensAlwaysNameOwners == Spec => []TokensNameOwners
<1>1. Init => EntryInv /\ LinkedKeysBelongToIssuer
  BY DEF Init, NoRows, EntryInv, LinkedKeysBelongToIssuer
<1>2. OwnerInv => TypeOK /\ TokensNameAccounts
  BY DEF OwnerInv
<1>3. OwnerInv /\ EntryInv /\ LinkedKeysBelongToIssuer => TokensNameOwners
  <2> SUFFICES ASSUME OwnerInv, EntryInv, LinkedKeysBelongToIssuer
               PROVE  TokensNameOwners
    OBVIOUS
  <2>1. \A a \in DOMAIN accounts : a # None
    BY <1>2, NoneIsNoId DEF TypeOK, IsTable
  <2> QED BY <1>2, <2>1, EntryIsOneToken DEF TokensNameOwners, OneTokenPerAccount
<1> QED
  BY <1>1, <1>2, <1>3, OwnerInvariant, NextEntryInv, NextLinks, PTL DEF Spec
=============================================================================
