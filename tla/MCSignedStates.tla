----------------------------- MODULE MCSignedStates -----------------------------
(* Instances of SignedStates for TLC: a user with a wallet and a hub.  The  *)
(* user's consensus bytes are the greater ones, so that the pair is ordered *)
(* against the view of the one who signs first.                             *)
EXTENDS SignedStates, TLC

CONSTANTS user, hub, userKey, hubKey

Keys == (user :> userKey) @@ (hub :> hubKey)
Bytes == (user :> 2) @@ (hub :> 1)

\* A pipe of one, and every state of it that the contract could take.
Total == 1

Form(me, actor, my, their, action, amount, secret, validAfter, version) ==
    [me |-> me, with |-> IF me = user THEN hub ELSE user, actor |-> actor, my |-> my,
     their |-> their, nonce |-> 1, action |-> action, amount |-> amount,
     secret |-> secret, validAfter |-> validAfter, version |-> version]

Transfers ==
    {Form(me, user, my, 1 - my, Transfer, 0, condition[1], condition[2], ContractVersion) :
        me \in {user, hub}, my \in {0, 1},
        condition \in {<<None, None>>, <<0, None>>, <<1, None>>, <<None, 0>>}}

\* Who acts, and a version of the domain that is not the contract's.
OtherTransfers ==
    {Form(me, hub, 1, 0, Transfer, 0, None, None, ContractVersion) : me \in {user, hub}}
        \cup {Form(me, user, 1, 0, Transfer, 0, None, None, "1.0.0") : me \in {user, hub}}

Closings ==
    {Form(me, actor, IF me = hub THEN 1 ELSE 0, IF me = hub THEN 0 ELSE 1, Close, 0, None,
          None, ContractVersion) :
        me \in {user, hub}, actor \in {user, hub}}

Fundings ==
    {Form(me, actor, 1, 1, Deposit, 1, secret, None, ContractVersion) :
        me \in {user, hub}, actor \in {user, hub}, secret \in {None, 0}}
    \cup
    {Form(me, actor, 0, 0, Withdrawal, 1, None, None, ContractVersion) :
        me \in {user, hub}, actor \in {user, hub}}

AllForms == Transfers \cup OtherTransfers \cup Closings \cup Fundings

\* The hub's own key, and a principal the key is not for.
HubConfigurations ==
    {[mode |-> "local-key", keyed |-> TRUE, principal |-> None], [mode |-> "kms", keyed |-> TRUE, principal |-> user]}

=============================================================================
