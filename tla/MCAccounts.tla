----------------------------- MODULE MCAccounts -----------------------------
(***************************************************************************)
(* The components about one user's account, each over its own stores: a    *)
(* behaviour follows one of them, the others staying as they started.      *)
(***************************************************************************)
EXTENDS Accounts, Erasure, Passkeys, PasskeyList, SingleSignOn, TLC

VARIABLE focus

vars == <<accountVars, erasureVars, passkeyVars, hookVars, ssoVars, focus>>

Init ==
  /\ AccountInit /\ ErasureInit /\ PasskeyInit /\ HookInit /\ SsoInit
  /\ focus \in {"accounts", "erasure", "passkeys", "list", "sso"}
  /\ strategy # "prompt_user"  \* what automatic does for an unverified address
  /\ focus # "accounts" => strategy = "automatic"
  /\ focus # "erasure" => held = {"row"}
  /\ focus # "list" => account = {}

AccountStep ==
  /\ focus = "accounts" /\ AccountNext
  /\ UNCHANGED <<erasureVars, passkeyVars, hookVars, ssoVars, focus>>

ErasureStep ==
  /\ focus = "erasure" /\ ErasureNext
  /\ UNCHANGED <<accountVars, passkeyVars, hookVars, ssoVars, focus>>

PasskeyStep ==
  /\ focus = "passkeys" /\ PasskeyNext
  /\ UNCHANGED <<accountVars, erasureVars, hookVars, ssoVars, focus>>

HookStep ==
  /\ focus = "list" /\ HookNext
  /\ UNCHANGED <<accountVars, erasureVars, passkeyVars, ssoVars, focus>>

SsoStep ==
  /\ focus = "sso" /\ SsoNext
  /\ UNCHANGED <<accountVars, erasureVars, passkeyVars, hookVars, focus>>

Next == AccountStep \/ ErasureStep \/ PasskeyStep \/ HookStep \/ SsoStep

Spec == Init /\ [][Next]_vars

\* The types of the component a behaviour follows.
TypeOK ==
  CASE focus = "accounts" -> AccountTypes
    [] focus = "erasure" -> ErasureTypes
    [] focus = "passkeys" -> PasskeyTypes
    [] focus = "list" -> HookTypes
    [] focus = "sso" -> SsoTypes

\* The components take their values from the same sets, so three permutations do
\* for all of them.
Symmetry ==
  Permutations(UserIds) \union Permutations(Addresses) \union Permutations(AccountCalls)
=============================================================================
