---------------------------- MODULE BackupCodes ----------------------------
(***************************************************************************)
(* backup-codes.ts for one user.  The store keeps the hashes of the unused *)
(* codes; a hash stands for its code, so they are a set.  Whoever changes  *)
(* them reads them all, awaits argon2, and writes them all back.           *)
(***************************************************************************)
EXTENDS Naturals, FiniteSets

CONSTANTS BackupCodeSet   \* bound: the codes that are ever generated

VARIABLES
  hashes,      \* getHashes(userId)
  shown,       \* codes ever shown to the user (history)
  paid,        \* code -> how often it passed (history)
  staleHashes  \* whether somebody wrote over hashes it had not read (history)

backupVars == <<hashes, shown, paid, staleHashes>>

BackupInit ==
  /\ hashes = {}
  /\ shown = {}
  /\ paid = [code \in BackupCodeSet |-> 0]
  /\ staleHashes = FALSE

\* setHashes(new) by a request that read seen.
SetHashes(seen, new) ==
  /\ hashes' = new
  /\ staleHashes' = (staleHashes \/ hashes # seen)

\* A plausible bug: everything behind the code that passed is dropped too.
ConsumeTruncates(seen, code) ==
  /\ code \in seen
  /\ SetHashes(seen, {})
  /\ paid' = [paid EXCEPT ![code] = @ + 1]
  /\ UNCHANGED shown

\* verifyAndConsumeBackupCode, from the hash that matches on.
ConsumeBackupCode(seen, code) ==
  /\ code \in seen
  /\ SetHashes(seen, seen \ {code})
  /\ paid' = [paid EXCEPT ![code] = @ + 1]
  /\ UNCHANGED shown

\* generateAndStoreBackupCodes: the new codes join those that were read.
AddBackupCodes(seen, codes) ==
  /\ codes \subseteq BackupCodeSet \ shown
  /\ SetHashes(seen, seen \union codes)
  /\ shown' = shown \union codes
  /\ UNCHANGED paid

BackupTypes ==
  /\ hashes \subseteq shown /\ shown \subseteq BackupCodeSet
  /\ paid \in [BackupCodeSet -> Nat]
  /\ staleHashes \in BOOLEAN
=============================================================================
