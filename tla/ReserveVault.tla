----------------------------- MODULE ReserveVault -----------------------------
(***************************************************************************)
(* contracts/src/ReserveVaultV0.sol: the vault holds no accounting of its   *)
(* own.  Every answer is derived from balances, supply and status flags of  *)
(* tokens that others move between any two calls.                           *)
(***************************************************************************)
EXTENDS ReserveConstitution

CONSTANT Amounts   \* the amounts tokens are moved in

ASSUME AmountAssumption == Amounts \subseteq Nat \ {0}

VARIABLES
  idle,         \* reserveToken.balanceOf(vault)
  aToken,       \* aaveToken.balanceOf(vault)
  supply,       \* liabilityToken.totalSupply()
  paused,       \* reserveToken.paused()
  blacklisted   \* reserveToken.isBlacklisted(vault)

vars == <<idle, aToken, supply, paused, blacklisted>>

Init ==
  /\ idle = 0 /\ aToken = 0 /\ supply = 0
  /\ paused = FALSE /\ blacklisted = FALSE

------------------------------------------------------------------------------
(* The vault's views. *)

\* liquidReserveBalance(): unusable holdings are no reserves.
LiquidReserveBalance == IF paused \/ blacklisted THEN 0 ELSE idle

\* validateReserveState(): a checked addition, then the constitution.
Verdict ==
  LET backing == LiquidReserveBalance + aToken IN
  IF backing \notin Words THEN "Panic"
  ELSE ValidateReserveState(backing, supply, LiquidReserveBalance, aToken)

------------------------------------------------------------------------------
(* The tokens (external), each within a word. *)

Transfer(n) ==   \* to or from the vault
  /\ idle' \in {idle + n, idle - n} \cap Words
  /\ UNCHANGED <<aToken, supply, paused, blacklisted>>

Position(n) ==   \* supplied, withdrawn, transferred or accrued
  /\ aToken' \in {aToken + n, aToken - n} \cap Words
  /\ UNCHANGED <<idle, supply, paused, blacklisted>>

Issue(n) ==      \* minted or burned
  /\ supply' \in {supply + n, supply - n} \cap Words
  /\ UNCHANGED <<idle, aToken, paused, blacklisted>>

Restrict ==
  /\ paused' \in BOOLEAN /\ blacklisted' \in BOOLEAN
  /\ UNCHANGED <<idle, aToken, supply>>

Next ==
  \/ \E n \in Amounts : Transfer(n) \/ Position(n) \/ Issue(n)
  \/ Restrict

Spec == Init /\ [][Next]_vars

------------------------------------------------------------------------------
\* What every ERC-20 view returns: a word, or a flag.  An assumption about the tokens,
\* built into their moves; the proofs use it.
TypeOK ==
  /\ idle \in Words /\ aToken \in Words /\ supply \in Words
  /\ paused \in BOOLEAN /\ blacklisted \in BOOLEAN

Usable == IF paused \/ blacklisted THEN 0 ELSE idle

\* The vault answers as the rule on exact fractions of the whole usable backing does:
\* rounding, splitting and word size never change a verdict, nor which violation is
\* named, so long as the backing itself fits the word (ReserveConstitutionV0.sol:35).
AnswersExactly ==
  Usable + aToken \in Words =>
    Verdict = ExactVerdict(Usable + aToken, supply, Usable, aToken)

\* "Split the calculation to avoid overflow": no state panics but one whose backing
\* is not a word; below that every refusal is one of the constitution's errors.
PanicsOnlyOnBacking == Verdict = "Panic" <=> Usable + aToken \notin Words

\* While the reserve token is paused or the vault blacklisted nothing is accepted
\* but an empty position without liabilities, whatever the nominal holdings.
NothingFromFrozenReserves ==
  (paused \/ blacklisted) /\ Verdict = "ok" => aToken = 0 /\ supply = 0
=============================================================================
