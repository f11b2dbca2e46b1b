---------------------------- MODULE GatewayFilter ----------------------------
(***************************************************************************)
(* The eligibility pipeline of a payment (newGwFilters).  It loads the     *)
(* merchant's gateway accounts and narrows them step by step, some steps   *)
(* by account and some by gateway, some by reading the accounts again.     *)
(* Which accounts or gateways a step turns down is a choice of the step,   *)
(* unless the lists of gateways that serve one payment method only, or     *)
(* also, decide it: those are read from Redis, each by the filter that     *)
(* uses it, and a list that cannot be read is empty.                       *)
(***************************************************************************)
EXTENDS Integers, FiniteSets

CONSTANTS Gateways,    \* payment gateways
          Accounts,    \* enabled accounts of the merchant
          GatewayOf,   \* the gateway of an account
          Referenced,  \* accounts under the reference id of the order
          Flows,       \* payment flows an account may enforce
          Enforces,    \* the flows an account enforces
          Only,        \* gateways of one payment method only, by method
          Also,        \* gateways that serve a method as well
          Faults       \* Redis may fail

\* "card" stands for a payment with a card ISIN.
Methods == {"card", "nb", "wallet", "gpay", "upi", "finance", "reward", "cash",
            "container"}
Kinds == {"plain", "mandate", "tpv", "emandate"}

ASSUME AccountsAssumption ==
  /\ GatewayOf \in [Accounts -> Gateways]
  /\ Referenced \subseteq Accounts
  /\ Enforces \in [Accounts -> SUBSET Flows]
ASSUME ListsAssumption ==
  /\ Only \in [Methods -> SUBSET Gateways] /\ Also \in [Methods -> SUBSET Gateways]
ASSUME FilterFaultsAssumption == Faults \in BOOLEAN

VARIABLES pc,        \* the filter that runs next
          txn,       \* the payment
          gws,       \* writer.functionalGateways
          mgas,      \* writer.mgas
          dynamic,   \* isMerchantEnabledForDynamicMGASelection
          refused,   \* ghost: accounts a step has turned down
          reloaded,  \* ghost: accounts were loaded again, those turned down too
          misread    \* ghost: a list was not read

working == <<gws, mgas, refused>>
vars == <<pc, txn, working, dynamic, reloaded, misread>>

\* enabledForAllMgas asks for the accounts under every reference id.
Payments == [all : BOOLEAN, kind : Kinds, method : Methods, flows : SUBSET Flows]

GatewaysOf(accounts) == {GatewayOf[a] : a \in accounts}
AccountsOf(gateways) == {a \in Accounts : GatewayOf[a] \in gateways}
Card == txn.method = "card"
Wallet == txn.method \in {"wallet", "gpay"}

Init ==
  /\ pc = "load"
  /\ txn \in Payments
  /\ gws = {} /\ mgas = {} /\ refused = {}
  /\ dynamic = FALSE /\ reloaded = FALSE /\ misread = FALSE

Step(at, next) == pc = at /\ pc' = next /\ UNCHANGED txn

\* Mutant: the gateways are those there were.
SetAccountsOnly(accounts) ==
  /\ mgas' = accounts
  /\ gws' = IF pc = "load" THEN GatewaysOf(accounts) ELSE gws
  /\ refused' = refused \cup (mgas \ accounts)

\* setGwsAndMgas: the gateways become those of the accounts.
SetAccounts(accounts) ==
  /\ mgas' = accounts
  /\ gws' = GatewaysOf(accounts)
  /\ refused' = refused \cup (mgas \ accounts)

\* setGws: the accounts of other gateways are given up.
SetGateways(gateways) ==
  /\ gws' = gateways
  /\ mgas' = mgas \cap AccountsOf(gateways)
  /\ refused' = refused \cup (mgas \ AccountsOf(gateways))

\* A step that looks at each account, or at each gateway.
SomeAccounts == \E accounts \in SUBSET mgas : SetAccounts(accounts)
SomeGateways == \E gateways \in SUBSET gws : SetGateways(gateways)
NoChange == UNCHANGED working

\* findByNameFromRedis(...).unwrap_or_default()
Answers(list) == {list} \cup (IF Faults THEN {{}} ELSE {})

-----------------------------------------------------------------------------
(* getFunctionalGateways, filterFunctionalGateways.                         *)

\* filterMGAsByEnforcedPaymentFlows: per gateway, the accounts that enforce just
\* those flows of the payment that some account of the gateway enforces.
Enforced(accounts) ==
  {a \in accounts :
     LET peers == {b \in accounts : GatewayOf[b] = GatewayOf[a]}
         known == UNION {Enforces[b] : b \in peers}
     IN  Enforces[a] = txn.flows \cap known}

\* validateAndSetDynamicMGAFlag
HasDuplicates(accounts) ==
  \E a, b \in accounts : a # b /\ GatewayOf[a] = GatewayOf[b]

\* currencyFilter, reverse penny drop, isMgaEligible
Capable(accounts) == SUBSET accounts

\* The enforced list of an EMI or recurring payment, the reference id, the
\* conversion, the payment flows and at last currency and capability.
Load ==
  /\ Step("load", "functional")
  /\ \E listed \in SUBSET Gateways :
       LET loaded == {a \in AccountsOf(listed) : txn.all \/ a \in Referenced}
       IN  /\ dynamic' = (~txn.all /\ HasDuplicates(loaded))
           /\ \E convertible \in SUBSET loaded :
                \E accepting \in Capable(IF txn.all THEN convertible
                                         ELSE Enforced(convertible)) :
                  /\ mgas' = accepting
                  /\ gws' = GatewaysOf(accepting)
                  /\ refused' = Accounts \ accepting
  /\ UNCHANGED <<reloaded, misread>>

\* Accounts that take a card without CVV, a repeated token or a TA file.
Repeatable == IF Card THEN SUBSET mgas ELSE {mgas}

\* Then by containers; the pipeline ends if no gateway is left.
FilterFunctional ==
  /\ pc = "functional" /\ UNCHANGED txn
  /\ \E kept \in Repeatable, list \in Answers(Only["container"]) :
       /\ SetAccounts(IF txn.method = "container" THEN kept \cap AccountsOf(list)
                      ELSE kept \ AccountsOf(list))
       /\ misread' = (misread \/ list # Only["container"])
  /\ pc' = IF gws' = {} THEN "done" ELSE "brand"
  /\ UNCHANGED <<dynamic, reloaded>>

-----------------------------------------------------------------------------
(* What the payment is.                                                     *)

Rest == UNCHANGED <<dynamic, reloaded, misread>>

Brand == Step("brand", "auth") /\ SomeGateways /\ Rest

\* By the authentication type and then by the BIN.
AuthType ==
  /\ Step("auth", "validation")
  /\ \/ Card /\ SomeAccounts
     \/ NoChange
  /\ Rest

\* filterGatewaysCardInfo: the entries that a merchant supports for the BIN of a
\* card mandate may fail to load, which ends the pipeline.
ByCardInfo(at, next) == Step(at, next) \/ Step(at, "error")

\* is_emandate_supported_payment_method
TakesEmandates == txn.method \in {"card", "nb", "wallet", "gpay", "upi"}

\* A card mandate is checked by BIN; account validation reads the accounts of the
\* merchant again, an e-mandate those that are left; other payments lose gateways
\* that take only validated accounts.
CardMandate ==
  /\ txn.kind = "mandate" /\ Card
  /\ ByCardInfo("validation", "emi")
  /\ SomeGateways
  /\ Rest

Validates == txn.kind = "tpv" \/ (txn.kind = "emandate" /\ TakesEmandates)

ValidateAccounts ==
  /\ Step("validation", "emi")
  /\ Validates
  /\ IF txn.flows \cap {"otm", "pix"} # {} THEN NoChange /\ UNCHANGED reloaded
     ELSE \E valid \in SUBSET ((IF txn.kind = "tpv" THEN Accounts ELSE mgas)
                                  \cap Referenced) :
            /\ SetAccounts(valid)
            /\ reloaded' = (reloaded \/ txn.kind = "tpv")
  /\ UNCHANGED <<dynamic, misread>>

DropValidatedOnly ==
  /\ Step("validation", "emi")
  /\ ~(txn.kind = "mandate" /\ Card) /\ ~Validates
  /\ SomeGateways
  /\ Rest

ValidationType == CardMandate \/ ValidateAccounts \/ DropValidatedOnly

Emi == Step("emi", "offers") /\ SomeGateways /\ Rest

TxnOfferDetails == Step("offers", "method") /\ SomeGateways /\ Rest

\* Accounts asked whether they accept the payment method.
Candidates == (IF txn.all THEN Accounts ELSE mgas) \cap AccountsOf(gws)

\* A card whose brand is not known passes.
PaymentMethod ==
  /\ Step("method", "token")
  /\ IF gws = {} \/ txn.kind \in {"tpv", "emandate"}
     THEN NoChange /\ UNCHANGED reloaded
     ELSE \/ Card /\ NoChange /\ UNCHANGED reloaded
          \/ \E accepting \in SUBSET Candidates :
               SetAccounts(accepting) /\ reloaded' = (reloaded \/ txn.all)
  /\ UNCHANGED <<dynamic, misread>>

-----------------------------------------------------------------------------
(* Which gateways serve the method.                                         *)

TokenProvider == Step("token", "wallet") /\ SomeGateways /\ Rest

\* A filter by the lists of method x, of which `mine` says that it is the
\* payment's: others lose the gateways that serve x only.
ByLists(x, mine) ==
  \E only \in Answers(Only[x]), also \in Answers(Also[x]) :
    /\ SetGateways(IF mine THEN gws \cap (only \cup also) ELSE gws \ only)
    /\ misread' = (misread \/ only # Only[x] \/ also # Also[x])

\* Google Pay is a wallet that gateways for UPI only serve as well.
WalletFilter ==
  /\ Step("wallet", "nb")
  /\ \E upi \in Answers(Only["upi"]), only \in Answers(Only["wallet"]),
        also \in Answers(Also["wallet"]) :
       /\ SetGateways(
            IF Wallet THEN gws \cap (only \cup also
                                       \cup (IF txn.method = "gpay" THEN upi ELSE {}))
            ELSE gws \ only)
       /\ misread' = (misread \/ upi # Only["upi"] \/ only # Only["wallet"]
                         \/ also # Also["wallet"])
  /\ UNCHANGED <<dynamic, reloaded>>

\* Net banking and cash are not narrowed to the gateways that serve them.
NotOnly(x) ==
  IF txn.method = x THEN NoChange /\ UNCHANGED misread
  ELSE \E only \in Answers(Only[x]) :
         SetGateways(gws \ only) /\ misread' = (misread \/ only # Only[x])

NbOnly == Step("nb", "finance") /\ NotOnly("nb") /\ UNCHANGED <<dynamic, reloaded>>

ConsumerFinance ==
  /\ Step("finance", "upi")
  /\ ByLists("finance", txn.method = "finance")
  /\ UNCHANGED <<dynamic, reloaded>>

\* Mutant: a gateway for UPI only serves a wallet.
UpiOfWallets ==
  /\ Step("upi", "txntype")
  /\ IF Wallet THEN NoChange /\ UNCHANGED misread ELSE ByLists("upi", txn.method = "upi")
  /\ UNCHANGED <<dynamic, reloaded>>

Upi ==
  /\ Step("upi", "txntype")
  /\ IF txn.method = "gpay" THEN NoChange /\ UNCHANGED misread
     ELSE ByLists("upi", txn.method = "upi")
  /\ UNCHANGED <<dynamic, reloaded>>

\* Accounts are asked for the UPI flow of the type, gateways for the type.
TxnType == Step("txntype", "detail") /\ SomeAccounts /\ Rest

TxnDetailType == Step("detail", "reward") /\ SomeGateways /\ Rest

Reward ==
  /\ Step("reward", "cash")
  /\ ByLists("reward", txn.method = "reward")
  /\ UNCHANGED <<dynamic, reloaded>>

Cash == Step("cash", "split") /\ NotOnly("cash") /\ UNCHANGED <<dynamic, reloaded>>

-----------------------------------------------------------------------------
(* Settlement, flows and the choice of one account.                         *)

\* Mutant: the accounts that were loaded again are taken as they are.
SplitAgain(vendors) == vendors

\* Of the accounts that are left, those that pay all the given vendors.
Split(vendors) == mgas \cap vendors

\* The accounts are loaded again to find their vendors.  Without vendors, the
\* accounts that are only for split settlement go.
SplitSettlement ==
  /\ Step("split", "required")
  /\ \/ \E vendors \in SUBSET (Referenced \cap AccountsOf(gws)) : SetAccounts(Split(vendors))
     \/ SomeAccounts
     \/ NoChange
  /\ Rest

MerchantRequiredFlow == Step("required", "otm") /\ SomeGateways /\ Rest

\* One-time mandates, then the Pix flows: accounts with the flow at the bank.
OTMFlow ==
  /\ Step("otm", "pix")
  /\ IF "otm" \in txn.flows THEN SomeAccounts ELSE NoChange
  /\ Rest

PixFlows ==
  /\ Step("pix", "integrity")
  /\ IF "pix" \in txn.flows THEN SomeAccounts ELSE NoChange
  /\ Rest

\* Mutant: a gateway with several accounts stays.
AtLeastOne(accounts) == {g \in gws : \E a \in accounts : GatewayOf[a] = g}

\* validate_only_one_mga
ExactlyOne(accounts) ==
  {g \in gws : \E a \in accounts :
     GatewayOf[a] = g /\ \A b \in accounts : GatewayOf[b] = g => b = a}

\* After the accounts of another EMI tenure are gone.
MGASelectionIntegrity ==
  /\ Step("integrity", "done")
  /\ IF ~dynamic THEN NoChange
     ELSE \E tenure \in SUBSET mgas :
            SetAccounts(tenure \cap AccountsOf(ExactlyOne(tenure)))
  /\ Rest

-----------------------------------------------------------------------------
\* newGwFilters: nothing runs after the end, or an error.
Next ==
  \/ Load \/ FilterFunctional
  \/ Brand \/ AuthType \/ ValidationType \/ Emi \/ TxnOfferDetails \/ PaymentMethod
  \/ TokenProvider \/ WalletFilter \/ NbOnly \/ ConsumerFinance \/ Upi
  \/ TxnType \/ TxnDetailType \/ Reward \/ Cash
  \/ SplitSettlement \/ MerchantRequiredFlow \/ OTMFlow \/ PixFlows
  \/ MGASelectionIntegrity

Spec == Init /\ [][Next]_vars

-----------------------------------------------------------------------------
(* Properties.                                                              *)

Steps == {"load", "functional", "brand", "auth", "validation", "emi", "offers",
          "method", "token", "wallet", "nb", "finance", "upi", "txntype", "detail",
          "reward", "cash", "split", "required", "otm", "pix", "integrity", "done",
          "error"}

TypeOK ==
  /\ pc \in Steps
  /\ txn \in Payments
  /\ gws \subseteq Gateways /\ mgas \subseteq Accounts /\ refused \subseteq Accounts
  /\ dynamic \in BOOLEAN /\ reloaded \in BOOLEAN /\ misread \in BOOLEAN

\* The two lists of the writer, which setGws, setGwsAndMgas and set_mgas change
\* apart, agree: a gateway is functional just when one of its accounts is left.
GatewaysAreThoseOfAccounts == gws = GatewaysOf(mgas)

\* What one filter turned down no later filter brings back, unless the accounts
\* were loaded again without regard to it: for payments over all reference ids by
\* filterGatewaysForPaymentMethod, and for account validation.
RefusedStaysRefused == reloaded \/ mgas \cap refused = {}

\* The account of the gateway that is decided on is determined at the end, unless
\* all reference ids were asked for, or the accounts were loaded again after none
\* seemed to be double.
OneAccountEach ==
  pc = "done" /\ ~txn.all /\ (dynamic \/ ~reloaded)
    => \A a, b \in mgas : GatewayOf[a] = GatewayOf[b] => a = b

\* Accounts are left only if the flows they enforce are flows of the payment
\* (filterMGAsByEnforcedPaymentFlows), unless they were loaded again.
FlowsAreThePayments ==
  txn.all \/ reloaded \/ \A a \in mgas : Enforces[a] \subseteq txn.flows

\* At the end no gateway is left that serves other methods only, and for a method
\* with gateways of its own just those, if the lists could be read.  Lists of
\* containers are used before accounts are validated, and are not in this.
Serves(g) ==
  /\ \A x \in {"wallet", "nb", "finance", "upi", "reward", "cash"} :
       g \in Only[x] =>
         \/ txn.method = x
         \/ txn.method = "gpay" /\ x \in {"wallet", "upi"}
  /\ txn.method \in {"wallet", "finance", "upi", "reward"} =>
       g \in Only[txn.method] \cup Also[txn.method]

MethodIsServed == pc = "done" /\ ~misread => \A g \in gws : Serves(g)
=============================================================================
