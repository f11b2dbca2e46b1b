---------------------------- MODULE RoutingProofs ----------------------------
(***************************************************************************)
(* Proofs about the eligibility pipeline, for any gateways, accounts and   *)
(* lists, and about the routing rules, for any algorithms, requests and    *)
(* evaluations.  Almost every filter narrows the two lists together; what  *)
(* holds of the accounts that are left is then kept, and what a filter by  *)
(* lists establishes holds from its step on.                               *)
(***************************************************************************)
EXTENDS Routing, TLAPS

USE AccountsAssumption, ListsAssumption, FilterFaultsAssumption

-----------------------------------------------------------------------------
(* The invariant.                                                          *)

Fresh == pc = "load" => mgas = {} /\ ~reloaded

\* Without the flag no gateway had two accounts to begin with.
NoneDouble ==
  ~txn.all /\ ~dynamic /\ ~reloaded /\ pc # "load" => ~HasDuplicates(mgas)

ChosenAtEnd == pc = "done" /\ dynamic => ~HasDuplicates(mgas)

AfterCash == {"split", "required", "otm", "pix", "integrity", "done"}
AfterReward == AfterCash \cup {"cash"}
AfterUpi == AfterReward \cup {"reward", "detail", "txntype"}
AfterFinance == AfterUpi \cup {"upi"}
AfterNb == AfterFinance \cup {"finance"}
AfterWallet == AfterNb \cup {"nb"}

\* What the filter by the lists of x leaves.
Left(x, g) ==
  IF txn.method = x THEN g \in Only[x] \cup Also[x] ELSE g \notin Only[x]
LeftByWallet(g) ==
  IF Wallet THEN g \in Only["wallet"] \cup Also["wallet"]
                         \cup (IF txn.method = "gpay" THEN Only["upi"] ELSE {})
  ELSE g \notin Only["wallet"]

Sorted ==
  misread \/ \A g \in gws :
    /\ pc \in AfterWallet => LeftByWallet(g)
    /\ pc \in AfterNb => (txn.method = "nb" \/ g \notin Only["nb"])
    /\ pc \in AfterFinance => Left("finance", g)
    /\ pc \in AfterUpi => (txn.method = "gpay" \/ Left("upi", g))
    /\ pc \in AfterReward => Left("reward", g)
    /\ pc \in AfterCash => (txn.method = "cash" \/ g \notin Only["cash"])

IInv ==
  /\ TypeOK /\ Fresh
  /\ GatewaysAreThoseOfAccounts /\ RefusedStaysRefused /\ FlowsAreThePayments
  /\ NoneDouble /\ ChosenAtEnd
  /\ Sorted

-----------------------------------------------------------------------------
(* Narrowing.                                                              *)

\* A step that only takes accounts away, and gateways with their last account.
Narrows ==
  /\ mgas' \subseteq mgas /\ gws' \subseteq gws
  /\ gws' = GatewaysOf(mgas')
  /\ refused' = refused \cup (mgas \ mgas')

LEMMA AccountsNarrow ==
  ASSUME IInv, NEW accounts \in SUBSET mgas, SetAccounts(accounts)
  PROVE  Narrows
BY DEF IInv, GatewaysAreThoseOfAccounts, SetAccounts, Narrows, GatewaysOf

LEMMA GatewaysNarrow ==
  ASSUME IInv, NEW gateways \in SUBSET gws, SetGateways(gateways)
  PROVE  Narrows /\ gws' = gateways
<1>1. mgas' = mgas \cap AccountsOf(gateways) /\ gws' = gateways
  BY DEF SetGateways
<1>2. GatewaysOf(mgas') = gateways
  BY <1>1 DEF IInv, TypeOK, GatewaysAreThoseOfAccounts, GatewaysOf, AccountsOf
<1>3. refused' = refused \cup (mgas \ mgas')
  BY <1>1 DEF IInv, TypeOK, SetGateways, AccountsOf
<1> QED
  BY <1>1, <1>2, <1>3 DEF Narrows

LEMMA NothingNarrows ==
  ASSUME IInv, NoChange
  PROVE  Narrows
BY DEF IInv, GatewaysAreThoseOfAccounts, NoChange, working, Narrows

LEMMA SomeNarrow ==
  ASSUME IInv, SomeAccounts \/ SomeGateways
  PROVE  Narrows
<1>1. CASE SomeAccounts
  BY <1>1, AccountsNarrow DEF SomeAccounts
<1>2. CASE SomeGateways
  BY <1>2, GatewaysNarrow DEF SomeGateways
<1> QED
  BY <1>1, <1>2

\* Such a step, with what it leaves alone.
Plain ==
  /\ Narrows
  /\ pc # "load" /\ pc' \in Steps \ {"load"}
  /\ UNCHANGED <<txn, dynamic, reloaded>>
  /\ misread' \in BOOLEAN /\ (misread => misread')

LEMMA PlainKeeps ==
  ASSUME IInv, Plain
  PROVE  /\ TypeOK' /\ Fresh' /\ GatewaysAreThoseOfAccounts' /\ RefusedStaysRefused'
         /\ FlowsAreThePayments' /\ NoneDouble'
         /\ ~HasDuplicates(mgas) => ~HasDuplicates(mgas')
<1> USE DEF Plain, Narrows
<1>1. TypeOK'
  BY DEF IInv, TypeOK, Payments
<1>2. Fresh' /\ GatewaysAreThoseOfAccounts'
  BY DEF Fresh, GatewaysAreThoseOfAccounts
<1>3. RefusedStaysRefused' /\ FlowsAreThePayments'
  BY DEF IInv, RefusedStaysRefused, FlowsAreThePayments
<1>4. ~HasDuplicates(mgas) => ~HasDuplicates(mgas')
  BY DEF HasDuplicates
<1>5. NoneDouble'
  BY <1>4 DEF IInv, NoneDouble
<1> QED
  BY <1>1, <1>2, <1>3, <1>4, <1>5

\* Steps that are not one by lists: the next step is after the same of those.
SameSide ==
  /\ pc' \in AfterWallet <=> pc \in AfterWallet
  /\ pc' \in AfterNb <=> pc \in AfterNb
  /\ pc' \in AfterFinance <=> pc \in AfterFinance
  /\ pc' \in AfterUpi <=> pc \in AfterUpi
  /\ pc' \in AfterReward <=> pc \in AfterReward
  /\ pc' \in AfterCash <=> pc \in AfterCash

LEMMA SortedStays ==
  ASSUME IInv, Plain, SameSide
  PROVE  Sorted'
BY DEF IInv, Sorted, Plain, Narrows, SameSide, LeftByWallet, Left, Wallet

-----------------------------------------------------------------------------
(* The steps.                                                              *)

LEMMA LoadStep ==
  ASSUME IInv, Load
  PROVE  IInv'
<1>1. PICK listed \in SUBSET Gateways :
         LET loaded == {a \in AccountsOf(listed) : txn.all \/ a \in Referenced}
         IN  /\ dynamic' = (~txn.all /\ HasDuplicates(loaded))
             /\ \E convertible \in SUBSET loaded :
                  \E accepting \in Capable(IF txn.all THEN convertible
                                           ELSE Enforced(convertible)) :
                    /\ mgas' = accepting
                    /\ gws' = GatewaysOf(accepting)
                    /\ refused' = Accounts \ accepting
  BY DEF Load
<1> DEFINE loaded == {a \in AccountsOf(listed) : txn.all \/ a \in Referenced}
<1>2. PICK convertible \in SUBSET loaded :
         \E accepting \in Capable(IF txn.all THEN convertible ELSE Enforced(convertible)) :
           /\ mgas' = accepting
           /\ gws' = GatewaysOf(accepting)
           /\ refused' = Accounts \ accepting
  BY <1>1
<1>3. /\ mgas' \subseteq (IF txn.all THEN convertible ELSE Enforced(convertible))
      /\ gws' = GatewaysOf(mgas') /\ refused' = Accounts \ mgas'
  BY <1>2 DEF Capable
<1>4. pc = "load" /\ pc' = "functional" /\ UNCHANGED <<txn, reloaded, misread>>
  BY DEF Load, Step
<1>5. dynamic' = (~txn.all /\ HasDuplicates(loaded))
  BY <1>1
<1>6. mgas' \subseteq loaded /\ loaded \subseteq Accounts
  BY <1>3 DEF Enforced, AccountsOf
<1>7. TypeOK'
  BY <1>3, <1>4, <1>5, <1>6 DEF IInv, TypeOK, GatewaysOf, Steps
<1>8. Fresh' /\ GatewaysAreThoseOfAccounts' /\ RefusedStaysRefused'
  BY <1>3, <1>4 DEF Fresh, GatewaysAreThoseOfAccounts, RefusedStaysRefused
<1>9. ASSUME ~txn.all, NEW a \in mgas' PROVE Enforces[a] \subseteq txn.flows
  BY <1>3, <1>9 DEF Enforced
<1>10. FlowsAreThePayments'
  BY <1>4, <1>9 DEF FlowsAreThePayments
<1>11. NoneDouble'
  BY <1>4, <1>5, <1>6 DEF NoneDouble, HasDuplicates
<1>12. ChosenAtEnd' /\ Sorted'
  BY <1>4 DEF ChosenAtEnd, Sorted, AfterWallet, AfterNb, AfterFinance, AfterUpi,
              AfterReward, AfterCash
<1> QED
  BY <1>7, <1>8, <1>10, <1>11, <1>12 DEF IInv

LEMMA FilterFunctionalStep ==
  ASSUME IInv, FilterFunctional
  PROVE  IInv'
<1>1. PICK kept \in Repeatable, list \in Answers(Only["container"]) :
        /\ SetAccounts(IF txn.method = "container" THEN kept \cap AccountsOf(list)
                       ELSE kept \ AccountsOf(list))
        /\ misread' = (misread \/ list # Only["container"])
  BY DEF FilterFunctional
<1>2. kept \in SUBSET mgas
  BY DEF Repeatable
<1>3. Narrows
  BY <1>1, <1>2, AccountsNarrow
<1>4. /\ pc = "functional" /\ UNCHANGED <<txn, dynamic, reloaded>>
      /\ pc' = (IF gws' = {} THEN "done" ELSE "brand")
  BY DEF FilterFunctional
<1>5. Plain
  BY <1>1, <1>3, <1>4 DEF Plain, Steps, IInv, TypeOK
<1>6. ChosenAtEnd'
  <2>1. gws' = {} => mgas' = {}
    BY <1>3 DEF Narrows, GatewaysOf
  <2> QED
    BY <2>1, <1>4 DEF ChosenAtEnd, HasDuplicates
<1>7. Sorted'
  BY <1>4 DEF Sorted, AfterWallet, AfterNb, AfterFinance, AfterUpi, AfterReward, AfterCash
<1> QED
  BY <1>5, <1>6, <1>7, PlainKeeps DEF IInv

\* Steps that narrow and end neither a filter by lists nor the pipeline.
Ordinary ==
  \/ Brand \/ AuthType \/ CardMandate \/ DropValidatedOnly \/ Emi \/ TxnOfferDetails
  \/ TokenProvider \/ TxnType \/ TxnDetailType
  \/ SplitSettlement \/ MerchantRequiredFlow \/ OTMFlow \/ PixFlows

LEMMA OrdinaryNarrows ==
  ASSUME IInv, Ordinary
  PROVE  Narrows
<1>1. ASSUME Brand \/ CardMandate \/ DropValidatedOnly \/ Emi \/ TxnOfferDetails
             \/ TokenProvider \/ TxnDetailType \/ MerchantRequiredFlow
      PROVE  Narrows
  BY <1>1, SomeNarrow DEF Brand, CardMandate, DropValidatedOnly, Emi, TxnOfferDetails,
       TokenProvider, TxnDetailType, MerchantRequiredFlow
<1>2. ASSUME AuthType \/ TxnType \/ OTMFlow \/ PixFlows PROVE Narrows
  BY <1>2, SomeNarrow, NothingNarrows DEF AuthType, TxnType, OTMFlow, PixFlows
<1>3. ASSUME SplitSettlement PROVE Narrows
  <2>1. CASE \E vendors \in SUBSET (Referenced \cap AccountsOf(gws)) :
               SetAccounts(Split(vendors))
    BY <2>1, AccountsNarrow DEF Split
  <2> QED
    BY <1>3, <2>1, SomeNarrow, NothingNarrows DEF SplitSettlement
<1> QED
  BY <1>1, <1>2, <1>3 DEF Ordinary

LEMMA OrdinaryStep ==
  ASSUME IInv, Ordinary
  PROVE  IInv'
<1> USE DEF Step
<1>1. UNCHANGED <<txn, dynamic, reloaded, misread>>
  BY DEF Ordinary, Brand, AuthType, CardMandate, ByCardInfo, DropValidatedOnly, Emi,
         TxnOfferDetails, TokenProvider, TxnType, TxnDetailType, SplitSettlement,
         MerchantRequiredFlow, OTMFlow, PixFlows, Rest
<1>2. <<pc, pc'>> \in {<<"brand", "auth">>, <<"auth", "validation">>,
        <<"validation", "emi">>, <<"validation", "error">>, <<"emi", "offers">>,
        <<"offers", "method">>, <<"token", "wallet">>, <<"txntype", "detail">>,
        <<"detail", "reward">>, <<"split", "required">>, <<"required", "otm">>,
        <<"otm", "pix">>, <<"pix", "integrity">>}
  BY DEF Ordinary, Brand, AuthType, CardMandate, ByCardInfo, DropValidatedOnly, Emi,
         TxnOfferDetails, TokenProvider, TxnType, TxnDetailType, SplitSettlement,
         MerchantRequiredFlow, OTMFlow, PixFlows
<1>3. Plain
  BY <1>1, <1>2, OrdinaryNarrows DEF Plain, Steps, IInv, TypeOK
<1>4. SameSide
  BY <1>2 DEF SameSide, AfterWallet, AfterNb, AfterFinance, AfterUpi, AfterReward, AfterCash
<1>5. ChosenAtEnd'
  BY <1>2 DEF ChosenAtEnd
<1> QED
  BY <1>3, <1>4, <1>5, PlainKeeps, SortedStays DEF IInv

\* Accounts that are loaded again come before the filters by lists.
LEMMA ReloadStep ==
  ASSUME IInv, ValidateAccounts \/ PaymentMethod
  PROVE  IInv'
<1> USE DEF Step
<1>1. /\ UNCHANGED <<txn, dynamic, misread>>
      /\ <<pc, pc'>> \in {<<"validation", "emi">>, <<"method", "token">>}
  BY DEF ValidateAccounts, PaymentMethod
<1>2. SameSide
  BY <1>1 DEF SameSide, AfterWallet, AfterNb, AfterFinance, AfterUpi, AfterReward, AfterCash
<1>3. CASE Narrows /\ UNCHANGED reloaded
  <2>1. Plain
    BY <1>1, <1>3 DEF Plain, Steps, IInv, TypeOK
  <2> QED
    BY <2>1, <1>1, <1>2, PlainKeeps, SortedStays DEF IInv, ChosenAtEnd
<1>4. CASE \E accounts \in SUBSET Accounts : SetAccounts(accounts) /\ reloaded' = TRUE
  <2>1. PICK accounts \in SUBSET Accounts : SetAccounts(accounts) /\ reloaded' = TRUE
    BY <1>4
  <2>2. TypeOK'
    BY <1>1, <2>1 DEF IInv, TypeOK, SetAccounts, GatewaysOf, Steps, Payments
  <2>3. GatewaysAreThoseOfAccounts' /\ RefusedStaysRefused' /\ FlowsAreThePayments'
    BY <2>1 DEF GatewaysAreThoseOfAccounts, RefusedStaysRefused, FlowsAreThePayments,
                SetAccounts
  <2>4. Fresh' /\ NoneDouble' /\ ChosenAtEnd'
    BY <1>1, <2>1 DEF Fresh, NoneDouble, ChosenAtEnd
  <2>5. Sorted'
    BY <1>1 DEF Sorted, AfterWallet, AfterNb, AfterFinance, AfterUpi, AfterReward, AfterCash
  <2> QED
    BY <2>2, <2>3, <2>4, <2>5 DEF IInv
<1>5. ASSUME ValidateAccounts
      PROVE  (Narrows /\ UNCHANGED reloaded)
               \/ \E accounts \in SUBSET Accounts : SetAccounts(accounts) /\ reloaded' = TRUE
  <2>1. CASE NoChange /\ UNCHANGED reloaded
    BY <2>1, NothingNarrows
  <2>2. CASE \E valid \in SUBSET ((IF txn.kind = "tpv" THEN Accounts ELSE mgas)
                                      \cap Referenced) :
               SetAccounts(valid) /\ reloaded' = (reloaded \/ txn.kind = "tpv")
    BY <2>2, AccountsNarrow DEF IInv, TypeOK
  <2> QED
    BY <1>5, <2>1, <2>2 DEF ValidateAccounts
<1>6. ASSUME PaymentMethod
      PROVE  (Narrows /\ UNCHANGED reloaded)
               \/ \E accounts \in SUBSET Accounts : SetAccounts(accounts) /\ reloaded' = TRUE
  <2>1. CASE NoChange /\ UNCHANGED reloaded
    BY <2>1, NothingNarrows
  <2>2. CASE \E accepting \in SUBSET Candidates :
               SetAccounts(accepting) /\ reloaded' = (reloaded \/ txn.all)
    BY <2>2, AccountsNarrow DEF IInv, TypeOK, Candidates, Payments
  <2> QED
    BY <1>6, <2>1, <2>2 DEF PaymentMethod
<1> QED
  BY <1>3, <1>4, <1>5, <1>6

\* The filters by lists: what each leaves is what Sorted says from its step on.
ByAnyLists ==
  WalletFilter \/ NbOnly \/ ConsumerFinance \/ Upi \/ Reward \/ Cash

LEMMA ByListsNarrows ==
  ASSUME IInv, NEW x \in Methods, NEW mine \in BOOLEAN, ByLists(x, mine)
  PROVE  /\ Narrows /\ misread' \in BOOLEAN /\ (misread => misread')
         /\ misread' \/ \A g \in gws' : IF mine THEN g \in Only[x] \cup Also[x]
                                           ELSE g \notin Only[x]
<1>1. PICK only \in Answers(Only[x]), also \in Answers(Also[x]) :
        /\ SetGateways(IF mine THEN gws \cap (only \cup also) ELSE gws \ only)
        /\ misread' = (misread \/ only # Only[x] \/ also # Also[x])
  BY DEF ByLists
<1> DEFINE kept == IF mine THEN gws \cap (only \cup also) ELSE gws \ only
<1>2. kept \in SUBSET gws
  OBVIOUS
<1>3. Narrows /\ gws' = kept
  BY <1>1, <1>2, GatewaysNarrow
<1> QED
  BY <1>1, <1>3 DEF IInv, TypeOK

LEMMA NotOnlyNarrows ==
  ASSUME IInv, NEW x \in Methods, NotOnly(x)
  PROVE  /\ Narrows /\ misread' \in BOOLEAN /\ (misread => misread')
         /\ misread' \/ txn.method = x \/ \A g \in gws' : g \notin Only[x]
<1>1. CASE txn.method = x
  BY <1>1, NothingNarrows DEF NotOnly, IInv, TypeOK
<1>2. CASE txn.method # x
  <2>1. PICK only \in Answers(Only[x]) :
          SetGateways(gws \ only) /\ misread' = (misread \/ only # Only[x])
    BY <1>2 DEF NotOnly
  <2>2. Narrows /\ gws' = gws \ only
    BY <2>1, GatewaysNarrow
  <2> QED
    BY <2>1, <2>2 DEF IInv, TypeOK
<1> QED
  BY <1>1, <1>2

LEMMA WalletNarrows ==
  ASSUME IInv, WalletFilter
  PROVE  /\ Narrows /\ misread' \in BOOLEAN /\ (misread => misread')
         /\ misread' \/ \A g \in gws' : LeftByWallet(g)
<1>1. PICK upi \in Answers(Only["upi"]), only \in Answers(Only["wallet"]),
           also \in Answers(Also["wallet"]) :
        /\ SetGateways(
             IF Wallet THEN gws \cap (only \cup also
                                        \cup (IF txn.method = "gpay" THEN upi ELSE {}))
             ELSE gws \ only)
        /\ misread' = (misread \/ upi # Only["upi"] \/ only # Only["wallet"]
                          \/ also # Also["wallet"])
  BY DEF WalletFilter
<1> DEFINE kept == IF Wallet THEN gws \cap (only \cup also
                                    \cup (IF txn.method = "gpay" THEN upi ELSE {}))
                   ELSE gws \ only
<1>2. Narrows /\ gws' = kept
  BY <1>1, GatewaysNarrow
<1> QED
  BY <1>1, <1>2 DEF LeftByWallet, IInv, TypeOK

LEMMA ByAnyListsStep ==
  ASSUME IInv, ByAnyLists
  PROVE  IInv'
<1> USE DEF Step
<1>1. /\ UNCHANGED <<txn, dynamic, reloaded>>
      /\ <<pc, pc'>> \in {<<"wallet", "nb">>, <<"nb", "finance">>, <<"finance", "upi">>,
           <<"upi", "txntype">>, <<"reward", "cash">>, <<"cash", "split">>}
  BY DEF ByAnyLists, WalletFilter, NbOnly, ConsumerFinance, Upi, Reward, Cash
<1>2. ASSUME WalletFilter
      PROVE  pc = "wallet" /\ pc' = "nb"
  BY <1>2 DEF WalletFilter
<1>3. ASSUME NbOnly
      PROVE  /\ pc = "nb" /\ pc' = "finance"
             /\ Narrows /\ misread' \in BOOLEAN /\ (misread => misread')
             /\ misread' \/ txn.method = "nb" \/ \A g \in gws' : g \notin Only["nb"]
  BY <1>3, NotOnlyNarrows DEF NbOnly, Methods
<1>4. ASSUME ConsumerFinance
      PROVE  /\ pc = "finance" /\ pc' = "upi"
             /\ Narrows /\ misread' \in BOOLEAN /\ (misread => misread')
             /\ misread' \/ \A g \in gws' : Left("finance", g)
  BY <1>4, ByListsNarrows DEF ConsumerFinance, Methods, Left
<1>5. ASSUME Upi
      PROVE  /\ pc = "upi" /\ pc' = "txntype"
             /\ Narrows /\ misread' \in BOOLEAN /\ (misread => misread')
             /\ misread' \/ txn.method = "gpay" \/ \A g \in gws' : Left("upi", g)
  <2>1. CASE txn.method = "gpay"
    BY <1>5, <2>1, NothingNarrows DEF Upi, IInv, TypeOK
  <2>2. CASE txn.method # "gpay"
    BY <1>5, <2>2, ByListsNarrows DEF Upi, Methods, Left
  <2> QED
    BY <2>1, <2>2
<1>6. ASSUME Reward
      PROVE  /\ pc = "reward" /\ pc' = "cash"
             /\ Narrows /\ misread' \in BOOLEAN /\ (misread => misread')
             /\ misread' \/ \A g \in gws' : Left("reward", g)
  BY <1>6, ByListsNarrows DEF Reward, Methods, Left
<1>7. ASSUME Cash
      PROVE  /\ pc = "cash" /\ pc' = "split"
             /\ Narrows /\ misread' \in BOOLEAN /\ (misread => misread')
             /\ misread' \/ txn.method = "cash" \/ \A g \in gws' : g \notin Only["cash"]
  BY <1>7, NotOnlyNarrows DEF Cash, Methods
<1>8. Plain
  BY <1>1, <1>3, <1>4, <1>5, <1>6, <1>7, WalletNarrows DEF ByAnyLists, Plain, Steps
<1>9. Sorted'
  <2>1. ASSUME ~misread', NEW g \in gws'
        PROVE  /\ pc' \in AfterWallet => LeftByWallet(g)
               /\ pc' \in AfterNb => (txn.method = "nb" \/ g \notin Only["nb"])
               /\ pc' \in AfterFinance => Left("finance", g)
               /\ pc' \in AfterUpi => (txn.method = "gpay" \/ Left("upi", g))
               /\ pc' \in AfterReward => Left("reward", g)
               /\ pc' \in AfterCash => (txn.method = "cash" \/ g \notin Only["cash"])
    <3>1. g \in gws /\ ~misread
      BY <1>8, <2>1 DEF Plain, Narrows
    <3>2. /\ pc \in AfterWallet => LeftByWallet(g)
          /\ pc \in AfterNb => (txn.method = "nb" \/ g \notin Only["nb"])
          /\ pc \in AfterFinance => Left("finance", g)
          /\ pc \in AfterUpi => (txn.method = "gpay" \/ Left("upi", g))
          /\ pc \in AfterReward => Left("reward", g)
          /\ pc \in AfterCash => (txn.method = "cash" \/ g \notin Only["cash"])
      BY <3>1 DEF IInv, Sorted
    <3> USE DEF AfterWallet, AfterNb, AfterFinance, AfterUpi, AfterReward, AfterCash
    <3>3. CASE WalletFilter
      BY <2>1, <3>3, <1>2, WalletNarrows
    <3>4. CASE NbOnly
      BY <2>1, <3>2, <3>4, <1>3
    <3>5. CASE ConsumerFinance
      BY <2>1, <3>2, <3>5, <1>4
    <3>6. CASE Upi
      BY <2>1, <3>2, <3>6, <1>5
    <3>7. CASE Reward
      BY <2>1, <3>2, <3>7, <1>6
    <3>8. CASE Cash
      BY <2>1, <3>2, <3>8, <1>7
    <3> QED
      BY <3>3, <3>4, <3>5, <3>6, <3>7, <3>8 DEF ByAnyLists
  <2>2. txn' = txn
    BY <1>1
  <2> QED
    BY <2>1, <2>2 DEF Sorted, LeftByWallet, Left, Wallet
<1>10. ChosenAtEnd'
  BY <1>1 DEF ChosenAtEnd
<1> QED
  BY <1>8, <1>9, <1>10, PlainKeeps DEF IInv

LEMMA IntegrityStep ==
  ASSUME IInv, MGASelectionIntegrity
  PROVE  IInv'
<1>1. /\ UNCHANGED <<txn, dynamic, reloaded, misread>> /\ pc = "integrity" /\ pc' = "done"
  BY DEF MGASelectionIntegrity, Step, Rest
<1>2. Narrows /\ (dynamic => ~HasDuplicates(mgas'))
  <2>1. CASE ~dynamic
    BY <2>1, NothingNarrows DEF MGASelectionIntegrity
  <2>2. CASE dynamic
    <3>1. PICK tenure \in SUBSET mgas :
            SetAccounts(tenure \cap AccountsOf(ExactlyOne(tenure)))
      BY <2>2 DEF MGASelectionIntegrity
    <3>2. Narrows
      BY <3>1, AccountsNarrow
    <3>3. mgas' = tenure \cap AccountsOf(ExactlyOne(tenure))
      BY <3>1 DEF SetAccounts
    <3>4. ~HasDuplicates(mgas')
      BY <3>3 DEF HasDuplicates, AccountsOf, ExactlyOne
    <3> QED
      BY <3>2, <3>4
  <2> QED
    BY <2>1, <2>2
<1>3. Plain
  BY <1>1, <1>2 DEF Plain, Steps, IInv, TypeOK
<1>4. SameSide
  BY <1>1 DEF SameSide, AfterWallet, AfterNb, AfterFinance, AfterUpi, AfterReward, AfterCash
<1>5. ChosenAtEnd'
  BY <1>1, <1>2 DEF ChosenAtEnd
<1> QED
  BY <1>3, <1>4, <1>5, PlainKeeps, SortedStays DEF IInv

-----------------------------------------------------------------------------
(* The theorems.                                                           *)

LEMMA InvariantInit == Init => IInv
BY DEF Init, IInv, TypeOK, Fresh, GatewaysAreThoseOfAccounts, GatewaysOf,
       RefusedStaysRefused, FlowsAreThePayments, NoneDouble, ChosenAtEnd, Sorted, Steps

LEMMA InvariantNext == IInv /\ [Next]_vars => IInv'
<1> SUFFICES ASSUME IInv, [Next]_vars PROVE IInv'
  OBVIOUS
<1>1. CASE Load
  BY <1>1, LoadStep
<1>2. CASE FilterFunctional
  BY <1>2, FilterFunctionalStep
<1>3. CASE Ordinary
  BY <1>3, OrdinaryStep
<1>4. CASE ValidateAccounts \/ PaymentMethod
  BY <1>4, ReloadStep
<1>5. CASE ByAnyLists
  BY <1>5, ByAnyListsStep
<1>6. CASE MGASelectionIntegrity
  BY <1>6, IntegrityStep
<1>7. CASE UNCHANGED vars
  BY <1>7 DEF vars, working, IInv, TypeOK, Fresh, GatewaysAreThoseOfAccounts,
       RefusedStaysRefused, FlowsAreThePayments, NoneDouble, ChosenAtEnd, Sorted,
       LeftByWallet, Left, Wallet
<1> QED
  BY <1>1, <1>2, <1>3, <1>4, <1>5, <1>6, <1>7
     DEF Next, Ordinary, ValidationType, ByAnyLists

LEMMA InvariantHolds == Spec => []IInv
BY InvariantInit, InvariantNext, PTL DEF Spec

\* The lists, the payment and the marks of the pipeline keep their types.
THEOREM TypeInvariant == Spec => []TypeOK
<1>1. IInv => TypeOK
  BY DEF IInv
<1> QED
  BY <1>1, InvariantHolds, PTL

\* setGws and setGwsAndMgas never let the gateways and the accounts differ.
THEOREM ListsAgree == Spec => []GatewaysAreThoseOfAccounts
<1>1. IInv => GatewaysAreThoseOfAccounts
  BY DEF IInv
<1> QED
  BY <1>1, InvariantHolds, PTL

\* An account that a filter turned down comes back only where accounts are loaded
\* again.
THEOREM RefusedStays == Spec => []RefusedStaysRefused
<1>1. IInv => RefusedStaysRefused
  BY DEF IInv
<1> QED
  BY <1>1, InvariantHolds, PTL

\* The flows an account enforces are flows of the payment
\* (filterMGAsByEnforcedPaymentFlows).
THEOREM FlowsEnforced == Spec => []FlowsAreThePayments
<1>1. IInv => FlowsAreThePayments
  BY DEF IInv
<1> QED
  BY <1>1, InvariantHolds, PTL

\* The pipeline leaves one account of a gateway (validate_only_one_mga), unless the
\* accounts were loaded again after none seemed to be double.
THEOREM AccountDetermined == Spec => []OneAccountEach
<1>1. IInv => OneAccountEach
  BY DEF IInv, TypeOK, ChosenAtEnd, NoneDouble, OneAccountEach, HasDuplicates
<1> QED
  BY <1>1, InvariantHolds, PTL

\* The filters by lists together leave gateways that serve the payment's method.
THEOREM MethodServed == Spec => []MethodIsServed
<1>1. IInv => MethodIsServed
  BY DEF IInv, Sorted, MethodIsServed, Serves, LeftByWallet, Left, Wallet, AfterWallet,
         AfterNb, AfterFinance, AfterUpi, AfterReward, AfterCash
<1> QED
  BY <1>1, InvariantHolds, PTL

-----------------------------------------------------------------------------
(* The rules.  A request or an evaluation that nobody has overtaken knows   *)
(* the rows as they are; one that changes them overtakes all others, and    *)
(* stands before its write of the cache until it has done it.               *)

USE RoutingAssumption DEF Rules!RulesAssumption

\* A request that still acts on rows as they are knows them.
RequestInv(r) ==
  /\ req[r].op = "activate" /\ req[r].pc \in {"mapper", "insert", "replace", "cache"}
       => data[req[r].alg] = req[r].seen
  /\ Rules!At(r, "activate", "cache") => ~Rules!Inactive(req[r].alg)
  /\ Rules!At(r, "activate", "replace") => Rules!Active(KindOf[req[r].alg]) # {}
  /\ req[r].pc = "write" => Rules!Inactive(req[r].alg)

\* And an evaluation.
EvaluationInv(e) ==
  /\ eval[e].pc # "idle" => ~Rules!Inactive(eval[e].alg)
  /\ eval[e].pc = "fill" => data[eval[e].alg] = eval[e].data

WritersEdit ==
  \A r \in Requests : req[r].pc = "write" => req[r].op \in {"edit", "delete"}

RulesInv ==
  /\ Rules!TypeOK
  /\ WritersEdit
  /\ \A r \in Requests \ muddled : RequestInv(r)
  /\ \A e \in Evaluations \ muddled : EvaluationInv(e)
  /\ Rules!CacheReflectsActive

-----------------------------------------------------------------------------
ReqRecord == [pc : Rules!Pcs, op : Rules!Ops, alg : Algorithms, seen : Rules!Writers]
EvalRecord == [pc : {"idle", "fetch", "fill"}, alg : Algorithms, data : Rules!Writers]

\* The steps of a request.
RequestStep(r) ==
  \/ Rules!Create(r) \/ Rules!Find(r) \/ Rules!EnsureInactive(r)
  \/ Rules!Step(r) \/ Rules!Abandon(r)

\* A replaced mapping is of the kind it was, so there is still one of each.
LEMMA ReplacedIsOfKind ==
  ASSUME Rules!TypeOK, NEW a \in Algorithms,
         active' = {IF Rules!KindOfMapping(m) = KindOf[a] THEN [m EXCEPT !.alg = a] ELSE m
                      : m \in active}
  PROVE  /\ active' \subseteq Rules!Mappings /\ Rules!OneOfAKind'
         /\ Rules!Active(KindOf[a]) # {} => \E m \in active' : m.alg = a
<1> DEFINE f(m) == IF Rules!KindOfMapping(m) = KindOf[a] THEN [m EXCEPT !.alg = a] ELSE m
<1>1. ASSUME NEW m \in active
      PROVE  /\ f(m) \in Rules!Mappings /\ KindOf[f(m).alg] = KindOf[m.alg]
             /\ KindOf[m.alg] = KindOf[a] => f(m).alg = a
  BY <1>1 DEF Rules!TypeOK, Rules!Mappings, Rules!KindOfMapping
<1>2. active' = {f(m) : m \in active}
  OBVIOUS
<1> HIDE DEF f
<1>3. active' \subseteq Rules!Mappings
  BY <1>1, <1>2
<1>4. Rules!OneOfAKind'
  <2> SUFFICES ASSUME NEW m \in active, NEW n \in active, KindOf[f(m).alg] = KindOf[f(n).alg]
               PROVE  f(m) = f(n)
    BY <1>2 DEF Rules!OneOfAKind, Rules!KindOfMapping
  <2>1. m = n
    BY <1>1 DEF Rules!TypeOK, Rules!OneOfAKind, Rules!KindOfMapping
  <2> QED BY <2>1
<1>5. Rules!Active(KindOf[a]) # {} => \E m \in active' : m.alg = a
  BY <1>1, <1>2 DEF Rules!Active, Rules!KindOfMapping
<1> QED BY <1>3, <1>4, <1>5

LEMMA RequestTypes ==
  ASSUME Rules!TypeOK, NEW r \in Requests, RequestStep(r)
  PROVE  Rules!TypeOK'
<1>1. /\ req \in [Requests -> ReqRecord] /\ r \in Rules!Writers
      /\ req[r] \in ReqRecord /\ Rules!Idle.op \in Rules!Ops /\ Earlier \in Rules!Writers
      /\ Rules!InFlight \subseteq Requests \cup Evaluations
  BY DEF Rules!TypeOK, Rules!Writers, Rules!Idle, Rules!Ops, Rules!InFlight, ReqRecord
<1>2. muddled' \subseteq Requests \cup Evaluations
  BY <1>1 DEF Rules!TypeOK, RequestStep, Rules!Step, Rules!Create, Rules!Find,
     Rules!EnsureInactive, Rules!Abandon, Rules!FindMapping, Rules!InsertMapping,
     Rules!ReplaceMapping, Rules!CacheAlgorithm, Rules!FindActive,
     Rules!RemoveMapping, Rules!WriteAlgorithm, Rules!Invalidate, Rules!Change,
     Rules!NoChange
<1>3. eval' = eval
  BY DEF RequestStep, Rules!Step, Rules!Create, Rules!Find, Rules!EnsureInactive,
     Rules!Abandon, Rules!FindMapping, Rules!InsertMapping, Rules!ReplaceMapping,
     Rules!CacheAlgorithm, Rules!FindActive, Rules!RemoveMapping,
     Rules!WriteAlgorithm, Rules!Invalidate
<1>4. doubtful' \in BOOLEAN
  <2>1. doubtful' \in {doubtful, (doubtful \/ req[r].pc \in {"cache", "invalidate"}),
                       (r \in muddled), TRUE, FALSE}
    BY DEF RequestStep, Rules!Step, Rules!Create, Rules!Find, Rules!EnsureInactive,
       Rules!Abandon, Rules!FindMapping, Rules!InsertMapping, Rules!ReplaceMapping,
       Rules!CacheAlgorithm, Rules!FindActive, Rules!RemoveMapping,
       Rules!WriteAlgorithm, Rules!Invalidate, Rules!NoCacheChange
  <2>2. /\ (doubtful \/ req[r].pc \in {"cache", "invalidate"}) \in BOOLEAN
        /\ (r \in muddled) \in BOOLEAN /\ doubtful \in BOOLEAN
    BY DEF Rules!TypeOK
  <2> QED BY <2>1, <2>2
<1>5. cache' = {} \/ \E c \in Rules!Entries : cache' = {c}
  <2>1. CASE Rules!CacheAlgorithm(r)
    BY <1>1, <2>1 DEF Rules!TypeOK, Rules!CacheAlgorithm, Rules!Entries, ReqRecord
  <2>2. CASE cache' \in {cache, {}}
    BY <2>2 DEF Rules!TypeOK
  <2> QED
    BY <2>1, <2>2 DEF RequestStep, Rules!Step, Rules!Create, Rules!Find,
       Rules!EnsureInactive, Rules!Abandon, Rules!FindMapping, Rules!InsertMapping,
       Rules!ReplaceMapping, Rules!FindActive, Rules!RemoveMapping,
       Rules!WriteAlgorithm, Rules!Invalidate, Rules!NoCacheChange
<1>6. data' \in [Algorithms -> Rules!Writers \cup {Absent}]
  <2>1. data' = data \/ \E a \in Algorithms, v \in Rules!Writers \cup {Absent} :
                         data' = [data EXCEPT ![a] = v]
    BY <1>1 DEF ReqRecord, RequestStep, Rules!Step, Rules!Create, Rules!Find,
       Rules!EnsureInactive, Rules!Abandon, Rules!FindMapping, Rules!InsertMapping,
       Rules!ReplaceMapping, Rules!CacheAlgorithm, Rules!FindActive,
       Rules!RemoveMapping, Rules!WriteAlgorithm, Rules!Invalidate, Rules!NoChange
  <2> QED BY <2>1 DEF Rules!TypeOK
<1>7. active' \subseteq Rules!Mappings /\ Rules!OneOfAKind'
  <2>1. CASE Rules!InsertMapping(r)
    BY <1>1, <2>1 DEF Rules!TypeOK, Rules!InsertMapping, Rules!Mappings,
       Rules!OneOfAKind, Rules!KindOfMapping, Rules!Active, ReqRecord
  <2>2. CASE Rules!ReplaceMapping(r)
    BY <1>1, <2>2, ReplacedIsOfKind DEF Rules!ReplaceMapping, ReqRecord
  <2>3. CASE active' \subseteq active
    BY <2>3 DEF Rules!TypeOK, Rules!OneOfAKind, Rules!KindOfMapping
  <2> QED
    BY <2>1, <2>2, <2>3 DEF RequestStep, Rules!Step, Rules!Create, Rules!Find,
       Rules!EnsureInactive, Rules!Abandon, Rules!FindMapping, Rules!CacheAlgorithm,
       Rules!FindActive, Rules!RemoveMapping, Rules!WriteAlgorithm, Rules!Invalidate,
       Rules!NoChange, Rules!Found
<1>8. req' \in [Requests -> ReqRecord]
  <2>1. CASE \E p \in Rules!Pcs : Rules!Goto(r, p)
    BY <1>1, <2>1 DEF Rules!Goto, ReqRecord
  <2>2. CASE Rules!Create(r)
    <3>1. PICK a \in Algorithms : req' = [req EXCEPT ![r].pc = "done", ![r].alg = a]
      BY <2>2 DEF Rules!Create
    <3> QED BY <1>1, <3>1 DEF ReqRecord, Rules!Pcs
  <2>3. CASE Rules!Find(r)
    BY <1>1, <2>3 DEF Rules!Find, ReqRecord, Rules!Pcs, Rules!Ops, Rules!TypeOK
  <2>4. CASE Rules!EnsureInactive(r)
    BY <1>1, <2>4 DEF Rules!EnsureInactive, ReqRecord, Rules!Pcs, Rules!Ops
  <2>5. CASE Rules!FindActive(r)
    BY <1>1, <2>5 DEF Rules!FindActive, ReqRecord, Rules!Pcs, Rules!Goto,
       Rules!TypeOK, Rules!Mappings
  <2> QED
    BY <2>1, <2>2, <2>3, <2>4, <2>5 DEF RequestStep, Rules!Step, Rules!Abandon,
       Rules!FindMapping, Rules!InsertMapping, Rules!ReplaceMapping,
       Rules!CacheAlgorithm, Rules!RemoveMapping, Rules!WriteAlgorithm,
       Rules!Invalidate, Rules!Pcs
<1> QED BY <1>2, <1>3, <1>4, <1>5, <1>6, <1>7, <1>8 DEF Rules!TypeOK, ReqRecord

LEMMA EvaluationTypes ==
  ASSUME Rules!TypeOK, NEW e \in Evaluations, Rules!Evaluate(e)
  PROVE  Rules!TypeOK'
<1>1. /\ eval \in [Evaluations -> EvalRecord] /\ eval[e] \in EvalRecord
      /\ Earlier \in Rules!Writers
  BY DEF Rules!TypeOK, EvalRecord, Rules!Writers
<1>2. CASE Rules!Miss(e)
  BY <1>1, <1>2 DEF Rules!TypeOK, Rules!Miss, Rules!NoCacheChange, Rules!tables,
     Rules!OneOfAKind, EvalRecord, Rules!Mappings
<1>3. Rules!Waiting \in EvalRecord
  BY <1>1 DEF Rules!Waiting, EvalRecord
<1>4. CASE Rules!Fetch(e)
  BY <1>1, <1>3, <1>4 DEF Rules!TypeOK, Rules!Fetch, Rules!Wait, Rules!NoChange,
     Rules!NoCacheChange, Rules!OneOfAKind, EvalRecord
<1>5. CASE Rules!Fill(e)
  <2>1. cache' = {} \/ \E c \in Rules!Entries : cache' = {c}
    BY <1>1, <1>5 DEF Rules!TypeOK, Rules!Fill, Rules!NoCacheChange, Rules!Entries,
       EvalRecord
  <2>2. doubtful' \in BOOLEAN
    <3>1. doubtful' \in {doubtful, (e \in muddled)} /\ (e \in muddled) \in BOOLEAN
      BY <1>5 DEF Rules!Fill, Rules!NoCacheChange
    <3> QED BY <3>1 DEF Rules!TypeOK
  <2> QED
    BY <1>1, <1>3, <1>5, <2>1, <2>2 DEF Rules!TypeOK, Rules!Fill, Rules!Wait,
       Rules!NoChange, Rules!NoCacheChange, Rules!OneOfAKind, EvalRecord
<1> QED BY <1>2, <1>4, <1>5 DEF Rules!Evaluate
-----------------------------------------------------------------------------
(* Steps of a request.                                                      *)

\* What a step of a request leaves of the others.
LEMMA OthersStay ==
  ASSUME Rules!TypeOK, NEW r \in Requests, RequestStep(r), NEW s \in Requests \ {r}
  PROVE  req'[s] = req[s]
BY DEF Rules!TypeOK, RequestStep, Rules!Step, Rules!Create, Rules!Find,
   Rules!EnsureInactive, Rules!Abandon, Rules!FindMapping, Rules!InsertMapping,
   Rules!ReplaceMapping, Rules!CacheAlgorithm, Rules!FindActive, Rules!RemoveMapping,
   Rules!WriteAlgorithm, Rules!Invalidate, Rules!Goto

\* A request that changes a table leaves those under way muddled.
LEMMA ChangesAreMarked ==
  ASSUME Rules!TypeOK, NEW r \in Requests, RequestStep(r)
  PROVE  /\ muddled \subseteq muddled'
         /\ data' # data \/ active' # active => Rules!InFlight \ {r} \subseteq muddled'
         /\ muddled' \subseteq muddled \cup (Rules!InFlight \ {r})
BY DEF Rules!TypeOK, RequestStep, Rules!Step, Rules!Create, Rules!Find,
   Rules!EnsureInactive, Rules!Abandon, Rules!FindMapping, Rules!InsertMapping,
   Rules!ReplaceMapping, Rules!CacheAlgorithm, Rules!FindActive, Rules!RemoveMapping,
   Rules!WriteAlgorithm, Rules!Invalidate, Rules!Goto, Rules!Change, Rules!NoChange

LEMMA OtherRequests ==
  ASSUME RulesInv, Rules!TypeOK', NEW r \in Requests, RequestStep(r),
         NEW s \in Requests \ {r}, s \notin muddled'
  PROVE  RequestInv(s)'
<1>1. req'[s] = req[s] /\ s \notin muddled
  BY OthersStay, ChangesAreMarked DEF RulesInv
<1>2. CASE req[s].pc \in {"idle", "done"}
  BY <1>1, <1>2 DEF RequestInv, Rules!At
<1>3. CASE s \in Rules!InFlight
  <2>1. data' = data /\ active' = active
    BY <1>3, ChangesAreMarked DEF RulesInv
  <2> QED
    BY <1>1, <2>1 DEF RulesInv, RequestInv, Rules!At, Rules!Inactive, Rules!Active,
       Rules!KindOfMapping
<1> QED BY <1>2, <1>3 DEF Rules!InFlight

LEMMA EvaluationsStay ==
  ASSUME RulesInv, NEW r \in Requests, RequestStep(r), NEW e \in Evaluations \ muddled'
  PROVE  EvaluationInv(e)'
<1>1. eval' = eval /\ e \notin muddled /\ e # r
  BY ChangesAreMarked DEF RulesInv, RequestStep, Rules!Step, Rules!Create,
     Rules!Find, Rules!EnsureInactive, Rules!Abandon, Rules!FindMapping,
     Rules!InsertMapping, Rules!ReplaceMapping, Rules!CacheAlgorithm,
     Rules!FindActive, Rules!RemoveMapping, Rules!WriteAlgorithm, Rules!Invalidate
<1>2. CASE eval[e].pc = "idle"
  BY <1>1, <1>2 DEF EvaluationInv
<1>3. CASE e \in Rules!InFlight
  <2>1. data' = data /\ active' = active
    BY <1>1, <1>3, ChangesAreMarked DEF RulesInv
  <2> QED BY <1>1, <2>1 DEF RulesInv, EvaluationInv, Rules!Inactive
<1> QED BY <1>2, <1>3 DEF Rules!InFlight

LEMMA OwnInv ==
  ASSUME RulesInv, NEW r \in Requests, RequestStep(r), r \notin muddled'
  PROVE  RequestInv(r)'
<1>1. /\ req \in [Requests -> ReqRecord] /\ Rules!TypeOK /\ r \notin muddled /\ RequestInv(r)
      /\ req[r] \in ReqRecord
  BY ChangesAreMarked DEF RulesInv, Rules!TypeOK, ReqRecord
<1>2. CASE \E p \in {"done", "invalidate"} : Rules!Goto(r, p)
  BY <1>1, <1>2 DEF Rules!Goto, RequestInv, Rules!At
<1>3. CASE Rules!Create(r)
  BY <1>1, <1>3 DEF Rules!Create, RequestInv, Rules!At
<1>4. CASE Rules!Find(r)
  BY <1>1, <1>4 DEF Rules!Find, Rules!NoChange, RequestInv, Rules!At
<1>5. CASE Rules!EnsureInactive(r)
  BY <1>1, <1>5 DEF Rules!EnsureInactive, Rules!NoChange, RequestInv, Rules!At,
     Rules!Inactive
<1>6. CASE Rules!FindMapping(r)
  <2>1. PICK p \in {"insert", "cache", "replace"} :
          /\ Rules!Goto(r, p)
          /\ p = "cache" => ~Rules!Inactive(req[r].alg)
          /\ p = "replace" => Rules!Active(KindOf[req[r].alg]) # {}
    BY <1>6 DEF Rules!FindMapping, Rules!Inactive, Rules!Active
  <2>2. /\ req'[r] = [req[r] EXCEPT !.pc = p] /\ req[r].op = "activate"
        /\ data' = data /\ active' = active /\ data[req[r].alg] = req[r].seen
    BY <1>1, <1>6, <2>1 DEF Rules!FindMapping, Rules!Goto, Rules!NoChange,
       RequestInv, Rules!At
  <2> QED
    BY <1>1, <2>1, <2>2 DEF RequestInv, Rules!At, Rules!Inactive, Rules!Active,
       Rules!KindOfMapping, ReqRecord
<1>7. CASE Rules!InsertMapping(r) /\ ~Rules!Goto(r, "done")
  <2>1. /\ req'[r] = [req[r] EXCEPT !.pc = "cache"] /\ data' = data
        /\ req[r].op = "activate" /\ data[req[r].alg] = req[r].seen
        /\ active' = active \cup {[by |-> r, alg |-> req[r].alg]}
    BY <1>1, <1>7 DEF Rules!InsertMapping, Rules!Goto, RequestInv, Rules!At
  <2>2. [by |-> r, alg |-> req[r].alg] \in active'
    BY <2>1
  <2>3. \E m \in active' : m.alg = req[r].alg
    BY <2>2
  <2> QED BY <1>1, <2>1, <2>3 DEF RequestInv, Rules!At, Rules!Inactive, ReqRecord
<1>8. CASE Rules!ReplaceMapping(r)
  <2>1. /\ req'[r] = [req[r] EXCEPT !.pc = "cache"] /\ data' = data
        /\ req[r].op = "activate" /\ req[r].pc = "replace"
    BY <1>1, <1>8 DEF Rules!ReplaceMapping, Rules!Goto, Rules!At
  <2>2. \E m \in active' : m.alg = req[r].alg
    BY <1>1, <2>1, <1>8, ReplacedIsOfKind DEF Rules!ReplaceMapping, RequestInv,
       Rules!At, ReqRecord
  <2> QED BY <1>1, <2>1, <2>2 DEF RequestInv, Rules!At, Rules!Inactive
<1>9. CASE Rules!FindActive(r)
  <2>1. req'[r].op = "deactivate" /\ req'[r].pc \in {"remove", "done"}
    BY <1>1, <1>9 DEF Rules!FindActive, Rules!Goto, Rules!At, ReqRecord
  <2> QED BY <2>1 DEF RequestInv, Rules!At
<1> QED
  BY <1>2, <1>3, <1>4, <1>5, <1>6, <1>7, <1>8, <1>9 DEF RequestStep, Rules!Step,
     Rules!CacheAlgorithm, Rules!RemoveMapping, Rules!WriteAlgorithm,
     Rules!Invalidate, Rules!Abandon

LEMMA RequestsEdit ==
  ASSUME RulesInv, NEW r \in Requests, RequestStep(r)
  PROVE  WritersEdit'
<1>1. ASSUME NEW s \in Requests \ {r}, req'[s].pc = "write"
      PROVE  req'[s].op \in {"edit", "delete"}
  BY <1>1, OthersStay DEF RulesInv, WritersEdit
<1>2. req'[r].pc = "write" => req'[r].op \in {"edit", "delete"}
  <2>1. req \in [Requests -> ReqRecord] /\ req[r] \in ReqRecord
    BY DEF RulesInv, Rules!TypeOK, ReqRecord
  <2>2. CASE \E p \in Rules!Pcs \ {"write"} : Rules!Goto(r, p)
    BY <2>1, <2>2 DEF Rules!Goto, ReqRecord
  <2>3. CASE Rules!Create(r)
    BY <2>1, <2>3 DEF Rules!Create, ReqRecord
  <2>4. CASE Rules!Find(r) \/ Rules!EnsureInactive(r)
    BY <2>1, <2>4 DEF Rules!Find, Rules!EnsureInactive
  <2>5. CASE Rules!FindActive(r)
    BY <2>1, <2>2, <2>5 DEF Rules!FindActive, ReqRecord, Rules!Pcs
  <2> QED
    BY <2>2, <2>3, <2>4, <2>5 DEF RequestStep, Rules!Step, Rules!Abandon,
       Rules!FindMapping, Rules!InsertMapping, Rules!ReplaceMapping,
       Rules!CacheAlgorithm, Rules!RemoveMapping, Rules!WriteAlgorithm,
       Rules!Invalidate, Rules!Pcs
<1> QED BY <1>1, <1>2 DEF WritersEdit

\* Between a change of the tables and the write of the cache its writer stands at that
\* write.
LEMMA RequestsReflect ==
  ASSUME RulesInv, Rules!TypeOK', NEW r \in Requests, RequestStep(r)
  PROVE  Rules!CacheReflectsActive'
<1>1. /\ req \in [Requests -> ReqRecord] /\ Rules!TypeOK /\ Rules!CacheReflectsActive
      /\ req[r] \in ReqRecord
  BY DEF RulesInv, Rules!TypeOK, ReqRecord
<1>2. CASE \E p \in {"cache", "invalidate"} : Rules!Goto(r, p)
  BY <1>1, <1>2 DEF Rules!Goto, Rules!CacheReflectsActive
<1>3. CASE Rules!CacheAlgorithm(r)
  <2>1. CASE r \in muddled \/ doubtful'
    BY <1>3, <2>1 DEF Rules!CacheAlgorithm, Rules!CacheReflectsActive
  <2>2. CASE r \notin muddled /\ ~doubtful'
    <3>1. RequestInv(r) /\ ~Rules!Inactive(req[r].alg) /\ data[req[r].alg] = req[r].seen
      BY <2>2, <1>3 DEF RulesInv, RequestInv, Rules!At, Rules!CacheAlgorithm
    <3>2. cache' = {[alg |-> req[r].alg, data |-> req[r].seen]} /\ data' = data
          /\ active' = active
      BY <2>2, <1>3 DEF Rules!CacheAlgorithm, Rules!NoChange
    <3> QED BY <3>1, <3>2 DEF Rules!CacheReflectsActive, Rules!Agrees, Rules!Inactive
  <2> QED BY <2>1, <2>2
<1>4. CASE Rules!Invalidate(r)
  BY <1>4 DEF Rules!Invalidate, Rules!CacheReflectsActive, Rules!Agrees
<1>5. CASE Rules!Abandon(r)
  <2>1. \A s \in Requests \ {r} : req'[s] = req[s]
    BY <1>1, OthersStay
  <2>2. cache' = cache /\ data' = data /\ active' = active
        /\ doubtful' = (doubtful \/ req[r].pc \in {"cache", "invalidate"})
    BY <1>5 DEF Rules!Abandon, Rules!NoChange
  <2>3. CASE req[r].pc \in {"cache", "invalidate"}
    BY <2>2, <2>3 DEF Rules!CacheReflectsActive
  <2>4. CASE req[r].pc \notin {"cache", "invalidate"}
    <3>1. \A s \in Requests : req[s].pc \in {"cache", "invalidate"} => req'[s] = req[s]
      BY <2>1, <2>4
    <3>2. Rules!Agrees' = Rules!Agrees
      BY <2>2 DEF Rules!Agrees, Rules!Inactive
    <3> QED BY <1>1, <2>2, <3>1, <3>2 DEF Rules!CacheReflectsActive
  <2> QED BY <2>3, <2>4
<1>6. CASE /\ cache' = cache /\ doubtful' = doubtful /\ active' = active
           /\ \A a \in Algorithms : data[a] # Absent => data'[a] = data[a]
           /\ req[r].pc \notin {"cache", "invalidate"}
  <2>1. \A s \in Requests : req[s].pc \in {"cache", "invalidate"} => req'[s] = req[s]
    BY <1>1, <1>6, OthersStay
  <2>2. Rules!Agrees => Rules!Agrees'
    <3>1. \A c \in cache : c.alg \in Algorithms /\ c.data # Absent
      BY <1>1 DEF Rules!TypeOK, Rules!Entries, Rules!Writers
    <3> QED BY <1>6, <3>1 DEF Rules!Agrees, Rules!Inactive
  <2> QED BY <1>1, <1>6, <2>1, <2>2 DEF Rules!CacheReflectsActive
<1>7. CASE Rules!Create(r)
  <2>1. \A a \in Algorithms : data[a] # Absent => data'[a] = data[a]
    BY <1>1, <1>7 DEF Rules!Create, Rules!TypeOK
  <2> QED BY <1>6, <1>7, <2>1 DEF Rules!Create, Rules!NoCacheChange
<1>8. CASE Rules!Find(r) \/ Rules!EnsureInactive(r) \/ Rules!FindMapping(r) \/ Rules!FindActive(r)
  BY <1>6, <1>8 DEF Rules!Find, Rules!EnsureInactive, Rules!FindMapping,
     Rules!FindActive, Rules!NoChange, Rules!NoCacheChange, Rules!At
<1>9. CASE \/ Rules!InsertMapping(r) \/ Rules!ReplaceMapping(r)
          \/ Rules!RemoveMapping(r) \/ Rules!WriteAlgorithm(r)
  BY <1>2, <1>6, <1>9 DEF Rules!InsertMapping, Rules!ReplaceMapping,
     Rules!RemoveMapping, Rules!WriteAlgorithm, Rules!NoCacheChange, Rules!At
<1> QED BY <1>3, <1>4, <1>5, <1>7, <1>8, <1>9 DEF RequestStep, Rules!Step

-----------------------------------------------------------------------------
(* Steps of an evaluation.                                                  *)

LEMMA EvaluationStep ==
  ASSUME RulesInv, NEW e \in Evaluations, Rules!Evaluate(e)
  PROVE  RulesInv'
<1>1. Rules!TypeOK /\ Rules!TypeOK'
  BY EvaluationTypes DEF RulesInv
<1>2. /\ UNCHANGED <<data, active, req>> /\ muddled \subseteq muddled' \cup {e}
      /\ muddled' \subseteq muddled
  BY DEF Rules!Evaluate, Rules!Miss, Rules!Fetch, Rules!Fill, Rules!NoChange,
     Rules!tables
<1>3. WritersEdit'
  BY <1>2 DEF RulesInv, WritersEdit
<1>4. ASSUME NEW s \in Requests \ muddled' PROVE RequestInv(s)'
  <2>1. s \notin muddled
    BY <1>2
  <2> QED
    BY <1>2, <2>1 DEF RulesInv, RequestInv, Rules!At, Rules!Inactive, Rules!Active,
       Rules!KindOfMapping
<1>5. ASSUME NEW f \in Evaluations \ muddled' PROVE EvaluationInv(f)'
  <2>1. CASE f # e
    <3>1. f \notin muddled /\ eval'[f] = eval[f]
      BY <1>1, <1>2, <2>1 DEF Rules!TypeOK, Rules!Evaluate, Rules!Miss, Rules!Fetch,
         Rules!Fill, Rules!Wait
    <3> QED BY <1>2, <3>1 DEF RulesInv, EvaluationInv, Rules!Inactive
  <2>2. CASE f = e
    <3>1. CASE Rules!Miss(e)
      BY <1>1, <2>2, <3>1 DEF Rules!Miss, EvaluationInv, Rules!Inactive,
         Rules!TypeOK, Rules!tables
    <3>2. CASE Rules!Fetch(e)
      <4>1. EvaluationInv(e) /\ UNCHANGED <<data, active>>
        BY <1>2, <2>2, <1>5, <3>2 DEF RulesInv, Rules!Fetch, Rules!NoChange
      <4> QED
        BY <1>1, <2>2, <3>2, <4>1 DEF Rules!Fetch, Rules!Wait, Rules!Waiting,
           EvaluationInv, Rules!Inactive, Rules!TypeOK
    <3>3. CASE Rules!Fill(e)
      BY <1>1, <2>2, <3>3 DEF Rules!Fill, Rules!Wait, Rules!Waiting, EvaluationInv,
         Rules!TypeOK
    <3> QED BY <3>1, <3>2, <3>3 DEF Rules!Evaluate
  <2> QED BY <2>1, <2>2
<1>6. Rules!CacheReflectsActive'
  <2>1. CASE cache' = cache /\ doubtful' = doubtful
    <3>1. Rules!Agrees' = Rules!Agrees
      BY <1>2, <2>1 DEF Rules!Agrees, Rules!Inactive
    <3> QED BY <1>2, <2>1, <3>1 DEF RulesInv, Rules!CacheReflectsActive
  <2>2. CASE /\ Rules!Fill(e) /\ cache' = {[alg |-> eval[e].alg, data |-> eval[e].data]}
             /\ doubtful' = (e \in muddled)
    <3>1. CASE e \in muddled
      BY <2>2, <3>1 DEF Rules!CacheReflectsActive
    <3>2. CASE e \notin muddled
      <4>1. ~Rules!Inactive(eval[e].alg) /\ data[eval[e].alg] = eval[e].data
        BY <2>2, <3>2 DEF RulesInv, EvaluationInv, Rules!Fill
      <4> QED
        BY <1>2, <2>2, <4>1 DEF Rules!CacheReflectsActive, Rules!Agrees,
           Rules!Inactive
    <3> QED BY <3>1, <3>2
  <2> QED
    BY <2>1, <2>2 DEF Rules!Evaluate, Rules!Miss, Rules!Fetch, Rules!Fill,
       Rules!NoCacheChange
<1> QED BY <1>1, <1>3, <1>4, <1>5, <1>6 DEF RulesInv

-----------------------------------------------------------------------------
LEMMA ExpireStep ==
  ASSUME RulesInv, Rules!CacheExpire
  PROVE  RulesInv'
<1>1. Rules!TypeOK'
  BY DEF RulesInv, Rules!TypeOK, Rules!CacheExpire, Rules!NoChange, Rules!OneOfAKind
<1>2. Rules!CacheReflectsActive'
  BY DEF Rules!CacheExpire, Rules!CacheReflectsActive, Rules!Agrees
<1> QED
  BY <1>1, <1>2 DEF RulesInv, Rules!CacheExpire, Rules!NoChange, WritersEdit,
     RequestInv, EvaluationInv, Rules!At, Rules!Inactive, Rules!Active,
     Rules!KindOfMapping

LEMMA RulesInit == Rules!Init => RulesInv
<1> SUFFICES ASSUME Rules!Init PROVE RulesInv
  OBVIOUS
<1>1. /\ \A m \in active : m.by = Earlier /\ m.alg \in Algorithms /\ m \in Rules!Mappings
      /\ Rules!OneOfAKind /\ Earlier \in Rules!Writers
  BY DEF Rules!Init, Rules!Mappings, Rules!Writers
<1>2. /\ Rules!Idle = [pc |-> "idle", op |-> "edit", alg |-> Rules!Idle.alg, seen |-> Earlier]
      /\ Rules!Waiting = [pc |-> "idle", alg |-> Rules!Waiting.alg, data |-> Earlier]
      /\ Rules!Idle.alg \in Algorithms /\ Rules!Waiting.alg \in Algorithms
  BY DEF Rules!Idle, Rules!Waiting
<1>3. /\ req \in [Requests -> ReqRecord] /\ eval \in [Evaluations -> EvalRecord]
      /\ \A r \in Requests : req[r].pc = "idle"
      /\ \A e \in Evaluations : eval[e].pc = "idle"
  BY <1>1, <1>2 DEF Rules!Init, ReqRecord, EvalRecord, Rules!Pcs, Rules!Ops
<1>4. Rules!TypeOK
  BY <1>1, <1>3 DEF Rules!Init, Rules!TypeOK, ReqRecord, EvalRecord, Rules!Writers
<1> QED
  BY <1>3, <1>4 DEF Rules!Init, RulesInv, WritersEdit, RequestInv, EvaluationInv,
     Rules!At, Rules!CacheReflectsActive, Rules!Agrees

LEMMA RulesNext == RulesInv /\ [Rules!Next]_(Rules!vars) => RulesInv'
<1> SUFFICES ASSUME RulesInv, [Rules!Next]_(Rules!vars) PROVE RulesInv'
  OBVIOUS
<1>1. ASSUME NEW r \in Requests, RequestStep(r) PROVE RulesInv'
  <2>1. Rules!TypeOK'
    BY <1>1, RequestTypes DEF RulesInv
  <2>2. ASSUME NEW s \in Requests \ muddled' PROVE RequestInv(s)'
    BY <1>1, <2>1, OtherRequests, OwnInv
  <2> QED
    BY <1>1, <2>1, <2>2, EvaluationsStay, RequestsEdit, RequestsReflect DEF RulesInv
<1>2. CASE UNCHANGED Rules!vars
  BY <1>2 DEF RulesInv, Rules!vars, Rules!TypeOK, Rules!OneOfAKind,
     Rules!KindOfMapping, WritersEdit, RequestInv, EvaluationInv, Rules!At,
     Rules!Inactive, Rules!Active, Rules!CacheReflectsActive, Rules!Agrees
<1> QED
  BY <1>1, <1>2, EvaluationStep, ExpireStep DEF Rules!Next, RequestStep

LEMMA RulesHold == Rules!Spec => []RulesInv
BY RulesInit, RulesNext, PTL DEF Rules!Spec

-----------------------------------------------------------------------------
\* What evaluations take from the cache is what is active, while nobody is between the
\* tables and the cache, unless the entry was written by one that had read the rows
\* before they changed or Redis did not replace it (activate_routing_rule,
\* deactivate_routing_rule).
THEOREM CacheReflects == Rules!Spec => []CacheReflectsActive
<1>1. RulesInv => CacheReflectsActive
  BY DEF RulesInv, CacheReflectsActive
<1> QED BY <1>1, RulesHold, PTL

\* A row of an active algorithm changes only at the hands of a request that found it
\* inactive before it became active (ensure_routing_algorithm_inactive).
THEOREM RunningLeftAlone == Rules!Spec => RunningIsLeftAlone
<1> DEFINE Untouched == \A a \in Algorithms :
       data[a] # Absent /\ data'[a] # data[a] /\ ~Rules!Inactive(a)
         => \E r \in muddled \cap Requests :
              /\ Rules!At(r, "edit", "write") \/ Rules!At(r, "delete", "write")
              /\ req[r].alg = a /\ req'[r].pc = "invalidate"
<1>1. RulesInv /\ [Rules!Next]_(Rules!vars) => [Untouched]_(Rules!vars)
  <2> SUFFICES ASSUME RulesInv, Rules!Next, NEW a \in Algorithms,
                      data[a] # Absent, data'[a] # data[a], ~Rules!Inactive(a)
               PROVE  \E r \in muddled \cap Requests :
                        /\ Rules!At(r, "edit", "write") \/ Rules!At(r, "delete", "write")
                        /\ req[r].alg = a /\ req'[r].pc = "invalidate"
    OBVIOUS
  <2>1. PICK r \in Requests : RequestStep(r)
    BY DEF Rules!Next, RequestStep, Rules!Evaluate, Rules!Miss, Rules!Fetch,
       Rules!Fill, Rules!CacheExpire, Rules!NoChange, Rules!tables
  <2>2. Rules!WriteAlgorithm(r)
    BY <2>1 DEF RulesInv, Rules!TypeOK, RequestStep, Rules!Step, Rules!Create,
       Rules!Find, Rules!EnsureInactive, Rules!Abandon, Rules!FindMapping,
       Rules!InsertMapping, Rules!ReplaceMapping, Rules!CacheAlgorithm,
       Rules!FindActive, Rules!RemoveMapping, Rules!Invalidate, Rules!NoChange
  <2>3. /\ req[r].alg = a /\ req[r].pc = "write" /\ req'[r].pc = "invalidate"
    BY <2>2 DEF Rules!WriteAlgorithm, Rules!Goto, RulesInv, Rules!TypeOK
  <2>4. r \in muddled
    BY <2>3 DEF RulesInv, RequestInv
  <2> QED BY <2>3, <2>4 DEF RulesInv, WritersEdit, Rules!At
<1> QED
  BY <1>1, RulesHold, PTL DEF RunningIsLeftAlone, Rules!RunningIsLeftAlone,
     Rules!Spec
=============================================================================
