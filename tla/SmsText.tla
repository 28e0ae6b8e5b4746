------------------------------ MODULE SmsText ------------------------------
(***************************************************************************)
(* What is read from the text of a bank message, by SmsParserService of    *)
(* the AI service and by the regular expressions that SmsService falls     *)
(* back to.  A message is the set of keywords it contains and the forms in *)
(* which its figures appear; keywords that every list treats alike are     *)
(* represented by one of them.  Confidences are in tenths.                 *)
(***************************************************************************)
EXTENDS Integers, FiniteSetsExt, SequencesExt

CONSTANTS
    Word,        \* the keywords that messages of the instance may contain
    Rupees,      \* and their amounts
    Unread       \* nothing was read

ASSUME Unread \notin Rupees /\ Rupees \subseteq Nat

\* amount: after a currency sign, after "debited" or "credited", before
\* "only", or not at all; account: after "ending" or "card", masked, or absent.
Message == [words : SUBSET Word, amount : {"currency", "verb", "only", "none"},
            value : Rupees, merchant : BOOLEAN, balance : BOOLEAN,
            account : {"ending", "masked", "none"}]

\* The lists of the AI service and of the shared constants.
AiCreditWords == {"credited", "received", "inflow", "refund", "cashback", "reward", "added"}
AiDebitWords  == {"debited", "paid", "purchase", "spent", "outflow", "charged"}
CreditWords   == {"credited", "received", "deposit", "transfer to", "inward transfer",
                  "refund", "cashback", "interest"}
DebitWords    == {"debited", "paid", "payment", "purchase", "withdrawal", "transfer from",
                  "outward transfer", "spent"}

AiCategoryWords ==
    << <<"FOOD_DINING", {"pizza", "cafe", "swiggy", "food"}>>,
       <<"SHOPPING", {"amazon", "store"}>>,
       <<"TRANSPORT", {"uber", "fuel"}>>,
       <<"ENTERTAINMENT", {"netflix", "movie"}>>,
       <<"BILLS_UTILITIES", {"electricity", "jio", "bill"}>>,
       <<"HEALTHCARE", {"pharmacy", "doctor"}>>,
       <<"SUBSCRIPTION", {"subscription", "autopay", "recurring"}>>,
       <<"ATM", {"atm"}>>,
       <<"TRANSFER", {"upi", "transfer to", "transfer from"}>> >>

CategoryWords ==
    << <<"SHOPPING", {"amazon"}>>,
       <<"GROCERY", {"zepto"}>>,
       <<"FOOD_DINING", {"pizza", "cafe", "swiggy"}>>,
       <<"TRANSPORT", {"uber"}>>,
       <<"TRAVEL", {"irctc"}>>,
       <<"ENTERTAINMENT", {"netflix"}>>,
       <<"UTILITIES", {"electricity", "jio"}>>,
       <<"HEALTHCARE", {"pharmacy"}>>,
       <<"FUEL", {"fuel"}>>,
       <<"SUBSCRIPTION", {"subscription", "recurring"}>>,
       <<"ATM", {"atm", "cash withdrawal"}>>,
       <<"SUBSCRIPTION", {"autopay"}>>,
       <<"TRANSFER", {"transfer to", "transfer from", "upi"}>> >>

\* The first category of the list with a keyword in the text.
CategoryIn(list, m) ==
    LET hits == SelectSeq(list, LAMBDA entry : entry[2] \cap m.words # {})
    IN  IF hits = <<>> THEN "OTHER" ELSE hits[1][1]

\* Credit keywords are tried first: a refund of what was debited is a credit.
TypeIn(credit, debit, m) ==
    CASE credit \cap m.words # {} -> "CREDIT"
      [] credit \cap m.words = {} /\ debit \cap m.words # {} -> "DEBIT"
      [] OTHER -> Unread

AmountIn(forms, m)  == IF m.amount \in forms THEN m.value ELSE Unread
AccountIn(forms, m) == m.account \in forms

\* An amount of 0 counts as none.
Complete(p) == p.amount \notin {0, Unread} /\ p.type # Unread

Tenths(condition, n) == IF condition THEN n ELSE 0

\* zero: whether an amount of 0 adds to the confidence.
Confidence(p, zero) ==
    Min({10, Tenths(p.amount # Unread /\ (zero \/ p.amount # 0), 3)
           + Tenths(p.type # Unread, 2) + Tenths(p.merchant, 1)
           + Tenths(p.balance, 1) + Tenths(p.account, 1) + Tenths(Complete(p), 2)})

Fields(m, forms, masks, credit, debit, list) ==
    [amount |-> AmountIn(forms, m), type |-> TypeIn(credit, debit, m),
     merchant |-> m.merchant, category |-> CategoryIn(list, m),
     balance |-> m.balance, account |-> AccountIn(masks, m)]

Judged(p, zero) ==
    [field \in DOMAIN p \cup {"confidence"} |->
        IF field = "confidence" THEN Confidence(p, zero) ELSE p[field]]

\* The mutant: this parser tries the debit keywords first.
AiParseDebitFirst(m) ==
    LET swapped == Fields(m, {"currency", "verb", "only"}, {"ending", "masked"},
                          AiDebitWords, AiCreditWords, AiCategoryWords)
    IN  Judged([swapped EXCEPT !.type = CASE @ = "CREDIT" -> "DEBIT"
                                          [] @ = "DEBIT" -> "CREDIT"
                                          [] OTHER -> Unread], FALSE)

AiParse(m) ==
    Judged(Fields(m, {"currency", "verb", "only"}, {"ending", "masked"},
                  AiCreditWords, AiDebitWords, AiCategoryWords), FALSE)

LocalParse(m) ==
    Judged(Fields(m, {"currency", "verb"}, {"ending"},
                  CreditWords, DebitWords, CategoryWords), TRUE)

\* SmsService.parseSms; ai: the AI service answers, fails, or is switched off.
ParseSms(m, ai) ==
    IF ai = "up" /\ Complete(AiParse(m)) THEN AiParse(m) ELSE LocalParse(m)

\* classify_transaction and the category that categorize_batch sets.
Classify(m) == [type |-> AiParse(m).type, category |-> AiParse(m).category,
                amount |-> AiParse(m).amount,
                confidence |-> IF AiParse(m).type # Unread THEN 8 ELSE 5]
Categorize(m) == CategoryIn(AiCategoryWords, m)
=============================================================================
